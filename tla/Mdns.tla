--------------------------------- MODULE Mdns --------------------------------
(***************************************************************************)
(* The mDNS responder of module_zeroconf, mdns.c: hosts of one link that   *)
(* run it with the same name prefix, each with one host name entry.  A     *)
(* host probes for its name three times, announces it three times and is   *)
(* then active; a conflict sends it back to probing, with another number   *)
(* in its name when it was probing already.  A datagram reaches the other  *)
(* hosts before the next step of any of them.  A host's address is its     *)
(* number, a name is the number at its end.                                *)
(***************************************************************************)
EXTENDS Integers, FiniteSets

CONSTANTS MdnsHosts,    \* a set of numbers: the addresses
          MaxNames,     \* the numbers a name may end in
          MaxQueries,   \* queries by other hosts of the link
          MaxIfups      \* times the interface of a host comes up

VARIABLES entry,    \* each host's mdns_table entry
          started,  \* each host's mdns_started
          due,      \* an xtcp_init_send or a SENT_DATA is still to be answered
          probed,   \* probes and announcements of the entry's present name
          told,     \*   since the last conflict or start
          queries, ifups

mdnsVars == <<entry, started, due, probed, told, queries, ifups>>

Fresh == [state |-> "disabled", counter |-> 0, sent |-> 0, pending |-> {}]

MdnsInit == /\ entry = [h \in MdnsHosts |-> Fresh]
            /\ started = [h \in MdnsHosts |-> 0]
            /\ due = [h \in MdnsHosts |-> FALSE]
            /\ probed = [h \in MdnsHosts |-> 0] /\ told = [h \in MdnsHosts |-> 0]
            /\ queries = 0 /\ ifups = [h \in MdnsHosts |-> 0]

\* mdns_start, on IFUP; the entries are started by the next poll.
mdns_start(h) ==
    /\ ifups[h] < MaxIfups /\ ifups' = [ifups EXCEPT ![h] = @ + 1]
    /\ started' = [started EXCEPT ![h] = 1]
    /\ UNCHANGED <<entry, due, probed, told, queries>>

mdns_start_entries(h) ==
    /\ started[h] = 1
    /\ started' = [started EXCEPT ![h] = 2]
    /\ entry' = [entry EXCEPT ![h].state = "probe_wait", ![h].sent = 0]
    /\ due' = [due EXCEPT ![h] = TRUE]
    /\ probed' = [probed EXCEPT ![h] = 0] /\ told' = [told EXCEPT ![h] = 0]
    /\ UNCHANGED <<queries, ifups>>

\* mdns_periodic when the entry's timeout has passed.
NextWait == [probe_sent |-> "probe_wait", announce_sent |-> "announce_wait"]
mdns_periodic(h) ==
    /\ started[h] # 1 /\ entry[h].state \in {"probe_sent", "announce_sent"}
    /\ entry' = [entry EXCEPT ![h] =
         IF @.sent < 3 THEN [@ EXCEPT !.state = NextWait[entry[h].state]]
         ELSE IF @.state = "probe_sent" THEN [@ EXCEPT !.state = "announce_wait", !.sent = 0]
         ELSE [@ EXCEPT !.state = "active"]]
    /\ due' = [due EXCEPT ![h] = entry'[h].state # "active" \/ @]
    /\ UNCHANGED <<started, probed, told, queries, ifups>>

-----------------------------------------------------------------------------
(* What a host does with a datagram of another.  An update is the entry,   *)
(* whether xtcp_init_send was called, and whether the name's history       *)
(* begins again.                                                           *)
Update(e, send, again) == [e |-> e, send |-> send, again |-> again]

\* A slip: the count of probes is carried over to the new name.
Resumed(e) == [e EXCEPT !.state = "probe_wait"]
Reprobe(e) == [e EXCEPT !.state = "probe_wait", !.sent = 0]
Renamed(e) == [e EXCEPT !.counter = @ + 1]

\* A slip: an announced name is kept as it is.
OnlyWhileProbing(e) ==
    IF e.state \in {"probe_wait", "probe_sent"}
    THEN Update(Reprobe(Renamed(e)), TRUE, TRUE) ELSE Update(e, FALSE, FALSE)
Conflict(e) ==
    IF e.state \in {"probe_wait", "probe_sent"}
    THEN Update(Reprobe(Renamed(e)), TRUE, TRUE)
    ELSE Update(Reprobe(e), TRUE, TRUE)

\* mdns_compare_name, of a name in a message with the entry's.
SameName(e, name) == e.counter = name

\* handle_mdns_response: an answer for the host's name with another address.
handle_mdns_response(e, name) ==
    IF e.state # "disabled" /\ SameName(e, name) THEN Conflict(e) ELSE Update(e, FALSE, FALSE)

\* The questions of a probe (mdns_recv), then its authority records
\* (handle_mdns_auth): a host that probes for the name as well loses to a
\* higher address.
Asked(e, name) ==
    IF e.state = "active" /\ SameName(e, name)
    THEN Update([e EXCEPT !.pending = @ \cup {"host"}], TRUE, FALSE)
    ELSE Update(e, FALSE, FALSE)
loses_tie_break(e, me, name, from) == SameName(e, name) /\ from > me
handle_mdns_auth(e, me, name, from) ==
    IF e.state \in {"probe_wait", "probe_sent"} /\ loses_tie_break(e, me, name, from)
    THEN Update(Reprobe(Renamed(e)), e.state # "probe_wait", TRUE)
    ELSE Asked(e, name)

mdns_recv(h, from, msg) ==
    IF h = from \/ msg.type \in {"none", "pointer"} THEN Update(entry[h], FALSE, FALSE)
    ELSE IF msg.type = "probe" THEN handle_mdns_auth(entry[h], h, msg.name, from)
    ELSE handle_mdns_response(entry[h], msg.name)

-----------------------------------------------------------------------------
\* mdns_send: probes before announcements and responses; nothing to send
\* ends the sequence of SENT_DATA.
Message(h) ==
    LET e == entry[h] IN
    CASE e.state = "probe_wait" -> [type |-> "probe", name |-> e.counter]
      [] e.state # "probe_wait" /\ (e.state = "announce_wait" \/ "host" \in e.pending) ->
           [type |-> "response", name |-> e.counter]
      [] e.state \notin {"probe_wait", "announce_wait"} /\ "host" \notin e.pending
            /\ "ptr" \in e.pending -> [type |-> "pointer", name |-> e.counter]
      [] OTHER -> [type |-> "none", name |-> 0]

AfterSend(e) ==
    CASE e.state = "probe_wait" -> [e EXCEPT !.state = "probe_sent", !.sent = @ + 1]
      [] e.state = "announce_wait" ->
           [e EXCEPT !.state = "announce_sent", !.sent = @ + 1, !.pending = {}]
      [] OTHER -> [e EXCEPT !.pending = {}]

mdns_send(h) ==
    LET msg == Message(h)
        new == [g \in MdnsHosts |-> IF g = h THEN Update(AfterSend(entry[h]), FALSE, FALSE)
                                     ELSE mdns_recv(g, h, msg)]
    IN  /\ due[h]
        /\ \A g \in MdnsHosts : new[g].e.counter <= MaxNames
        /\ entry' = [g \in MdnsHosts |-> new[g].e]
        /\ due' = [g \in MdnsHosts |-> IF g = h THEN msg.type # "none"
                                       ELSE due[g] \/ new[g].send]
        /\ probed' = [g \in MdnsHosts |->
             IF g = h /\ msg.type = "probe" THEN probed[g] + 1
             ELSE IF new[g].again THEN 0 ELSE probed[g]]
        /\ told' = [g \in MdnsHosts |->
             IF g = h /\ entry[h].state = "announce_wait" THEN told[g] + 1
             ELSE IF new[g].again THEN 0 ELSE told[g]]
        /\ UNCHANGED <<started, queries, ifups>>

\* Another host of the link asks for the name or for the address.
Query(h, kind) ==
    /\ queries < MaxQueries /\ queries' = queries + 1
    /\ entry[h].state = "active"
    /\ entry' = [entry EXCEPT ![h].pending = @ \cup {kind}]
    /\ due' = [due EXCEPT ![h] = TRUE]
    /\ UNCHANGED <<started, probed, told, ifups>>

MdnsStep(h) == mdns_start_entries(h) \/ mdns_periodic(h) \/ mdns_send(h)
MdnsNext == \E h \in MdnsHosts :
    \/ mdns_start(h) \/ MdnsStep(h)
    \/ Query(h, "host") \/ Query(h, "ptr")

-----------------------------------------------------------------------------
\* Two hosts of the link are never active with the same name (mdns.c: the
\* conflicts of probes, announcements and active names, and the tie break).
NamesAreUnique ==
    \A g, h \in MdnsHosts :
        (g # h /\ entry[g].state = "active" /\ entry[h].state = "active")
            => entry[g].counter # entry[h].counter

\* An active name was probed for and announced three times since the host
\* took it, and since the last conflict about it.
ActiveIsProbed ==
    \A h \in MdnsHosts : entry[h].state = "active" => probed[h] >= 3 /\ told[h] >= 3

\* Both: a name in use is the host's own and was come by as it should.
NameIsOwn == NamesAreUnique /\ ActiveIsProbed
=============================================================================
