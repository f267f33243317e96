------------------------------ MODULE UdpConns ------------------------------
(***************************************************************************)
(* The UDP connections of the two stacks, from the clients' commands to    *)
(* the wire: the connection table of uip.c / uip6.c, the per-connection    *)
(* state of uip_xtcp.c, the main loop's passes over the table, and the     *)
(* flags by which uip_arp.c tells a UDP connection that its datagram was   *)
(* replaced by an ARP request (pending) or went out (sent).                *)
(*                                                                         *)
(* The server raises an event in two steps.  It first waits for the link   *)
(* to be ready and serves the commands of every client meanwhile, then it  *)
(* sends the event: what it read before the wait may be stale after it.    *)
(* ipv is the stack that is built: "4" (xtcp_uip) or "6" (xtcp_uip6).      *)
(* A client starts one transfer at a time on a connection and leaves a     *)
(* connection alone once it has closed or aborted it.  A remote end sends  *)
(* to a local port once it knows it: after a datagram from there (met).    *)
(***************************************************************************)
EXTENDS Integers, FiniteSets, Sequences

CONSTANTS UdpLinks,    \* the links, one client each
          UdpPeers,    \* remote ends (address and port)
          UdpSlots,    \* UIP_UDP_CONNS
          MaxGuid,     \* MAX_GUID
          MaxOpens,    \* connection requests and connections from outside
          MaxGiven,    \* datagrams a client gives on a connection
          MaxResets    \* TCP segments answered by a reset

ASSUME UdpConsts == /\ UdpSlots \in Nat \ {0} /\ MaxGuid \in Nat
                    /\ MaxGuid > UdpSlots /\ 0 \notin UdpLinks

VARIABLES udp,      \* the connection table
          use,      \* what the client of each connection id did and got
          at,       \* the pass the main loop is in, and the slot it is at
          wait,     \* the event that waits for its link
          guid,     \* the next connection id to try
          listener, \* the link that listens to the UDP port, 0 for none
          cur,      \* uip_udp_conn while uip_conn is NULL, else 0
          arp,      \* the peers that the ARP or neighbour table resolves
          opens, resets,
          ipv

udpVars == <<udp, use, at, wait, guid, listener, cur, arp, opens, resets, ipv>>

Slots == 1..UdpSlots
NoWait == [ev |-> "none", slot |-> 1, link |-> 0, due |-> "none"]
Pristine == [id |-> 0, link |-> 0, connect |-> FALSE, abort |-> FALSE,
             close |-> FALSE, send |-> 0]
Unused == [holder |-> 0, given |-> 0, wire |-> <<>>, busy |-> FALSE,
           over |-> FALSE, odd |-> {}]

UdpInit == /\ udp = [s \in Slots |-> [open |-> FALSE, peer |-> "none", met |-> FALSE,
                                       flags |-> {}, app |-> Pristine]]
           /\ use = [i \in 0..MaxGuid |-> Unused]
           /\ at = [ph |-> "service", slot |-> 1] /\ wait = NoWait
           /\ guid = 1 /\ listener = 0 /\ cur = 0 /\ arp = {}
           /\ opens = 0 /\ resets = 0 /\ ipv \in {"4", "6"}

-----------------------------------------------------------------------------
(* Commands, served between the passes and inside every wait for a link. *)
Serving == at.ph = "service" \/ wait # NoWait
Of(id) == {s \in Slots : udp[s].app.id = id}
Holds(l, id) == use[id].holder = l /\ ~use[id].over /\ Of(id) # {}
NewConn(p, met, app) == [open |-> TRUE, peer |-> p, met |-> met, flags |-> {}, app |-> app]
Put(s, field, v) == udp' = [udp EXCEPT ![s].app[field] = v]
\* uip_udp_new: the first slot that is free, as it is then.
FreeSlot(s) == ~udp[s].open /\ \A r \in 1..(s - 1) : udp[r].open

\* xtcpd_connect and uip_udp_new: only the link and the request are written
\* into the slot's per-connection state.
UdpConnect(l, p) ==
    /\ Serving /\ opens < MaxOpens
    /\ opens' = opens + 1
    /\ IF \E s \in Slots : ~udp[s].open
       THEN \E s \in Slots :
              /\ FreeSlot(s)
              /\ udp' = [udp EXCEPT ![s] = NewConn(p, FALSE,
                           [@.app EXCEPT !.link = l, !.connect = TRUE])]
       ELSE udp' = udp
    /\ UNCHANGED <<use, at, wait, guid, listener, cur, arp, resets, ipv>>

UdpListen(l) ==
    /\ Serving /\ listener = 0
    /\ listener' = l
    /\ UNCHANGED <<udp, use, at, wait, guid, cur, arp, opens, resets, ipv>>

UdpRequest(l, id, what) ==
    /\ Serving /\ Holds(l, id)
    /\ \E s \in Of(id) : Put(s, what, TRUE)
    /\ use' = [use EXCEPT ![id].over = TRUE]
    /\ UNCHANGED <<at, wait, guid, listener, cur, arp, opens, resets, ipv>>

UdpInitSend(l, id) ==
    /\ Serving /\ Holds(l, id) /\ ~use[id].busy /\ use[id].given < MaxGiven
    /\ \E s \in Of(id) : Put(s, "send", udp[s].app.send + 1)
    /\ use' = [use EXCEPT ![id].busy = TRUE]
    /\ UNCHANGED <<at, wait, guid, listener, cur, arp, opens, resets, ipv>>

UdpBindRemote(l, id, p) ==
    /\ Serving /\ Holds(l, id)
    /\ \E s \in Of(id) : udp' = [udp EXCEPT ![s].peer = p, ![s].met = FALSE]
    /\ UNCHANGED <<use, at, wait, guid, listener, cur, arp, opens, resets, ipv>>

-----------------------------------------------------------------------------
(* The main loop. *)
\* The passes of one round; uIP6's timer has no turn for UDP.
Order4 == <<"service", "poll", "input", "acks", "timer">>
Order6 == <<"service", "poll", "acks", "input">>
Order == IF ipv = "4" THEN Order4 ELSE Order6
After(ph) == LET n == CHOOSE n \in 1..Len(Order) : Order[n] = ph
             IN  Order[(n % Len(Order)) + 1]
PhaseAfter(ph) == IF ph = "arp" THEN After("input") ELSE After(ph)
OnSlot == IF at.ph \in {"service", "input"} \/ at.slot = UdpSlots
          THEN [ph |-> PhaseAfter(at.ph), slot |-> 1]
          ELSE [at EXCEPT !.slot = @ + 1]

Raise(ev, s, due) == wait' = [ev |-> ev, slot |-> s, link |-> udp[s].app.link,
                              due |-> due]
Needs(s) == LET a == udp[s].app IN a.connect \/ a.abort \/ a.close \/ a.send > 0

\* The first id from guid on that no other slot has.
NextId(s) == CHOOSE i \in 1..MaxGuid :
            /\ Of(i) \ {s} = {}
            /\ \A j \in 1..MaxGuid : Of(j) \ {s} = {} =>
                 (i + MaxGuid - guid) % MaxGuid <= (j + MaxGuid - guid) % MaxGuid

\* init_xtcpd_state: everything is cleared, the link kept for a connection of
\* the client's own and looked up by the port for one from outside.
Initialised(s, link) == [udp[s].app EXCEPT !.id = NextId(s), !.link = link,
    !.connect = FALSE, !.abort = FALSE, !.close = FALSE, !.send = 0]

\* handle_poll: at most one of the requests, in this order.
HandlePoll(s) ==
    LET a == udp[s].app IN
    /\ cur' = s
    /\ \/ /\ a.abort \/ a.close
          /\ udp' = [udp EXCEPT ![s].open = FALSE]
          /\ Raise("closed", s, IF a.abort THEN "abort" ELSE "close")
          /\ UNCHANGED guid
       \/ /\ ~(a.abort \/ a.close) /\ a.connect
          /\ udp' = [udp EXCEPT ![s].app = Initialised(s, a.link)]
          /\ guid' = NextId(s)
          /\ Raise("new", s, "connect")
       \/ /\ ~(a.abort \/ a.close \/ a.connect) /\ a.send > 0
          /\ Raise("request", s, "send")
          /\ UNCHANGED <<udp, guid>>
       \/ /\ ~Needs(s) /\ wait' = NoWait /\ UNCHANGED <<udp, guid>>

\* A slip: the flag stays up.
StaysUp(s, f) == udp[s].flags
FlagDown(s, f) == udp[s].flags \ {f}

\* A turn at a slot in the poll, acknowledgement, ARP and timer passes.
TurnFor(s) == CASE at.ph = "poll" -> Needs(s)
                [] at.ph = "acks" -> "sent" \in udp[s].flags
                [] at.ph = "arp" -> "pending" \in udp[s].flags
                [] at.ph = "timer" -> TRUE

Turn ==
    LET s == at.slot IN
    /\ wait = NoWait /\ at.ph \in {"poll", "acks", "arp", "timer"}
    /\ at' = OnSlot
    /\ IF ~(TurnFor(s) /\ udp[s].open)
       THEN /\ cur' = IF at.ph = "timer" /\ at.slot = UdpSlots THEN 0 ELSE cur
            /\ UNCHANGED <<udp, wait, guid>>
       ELSE CASE at.ph \in {"poll", "timer"} -> HandlePoll(s)
              [] at.ph = "acks" ->
                   /\ udp' = [udp EXCEPT ![s].flags = FlagDown(s, "sent")]
                   /\ Raise("sent", s, "none") /\ cur' = s /\ UNCHANGED guid
              [] at.ph = "arp" ->
                   /\ udp' = [udp EXCEPT ![s].flags = FlagDown(s, "pending")]
                   /\ Raise("resend", s, "none") /\ cur' = s /\ UNCHANGED guid
    /\ UNCHANGED <<use, listener, arp, opens, resets, ipv>>

EndService ==
    /\ wait = NoWait /\ at.ph = "service"
    /\ at' = OnSlot
    /\ UNCHANGED <<udp, use, wait, guid, listener, cur, arp, opens, resets, ipv>>

-----------------------------------------------------------------------------
(* Input: nothing, a datagram, an ARP reply, or a TCP segment for nobody. *)
Input == wait = NoWait /\ at.ph = "input"
Match(p) == {s \in Slots : udp[s].open /\ udp[s].peer = p /\ udp[s].met}
First(S) == CHOOSE s \in S : \A r \in S : s <= r

NoInput ==
    /\ Input
    /\ at' = OnSlot
    /\ UNCHANGED <<udp, use, wait, guid, listener, cur, arp, opens, resets, ipv>>

\* udp_input finds the connection in both stacks alike.
UdpFound(p) ==
    /\ Input /\ Match(p) # {}
    /\ at' = OnSlot /\ cur' = First(Match(p))
    /\ Raise("recv", First(Match(p)), "none")
    /\ UNCHANGED <<udp, use, guid, listener, arp, opens, resets, ipv>>

DatagramIn4(p) == ipv = "4" /\ UdpFound(p)
DatagramIn6(p) == ipv = "6" /\ UdpFound(p)

\* IPv4 only: uip6.c never looks at the UDP ports that are listened to.
DatagramToListener(p) ==
    /\ Input /\ ipv = "4" /\ Match(p) = {} /\ listener # 0
    /\ opens < MaxOpens /\ opens' = opens + 1
    /\ \E s \in Slots :
         /\ FreeSlot(s)
         /\ udp' = [udp EXCEPT ![s] = NewConn(p, TRUE, Initialised(s, listener))]
         /\ cur' = s /\ guid' = NextId(s)
         /\ wait' = [ev |-> "new", slot |-> s, link |-> listener, due |-> "recv"]
    /\ at' = OnSlot
    /\ UNCHANGED <<use, listener, arp, resets, ipv>>

ArpReply(p) ==
    /\ Input /\ ipv = "4" /\ p \notin arp
    /\ arp' = arp \cup {p}
    /\ at' = [ph |-> "arp", slot |-> 1]
    /\ UNCHANGED <<udp, use, wait, guid, listener, cur, opens, resets, ipv>>

\* The neighbour table of the IPv6 stack learns and forgets on its own, the
\* ARP table forgets on a timer of its own.
Resolves(p) ==
    /\ Input /\ ipv = "6" /\ p \notin arp /\ arp' = arp \cup {p} /\ at' = OnSlot
    /\ UNCHANGED <<udp, use, wait, guid, listener, cur, opens, resets, ipv>>
Forgets(p) ==
    /\ Input /\ p \in arp /\ arp' = arp \ {p} /\ at' = OnSlot
    /\ UNCHANGED <<udp, use, wait, guid, listener, cur, opens, resets, ipv>>

\* A slip: the request that went out instead counts as the datagram.
AlwaysSent(p) == "sent"
\* uip_arp_out: the datagram goes out or gives way to an ARP request.
ArpFlag(p) == IF p \in arp THEN "sent" ELSE "pending"

\* A reset that answers a segment of no connection leaves while uip_conn is
\* still NULL after UDP work: uip_arp_out then takes it for a datagram of
\* the UDP connection that was handled last.
ResetOut(p) ==
    /\ Input /\ ipv = "4" /\ resets < MaxResets
    /\ resets' = resets + 1 /\ at' = OnSlot
    /\ udp' = IF cur = 0 THEN udp
              ELSE [udp EXCEPT ![cur].flags = @ \cup {ArpFlag(p)}]
    /\ UNCHANGED <<use, wait, guid, listener, cur, arp, opens, ipv>>

-----------------------------------------------------------------------------
(* The link is ready: the event goes to the client, which answers it. *)
\* xtcpd_event and xtcpd_recv read the link of the connection again after
\* the wait; do_xtcpd_send uses the one it read before.
Taker == IF wait.ev \in {"request", "sent"} THEN wait.link
         ELSE udp[wait.slot].app.link
Known(l, id) == use[id].holder = l
\* A slip: the request is left in the slot.
LeftSet(due) == udp[wait.slot].app
Cleared(due) == CASE due = "abort" -> [udp[wait.slot].app EXCEPT !.abort = FALSE]
                  [] due = "close" -> [udp[wait.slot].app EXCEPT !.close = FALSE]
                  [] due = "connect" -> [udp[wait.slot].app EXCEPT !.connect = FALSE]
                  [] OTHER -> udp[wait.slot].app
AfterEvent == LET s == wait.slot IN
              udp' = [udp EXCEPT ![s].app = Cleared(wait.due)]

TakeNew ==
    LET s == wait.slot IN
    /\ wait.ev = "new"
    /\ use' = [use EXCEPT ![udp[s].app.id] =
                 [Unused EXCEPT !.holder = Taker,
                    !.odd = use[udp[s].app.id].odd
                              \cup (IF use[udp[s].app.id].holder # 0 THEN {"taken"} ELSE {})]]
    /\ AfterEvent
    /\ wait' = IF wait.due = "recv" THEN [wait EXCEPT !.ev = "recv", !.due = "none"]
               ELSE NoWait
    /\ UNCHANGED <<at, guid, listener, cur, arp, opens, resets, ipv>>

\* A connection that was closed is nobody's; its id may be given out again.
TakeOther ==
    LET id == udp[wait.slot].app.id IN
    /\ wait.ev \in {"closed", "recv"}
    /\ use' = [use EXCEPT ![id] =
                 IF ~Known(Taker, id) THEN [@ EXCEPT !.odd = @ \cup {"stranger"}]
                 ELSE IF wait.ev = "closed" THEN Unused ELSE @]
    /\ AfterEvent
    /\ wait' = NoWait
    /\ UNCHANGED <<at, guid, listener, cur, arp, opens, resets, ipv>>

SendLeft(s) == IF wait.due = "send" THEN udp[s].app.send - 1 ELSE udp[s].app.send

\* The flags after udp_send: only uip_arp_out tells the connection anything.
FlagsSent4(s) == udp[s].flags \cup {ArpFlag(udp[s].peer)}
FlagsSent6(s) == udp[s].flags

\* The datagram n of connection id leaves slot s, or is lost.
Transmit(s, id, n, u) ==
    LET out == udp[s].peer \in arp
    IN  /\ use' = [u EXCEPT ![id].wire = IF out THEN Append(@, n) ELSE @]
        /\ udp' = [udp EXCEPT ![s].app.send = SendLeft(s),
                     ![s].met = @ \/ out,
                     ![s].flags = IF ipv = "4" THEN FlagsSent4(s) ELSE FlagsSent6(s)]

\* The client gives its next datagram, the last one again when asked to, or
\* nothing, which ends the transfer.
TakeDataEvent ==
    LET s == wait.slot
        id == udp[s].app.id
        n == use[id].given
        onWire == \E k \in DOMAIN use[id].wire : use[id].wire[k] = n
        odd == use[id].odd \cup (IF Known(Taker, id) THEN {} ELSE {"stranger"})
                 \cup (IF wait.ev = "sent" /\ ~onWire THEN {"unsent"} ELSE {})
    IN  /\ wait.ev \in {"request", "sent", "resend"}
        /\ wait' = NoWait
        /\ IF wait.ev = "resend" /\ n > 0
           THEN Transmit(s, id, n, [use EXCEPT ![id].odd = odd])
           ELSE \/ /\ n < MaxGiven /\ use[id].busy /\ wait.ev # "resend"
                   /\ Transmit(s, id, n + 1, [use EXCEPT ![id].given = n + 1,
                                                         ![id].odd = odd])
                \/ /\ use' = [use EXCEPT ![id].busy = FALSE, ![id].odd = odd]
                   /\ udp' = [udp EXCEPT ![s].app.send = SendLeft(s)]
        /\ UNCHANGED <<at, guid, listener, cur, arp, opens, resets, ipv>>

UdpCommand ==
    \E l \in UdpLinks :
        \/ UdpListen(l)
        \/ \E p \in UdpPeers : UdpConnect(l, p)
        \/ \E id \in 1..MaxGuid :
             \/ UdpRequest(l, id, "abort")
             \/ UdpRequest(l, id, "close")
             \/ UdpInitSend(l, id)
             \/ \E p \in UdpPeers : UdpBindRemote(l, id, p)
UdpInput == \E p \in UdpPeers :
    \/ DatagramIn4(p) \/ DatagramIn6(p) \/ DatagramToListener(p) \/ ArpReply(p) \/ Resolves(p)
    \/ Forgets(p)
UdpServer == EndService \/ Turn \/ NoInput \/ TakeNew \/ TakeOther \/ TakeDataEvent
UdpNext == UdpCommand \/ UdpInput \/ UdpServer
\* The same with TCP segments for nobody between the datagrams.
UdpResetSpec == UdpInit /\ [][UdpNext \/ \E p \in UdpPeers : ResetOut(p)]_udpVars

-----------------------------------------------------------------------------
\* Every event but NEW_CONNECTION is on a connection that the client it goes
\* to was told of and was not told is closed, and NEW_CONNECTION is on an id
\* that no client holds (uip_xtcp.c: xtcpd_event after the wait, the order of
\* the passes, the requests left in a slot when it is used again).
EventsAreHeld == \A i \in 0..MaxGuid : use[i].odd \cap {"stranger", "taken"} = {}

\* XTCP_SENT_DATA, "This event occurs when the server has successfully sent
\* the previous piece of data": it is raised only when the last datagram the
\* client gave on the connection went out, not when it gave way to an ARP
\* request (uip_arp.c: the flags of the connection, uip.c: their use).
SentWasSent == \A i \in 0..MaxGuid : "unsent" \notin use[i].odd

\* The datagrams of a connection leave in the order they were given, each at
\* most once, however often ARP made the client give one again.
DatagramsInOrder ==
    \A i \in 0..MaxGuid : \A j, k \in DOMAIN use[i].wire :
        j < k => use[i].wire[j] < use[i].wire[k]

\* What the clients of UDP are told and what goes out agree, as long as no
\* reset of TCP leaves in between.
UdpAsTold == EventsAreHeld /\ SentWasSent /\ DatagramsInOrder
=============================================================================
