----------------------------- MODULE HostProofs -----------------------------
(***************************************************************************)
(* Proofs about the services of a host, for every value of their           *)
(* constants: the ARP table, the names of mDNS, the connections of UDP,    *)
(* the ICMP echo and the segments that leave as two.                       *)
(***************************************************************************)
EXTENDS MCServices, OrderLemmas

-----------------------------------------------------------------------------
(* The ARP table (uip_arp.c).                                              *)

ArpTypes ==
    /\ arpTable \in [Entries -> [ip : ArpHosts \cup {0}, eth : ArpMacs \cup {"none"},
                                 time : 0..(ArpWrap - 1)]]
    /\ arptime \in 0..(ArpWrap - 1)
    /\ latest \in [ArpHosts -> ArpMacs \cup {"none"}]
    /\ since \in [ArpHosts -> 0..MaxSince]

\* A host has one entry, of the hardware address it was last heard with.
OneEntryEach ==
    /\ \A i, j \in Entries : (arpTable[i].ip # 0 /\ arpTable[i].ip = arpTable[j].ip) => i = j
    /\ \A i \in Entries : arpTable[i].ip # 0 => arpTable[i].eth = latest[arpTable[i].ip]

\* Until the clock has gone round once since a host was heard, the time of its
\* entry tells how long ago that was; an entry the clock has not passed is young.
AgesAreTrue ==
    \A i \in Entries : LET ip == arpTable[i].ip IN
        (ip # 0 /\ since[ip] < ArpWrap) =>
            \/ /\ arpTable[i].time <= arptime
               /\ since[ip] = arptime - arpTable[i].time
               /\ since[ip] < ArpMaxAge
            \/ /\ arpTable[i].time > arptime
               /\ since[ip] = arptime - arpTable[i].time + ArpWrap

ArpInv == ArpTypes /\ OneEntryEach /\ AgesAreTrue

LEMMA ArpInitInv == ArpInit => ArpInv
  BY ArpConsts DEF ArpInit, ArpInv, ArpTypes, OneEntryEach, AgesAreTrue, Entries, MaxSince

\* The entry of a host that is in the table is found.
LEMMA FoundEntry ==
  ASSUME OneEntryEach, NEW ip \in ArpHosts, InTable(ip)
  PROVE  FirstWith(ip) \in Entries /\ arpTable[FirstWith(ip)].ip = ip
<1>1. PICK i \in Entries : arpTable[i].ip = ip
  BY DEF InTable
<1>2. \A j \in 1..(i - 1) : arpTable[j].ip # ip
  BY <1>1, ArpConsts DEF OneEntryEach, Entries
<1> QED BY <1>1, <1>2 DEF FirstWith

LEMMA ArpTimerInv == ArpInv /\ uip_arp_timer => ArpInv'
<1> SUFFICES ASSUME ArpInv, uip_arp_timer PROVE ArpInv'
  OBVIOUS
<1> USE ArpConsts
<1>1. arptime' \in 0..(ArpWrap - 1) /\ arptime' = IF arptime = ArpWrap - 1 THEN 0 ELSE arptime + 1
  <2>1. arptime \in 0..(ArpWrap - 1) /\ arptime' = (arptime + 1) % ArpWrap
    BY DEF ArpInv, ArpTypes, uip_arp_timer
  <2> QED BY <2>1
<1>2. ArpTypes'
  BY <1>1, SMTT(30) DEF ArpInv, ArpTypes, uip_arp_timer, MaxSince
<1>3. \A i \in Entries :
        /\ arpTable'[i].time = arpTable[i].time /\ arpTable'[i].eth = arpTable[i].eth
        /\ arpTable'[i].ip # 0 => /\ arpTable'[i].ip = arpTable[i].ip
                                  /\ ~ Age(i) >= ArpMaxAge
  BY DEF ArpInv, ArpTypes, uip_arp_timer
<1>4. OneEntryEach'
  BY <1>3 DEF ArpInv, OneEntryEach, uip_arp_timer
<1>5. AgesAreTrue'
  <2> SUFFICES ASSUME NEW i \in Entries, arpTable'[i].ip # 0,
                      since'[arpTable'[i].ip] < ArpWrap
               PROVE  \/ /\ arpTable'[i].time <= arptime'
                         /\ since'[arpTable'[i].ip] = arptime' - arpTable'[i].time
                         /\ since'[arpTable'[i].ip] < ArpMaxAge
                      \/ /\ arpTable'[i].time > arptime'
                         /\ since'[arpTable'[i].ip] = arptime' - arpTable'[i].time + ArpWrap
    BY DEF AgesAreTrue
  <2> DEFINE ip == arpTable[i].ip
  <2>1. arpTable'[i].ip = ip /\ arpTable'[i].time = arpTable[i].time /\ ~ Age(i) >= ArpMaxAge
        /\ ip # 0
    BY <1>3
  <2>2. ip \in ArpHosts /\ arpTable[i].time \in 0..(ArpWrap - 1)
    BY <2>1 DEF ArpInv, ArpTypes
  <2>3. since[ip] \in Nat /\ since'[ip] = since[ip] + 1 /\ since[ip] < ArpWrap
    BY <2>1, <2>2 DEF ArpInv, ArpTypes, uip_arp_timer, MaxSince
  <2>4. \/ arpTable[i].time <= arptime /\ since[ip] = arptime - arpTable[i].time
        \/ arpTable[i].time > arptime /\ since[ip] = arptime - arpTable[i].time + ArpWrap
    BY <2>1, <2>3 DEF ArpInv, AgesAreTrue
  <2>5. ~ arptime' - arpTable[i].time >= ArpMaxAge /\ arptime \in 0..(ArpWrap - 1)
    BY <2>1 DEF Age, ArpInv, ArpTypes
  <2> DEFINE s == since[ip]  t == arpTable[i].time
  <2> HIDE DEF ip, s, t
  <2>6. \/ t <= arptime' /\ s + 1 = arptime' - t /\ s + 1 < ArpMaxAge
        \/ t > arptime' /\ s + 1 = arptime' - t + ArpWrap
    <3>1. s + 1 < ArpWrap
      BY <2>1, <2>3 DEF s
    <3> QED BY <1>1, <2>2, <2>3, <2>4, <2>5, <3>1 DEF s, t
  <2> QED BY <2>1, <2>3, <2>6 DEF s, t
<1> QED BY <1>2, <1>4, <1>5 DEF ArpInv

LEMMA ArpUpdateInv ==
  ASSUME NEW ip \in ArpHosts, NEW eth \in ArpMacs
  PROVE  ArpInv /\ uip_arp_arpin(ip, eth) => ArpInv'
<1> SUFFICES ASSUME ArpInv, uip_arp_arpin(ip, eth) PROVE ArpInv'
  OBVIOUS
<1> USE ArpConsts
<1> DEFINE p == ArpPlace(ip)
<1>1. \A i \in Entries : i # p => arpTable[i].ip # ip
  <2>1. CASE InTable(ip)
    BY <2>1, FoundEntry DEF ArpPlace, ArpInv, OneEntryEach
  <2>2. CASE ~InTable(ip)
    BY <2>2 DEF InTable
  <2> QED BY <2>1, <2>2
<1> HIDE DEF p
<1>2. /\ arpTable' = [arpTable EXCEPT ![p] = [ip |-> ip, eth |-> eth, time |-> arptime]]
      /\ latest' = [latest EXCEPT ![ip] = eth] /\ since' = [since EXCEPT ![ip] = 0]
      /\ arptime' = arptime
  BY DEF uip_arp_arpin, uip_arp_update, p
<1>3. ArpTypes'
  <2>1. since' \in [ArpHosts -> 0..MaxSince] /\ latest' \in [ArpHosts -> ArpMacs \cup {"none"}]
    BY <1>2 DEF ArpInv, ArpTypes, MaxSince
  <2> DEFINE Entry == [ip : ArpHosts \cup {0}, eth : ArpMacs \cup {"none"}, time : 0..(ArpWrap - 1)]
  <2>2. [ip |-> ip, eth |-> eth, time |-> arptime] \in Entry
    BY DEF ArpInv, ArpTypes
  <2>3. arpTable \in [Entries -> Entry]
    BY DEF ArpInv, ArpTypes
  <2> HIDE DEF Entry
  <2>4. arpTable' \in [Entries -> Entry]
    BY <1>2, <2>2, <2>3
  <2> QED BY <1>2, <2>1, <2>4 DEF ArpInv, ArpTypes, Entry
<1>4. \A i \in Entries : arpTable'[i] = IF i = p THEN [ip |-> ip, eth |-> eth, time |-> arptime]
                                         ELSE arpTable[i]
  BY <1>2 DEF ArpInv, ArpTypes
<1>5. OneEntryEach'
  BY <1>1, <1>2, <1>4 DEF ArpInv, ArpTypes, OneEntryEach
<1>6. AgesAreTrue'
  <2> SUFFICES ASSUME NEW i \in Entries, arpTable'[i].ip # 0,
                      since'[arpTable'[i].ip] < ArpWrap
               PROVE  \/ /\ arpTable'[i].time <= arptime'
                         /\ since'[arpTable'[i].ip] = arptime' - arpTable'[i].time
                         /\ since'[arpTable'[i].ip] < ArpMaxAge
                      \/ /\ arpTable'[i].time > arptime'
                         /\ since'[arpTable'[i].ip] = arptime' - arpTable'[i].time + ArpWrap
    BY DEF AgesAreTrue
  <2>1. CASE i = p
    BY <2>1, <1>2, <1>4 DEF ArpInv, ArpTypes
  <2>2. CASE i # p
    <3>1. arpTable'[i] = arpTable[i] /\ arpTable[i].ip # ip /\ arpTable[i].ip \in ArpHosts
      BY <2>2, <1>1, <1>4 DEF ArpInv, ArpTypes
    <3>2. since'[arpTable[i].ip] = since[arpTable[i].ip]
      BY <3>1, <1>2 DEF ArpInv, ArpTypes
    <3> QED BY <3>1, <3>2, <1>2 DEF ArpInv, AgesAreTrue
  <2> QED BY <2>1, <2>2
<1> QED BY <1>3, <1>5, <1>6 DEF ArpInv

LEMMA ArpStepInv == ArpInv /\ [ArpNext]_arpVars => ArpInv'
<1> SUFFICES ASSUME ArpInv, [ArpNext]_arpVars PROVE ArpInv'
  OBVIOUS
<1>1. CASE uip_arp_timer
  BY <1>1, ArpTimerInv
<1>2. ASSUME NEW ip \in ArpHosts, NEW eth \in ArpMacs, uip_arp_arpin(ip, eth) PROVE ArpInv'
  BY <1>2, ArpUpdateInv
<1>3. CASE UNCHANGED arpVars
  BY <1>3 DEF arpVars, ArpInv, ArpTypes, OneEntryEach, AgesAreTrue
<1> QED BY <1>1, <1>2, <1>3 DEF ArpNext

LEMMA ArpInvCurrent == ArpInv => ArpIsCurrent
<1> SUFFICES ASSUME ArpInv PROVE ArpIsCurrent
  OBVIOUS
<1>1. ReachedByLatest
  BY FoundEntry, ArpConsts DEF ArpInv, OneEntryEach, ReachedByLatest, uip_arp_out
<1>2. YoungOrWrapped
  <2> SUFFICES ASSUME NEW i \in Entries, arpTable[i].ip # 0, arpTable[i].time <= arptime,
                      since[arpTable[i].ip] < ArpWrap
               PROVE  since[arpTable[i].ip] < ArpMaxAge
    BY DEF YoungOrWrapped
  <2>1. arpTable[i].time \in Int /\ arptime \in Int
    BY ArpConsts DEF ArpInv, ArpTypes
  <2> QED BY <2>1 DEF ArpInv, AgesAreTrue
<1> QED BY <1>1, <1>2 DEF ArpIsCurrent

\* The services run one at a time: a step of them is a step of the ARP table
\* or leaves it alone.
LEMMA ServicesArp == [Next]_vars => [ArpNext]_arpVars
  BY DEF Next, vars, hostVars, ClientNext, HostNext

\* A datagram goes to the hardware address that was last heard for its
\* destination, and an entry that is in use and that the one-byte clock has not
\* overtaken is younger than UIP_ARP_MAXAGE, for every size of the table, every
\* maximum age and every width of the clock (uip_arp_update, uip_arp_timer).
THEOREM ArpStaysCurrent == Spec => []ArpIsCurrent
<1>1. Init => ArpInv
  BY ArpInitInv DEF Init
<1>2. ArpInv /\ [Next]_vars => ArpInv'
  BY ServicesArp, ArpStepInv
<1> QED BY <1>1, <1>2, ArpInvCurrent, PTL DEF Spec

-----------------------------------------------------------------------------
(* The mDNS responder (mdns.c).                                            *)

MdnsEntry ==
    [state : {"disabled", "probe_wait", "probe_sent", "announce_wait", "announce_sent", "active"},
     counter : Nat, sent : Nat, pending : SUBSET {"host", "ptr"}]

MdnsTypes == /\ entry \in [MdnsHosts -> MdnsEntry]
             /\ probed \in [MdnsHosts -> Nat] /\ told \in [MdnsHosts -> Nat]

\* The others were told of the name at least once since the last conflict.
Announced(e) == \/ e.state \in {"announce_sent", "active"}
                \/ e.state = "announce_wait" /\ e.sent > 0

\* No two hosts have announced a name and still hold it: an announcement makes
\* the others give it up.
AnnouncedIsUnique ==
    \A g, h \in MdnsHosts :
        (g # h /\ Announced(entry[g]) /\ Announced(entry[h])) => entry[g].counter # entry[h].counter

\* What is left of the name's history in the count of an entry (e, with p
\* probes and t announcements).
Counted(e, p, t) ==
    /\ e.state \in {"probe_wait", "probe_sent"} => p >= e.sent
    /\ e.state \in {"announce_wait", "announce_sent"} => p >= 3 /\ t >= e.sent
    /\ e.state = "announce_sent" => e.sent >= 1
    /\ e.state = "active" => p >= 3 /\ t >= 3

CountsAreTrue == \A h \in MdnsHosts : Counted(entry[h], probed[h], told[h])

MdnsInv == MdnsTypes /\ AnnouncedIsUnique /\ CountsAreTrue

LEMMA MdnsInitInv == MdnsInit => MdnsInv
  BY DEF MdnsInit, Fresh, MdnsInv, MdnsTypes, MdnsEntry, AnnouncedIsUnique, Announced,
         CountsAreTrue, Counted

\* What a datagram does to the entry of a host: nothing but a pending answer,
\* or it begins to probe again, and with the number of probes at 0.
LEMMA ReprobeUpdates ==
  ASSUME NEW e \in MdnsEntry
  PROVE  /\ Reprobe(e) \in MdnsEntry /\ Reprobe(e).state = "probe_wait" /\ Reprobe(e).sent = 0
         /\ Renamed(e) \in MdnsEntry
<1>1. Renamed(e) \in MdnsEntry
  BY DEF MdnsEntry, Renamed
<1>2. Reprobe(e) \in MdnsEntry /\ Reprobe(e).state = "probe_wait" /\ Reprobe(e).sent = 0
  BY DEF MdnsEntry, Reprobe
<1> QED BY <1>1, <1>2

LEMMA ConflictUpdates ==
  ASSUME NEW e \in MdnsEntry
  PROVE  /\ Conflict(e).e \in MdnsEntry /\ Conflict(e).again = TRUE
         /\ Conflict(e).e.state = "probe_wait" /\ Conflict(e).e.sent = 0
<1>1. Reprobe(Renamed(e)) \in MdnsEntry /\ Reprobe(Renamed(e)).state = "probe_wait"
      /\ Reprobe(Renamed(e)).sent = 0
  BY ReprobeUpdates
<1> QED BY <1>1, ReprobeUpdates DEF Conflict, Update

Received(u, g, h, msg) ==
    /\ u.e \in MdnsEntry
    /\ \/ /\ u.again = TRUE /\ u.e.state = "probe_wait" /\ u.e.sent = 0
       \/ /\ u.again = FALSE /\ u.e.state = entry[g].state /\ u.e.sent = entry[g].sent
          /\ u.e.counter = entry[g].counter
          /\ ~(/\ g # h /\ msg.type = "response" /\ msg.name = entry[g].counter
               /\ entry[g].state # "disabled")

LEMMA RecvUpdates ==
  ASSUME MdnsTypes, NEW g \in MdnsHosts, NEW h \in MdnsHosts, NEW msg
  PROVE  Received(mdns_recv(g, h, msg), g, h, msg)
<1> DEFINE u == mdns_recv(g, h, msg)
<1> HIDE DEF u
<1>0. u = mdns_recv(g, h, msg)
  BY DEF u
<1> SUFFICES Received(u, g, h, msg)
  BY <1>0
<1> USE DEF Received
<1> DEFINE e == entry[g]
<1>1. e \in MdnsEntry
  BY DEF MdnsTypes
<1> HIDE DEF e
<1>2. CASE u = Update(e, FALSE, FALSE) /\ (g = h \/ msg.type # "response")
  BY <1>1, <1>2 DEF Update, e
<1>3. CASE g # h /\ msg.type = "probe"
  <2>1. u = handle_mdns_auth(e, g, msg.name, h)
    BY <1>0, <1>3 DEF mdns_recv, e
  <2>2. CASE u = Update(Reprobe(Renamed(e)), e.state # "probe_wait", TRUE)
    <3>1. Reprobe(Renamed(e)) \in MdnsEntry /\ Reprobe(Renamed(e)).state = "probe_wait"
          /\ Reprobe(Renamed(e)).sent = 0
      BY <1>1, ReprobeUpdates
    <3> QED BY <2>2, <3>1 DEF Update
  <2>3. CASE u = Asked(e, msg.name)
    BY <1>1, <1>3, <2>3 DEF MdnsEntry, Asked, Update, e
  <2> QED BY <2>1, <2>2, <2>3 DEF handle_mdns_auth
<1>4. CASE g # h /\ msg.type \notin {"none", "pointer", "probe"}
  <2>1. u = handle_mdns_response(e, msg.name)
    BY <1>0, <1>4 DEF mdns_recv, e
  <2>2. CASE e.state # "disabled" /\ e.counter = msg.name
    BY <1>1, <2>1, <2>2, ConflictUpdates DEF handle_mdns_response, SameName
  <2>3. CASE ~(e.state # "disabled" /\ e.counter = msg.name)
    BY <1>1, <2>1, <2>3 DEF handle_mdns_response, SameName, Update, e
  <2> QED BY <2>2, <2>3
<1> QED BY <1>0, <1>2, <1>3, <1>4 DEF mdns_recv, e

LEMMA SendUpdates ==
  ASSUME NEW e \in MdnsEntry
  PROVE  /\ AfterSend(e) \in MdnsEntry /\ AfterSend(e).counter = e.counter
         /\ e.state = "probe_wait" => AfterSend(e).state = "probe_sent" /\ AfterSend(e).sent = e.sent + 1
         /\ e.state = "announce_wait" =>
               AfterSend(e).state = "announce_sent" /\ AfterSend(e).sent = e.sent + 1
         /\ e.state \notin {"probe_wait", "announce_wait"} =>
               AfterSend(e).state = e.state /\ AfterSend(e).sent = e.sent
<1>1. e.sent + 1 \in Nat
  BY DEF MdnsEntry
<1>2. CASE e.state = "probe_wait"
  <2>1. AfterSend(e) = [e EXCEPT !.state = "probe_sent", !.sent = @ + 1]
    BY <1>2 DEF AfterSend
  <2>2. AfterSend(e) = [state |-> "probe_sent", counter |-> e.counter, sent |-> e.sent + 1,
                        pending |-> e.pending]
    BY <2>1 DEF MdnsEntry
  <2> QED BY <1>1, <1>2, <2>2 DEF MdnsEntry
<1>3. CASE e.state = "announce_wait"
  <2>1. AfterSend(e) = [e EXCEPT !.state = "announce_sent", !.sent = @ + 1, !.pending = {}]
    BY <1>3 DEF AfterSend
  <2>2. AfterSend(e) = [state |-> "announce_sent", counter |-> e.counter, sent |-> e.sent + 1,
                        pending |-> {}]
    BY <2>1 DEF MdnsEntry
  <2> QED BY <1>1, <1>3, <2>2 DEF MdnsEntry
<1>4. CASE e.state \notin {"probe_wait", "announce_wait"}
  <2>1. AfterSend(e) = [e EXCEPT !.pending = {}]
    BY <1>4 DEF AfterSend
  <2> QED BY <1>4, <2>1 DEF MdnsEntry
<1> QED BY <1>2, <1>3, <1>4

LEMMA MdnsSendInv ==
  ASSUME NEW h \in MdnsHosts
  PROVE  MdnsInv /\ mdns_send(h) => MdnsInv'
<1> SUFFICES ASSUME MdnsInv, mdns_send(h) PROVE MdnsInv'
  OBVIOUS
<1> DEFINE msg == Message(h)
           sending == AfterSend(entry[h])
           recv(g) == mdns_recv(g, h, msg)
<1>1. \A g \in MdnsHosts : entry[g] \in MdnsEntry /\ probed[g] \in Nat /\ told[g] \in Nat
  BY DEF MdnsInv, MdnsTypes
<1>2. /\ entry' = [g \in MdnsHosts |-> IF g = h THEN sending ELSE recv(g).e]
      /\ probed' = [g \in MdnsHosts |->
            IF g = h THEN (IF msg.type = "probe" THEN probed[g] + 1 ELSE probed[g])
            ELSE IF recv(g).again THEN 0 ELSE probed[g]]
      /\ told' = [g \in MdnsHosts |->
            IF g = h THEN (IF entry[h].state = "announce_wait" THEN told[g] + 1 ELSE told[g])
            ELSE IF recv(g).again THEN 0 ELSE told[g]]
  BY DEF mdns_send, Update
<1>3. \A g \in MdnsHosts : Received(recv(g), g, h, msg)
  BY RecvUpdates DEF MdnsInv
<1>5. /\ sending \in MdnsEntry /\ sending.counter = entry[h].counter
      /\ entry[h].state = "probe_wait" => sending.state = "probe_sent" /\ sending.sent = entry[h].sent + 1
      /\ entry[h].state = "announce_wait" =>
            sending.state = "announce_sent" /\ sending.sent = entry[h].sent + 1
      /\ entry[h].state \notin {"probe_wait", "announce_wait"} =>
            sending.state = entry[h].state /\ sending.sent = entry[h].sent
  BY <1>1, SendUpdates
<1>6. /\ msg.type = "probe" <=> entry[h].state = "probe_wait"
      /\ entry[h].state = "announce_wait" => msg.type = "response" /\ msg.name = entry[h].counter
  BY <1>1 DEF Message, MdnsEntry
<1> HIDE DEF msg, sending, recv
<1>7. MdnsTypes'
  <2>1. entry' \in [MdnsHosts -> MdnsEntry]
    BY <1>2, <1>3, <1>5 DEF Received
  <2>2. probed' \in [MdnsHosts -> Nat] /\ told' \in [MdnsHosts -> Nat]
    BY <1>1, <1>2
  <2> QED BY <2>1, <2>2 DEF MdnsTypes
<1>8. ASSUME NEW g \in MdnsHosts, g # h
      PROVE  \/ entry'[g].state = "probe_wait" /\ entry'[g].sent = 0
             \/ /\ entry'[g].state = entry[g].state /\ entry'[g].sent = entry[g].sent
                /\ entry'[g].counter = entry[g].counter
                /\ probed'[g] = probed[g] /\ told'[g] = told[g]
                /\ ~(/\ msg.type = "response" /\ msg.name = entry[g].counter
                     /\ entry[g].state # "disabled")
  BY <1>2, <1>3, <1>8 DEF Received
<1>9. CountsAreTrue'
  <2> SUFFICES ASSUME NEW g \in MdnsHosts PROVE Counted(entry'[g], probed'[g], told'[g])
    BY DEF CountsAreTrue
  <2>1. Counted(entry[g], probed[g], told[g])
    BY DEF MdnsInv, CountsAreTrue
  <2>2. probed'[g] \in Nat /\ told'[g] \in Nat
    BY <1>7 DEF MdnsTypes
  <2>3. CASE g # h
    BY <1>8, <2>1, <2>2, <2>3 DEF Counted
  <2>4. CASE g = h
    <3>1. entry'[g] = sending
          /\ probed'[g] = (IF entry[h].state = "probe_wait" THEN probed[h] + 1 ELSE probed[h])
          /\ told'[g] = (IF entry[h].state = "announce_wait" THEN told[h] + 1 ELSE told[h])
      BY <1>2, <1>6, <2>4
    <3>2. entry[h].sent \in Nat
      BY <1>1 DEF MdnsEntry
    <3> QED BY <1>1, <1>5, <2>1, <2>4, <3>1, <3>2 DEF Counted
  <2> QED BY <2>3, <2>4
<1>10. AnnouncedIsUnique'
  <2>1. ASSUME NEW g \in MdnsHosts, g # h, Announced(entry'[g])
        PROVE  Announced(entry[g]) /\ entry'[g].counter = entry[g].counter
               /\ (entry[h].state = "announce_wait" => entry[g].counter # entry[h].counter)
    BY <1>6, <1>8, <2>1 DEF Announced
  <2>2. Announced(entry'[h]) =>
          /\ entry'[h].counter = entry[h].counter
          /\ Announced(entry[h]) \/ entry[h].state = "announce_wait"
    BY <1>2, <1>5 DEF Announced
  <2>3. entry'[h].counter = entry[h].counter
    BY <1>2, <1>5
  <2> SUFFICES ASSUME NEW f \in MdnsHosts, NEW g \in MdnsHosts, f # g,
                      Announced(entry'[f]), Announced(entry'[g])
               PROVE  entry'[f].counter # entry'[g].counter
    BY DEF AnnouncedIsUnique, Announced
  <2>4. CASE f # h /\ g # h
    BY <2>1, <2>4 DEF MdnsInv, AnnouncedIsUnique
  <2>5. CASE f = h
    BY <2>1, <2>2, <2>3, <2>5 DEF MdnsInv, AnnouncedIsUnique
  <2>6. CASE g = h
    BY <2>1, <2>2, <2>3, <2>6 DEF MdnsInv, AnnouncedIsUnique
  <2> QED BY <2>4, <2>5, <2>6
<1> QED BY <1>7, <1>9, <1>10 DEF MdnsInv

LEMMA MdnsStepInv == MdnsInv /\ [MdnsNext]_mdnsVars => MdnsInv'
<1> SUFFICES ASSUME MdnsInv, [MdnsNext]_mdnsVars PROVE MdnsInv'
  OBVIOUS
<1> USE DEF MdnsInv
<1>1. ASSUME NEW h \in MdnsHosts, mdns_start(h) PROVE MdnsInv'
  BY <1>1 DEF mdns_start, MdnsTypes, AnnouncedIsUnique, CountsAreTrue
<1>2. ASSUME NEW h \in MdnsHosts, mdns_start_entries(h) PROVE MdnsInv'
  <2>0. entry[h] \in MdnsEntry
    BY DEF MdnsTypes
  <2> DEFINE e == [entry[h] EXCEPT !.state = "probe_wait", !.sent = 0]
  <2>1. e \in MdnsEntry /\ e.state = "probe_wait" /\ e.sent = 0
    BY <2>0 DEF MdnsEntry
  <2>2. entry' = [entry EXCEPT ![h] = e]
    BY <1>2 DEF mdns_start_entries
  <2>3. probed' = [probed EXCEPT ![h] = 0] /\ told' = [told EXCEPT ![h] = 0]
    BY <1>2 DEF mdns_start_entries
  <2> HIDE DEF e
  <2>4. MdnsTypes'
    BY <2>1, <2>2, <2>3 DEF MdnsTypes
  <2>5. \A g \in MdnsHosts : g # h =>
          entry'[g] = entry[g] /\ probed'[g] = probed[g] /\ told'[g] = told[g]
    BY <2>2, <2>3 DEF MdnsTypes
  <2>6. entry'[h] = e /\ probed'[h] = 0 /\ told'[h] = 0
    BY <2>2, <2>3 DEF MdnsTypes
  <2>7. AnnouncedIsUnique'
    BY <2>1, <2>5, <2>6 DEF AnnouncedIsUnique, Announced
  <2>8. CountsAreTrue'
    BY <2>1, <2>5, <2>6 DEF CountsAreTrue, Counted
  <2> QED BY <2>4, <2>7, <2>8
<1>3. ASSUME NEW h \in MdnsHosts, mdns_periodic(h) PROVE MdnsInv'
  <2>0. entry[h] \in MdnsEntry /\ probed[h] \in Nat /\ told[h] \in Nat
    BY DEF MdnsTypes
  <2> DEFINE was == entry[h]
             e == IF was.sent < 3 THEN [was EXCEPT !.state = NextWait[was.state]]
                  ELSE IF was.state = "probe_sent"
                       THEN [was EXCEPT !.state = "announce_wait", !.sent = 0]
                  ELSE [was EXCEPT !.state = "active"]
  <2>1. was.state \in {"probe_sent", "announce_sent"} /\ entry' = [entry EXCEPT ![h] = e]
        /\ probed' = probed /\ told' = told
    BY <1>3 DEF mdns_periodic
  <2>2. /\ e \in MdnsEntry /\ e.counter = was.counter
        /\ \/ was.state = "probe_sent" /\ e.state = "probe_wait" /\ e.sent = was.sent
           \/ /\ was.state = "announce_sent" /\ e.state = "announce_wait" /\ e.sent = was.sent
           \/ /\ was.state = "probe_sent" /\ was.sent >= 3
              /\ e.state = "announce_wait" /\ e.sent = 0
           \/ was.state = "announce_sent" /\ was.sent >= 3 /\ e.state = "active"
    <3> HIDE DEF was
    <3>1. was \in MdnsEntry
      BY <2>0 DEF was
    <3>2. CASE was.sent < 3 /\ was.state = "probe_sent"
      BY <3>1, <3>2 DEF MdnsEntry, NextWait
    <3>3. CASE was.sent < 3 /\ was.state = "announce_sent"
      BY <3>1, <3>3 DEF MdnsEntry, NextWait
    <3>4. CASE ~(was.sent < 3) /\ was.state = "probe_sent"
      <4>1. e = [was EXCEPT !.state = "announce_wait", !.sent = 0]
        BY <3>4
      <4>2. e = [state |-> "announce_wait", counter |-> was.counter, sent |-> 0,
                 pending |-> was.pending]
        BY <3>1, <4>1 DEF MdnsEntry
      <4> HIDE DEF e
      <4> QED BY <3>1, <3>4, <4>2 DEF MdnsEntry
    <3>5. CASE ~(was.sent < 3) /\ was.state = "announce_sent"
      BY <3>1, <3>5 DEF MdnsEntry
    <3> QED BY <2>1, <3>2, <3>3, <3>4, <3>5
  <2>3. was.sent \in Nat
    BY <2>0 DEF MdnsEntry
  <2> HIDE DEF was, e
  <2>4. MdnsTypes'
    BY <2>1, <2>2 DEF MdnsTypes
  <2>5. \A g \in MdnsHosts : entry'[g] = IF g = h THEN e ELSE entry[g]
    BY <2>1 DEF MdnsTypes
  <2>6. Counted(was, probed[h], told[h])
    BY DEF CountsAreTrue, was
  <2>7. Announced(e) => Announced(was)
    BY <2>2 DEF Announced
  <2>8. AnnouncedIsUnique'
    BY <2>2, <2>5, <2>7 DEF AnnouncedIsUnique, Announced, was
  <2>9. Counted(e, probed[h], told[h])
    BY <2>0, <2>2, <2>3, <2>6 DEF Counted
  <2>10. CountsAreTrue'
    BY <2>1, <2>5, <2>9 DEF CountsAreTrue
  <2> QED BY <2>4, <2>8, <2>10
<1>4. ASSUME NEW h \in MdnsHosts, mdns_send(h) PROVE MdnsInv'
  BY <1>4, MdnsSendInv
<1>5. ASSUME NEW h \in MdnsHosts, NEW kind \in {"host", "ptr"}, Query(h, kind) PROVE MdnsInv'
  <2>0. entry[h] \in MdnsEntry
    BY DEF MdnsTypes
  <2> DEFINE e == [entry[h] EXCEPT !.pending = @ \cup {kind}]
  <2>1. /\ e \in MdnsEntry /\ e.state = entry[h].state /\ e.sent = entry[h].sent
        /\ e.counter = entry[h].counter
    BY <2>0 DEF MdnsEntry
  <2>2. entry' = [entry EXCEPT ![h] = e] /\ probed' = probed /\ told' = told
    BY <1>5 DEF Query
  <2> HIDE DEF e
  <2>3. MdnsTypes'
    BY <2>1, <2>2 DEF MdnsTypes
  <2>4. \A g \in MdnsHosts : entry'[g].state = entry[g].state /\ entry'[g].sent = entry[g].sent
                             /\ entry'[g].counter = entry[g].counter
    BY <2>1, <2>2 DEF MdnsTypes
  <2>5. AnnouncedIsUnique'
    BY <2>4 DEF AnnouncedIsUnique, Announced
  <2>6. CountsAreTrue'
    BY <2>2, <2>4 DEF CountsAreTrue, Counted
  <2> QED BY <2>3, <2>5, <2>6
<1>6. CASE UNCHANGED mdnsVars
  BY <1>6 DEF mdnsVars, MdnsTypes, AnnouncedIsUnique, CountsAreTrue
<1> QED BY <1>1, <1>2, <1>3, <1>4, <1>5, <1>6 DEF MdnsNext, MdnsStep

LEMMA ServicesMdns == [Next]_vars => [MdnsNext]_mdnsVars
  BY DEF Next, vars, hostVars, ClientNext, HostNext

\* Two hosts of a link never use the same name, and a name in use was probed for
\* and announced three times since the last conflict about it, for every number
\* of hosts and of conflicts (mdns.c).
THEOREM NamesStayOwn == Spec => []NameIsOwn
<1>1. Init => MdnsInv
  BY MdnsInitInv DEF Init
<1>2. MdnsInv /\ [Next]_vars => MdnsInv'
  BY ServicesMdns, MdnsStepInv
<1>3. MdnsInv => NameIsOwn
  BY DEF MdnsInv, AnnouncedIsUnique, Announced, CountsAreTrue, Counted, NameIsOwn,
         NamesAreUnique, ActiveIsProbed
<1> QED BY <1>1, <1>2, <1>3, PTL DEF Spec

-----------------------------------------------------------------------------
(* UDP connections (uip_xtcp.c, uip.c, uip6.c, uip_arp.c).                  *)

UdpApps == [id : 0..MaxGuid, link : UdpLinks \cup {0}, connect : BOOLEAN, abort : BOOLEAN,
            close : BOOLEAN, send : Nat]
UdpRecords == [open : BOOLEAN, peer : UdpPeers \cup {"none"}, met : BOOLEAN,
               flags : SUBSET {"sent", "pending"}, app : UdpApps]
UdpUses == [holder : UdpLinks \cup {0}, given : Nat, wire : Seq(Nat), busy : BOOLEAN,
            over : BOOLEAN, odd : SUBSET STRING]
UdpWaits == [ev : {"none", "new", "closed", "request", "sent", "resend", "recv"}, slot : Slots,
             link : UdpLinks \cup {0}, due : {"none", "connect", "recv", "abort", "close", "send"}]

UdpTypes == /\ udp \in [Slots -> UdpRecords] /\ use \in [0..MaxGuid -> UdpUses]
            /\ wait \in UdpWaits /\ guid \in 1..MaxGuid
            /\ at.slot \in Slots /\ at = [ph |-> at.ph, slot |-> at.slot]
            /\ listener \in UdpLinks \cup {0}

\* The event that waits at a slot.
WaitAt(s) == IF wait.slot = s THEN wait ELSE NoWait

\* A connection in a slot lives from the event NEW_CONNECTION until it is
\* closed, and is held by its client until it is told so.
LiveIn(c, w) == c.open /\ ~c.app.connect /\ w.ev # "new"
HeldIn(c, w) == LiveIn(c, w) \/ w.ev = "closed"

\* What is left of a slot whose connection is not held is no request.
HeldOk(c, u, w) ==
    /\ HeldIn(c, w) <=> u.holder # 0
    /\ HeldIn(c, w) => c.app.id # 0 /\ c.app.link # 0
    /\ (c.open /\ c.app.connect) => c.flags = {} /\ ~c.met /\ c.app.link # 0
    /\ c.app.abort \/ c.app.close => HeldIn(c, w) /\ u.over
    /\ ~(c.app.abort /\ c.app.close)

\* An event that waits fits the state of its slot, whatever commands are
\* served meanwhile.
WaitOk(c, w) ==
    /\ w.ev = "closed" => /\ ~c.open \/ c.app.connect
                          /\ \/ w.due = "abort" /\ c.app.abort
                             \/ w.due = "close" /\ c.app.close
    /\ w.ev = "new" => /\ c.open /\ ~c.app.connect /\ c.app.id # 0 /\ c.app.link # 0
                       /\ c.flags = {} /\ c.app.send = 0
                       /\ w.due \in {"connect", "recv"}
    /\ w.ev \in {"request", "sent", "resend", "recv"} => c.open /\ ~c.app.connect
    /\ w.ev \in {"sent", "resend", "recv", "none"} => w.due = "none"
    /\ w.ev = "request" => w.due = "send"
    /\ w.ev \in {"request", "sent"} => w.link # 0

OnWire(u) == \E k \in DOMAIN u.wire : u.wire[k] = u.given

\* A transfer is at one place: asked for, marked by ARP, or in an event that
\* waits; the mark says whether the last datagram went out.
SendOk(c, u, w) ==
    LiveIn(c, w) =>
        /\ c.app.send \in {0, 1}
        /\ c.app.send = 1 => u.busy /\ c.flags = {} /\ w.ev \notin {"sent", "resend"}
        /\ c.flags # {} => u.busy /\ w.ev \notin {"request", "sent", "resend"}
        /\ c.flags # {"sent", "pending"}
        /\ w.ev = "request" => c.app.send = 1
        /\ w.ev \in {"sent", "resend"} => u.busy
        /\ "sent" \in c.flags \/ w.ev = "sent" => OnWire(u)
        /\ "pending" \in c.flags \/ w.ev = "resend" => u.given > 0 /\ ~OnWire(u)

SlotOk(c, u, w) == HeldOk(c, u, w) /\ WaitOk(c, w) /\ SendOk(c, u, w)
UseOk(u) == /\ u.odd = {}
            /\ \A k \in DOMAIN u.wire : u.wire[k] <= u.given
            /\ \A j, k \in DOMAIN u.wire : j < k => u.wire[j] < u.wire[k]

\* No two slots have the same id, and an id that is held is that of a slot.
IdsApart == /\ \A s, r \in Slots : s # r => udp[s].app.id # udp[r].app.id \/ udp[s].app.id = 0
            /\ use[0].holder = 0
            /\ \A i \in 0..MaxGuid : use[i].holder # 0 => \E s \in Slots : udp[s].app.id = i

UdpInv == /\ UdpTypes /\ IdsApart
          /\ \A s \in Slots : SlotOk(udp[s], use[udp[s].app.id], WaitAt(s))
          /\ \A i \in 0..MaxGuid : UseOk(use[i])

LEMMA UdpInitInv == UdpInit => UdpInv
<1> SUFFICES ASSUME UdpInit PROVE UdpInv
  OBVIOUS
<1> USE UdpConsts
<1>1. Pristine \in UdpApps /\ Unused \in UdpUses
  BY DEF Pristine, Unused, UdpApps, UdpUses
<1>2. /\ Pristine.id = 0 /\ ~Pristine.connect /\ ~Pristine.abort /\ ~Pristine.close /\ Pristine.send = 0
      /\ Unused.holder = 0 /\ Unused.odd = {} /\ Unused.wire = <<>>
  BY DEF Pristine, Unused
<1>3. NoWait \in UdpWaits /\ NoWait.ev = "none" /\ NoWait.due = "none" /\ 1 \in Slots
  BY DEF NoWait, UdpWaits, Slots
<1>4. \A s \in Slots : /\ udp[s] \in UdpRecords /\ udp[s].app = Pristine /\ ~udp[s].open
                       /\ udp[s].flags = {}
  BY <1>1 DEF UdpInit, UdpRecords
<1>5. UdpTypes
  <2>1. udp \in [Slots -> UdpRecords] /\ use \in [0..MaxGuid -> UdpUses] /\ wait \in UdpWaits
    BY <1>1, <1>3, <1>4 DEF UdpInit
  <2>2. at.slot \in Slots /\ at = [ph |-> at.ph, slot |-> at.slot]
    BY <1>3 DEF UdpInit
  <2>3. guid \in 1..MaxGuid /\ listener \in UdpLinks \cup {0}
    BY DEF UdpInit
  <2> QED BY <2>1, <2>2, <2>3 DEF UdpTypes
<1>6. \A i \in 0..MaxGuid : use[i] = Unused
  BY DEF UdpInit
<1>7. UseOk(Unused)
  BY <1>2 DEF UseOk
<1>8. IdsApart
  BY <1>2, <1>4, <1>6 DEF IdsApart
<1>9. ASSUME NEW s \in Slots PROVE SlotOk(udp[s], use[udp[s].app.id], WaitAt(s))
  <2>1. WaitAt(s) = NoWait /\ use[udp[s].app.id] = Unused
    BY <1>2, <1>4, <1>6 DEF WaitAt, UdpInit
  <2> QED BY <1>2, <1>3, <1>4, <2>1 DEF SlotOk, HeldOk, WaitOk, SendOk, HeldIn, LiveIn
<1> QED BY <1>5, <1>6, <1>7, <1>8, <1>9 DEF UdpInv

\* A step at one slot leaves the other slots and their connections alone.
LEMMA UdpFrame ==
  ASSUME UdpInv, UdpTypes', NEW s \in Slots,
         \A r \in Slots : r # s => udp'[r] = udp[r] /\ WaitAt(r)' = WaitAt(r),
         \/ use' = use
         \/ udp'[s].app.id # 0 /\ \A i \in 0..MaxGuid : i # udp'[s].app.id => use'[i] = use[i],
         \/ udp'[s].app.id = udp[s].app.id
         \/ use[udp[s].app.id].holder = 0 /\ use' = use /\ Of(udp'[s].app.id) \ {s} = {},
         SlotOk(udp'[s], use'[udp'[s].app.id], WaitAt(s)'),
         UseOk(use'[udp'[s].app.id])
  PROVE  UdpInv'
<1>1. \A r \in Slots : udp[r].app.id \in 0..MaxGuid /\ udp'[r].app.id \in 0..MaxGuid
  BY DEF UdpInv, UdpTypes, UdpRecords, UdpApps
<1>2. ASSUME NEW r \in Slots, r # s, udp[r].app.id = udp'[s].app.id
      PROVE  udp[r].app.id = 0 /\ use' = use
  <2>1. CASE udp'[s].app.id = udp[s].app.id
    <3>1. udp[s].app.id = 0
      BY <1>2, <2>1 DEF UdpInv, IdsApart
    <3> QED BY <1>2, <2>1, <3>1
  <2>2. CASE Of(udp'[s].app.id) \ {s} = {}
    <3>1. r \in Of(udp'[s].app.id) \ {s}
      BY <1>2 DEF Of
    <3> QED BY <2>2, <3>1
  <2> QED BY <2>1, <2>2
<1>3. \A r \in Slots : r # s => use'[udp'[r].app.id] = use[udp[r].app.id]
  BY <1>1, <1>2
<1>4. \A r \in Slots : SlotOk(udp'[r], use'[udp'[r].app.id], WaitAt(r)')
  BY <1>3 DEF UdpInv
<1>5. \A i \in 0..MaxGuid : UseOk(use'[i])
  BY DEF UdpInv
<1>6. \A r, q \in Slots : r # q => udp'[r].app.id # udp'[q].app.id \/ udp'[r].app.id = 0
  <2> SUFFICES ASSUME NEW r \in Slots, NEW q \in Slots, r # q, udp'[r].app.id = udp'[q].app.id
               PROVE  udp'[r].app.id = 0
    OBVIOUS
  <2>1. CASE r # s /\ q # s
    BY <2>1 DEF UdpInv, IdsApart
  <2>2. CASE r = s
    BY <1>2, <2>2
  <2>3. CASE q = s
    BY <1>2, <2>3
  <2> QED BY <2>1, <2>2, <2>3
<1>7. use'[0].holder = 0
  BY UdpConsts DEF UdpInv, IdsApart
<1>8. ASSUME NEW i \in 0..MaxGuid, use'[i].holder # 0 PROVE \E r \in Slots : udp'[r].app.id = i
  <2>1. CASE i = udp'[s].app.id
    BY <2>1
  <2>2. CASE i # udp'[s].app.id
    <3>1. use'[i] = use[i]
      BY <2>2
    <3>2. PICK r \in Slots : udp[r].app.id = i
      BY <1>8, <3>1 DEF UdpInv, IdsApart
    <3>3. r # s
      BY <1>8, <2>2, <3>1, <3>2
    <3> QED BY <3>2, <3>3
  <2> QED BY <2>1, <2>2
<1> QED BY <1>4, <1>5, <1>6, <1>7, <1>8 DEF UdpInv, IdsApart

\* A step of the main loop that touches no connection.
LEMMA UdpSame ==
  ASSUME UdpInv, UNCHANGED <<udp, use, wait, guid>>, at'.slot \in Slots,
         at' = [ph |-> at'.ph, slot |-> at'.slot], listener' \in UdpLinks \cup {0}
  PROVE  UdpInv'
<1>1. UdpTypes' /\ IdsApart' /\ \A s \in Slots : WaitAt(s)' = WaitAt(s)
  BY DEF UdpInv, UdpTypes, IdsApart, WaitAt
<1> QED BY <1>1 DEF UdpInv

LEMMA OnSlotIs ==
  ASSUME UdpInv
  PROVE  OnSlot.slot \in Slots /\ OnSlot = [ph |-> OnSlot.ph, slot |-> OnSlot.slot]
<1> USE UdpConsts
<1>1. PICK p, n : at = [ph |-> p, slot |-> n] /\ n \in Slots
  BY DEF UdpInv, UdpTypes
<1>2. CASE at.ph \in {"service", "input"} \/ at.slot = UdpSlots
  BY <1>2 DEF OnSlot, Slots
<1>3. CASE ~(at.ph \in {"service", "input"} \/ at.slot = UdpSlots)
  <2>1. OnSlot = [ph |-> p, slot |-> n + 1]
    BY <1>1, <1>3 DEF OnSlot
  <2>2. n + 1 \in Slots
    BY <1>1, <1>3 DEF Slots
  <2> QED BY <2>1, <2>2
<1> QED BY <1>2, <1>3

LEMMA SlotFacts ==
  ASSUME UdpInv, NEW s \in Slots
  PROVE  /\ udp[s] \in UdpRecords /\ udp[s].app \in UdpApps /\ udp[s].app.id \in 0..MaxGuid
         /\ use[udp[s].app.id] \in UdpUses /\ WaitAt(s) \in UdpWaits
         /\ SlotOk(udp[s], use[udp[s].app.id], WaitAt(s)) /\ UseOk(use[udp[s].app.id])
<1>1. udp[s] \in UdpRecords /\ udp[s].app \in UdpApps /\ udp[s].app.id \in 0..MaxGuid
  BY DEF UdpInv, UdpTypes, UdpRecords, UdpApps
<1>2. NoWait \in UdpWaits
  BY UdpConsts DEF NoWait, UdpWaits, Slots
<1> QED BY <1>1, <1>2 DEF UdpInv, UdpTypes, WaitAt

LEMMA UdpConnectInv ==
  ASSUME UdpInv, NEW l \in UdpLinks, NEW p \in UdpPeers, UdpConnect(l, p)
  PROVE  UdpInv'
<1> USE UdpConsts
<1>1. UNCHANGED <<use, at, wait, guid, listener>>
  BY DEF UdpConnect
<1>2. CASE udp' = udp
  BY <1>1, <1>2, UdpSame DEF UdpInv, UdpTypes
<1>3. CASE udp' # udp
  <2>1. PICK s \in Slots : /\ ~udp[s].open
                           /\ udp' = [udp EXCEPT ![s] = NewConn(p, FALSE,
                                        [udp[s].app EXCEPT !.link = l, !.connect = TRUE])]
    BY <1>3, Zenon DEF UdpConnect, FreeSlot
  <2>2. PICK c \in UdpRecords, a \in UdpApps, u \in UdpUses, w \in UdpWaits :
          /\ c = udp[s] /\ a = c.app /\ u = use[a.id] /\ w = WaitAt(s)
          /\ SlotOk(c, u, w) /\ UseOk(u) /\ a.id \in 0..MaxGuid
    BY SlotFacts, Zenon
  <2>3. PICK b : b = [a EXCEPT !.link = l, !.connect = TRUE]
    OBVIOUS
  <2>4. /\ b \in UdpApps /\ b.id = a.id /\ b.link = l /\ b.connect = TRUE
        /\ b.abort = a.abort /\ b.close = a.close
    BY <2>2, <2>3 DEF UdpApps
  <2>5. PICK d : d = [open |-> TRUE, peer |-> p, met |-> FALSE, flags |-> {}, app |-> b]
    OBVIOUS
  <2>6. d \in UdpRecords /\ d.open = TRUE /\ d.met = FALSE /\ d.flags = {} /\ d.app = b
    BY <2>4, <2>5 DEF UdpRecords
  <2>7. udp' = [udp EXCEPT ![s] = d]
    BY <2>1, <2>2, <2>3, <2>5, Zenon DEF NewConn
  <2>8. udp' \in [Slots -> UdpRecords] /\ udp'[s] = d /\ \A r \in Slots : r # s => udp'[r] = udp[r]
    BY <2>6, <2>7 DEF UdpInv, UdpTypes
  <2>9. SlotOk(d, u, w)
    BY <2>1, <2>2, <2>4, <2>6 DEF SlotOk, HeldOk, WaitOk, SendOk, HeldIn, LiveIn, UdpWaits
  <2>10. UdpTypes'
    BY <1>1, <2>8 DEF UdpInv, UdpTypes
  <2>11. \A r \in Slots : WaitAt(r)' = WaitAt(r)
    BY <1>1 DEF WaitAt
  <2>12. udp'[s].app.id = udp[s].app.id /\ use'[udp'[s].app.id] = u /\ WaitAt(s)' = w
    BY <1>1, <2>2, <2>4, <2>6, <2>8, <2>11
  <2> QED BY <1>1, <2>2, <2>8, <2>9, <2>10, <2>11, <2>12, UdpFrame
<1> QED BY <1>2, <1>3

\* A step at the slot of a connection: d becomes the slot, v what is known of
\* the connection, w the event that waits there.
LEMMA UdpSlotStep ==
  ASSUME UdpInv, NEW s \in Slots, NEW d \in UdpRecords, NEW v \in UdpUses, NEW w,
         udp' = [udp EXCEPT ![s] = d], d.app.id = udp[s].app.id, d.app.id # 0,
         (use' = use /\ v = use[d.app.id]) \/ use' = [use EXCEPT ![d.app.id] = v],
         guid' = guid, listener' = listener, at' = at \/ at' = OnSlot,
         wait' \in UdpWaits, \A r \in Slots : r # s => WaitAt(r)' = WaitAt(r), WaitAt(s)' = w,
         SlotOk(d, v, w), UseOk(v)
  PROVE  UdpInv'
<1>1. udp' \in [Slots -> UdpRecords] /\ udp'[s] = d /\ \A r \in Slots : r # s => udp'[r] = udp[r]
  BY DEF UdpInv, UdpTypes
<1>2. udp[s].app.id \in 0..MaxGuid
  BY SlotFacts
<1>3. /\ use' \in [0..MaxGuid -> UdpUses] /\ use'[d.app.id] = v
      /\ \A i \in 0..MaxGuid : i # d.app.id => use'[i] = use[i]
  BY <1>2 DEF UdpInv, UdpTypes
<1>4. at'.slot \in Slots /\ at' = [ph |-> at'.ph, slot |-> at'.slot]
  <2>1. CASE at' = at
    BY <2>1 DEF UdpInv, UdpTypes
  <2>2. CASE at' = OnSlot
    BY <2>2, OnSlotIs
  <2> QED BY <2>1, <2>2
<1>5. UdpTypes'
  BY <1>1, <1>3, <1>4 DEF UdpInv, UdpTypes
<1>6. udp'[s].app.id = udp[s].app.id /\ udp'[s].app.id # 0 /\ use'[udp'[s].app.id] = v
  BY <1>1, <1>3
<1>7. \A i \in 0..MaxGuid : i # udp'[s].app.id => use'[i] = use[i]
  BY <1>1, <1>3
<1> QED BY <1>1, <1>5, <1>6, <1>7, UdpFrame

LEMMA SendKept ==
  ASSUME NEW c, NEW u, NEW w, SendOk(c, u, w), LiveIn(c, w), NEW d, NEW v,
         d.flags = c.flags, d.app.send = c.app.send,
         v.busy = u.busy, v.given = u.given, v.wire = u.wire
  PROVE  SendOk(d, v, w)
<1>1. OnWire(v) <=> OnWire(u)
  BY DEF OnWire
<1> QED BY <1>1 DEF SendOk

LEMMA UdpRequestInv ==
  ASSUME UdpInv, NEW l \in UdpLinks, NEW id \in 1..MaxGuid,
         UdpRequest(l, id, "abort") \/ UdpRequest(l, id, "close")
  PROVE  UdpInv'
<1> USE UdpConsts
<1>1. PICK s \in Slots :
        /\ udp[s].app.id = id /\ use[id].holder = l /\ ~use[id].over
        /\ \/ udp' = [udp EXCEPT ![s].app["abort"] = TRUE]
           \/ udp' = [udp EXCEPT ![s].app["close"] = TRUE]
        /\ use' = [use EXCEPT ![id].over = TRUE]
        /\ UNCHANGED <<at, wait, guid, listener>>
  BY Zenon DEF UdpRequest, Holds, Put, Of
<1>2. PICK c \in UdpRecords, a \in UdpApps, u \in UdpUses, w \in UdpWaits :
        /\ c = udp[s] /\ a = c.app /\ u = use[a.id] /\ w = WaitAt(s)
        /\ SlotOk(c, u, w) /\ UseOk(u) /\ a.id \in 0..MaxGuid
  BY SlotFacts, Zenon
<1>3. PICK b : /\ b = [a EXCEPT !.abort = TRUE] \/ b = [a EXCEPT !.close = TRUE]
               /\ udp' = [udp EXCEPT ![s] = [c EXCEPT !.app = b]]
  <2>1. CASE udp' = [udp EXCEPT ![s].app["abort"] = TRUE]
    BY <1>2, <2>1
  <2>2. CASE udp' = [udp EXCEPT ![s].app["close"] = TRUE]
    BY <1>2, <2>2
  <2> QED BY <1>1, <2>1, <2>2
<1>4. /\ b \in UdpApps /\ b.id = a.id /\ b.link = a.link /\ b.connect = a.connect
      /\ b.send = a.send
      /\ \/ b.abort = TRUE /\ b.close = a.close
         \/ b.close = TRUE /\ b.abort = a.abort
  BY <1>2, <1>3 DEF UdpApps
<1>5. PICK d : d = [c EXCEPT !.app = b]
  OBVIOUS
<1>6. d \in UdpRecords /\ d.open = c.open /\ d.met = c.met /\ d.flags = c.flags /\ d.app = b
  BY <1>2, <1>4, <1>5 DEF UdpRecords
<1>7. PICK v : v = [u EXCEPT !.over = TRUE]
  OBVIOUS
<1>8. /\ v \in UdpUses /\ v.holder = u.holder /\ v.given = u.given /\ v.wire = u.wire
      /\ v.busy = u.busy /\ v.over = TRUE /\ v.odd = u.odd
  BY <1>2, <1>7 DEF UdpUses
<1>9. u.holder # 0 /\ ~u.over /\ a.id = id /\ a.id # 0
  BY <1>1, <1>2
<1>10. LiveIn(c, w) /\ ~a.abort /\ ~a.close
  BY <1>2, <1>9 DEF SlotOk, HeldOk, WaitOk, HeldIn
<1>11. LiveIn(d, w) /\ w.ev # "closed"
  BY <1>2, <1>4, <1>6, <1>10 DEF LiveIn, SlotOk, WaitOk
<1>12. HeldOk(d, v, w)
  BY <1>2, <1>4, <1>6, <1>8, <1>9, <1>10, <1>11 DEF SlotOk, HeldOk, HeldIn, LiveIn
<1>13. WaitOk(d, w)
  BY <1>2, <1>4, <1>6, <1>10, <1>11 DEF SlotOk, WaitOk
<1>14. SendOk(d, v, w)
  BY <1>2, <1>4, <1>6, <1>8, <1>10, SendKept DEF SlotOk
<1>15. UseOk(v)
  BY <1>2, <1>8 DEF UseOk
<1>16. use' = [use EXCEPT ![d.app.id] = v]
  BY <1>1, <1>2, <1>4, <1>6, <1>7
<1>17. \A r \in Slots : WaitAt(r)' = WaitAt(r)
  BY <1>1 DEF WaitAt
<1>18. wait' \in UdpWaits
  BY <1>1 DEF UdpInv, UdpTypes
<1>19. d.app.id = udp[s].app.id /\ d.app.id # 0 /\ SlotOk(d, v, w) /\ udp' = [udp EXCEPT ![s] = d]
  BY <1>2, <1>3, <1>4, <1>5, <1>6, <1>9, <1>12, <1>13, <1>14 DEF SlotOk
<1> QED BY <1>1, <1>2, <1>6, <1>8, <1>15, <1>16, <1>17, <1>18, <1>19, UdpSlotStep

LEMMA UdpInitSendInv ==
  ASSUME UdpInv, NEW l \in UdpLinks, NEW id \in 1..MaxGuid, UdpInitSend(l, id)
  PROVE  UdpInv'
<1> USE UdpConsts
<1>1. PICK s \in Slots :
        /\ udp[s].app.id = id /\ use[id].holder = l /\ ~use[id].over /\ ~use[id].busy
        /\ udp' = [udp EXCEPT ![s].app["send"] = udp[s].app.send + 1]
        /\ use' = [use EXCEPT ![id].busy = TRUE]
        /\ UNCHANGED <<at, wait, guid, listener>>
  BY Zenon DEF UdpInitSend, Holds, Put, Of
<1>2. PICK c \in UdpRecords, a \in UdpApps, u \in UdpUses, w \in UdpWaits :
        /\ c = udp[s] /\ a = c.app /\ u = use[a.id] /\ w = WaitAt(s)
        /\ SlotOk(c, u, w) /\ UseOk(u) /\ a.id \in 0..MaxGuid
  BY SlotFacts, Zenon
<1>3. PICK b : b = [a EXCEPT !.send = a.send + 1]
  OBVIOUS
<1>4. /\ b \in UdpApps /\ b.id = a.id /\ b.link = a.link /\ b.connect = a.connect
      /\ b.send = a.send + 1 /\ b.abort = a.abort /\ b.close = a.close
  BY <1>2, <1>3 DEF UdpApps
<1>5. PICK d : d = [c EXCEPT !.app = b]
  OBVIOUS
<1>6. d \in UdpRecords /\ d.open = c.open /\ d.met = c.met /\ d.flags = c.flags /\ d.app = b
  BY <1>2, <1>4, <1>5 DEF UdpRecords
<1>7. PICK v : v = [u EXCEPT !.busy = TRUE]
  OBVIOUS
<1>8. /\ v \in UdpUses /\ v.holder = u.holder /\ v.given = u.given /\ v.wire = u.wire
      /\ v.busy = TRUE /\ v.over = u.over /\ v.odd = u.odd
  BY <1>2, <1>7 DEF UdpUses
<1>9. u.holder # 0 /\ ~u.over /\ ~u.busy /\ a.id = id /\ a.id # 0
  BY <1>1, <1>2
<1>10. LiveIn(c, w) /\ ~a.abort /\ ~a.close
  BY <1>2, <1>9 DEF SlotOk, HeldOk, WaitOk, HeldIn
<1>11. LiveIn(d, w) /\ w.ev # "closed"
  BY <1>2, <1>4, <1>6, <1>10 DEF LiveIn, SlotOk, WaitOk
<1>12. HeldOk(d, v, w)
  BY <1>2, <1>4, <1>6, <1>8, <1>9, <1>10, <1>11 DEF SlotOk, HeldOk, HeldIn, LiveIn
<1>13. WaitOk(d, w)
  BY <1>2, <1>4, <1>6, <1>10, <1>11 DEF SlotOk, WaitOk, LiveIn
<1>14. a.send = 0 /\ c.flags = {} /\ w.ev \notin {"request", "sent", "resend"}
  BY <1>2, <1>9, <1>10 DEF SlotOk, SendOk
<1>15. SendOk(d, v, w)
  BY <1>4, <1>6, <1>8, <1>14 DEF SendOk
<1>16. UseOk(v)
  BY <1>2, <1>8 DEF UseOk
<1>17. use' = [use EXCEPT ![d.app.id] = v] /\ udp' = [udp EXCEPT ![s] = d]
  BY <1>1, <1>2, <1>3, <1>4, <1>5, <1>6, <1>7
<1>18. \A r \in Slots : WaitAt(r)' = WaitAt(r)
  BY <1>1 DEF WaitAt
<1>19. wait' \in UdpWaits
  BY <1>1 DEF UdpInv, UdpTypes
<1>20. d.app.id = udp[s].app.id /\ d.app.id # 0 /\ SlotOk(d, v, w)
  BY <1>2, <1>4, <1>6, <1>9, <1>12, <1>13, <1>15 DEF SlotOk
<1> QED BY <1>1, <1>2, <1>6, <1>8, <1>16, <1>17, <1>18, <1>19, <1>20, UdpSlotStep

LEMMA UdpBindRemoteInv ==
  ASSUME UdpInv, NEW l \in UdpLinks, NEW id \in 1..MaxGuid, NEW p \in UdpPeers,
         UdpBindRemote(l, id, p)
  PROVE  UdpInv'
<1> USE UdpConsts
<1>1. PICK s \in Slots :
        /\ udp[s].app.id = id
        /\ udp' = [udp EXCEPT ![s].peer = p, ![s].met = FALSE]
        /\ UNCHANGED <<use, at, wait, guid, listener>>
  BY Zenon DEF UdpBindRemote, Holds, Of
<1>2. PICK c \in UdpRecords, a \in UdpApps, u \in UdpUses, w \in UdpWaits :
        /\ c = udp[s] /\ a = c.app /\ u = use[a.id] /\ w = WaitAt(s)
        /\ SlotOk(c, u, w) /\ UseOk(u) /\ a.id \in 0..MaxGuid
  BY SlotFacts, Zenon
<1>3. PICK d : d = [c EXCEPT !.peer = p, !.met = FALSE]
  OBVIOUS
<1>4. d \in UdpRecords /\ d.open = c.open /\ d.met = FALSE /\ d.flags = c.flags /\ d.app = a
  BY <1>2, <1>3 DEF UdpRecords
<1>5. udp' = [udp EXCEPT ![s] = d]
  BY <1>1, <1>2, <1>3 DEF UdpInv, UdpTypes
<1>6. LiveIn(d, w) <=> LiveIn(c, w)
  BY <1>2, <1>4 DEF LiveIn
<1>7. HeldOk(d, u, w) /\ WaitOk(d, w) /\ SendOk(d, u, w)
  BY <1>2, <1>4, <1>6 DEF SlotOk, HeldOk, WaitOk, SendOk, HeldIn
<1>8. \A r \in Slots : WaitAt(r)' = WaitAt(r)
  BY <1>1 DEF WaitAt
<1>9. wait' \in UdpWaits /\ SlotOk(d, u, w) /\ d.app.id = udp[s].app.id /\ d.app.id # 0
  BY <1>1, <1>2, <1>4, <1>7 DEF UdpInv, UdpTypes, SlotOk
<1> QED BY <1>1, <1>2, <1>4, <1>5, <1>8, <1>9, UdpSlotStep

\* There is an id for a new connection: there are more ids than slots.
LEMMA NextIdIs ==
  ASSUME UdpInv, NEW s \in Slots
  PROVE  NextId(s) \in 1..MaxGuid /\ Of(NextId(s)) \ {s} = {}
<1> USE UdpConsts
<1> DEFINE free == {i \in 1..MaxGuid : Of(i) \ {s} = {}}
           dist(i) == (i + MaxGuid - guid) % MaxGuid
<1>1. free # {}
  <2> SUFFICES ASSUME free = {} PROVE FALSE
    OBVIOUS
  <2>1. \A i \in 1..MaxGuid : \E r \in Slots : udp[r].app.id = i
    BY DEF Of
  <2> DEFINE f == [i \in 1..MaxGuid |-> CHOOSE r \in Slots : udp[r].app.id = i]
  <2>2. f \in [1..MaxGuid -> Slots] /\ \A i \in 1..MaxGuid : udp[f[i]].app.id = i
    BY <2>1
  <2>3. /\ IsFiniteSet(1..MaxGuid) /\ Cardinality(1..MaxGuid) = MaxGuid
        /\ IsFiniteSet(Slots) /\ Cardinality(Slots) = UdpSlots
    BY FS_Interval DEF Slots
  <2> HIDE DEF f
  <2>4. \E x, y \in 1..MaxGuid : x # y /\ f[x] = f[y]
    BY <2>2, <2>3, FS_PigeonHole
  <2> QED BY <2>2, <2>4
<1>2. guid \in 1..MaxGuid
  BY DEF UdpInv, UdpTypes
<1>3. \A i \in 1..MaxGuid : dist(i) \in Nat
  BY <1>2
<1> DEFINE D == {dist(i) : i \in free}
<1>4. D \subseteq Nat /\ D # {}
  BY <1>1, <1>3
<1>5. PICK m \in D : \A y \in D : m <= y
  <2> HIDE DEF D
  <2> QED BY <1>4, LeastOf
<1>6. PICK i \in 1..MaxGuid : Of(i) \ {s} = {} /\ dist(i) = m
  BY <1>5
<1>7. \A j \in 1..MaxGuid : Of(j) \ {s} = {} => dist(i) <= dist(j)
  BY <1>5, <1>6
<1> QED BY <1>6, <1>7, Zenon DEF NextId

\* A slot whose connection is new: its id is one that no other slot has.
LEMMA UdpNewStep ==
  ASSUME UdpInv, wait = NoWait, NEW s \in Slots, NEW d \in UdpRecords, NEW w \in UdpWaits,
         ~udp[s].open \/ udp[s].app.connect,
         udp' = [udp EXCEPT ![s] = d], d.app.id = NextId(s), guid' = NextId(s),
         use' = use, listener' = listener, at' = OnSlot, wait' = w, w.slot = s,
         d.open, ~d.app.connect, d.flags = {}, d.app.link # 0, d.app.send = 0,
         ~d.app.abort, ~d.app.close, w.ev = "new", w.due \in {"connect", "recv"}
  PROVE  UdpInv'
<1> USE UdpConsts
<1>1. udp' \in [Slots -> UdpRecords] /\ udp'[s] = d /\ \A r \in Slots : r # s => udp'[r] = udp[r]
  BY DEF UdpInv, UdpTypes
<1>2. d.app.id \in 1..MaxGuid /\ Of(d.app.id) \ {s} = {}
  BY NextIdIs
<1>3. UdpTypes'
  BY <1>1, <1>2, OnSlotIs DEF UdpInv, UdpTypes
<1>4. NoWait.ev = "none" /\ WaitAt(s) = NoWait
  BY DEF NoWait, WaitAt
<1>5. use[udp[s].app.id].holder = 0
  BY <1>4, SlotFacts DEF SlotOk, HeldOk, HeldIn, LiveIn
<1>6. use[d.app.id].holder = 0
  <2> SUFFICES ASSUME use[d.app.id].holder # 0 PROVE FALSE
    OBVIOUS
  <2>1. PICK r \in Slots : udp[r].app.id = d.app.id
    BY <1>2 DEF UdpInv, IdsApart
  <2>2. r = s
    BY <1>2, <2>1 DEF Of
  <2> QED BY <1>5, <2>1, <2>2
<1>7. PICK u \in UdpUses : u = use[d.app.id] /\ UseOk(u)
  BY <1>2 DEF UdpInv, UdpTypes
<1>8. SlotOk(d, u, w)
  BY <1>2, <1>6, <1>7 DEF SlotOk, HeldOk, WaitOk, SendOk, HeldIn, LiveIn
<1>9. WaitAt(s)' = w /\ \A r \in Slots : r # s => WaitAt(r)' = WaitAt(r)
  BY DEF WaitAt
<1>10. use'[udp'[s].app.id] = u /\ Of(udp'[s].app.id) \ {s} = {}
  BY <1>1, <1>2, <1>7
<1> QED BY <1>1, <1>3, <1>5, <1>7, <1>8, <1>9, <1>10, UdpFrame

\* An event is raised at the slot of a connection.
LEMMA UdpRaiseStep ==
  ASSUME UdpInv, wait = NoWait, NEW s \in Slots, NEW d \in UdpRecords, NEW w \in UdpWaits,
         udp' = [udp EXCEPT ![s] = d], d.app = udp[s].app, d.app.id # 0,
         use' = use, guid' = guid, listener' = listener, at' = OnSlot, wait' = w, w.slot = s,
         SlotOk(d, use[d.app.id], w)
  PROVE  UdpInv'
<1>1. use[d.app.id] \in UdpUses /\ UseOk(use[d.app.id])
  BY SlotFacts
<1>2. WaitAt(s)' = w /\ \A r \in Slots : r # s => WaitAt(r)' = WaitAt(r)
  BY DEF WaitAt
<1> QED BY <1>1, <1>2, UdpSlotStep

LEMMA HandlePollInv ==
  ASSUME UdpInv, wait = NoWait, NEW s \in Slots, udp[s].open, HandlePoll(s),
         at' = OnSlot, use' = use, listener' = listener
  PROVE  UdpInv'
<1> USE UdpConsts
<1>1. PICK c \in UdpRecords, a \in UdpApps, u \in UdpUses :
        /\ c = udp[s] /\ a = c.app /\ u = use[a.id] /\ SlotOk(c, u, NoWait) /\ a.id \in 0..MaxGuid
  <2>1. WaitAt(s) = NoWait
    BY DEF WaitAt
  <2> QED BY <2>1, SlotFacts, Zenon
<1>2. NoWait.ev = "none"
  BY DEF NoWait
<1>3. ASSUME NEW ev \in {"new", "closed", "request", "sent", "resend", "recv"},
             NEW isDue \in {"none", "connect", "recv", "abort", "close", "send"}, Raise(ev, s, isDue)
      PROVE  /\ wait' \in UdpWaits /\ wait'.ev = ev /\ wait'.slot = s /\ wait'.due = isDue
             /\ wait'.link = a.link
  <2>1. wait' = [ev |-> ev, slot |-> s, link |-> a.link, due |-> isDue]
    BY <1>1, <1>3 DEF Raise
  <2>2. a.link \in UdpLinks \cup {0}
    BY <1>1 DEF UdpApps
  <2> QED BY <2>1, <2>2 DEF UdpWaits
<1>4. CASE /\ a.abort \/ a.close
           /\ udp' = [udp EXCEPT ![s].open = FALSE]
           /\ Raise("closed", s, IF a.abort THEN "abort" ELSE "close")
           /\ UNCHANGED guid
  <2>1. PICK d : d = [c EXCEPT !.open = FALSE]
    OBVIOUS
  <2>2. d \in UdpRecords /\ d.open = FALSE /\ d.met = c.met /\ d.flags = c.flags /\ d.app = a
    BY <1>1, <2>1 DEF UdpRecords
  <2>3. udp' = [udp EXCEPT ![s] = d]
    BY <1>1, <1>4, <2>1
  <2>4. PICK isDue \in {"abort", "close"} :
          isDue = IF a.abort THEN "abort" ELSE "close"
    OBVIOUS
  <2>5. PICK w \in UdpWaits : w = wait' /\ w.ev = "closed" /\ w.slot = s /\ w.due = isDue
    <3>1. Raise("closed", s, isDue)
      BY <1>4, <2>4
    <3> QED BY <1>3, <3>1
  <2>6. HeldIn(c, NoWait) /\ u.over /\ u.holder # 0 /\ a.id # 0 /\ a.link # 0
    BY <1>1, <1>4 DEF SlotOk, HeldOk
  <2>7. HeldOk(d, u, w)
    BY <1>1, <2>2, <2>5, <2>6 DEF SlotOk, HeldOk, HeldIn, LiveIn
  <2>8. WaitOk(d, w) /\ SendOk(d, u, w)
    BY <1>4, <2>2, <2>4, <2>5 DEF WaitOk, SendOk, LiveIn
  <2> QED BY <1>1, <1>4, <2>2, <2>3, <2>5, <2>6, <2>7, <2>8, UdpRaiseStep DEF SlotOk
<1>5. CASE /\ ~(a.abort \/ a.close) /\ a.connect
           /\ udp' = [udp EXCEPT ![s].app = Initialised(s, a.link)]
           /\ guid' = NextId(s)
           /\ Raise("new", s, "connect")
  <2>1. PICK g : g = NextId(s)
    OBVIOUS
  <2>2. g \in 1..MaxGuid
    BY <2>1, NextIdIs
  <2>3. PICK b : b = [id |-> g, link |-> a.link, connect |-> FALSE, abort |-> FALSE,
                      close |-> FALSE, send |-> 0]
    OBVIOUS
  <2>4. /\ b \in UdpApps /\ b.id = g /\ b.link = a.link /\ b.connect = FALSE /\ b.abort = FALSE
        /\ b.close = FALSE /\ b.send = 0
    BY <1>1, <2>2, <2>3 DEF UdpApps
  <2>5. Initialised(s, a.link) = b
    <3>1. Initialised(s, a.link) = [a EXCEPT !.id = g, !.link = a.link,
            !.connect = FALSE, !.abort = FALSE, !.close = FALSE, !.send = 0]
      BY <1>1, <2>1 DEF Initialised
    <3> QED BY <1>1, <2>3, <3>1 DEF UdpApps
  <2>6. PICK d : d = [c EXCEPT !.app = b]
    OBVIOUS
  <2>7. d \in UdpRecords /\ d.open = c.open /\ d.flags = c.flags /\ d.app = b
    BY <1>1, <2>4, <2>6 DEF UdpRecords
  <2>8. udp' = [udp EXCEPT ![s] = d]
    BY <1>1, <1>5, <2>5, <2>6
  <2>9. PICK w \in UdpWaits : w = wait' /\ w.ev = "new" /\ w.slot = s /\ w.due = "connect"
    BY <1>3, <1>5
  <2>10. c.flags = {} /\ a.link # 0
    BY <1>1, <1>5 DEF SlotOk, HeldOk
  <2>11. udp[s].app.connect /\ d.open /\ d.flags = {} /\ d.app.link # 0 /\ d.app.id = NextId(s)
    BY <1>1, <1>5, <2>1, <2>4, <2>7, <2>10
  <2> QED BY <1>5, <2>4, <2>7, <2>8, <2>9, <2>11, UdpNewStep
<1>6. CASE /\ ~(a.abort \/ a.close \/ a.connect) /\ a.send > 0
           /\ Raise("request", s, "send")
           /\ UNCHANGED <<udp, guid>>
  <2>1. PICK w \in UdpWaits : /\ w = wait' /\ w.ev = "request" /\ w.slot = s /\ w.due = "send"
                              /\ w.link = a.link
    BY <1>3, <1>6
  <2>2. LiveIn(c, NoWait)
    BY <1>1, <1>2, <1>6 DEF LiveIn
  <2>3. u.holder # 0 /\ a.id # 0 /\ a.link # 0
    BY <1>1, <2>2 DEF SlotOk, HeldOk, HeldIn
  <2>4. a.send = 1 /\ u.busy /\ c.flags = {}
    BY <1>1, <1>6, <2>2 DEF SlotOk, SendOk, UdpApps
  <2>5. HeldOk(c, u, w)
    BY <1>1, <1>2, <1>6, <2>1, <2>2, <2>3 DEF SlotOk, HeldOk, HeldIn, LiveIn
  <2>6. WaitOk(c, w) /\ SendOk(c, u, w)
    BY <1>1, <1>6, <2>1, <2>3, <2>4 DEF WaitOk, SendOk
  <2>7. udp' = [udp EXCEPT ![s] = c]
    BY <1>1, <1>6 DEF UdpInv, UdpTypes
  <2> QED BY <1>1, <1>6, <2>1, <2>3, <2>5, <2>6, <2>7, UdpRaiseStep DEF SlotOk
<1>7. CASE ~Needs(s) /\ wait' = NoWait /\ UNCHANGED <<udp, guid>>
  BY <1>7, OnSlotIs, UdpSame DEF UdpInv, UdpTypes
<1>8. a = udp[s].app
  BY <1>1
<1> QED BY <1>4, <1>5, <1>6, <1>7, <1>8, Zenon DEF HandlePoll

\* ARP's mark becomes the event it stands for.
LEMMA UdpFlagInv ==
  ASSUME UdpInv, wait = NoWait, NEW s \in Slots, udp[s].open,
         NEW f \in {"sent", "pending"}, f \in udp[s].flags,
         NEW ev, ev = IF f = "sent" THEN "sent" ELSE "resend",
         udp' = [udp EXCEPT ![s].flags = FlagDown(s, f)], Raise(ev, s, "none"),
         guid' = guid, at' = OnSlot, use' = use, listener' = listener
  PROVE  UdpInv'
<1> USE UdpConsts
<1>1. PICK c \in UdpRecords, a \in UdpApps, u \in UdpUses :
        /\ c = udp[s] /\ a = c.app /\ u = use[a.id] /\ SlotOk(c, u, NoWait) /\ a.id \in 0..MaxGuid
  <2>1. WaitAt(s) = NoWait
    BY DEF WaitAt
  <2> QED BY <2>1, SlotFacts, Zenon
<1>2. NoWait.ev = "none"
  BY DEF NoWait
<1>3. c.open /\ c.flags # {} /\ c.flags \subseteq {"sent", "pending"} /\ f \in c.flags
  BY <1>1 DEF UdpRecords
<1>4. LiveIn(c, NoWait)
  BY <1>1, <1>2, <1>3 DEF LiveIn, SlotOk, HeldOk
<1>5. u.holder # 0 /\ a.id # 0 /\ a.link # 0 /\ ~a.connect
  BY <1>1, <1>4 DEF SlotOk, HeldOk, HeldIn, LiveIn
<1>6. /\ a.send = 0 /\ u.busy /\ c.flags # {"sent", "pending"}
      /\ "sent" \in c.flags => OnWire(u)
      /\ "pending" \in c.flags => u.given > 0 /\ ~OnWire(u)
  BY <1>1, <1>3, <1>4 DEF SlotOk, SendOk
<1>7. c.flags \ {f} = {}
  BY <1>3, <1>6
<1>8. PICK d : d = [c EXCEPT !.flags = {}]
  OBVIOUS
<1>9. d \in UdpRecords /\ d.open = c.open /\ d.met = c.met /\ d.flags = {} /\ d.app = a
  BY <1>1, <1>8 DEF UdpRecords
<1>10. udp' = [udp EXCEPT ![s] = d]
  BY <1>1, <1>7, <1>8 DEF FlagDown
<1>11. PICK w \in UdpWaits : /\ w = wait' /\ w.ev = ev /\ w.slot = s /\ w.due = "none"
                             /\ w.link = a.link
  <2>1. wait' = [ev |-> ev, slot |-> s, link |-> a.link, due |-> "none"]
    BY <1>1 DEF Raise
  <2>2. a.link \in UdpLinks \cup {0} /\ ev \in {"sent", "resend"}
    BY <1>1 DEF UdpApps
  <2> QED BY <2>1, <2>2 DEF UdpWaits
<1>12. HeldOk(d, u, w)
  BY <1>1, <1>2, <1>4, <1>5, <1>9, <1>11 DEF SlotOk, HeldOk, HeldIn, LiveIn
<1>13. WaitOk(d, w)
  BY <1>3, <1>5, <1>9, <1>11 DEF WaitOk
<1>14. SendOk(d, u, w)
  BY <1>3, <1>6, <1>9, <1>11 DEF SendOk
<1> QED BY <1>1, <1>5, <1>9, <1>10, <1>11, <1>12, <1>13, <1>14, UdpRaiseStep DEF SlotOk

LEMMA TurnInv ==
  ASSUME UdpInv, Turn
  PROVE  UdpInv'
<1>1. at.slot \in Slots
  BY DEF UdpInv, UdpTypes
<1>2. PICK s \in Slots : s = at.slot
  BY <1>1
<1>3. /\ wait = NoWait /\ at.ph \in {"poll", "acks", "arp", "timer"} /\ at' = OnSlot
      /\ use' = use /\ listener' = listener
  BY DEF Turn
<1>4. CASE ~(TurnFor(s) /\ udp[s].open)
  <2>1. UNCHANGED <<udp, wait, guid>>
    BY <1>2, <1>4, Zenon DEF Turn
  <2> QED BY <1>3, <2>1, OnSlotIs, UdpSame DEF UdpInv, UdpTypes
<1>5. CASE TurnFor(s) /\ udp[s].open
  <2>1. CASE at.ph \in {"poll", "timer"}
    <3>1. HandlePoll(s)
      BY <1>2, <1>5, <2>1 DEF Turn
    <3> QED BY <1>3, <1>5, <3>1, HandlePollInv
  <2>2. CASE at.ph = "acks"
    <3>1. /\ udp' = [udp EXCEPT ![s].flags = FlagDown(s, "sent")]
          /\ Raise("sent", s, "none") /\ UNCHANGED guid
      BY <1>2, <1>5, <2>2 DEF Turn
    <3>2. "sent" \in udp[s].flags
      BY <1>5, <2>2 DEF TurnFor
    <3> QED BY <1>3, <1>5, <3>1, <3>2, UdpFlagInv
  <2>3. CASE at.ph = "arp"
    <3>1. /\ udp' = [udp EXCEPT ![s].flags = FlagDown(s, "pending")]
          /\ Raise("resend", s, "none") /\ UNCHANGED guid
      BY <1>2, <1>5, <2>3 DEF Turn
    <3>2. "pending" \in udp[s].flags
      BY <1>5, <2>3 DEF TurnFor
    <3> QED BY <1>3, <1>5, <3>1, <3>2, UdpFlagInv
  <2> QED BY <1>3, <2>1, <2>2, <2>3
<1> QED BY <1>4, <1>5

LEMMA UdpFoundInv ==
  ASSUME UdpInv, NEW p \in UdpPeers, UdpFound(p)
  PROVE  UdpInv'
<1> USE UdpConsts
<1>1. /\ wait = NoWait /\ Match(p) # {} /\ at' = OnSlot /\ Raise("recv", First(Match(p)), "none")
      /\ UNCHANGED <<udp, use, guid, listener>>
  BY DEF UdpFound, Input
<1>2. PICK s \in Slots : s = First(Match(p)) /\ udp[s].open /\ udp[s].met
  <2>1. Match(p) \subseteq Nat /\ Match(p) \subseteq Slots
    BY DEF Match, Slots
  <2>2. PICK m \in Match(p) : \A r \in Match(p) : m <= r
    BY <1>1, <2>1, LeastOf
  <2>3. First(Match(p)) \in Match(p)
    BY <2>2, Zenon DEF First
  <2> QED BY <2>1, <2>3 DEF Match
<1>3. PICK c \in UdpRecords, a \in UdpApps, u \in UdpUses :
        /\ c = udp[s] /\ a = c.app /\ u = use[a.id] /\ SlotOk(c, u, NoWait) /\ a.id \in 0..MaxGuid
  <2>1. WaitAt(s) = NoWait
    BY <1>1 DEF WaitAt
  <2> QED BY <2>1, SlotFacts, Zenon
<1>4. NoWait.ev = "none" /\ c.open /\ c.met
  BY <1>2, <1>3 DEF NoWait
<1>5. LiveIn(c, NoWait)
  BY <1>3, <1>4 DEF LiveIn, SlotOk, HeldOk
<1>6. u.holder # 0 /\ a.id # 0 /\ a.link # 0 /\ ~a.connect
  BY <1>3, <1>5 DEF SlotOk, HeldOk, HeldIn, LiveIn
<1>7. PICK w \in UdpWaits : w = wait' /\ w.ev = "recv" /\ w.slot = s /\ w.due = "none"
  <2>1. wait' = [ev |-> "recv", slot |-> s, link |-> a.link, due |-> "none"]
    BY <1>1, <1>2, <1>3 DEF Raise
  <2>2. a.link \in UdpLinks \cup {0}
    BY <1>3 DEF UdpApps
  <2> QED BY <2>1, <2>2 DEF UdpWaits
<1>8. HeldOk(c, u, w)
  BY <1>3, <1>4, <1>5, <1>6, <1>7 DEF SlotOk, HeldOk, HeldIn, LiveIn
<1>9. WaitOk(c, w)
  BY <1>3, <1>4, <1>6, <1>7 DEF WaitOk
<1>10. SendOk(c, u, w)
  BY <1>3, <1>4, <1>5, <1>7 DEF SlotOk, SendOk
<1>11. udp' = [udp EXCEPT ![s] = c]
  BY <1>1, <1>3 DEF UdpInv, UdpTypes
<1> QED BY <1>1, <1>3, <1>6, <1>7, <1>8, <1>9, <1>10, <1>11, UdpRaiseStep DEF SlotOk

LEMMA DatagramToListenerInv ==
  ASSUME UdpInv, NEW p \in UdpPeers, DatagramToListener(p)
  PROVE  UdpInv'
<1> USE UdpConsts
<1>1. PICK s \in Slots :
        /\ wait = NoWait /\ listener # 0 /\ ~udp[s].open /\ at' = OnSlot
        /\ udp' = [udp EXCEPT ![s] = NewConn(p, TRUE, Initialised(s, listener))]
        /\ guid' = NextId(s)
        /\ wait' = [ev |-> "new", slot |-> s, link |-> listener, due |-> "recv"]
        /\ UNCHANGED <<use, listener>>
  BY Zenon DEF DatagramToListener, Input, FreeSlot
<1>2. PICK a \in UdpApps : a = udp[s].app
  BY SlotFacts
<1>3. PICK g \in 1..MaxGuid : g = NextId(s)
  BY NextIdIs
<1>4. listener \in UdpLinks \cup {0}
  BY DEF UdpInv, UdpTypes
<1>5. PICK b : b = [id |-> g, link |-> listener, connect |-> FALSE, abort |-> FALSE,
                    close |-> FALSE, send |-> 0]
  OBVIOUS
<1>6. /\ b \in UdpApps /\ b.id = g /\ b.link = listener /\ b.connect = FALSE /\ b.abort = FALSE
      /\ b.close = FALSE /\ b.send = 0
  BY <1>3, <1>4, <1>5 DEF UdpApps
<1>7. Initialised(s, listener) = b
  <2>1. Initialised(s, listener) = [a EXCEPT !.id = g, !.link = listener,
          !.connect = FALSE, !.abort = FALSE, !.close = FALSE, !.send = 0]
    BY <1>2, <1>3 DEF Initialised
  <2> QED BY <1>2, <1>5, <2>1 DEF UdpApps
<1>8. PICK d : d = [open |-> TRUE, peer |-> p, met |-> TRUE, flags |-> {}, app |-> b]
  OBVIOUS
<1>9. d \in UdpRecords /\ d.open = TRUE /\ d.flags = {} /\ d.app = b
  BY <1>6, <1>8 DEF UdpRecords
<1>10. udp' = [udp EXCEPT ![s] = d]
  BY <1>1, <1>7, <1>8 DEF NewConn
<1>11. PICK w \in UdpWaits : w = wait' /\ w.ev = "new" /\ w.slot = s /\ w.due = "recv"
  BY <1>1, <1>4 DEF UdpWaits
<1>12. d.open /\ d.app.link # 0 /\ d.app.id = NextId(s)
  BY <1>1, <1>3, <1>6, <1>9
<1> QED BY <1>1, <1>6, <1>9, <1>10, <1>11, <1>12, UdpNewStep

\* The slot whose event waits.
LEMMA WaitFacts ==
  ASSUME UdpInv
  PROVE  \E s \in Slots, c \in UdpRecords, a \in UdpApps, u \in UdpUses, w \in UdpWaits :
            /\ s = wait.slot /\ w = wait /\ c = udp[s] /\ a = c.app /\ u = use[a.id]
            /\ SlotOk(c, u, w) /\ UseOk(u) /\ a.id \in 0..MaxGuid
<1>1. wait \in UdpWaits /\ wait.slot \in Slots /\ WaitAt(wait.slot) = wait
  BY DEF UdpInv, UdpTypes, UdpWaits, WaitAt
<1> QED BY <1>1, SlotFacts, Zenon

\* The event was taken, and at most another one is raised at the same slot.
LEMMA WaitEnds ==
  ASSUME UdpInv, NEW s \in Slots, s = wait.slot, wait' = NoWait \/ wait'.slot = s,
         wait' \in UdpWaits \cup {NoWait}
  PROVE  /\ wait' \in UdpWaits
         /\ \A r \in Slots : r # s => WaitAt(r)' = WaitAt(r)
         /\ WaitAt(s)' = wait'
<1>1. NoWait \in UdpWaits
  BY UdpConsts DEF NoWait, UdpWaits, Slots
<1> QED BY <1>1 DEF WaitAt

LEMMA UnusedIs ==
  /\ Unused \in UdpUses /\ Unused.holder = 0 /\ Unused.given = 0 /\ Unused.wire = <<>>
  /\ Unused.busy = FALSE /\ Unused.over = FALSE /\ Unused.odd = {}
BY DEF Unused, UdpUses

LEMMA TakeNewInv ==
  ASSUME UdpInv, TakeNew
  PROVE  UdpInv'
<1> USE UdpConsts
<1>1. PICK s \in Slots, c \in UdpRecords, a \in UdpApps, u \in UdpUses, w \in UdpWaits :
        /\ s = wait.slot /\ w = wait /\ c = udp[s] /\ a = c.app /\ u = use[a.id]
        /\ SlotOk(c, u, w) /\ UseOk(u) /\ a.id \in 0..MaxGuid
  BY WaitFacts
<1>2. w.ev = "new" /\ UNCHANGED <<at, guid, listener>>
  BY <1>1 DEF TakeNew
<1>3. /\ c.open /\ ~a.connect /\ a.id # 0 /\ a.link # 0 /\ c.flags = {} /\ a.send = 0
      /\ w.due \in {"connect", "recv"}
  BY <1>1, <1>2 DEF SlotOk, WaitOk
<1>4. u.holder = 0 /\ ~a.abort /\ ~a.close
  BY <1>1, <1>2 DEF SlotOk, HeldOk, HeldIn, LiveIn
<1>5. a.connect = FALSE
  BY <1>1, <1>3 DEF UdpApps
<1>6. PICK b : b = Cleared(w.due)
  OBVIOUS
<1>7. b = a
  <2>1. [a EXCEPT !.connect = FALSE] = a
    BY <1>1, <1>5 DEF UdpApps
  <2>2. CASE w.due = "connect"
    BY <1>1, <1>6, <2>1, <2>2 DEF Cleared
  <2>3. CASE w.due = "recv"
    BY <1>1, <1>6, <2>3 DEF Cleared
  <2> QED BY <1>3, <2>2, <2>3
<1>8. udp' = [udp EXCEPT ![s] = c]
  <2>1. udp' = [udp EXCEPT ![s].app = a]
    BY <1>1, <1>6, <1>7 DEF TakeNew, AfterEvent
  <2>2. [c EXCEPT !.app = a] = c
    BY <1>1 DEF UdpRecords
  <2> QED BY <1>1, <2>1, <2>2
<1>9. PICK z \in UdpUses : z = Unused
  BY UnusedIs
<1>10. PICK v : v = [z EXCEPT !.holder = a.link, !.odd = {}]
  OBVIOUS
<1>11. /\ v \in UdpUses /\ v.holder = a.link /\ v.wire = z.wire /\ v.over = z.over /\ v.odd = {}
  BY <1>1, <1>9, <1>10 DEF UdpUses, UdpApps
<1>12. use' = [use EXCEPT ![c.app.id] = v]
  <2>1. Taker = a.link
    BY <1>1, <1>2 DEF Taker
  <2>2. u.odd \cup (IF u.holder # 0 THEN {"taken"} ELSE {}) = {}
    BY <1>1, <1>4 DEF UseOk
  <2>3. use' = [use EXCEPT ![a.id] = [Unused EXCEPT !.holder = Taker,
                  !.odd = u.odd \cup (IF u.holder # 0 THEN {"taken"} ELSE {})]]
    BY <1>1 DEF TakeNew
  <2> QED BY <1>1, <1>9, <1>10, <2>1, <2>2, <2>3
<1>13. PICK y \in UdpWaits : /\ y = wait' /\ y.ev \in {"recv", "none"} /\ y.due = "none"
                             /\ y.slot = s \/ y = NoWait
  <2>1. CASE w.due = "recv"
    <3>1. wait' = [w EXCEPT !.ev = "recv", !.due = "none"]
      BY <1>1, <2>1 DEF TakeNew
    <3>2. /\ wait' \in UdpWaits /\ wait'.slot = w.slot /\ wait'.ev = "recv"
          /\ wait'.due = "none"
      BY <3>1 DEF UdpWaits
    <3> QED BY <1>1, <3>2
  <2>2. CASE w.due # "recv"
    <3>1. wait' = NoWait
      BY <1>1, <2>2 DEF TakeNew
    <3>2. NoWait \in UdpWaits /\ NoWait.ev = "none" /\ NoWait.due = "none"
      BY DEF UdpWaits, NoWait, Slots
    <3> QED BY <3>1, <3>2
  <2> QED BY <2>1, <2>2
<1>14. HeldOk(c, v, y)
  BY <1>1, <1>3, <1>4, <1>11, <1>13 DEF HeldOk, HeldIn, LiveIn
<1>15. WaitOk(c, y)
  BY <1>1, <1>3, <1>13 DEF WaitOk
<1>16. SendOk(c, v, y)
  BY <1>1, <1>3, <1>13 DEF SendOk
<1>17. UseOk(v)
  <2>1. v.wire = <<>>
    BY <1>9, <1>11, UnusedIs
  <2> QED BY <1>11, <2>1 DEF UseOk
<1>18. /\ wait' \in UdpWaits /\ \A r \in Slots : r # s => WaitAt(r)' = WaitAt(r)
       /\ WaitAt(s)' = y
  BY <1>1, <1>13, WaitEnds
<1> QED BY <1>1, <1>2, <1>3, <1>8, <1>11, <1>12, <1>14, <1>15, <1>16, <1>17, <1>18, UdpSlotStep DEF SlotOk

\* With one client, the link an event goes to is that of the connection's holder.
OneUdpLink == \A k, l \in UdpLinks : k = l

LEMMA TakeOtherInv ==
  ASSUME UdpInv, OneUdpLink, TakeOther
  PROVE  UdpInv'
<1> USE UdpConsts
<1>1. PICK s \in Slots, c \in UdpRecords, a \in UdpApps, u \in UdpUses, w \in UdpWaits :
        /\ s = wait.slot /\ w = wait /\ c = udp[s] /\ a = c.app /\ u = use[a.id]
        /\ SlotOk(c, u, w) /\ UseOk(u) /\ a.id \in 0..MaxGuid
  BY WaitFacts
<1>2. w.ev \in {"closed", "recv"} /\ wait' = NoWait /\ UNCHANGED <<at, guid, listener>>
  BY <1>1 DEF TakeOther
<1>3. HeldIn(c, w)
  BY <1>1, <1>2 DEF SlotOk, WaitOk, HeldIn, LiveIn
<1>4. u.holder # 0 /\ a.id # 0 /\ a.link # 0
  BY <1>1, <1>3 DEF SlotOk, HeldOk
<1>5. Known(Taker, a.id)
  <2>1. u.holder \in UdpLinks /\ a.link \in UdpLinks
    BY <1>1, <1>4 DEF UdpUses, UdpApps
  <2>2. Taker = a.link
    BY <1>1, <1>2 DEF Taker
  <2> QED BY <1>1, <2>1, <2>2 DEF Known, OneUdpLink
<1>6. udp' = [udp EXCEPT ![s].app = Cleared(w.due)]
  BY <1>1 DEF TakeOther, AfterEvent
<1>7. NoWait.ev = "none" /\ NoWait.due = "none" /\ NoWait \in UdpWaits
  BY DEF NoWait, UdpWaits, Slots
<1>8. /\ wait' \in UdpWaits /\ \A r \in Slots : r # s => WaitAt(r)' = WaitAt(r)
      /\ WaitAt(s)' = NoWait
  BY <1>1, <1>2, <1>7, WaitEnds
<1>9. CASE w.ev = "recv"
  <2>1. use' = [use EXCEPT ![a.id] = u]
    BY <1>1, <1>5, <1>9 DEF TakeOther
  <2>2. udp' = [udp EXCEPT ![s] = c]
    <3>1. w.due = "none"
      BY <1>1, <1>9 DEF SlotOk, WaitOk
    <3>2. Cleared(w.due) = a
      BY <1>1, <3>1 DEF Cleared
    <3>3. [c EXCEPT !.app = a] = c
      BY <1>1 DEF UdpRecords
    <3> QED BY <1>1, <1>6, <3>2, <3>3
  <2>3. LiveIn(c, w) /\ LiveIn(c, NoWait)
    BY <1>1, <1>7, <1>9 DEF SlotOk, WaitOk, LiveIn
  <2>4. HeldOk(c, u, NoWait) /\ WaitOk(c, NoWait) /\ SendOk(c, u, NoWait)
    BY <1>1, <1>7, <1>9, <2>3 DEF SlotOk, HeldOk, WaitOk, SendOk, HeldIn
  <2> QED BY <1>1, <1>2, <1>4, <1>8, <2>1, <2>2, <2>4, UdpSlotStep DEF SlotOk
<1>10. CASE w.ev = "closed"
  <2>1. Unused \in UdpUses /\ Unused.holder = 0 /\ UseOk(Unused)
    BY UnusedIs DEF UseOk
  <2>2. use' = [use EXCEPT ![a.id] = Unused]
    BY <1>1, <1>5, <1>10 DEF TakeOther
  <2>3. PICK b : b = Cleared(w.due)
    OBVIOUS
  <2>4. /\ \/ w.due = "abort" /\ a.abort
           \/ w.due = "close" /\ a.close
        /\ ~c.open \/ a.connect
        /\ ~(a.abort /\ a.close)
        /\ (c.open /\ a.connect) => c.flags = {} /\ ~c.met /\ a.link # 0
    BY <1>1, <1>10 DEF SlotOk, HeldOk, WaitOk
  <2>5. \/ b = [a EXCEPT !.abort = FALSE] /\ a.abort
        \/ b = [a EXCEPT !.close = FALSE] /\ a.close
    BY <1>1, <2>3, <2>4 DEF Cleared
  <2>6. /\ b \in UdpApps /\ b.id = a.id /\ b.link = a.link /\ b.connect = a.connect
        /\ b.send = a.send /\ ~b.abort /\ ~b.close
    BY <1>1, <2>4, <2>5 DEF UdpApps
  <2>7. PICK d : d = [c EXCEPT !.app = b]
    OBVIOUS
  <2>8. d \in UdpRecords /\ d.open = c.open /\ d.met = c.met /\ d.flags = c.flags /\ d.app = b
    BY <1>1, <2>6, <2>7 DEF UdpRecords
  <2>9. udp' = [udp EXCEPT ![s] = d]
    BY <1>1, <1>6, <2>3, <2>7
  <2>10. ~LiveIn(d, NoWait)
    BY <2>4, <2>6, <2>8 DEF LiveIn
  <2>11. HeldOk(d, Unused, NoWait)
    BY <1>7, <2>1, <2>4, <2>6, <2>8, <2>10 DEF HeldOk, HeldIn
  <2>12. WaitOk(d, NoWait) /\ SendOk(d, Unused, NoWait)
    BY <1>7, <2>10 DEF WaitOk, SendOk
  <2>13. d.app.id = udp[s].app.id /\ d.app.id # 0 /\ use' = [use EXCEPT ![d.app.id] = Unused]
    BY <1>1, <1>4, <2>2, <2>6, <2>8
  <2> QED BY <1>1, <1>2, <1>8, <2>1, <2>8, <2>9, <2>11, <2>12, <2>13, UdpSlotStep DEF SlotOk
<1> QED BY <1>2, <1>9, <1>10

LEMMA WireAppended ==
  ASSUME NEW q \in Seq(Nat), NEW n \in Nat, \A k \in DOMAIN q : q[k] < n,
         \A j, k \in DOMAIN q : j < k => q[j] < q[k], NEW r, r = Append(q, n)
  PROVE  /\ r \in Seq(Nat) /\ \E k \in DOMAIN r : r[k] = n
         /\ \A k \in DOMAIN r : r[k] <= n
         /\ \A j, k \in DOMAIN r : j < k => r[j] < r[k]
<1>1. /\ r \in Seq(Nat) /\ DOMAIN r = 1..(Len(q) + 1) /\ r[Len(q) + 1] = n
      /\ DOMAIN q = 1..Len(q) /\ Len(q) \in Nat
      /\ \A k \in 1..Len(q) : r[k] = q[k] /\ q[k] \in Nat
  OBVIOUS
<1>2. \A k \in DOMAIN r : r[k] <= n
  BY <1>1
<1>3. \A j, k \in DOMAIN r : j < k => r[j] < r[k]
  BY <1>1
<1> QED BY <1>1, <1>2, <1>3

\* z is u when its client has given datagram n.
GivenNow(z, u, n) ==
    /\ z.given = n /\ z.odd = {} /\ z.wire = u.wire /\ z.busy = u.busy /\ z.over = u.over
    /\ z.holder = u.holder
    /\ \A k \in DOMAIN u.wire : u.wire[k] < n

\* v is z when the datagram was sent, or gave way to an ARP request.
OutOrNot(v, z, item) ==
    /\ v.holder = z.holder /\ v.given = z.given /\ v.busy = z.busy
    /\ v.over = z.over /\ v.odd = {} /\ UseOk(v) /\ (OnWire(v) <=> item)

LEMMA GivenIs ==
  ASSUME NEW u \in UdpUses, UseOk(u), NEW z \in UdpUses, NEW n \in Nat, GivenNow(z, u, n),
         NEW P, NEW v, v = [z EXCEPT !.wire = IF P THEN Append(@, n) ELSE @]
  PROVE  v \in UdpUses /\ OutOrNot(v, z, P)
<1>1. /\ z.wire \in Seq(Nat) /\ z.given = n /\ z.odd = {}
      /\ \A k \in DOMAIN z.wire : z.wire[k] < n
      /\ \A j, k \in DOMAIN z.wire : j < k => z.wire[j] < z.wire[k]
  BY DEF GivenNow, UseOk, UdpUses
<1>2. CASE P
  <2>1. PICK q \in Seq(Nat) : q = z.wire
    BY <1>1
  <2>2. PICK r : r = Append(q, n)
    OBVIOUS
  <2>3. /\ r \in Seq(Nat) /\ \E k \in DOMAIN r : r[k] = n
        /\ \A k \in DOMAIN r : r[k] <= n
        /\ \A j, k \in DOMAIN r : j < k => r[j] < r[k]
    BY <1>1, <2>1, <2>2, WireAppended
  <2>4. v = [z EXCEPT !.wire = r]
    BY <1>2, <2>1, <2>2
  <2>5. /\ v \in UdpUses /\ v.holder = z.holder /\ v.given = n /\ v.busy = z.busy
        /\ v.over = z.over /\ v.odd = {} /\ v.wire = r
    BY <1>1, <2>3, <2>4 DEF UdpUses
  <2>6. UseOk(v)
    BY <2>3, <2>5 DEF UseOk
  <2>7. OnWire(v)
    BY <2>3, <2>5 DEF OnWire
  <2> QED BY <1>1, <1>2, <2>5, <2>6, <2>7 DEF OutOrNot
<1>3. CASE ~P
  <2>1. v = z
    BY <1>3 DEF UdpUses
  <2>2. PICK q \in Seq(Nat) : q = z.wire
    BY <1>1
  <2>3. \A k \in DOMAIN q : q[k] <= n /\ q[k] # n
    <3>1. \A k \in DOMAIN q : q[k] \in Nat /\ q[k] < n
      BY <1>1, <2>2
    <3> QED BY <3>1
  <2>4. v.wire = q /\ v.given = n
    BY <1>1, <2>1, <2>2
  <2>5. UseOk(v)
    BY <1>1, <2>1, <2>2, <2>3, <2>4, Zenon DEF UseOk
  <2>6. UseOk(v) /\ ~OnWire(v)
    BY <2>3, <2>4, <2>5, Zenon DEF OnWire
  <2> QED BY <1>1, <1>3, <2>1, <2>6 DEF OutOrNot
<1> QED BY <1>2, <1>3

\* The event asks a live connection for data; its transfer is nowhere else.
LEMMA DataFacts ==
  ASSUME NEW c \in UdpRecords, NEW u \in UdpUses, NEW w \in UdpWaits, SlotOk(c, u, w),
         w.ev \in {"request", "sent", "resend"}
  PROVE  /\ c.open /\ ~c.app.connect /\ LiveIn(c, w) /\ u.busy /\ c.flags = {}
         /\ c.app.id # 0 /\ c.app.link # 0 /\ u.holder # 0
         /\ w.due = "send" => c.app.send = 1
         /\ w.due # "send" => c.app.send = 0
         /\ w.ev \in {"request", "sent"} => w.link # 0
         /\ w.ev = "sent" => OnWire(u)
         /\ w.ev = "resend" => u.given > 0 /\ ~OnWire(u)
<1>1. c.open /\ ~c.app.connect /\ LiveIn(c, w) /\ (w.ev \in {"request", "sent"} => w.link # 0)
  BY DEF SlotOk, WaitOk, LiveIn
<1>2. w.due = "send" <=> w.ev = "request"
  BY DEF SlotOk, WaitOk
<1>3. c.app.id # 0 /\ c.app.link # 0 /\ u.holder # 0
  BY <1>1 DEF SlotOk, HeldOk, HeldIn
<1> QED BY <1>1, <1>2, <1>3 DEF SlotOk, SendOk

LEMMA TransmitInv ==
  ASSUME UdpInv, NEW s \in Slots, s = wait.slot,
         wait.ev \in {"request", "sent", "resend"}, NEW z \in UdpUses, NEW n \in Nat \ {0},
         GivenNow(z, use[udp[s].app.id], n),
         Transmit(s, udp[s].app.id, n, [use EXCEPT ![udp[s].app.id] = z]),
         wait' = NoWait, UNCHANGED <<at, guid, listener>>
  PROVE  UdpInv'
<1>1. PICK c \in UdpRecords, a \in UdpApps, u \in UdpUses, w \in UdpWaits :
        /\ w = wait /\ c = udp[s] /\ a = c.app /\ u = use[a.id]
        /\ SlotOk(c, u, w) /\ UseOk(u) /\ a.id \in 0..MaxGuid
  BY WaitFacts
<1>2. /\ c.open /\ ~a.connect /\ LiveIn(c, w) /\ u.busy /\ c.flags = {}
      /\ a.id # 0 /\ a.link # 0 /\ u.holder # 0
      /\ w.due = "send" => a.send = 1
      /\ w.due # "send" => a.send = 0
  BY <1>1, DataFacts
<1>3. SendLeft(s) = 0
  <2>1. SendLeft(s) = IF w.due = "send" THEN a.send - 1 ELSE a.send
    BY <1>1, Zenon DEF SendLeft
  <2> QED BY <1>2, <2>1
<1>4. PICK fl : fl = IF ipv = "4" THEN FlagsSent4(s) ELSE FlagsSent6(s)
  OBVIOUS
<1>5. fl = {} \/ (fl = {"sent"} /\ c.peer \in arp) \/ (fl = {"pending"} /\ ~(c.peer \in arp))
  <2>1. FlagsSent6(s) = {} /\ FlagsSent4(s) = {ArpFlag(c.peer)}
    BY <1>1, <1>2, Zenon DEF FlagsSent4, FlagsSent6
  <2> QED BY <1>4, <2>1 DEF ArpFlag
<1>6. PICK mt : mt = (c.met \/ c.peer \in arp)
  OBVIOUS
<1>7. mt \in BOOLEAN
  BY <1>6, Zenon
<1>8. PICK b : b = [a EXCEPT !.send = 0]
  OBVIOUS
<1>9. /\ b \in UdpApps /\ b.id = a.id /\ b.link = a.link /\ b.connect = a.connect
      /\ b.send = 0 /\ b.abort = a.abort /\ b.close = a.close
  BY <1>1, <1>8 DEF UdpApps
<1>10. PICK x : x = [c EXCEPT !.app = b]
  OBVIOUS
<1>11. x \in UdpRecords /\ x.open = c.open /\ x.app = b
  BY <1>1, <1>9, <1>10 DEF UdpRecords
<1>12. PICK y : y = [x EXCEPT !.met = mt]
  OBVIOUS
<1>13. y \in UdpRecords /\ y.open = c.open /\ y.app = b
  BY <1>7, <1>11, <1>12 DEF UdpRecords
<1>14. PICK d : d = [y EXCEPT !.flags = fl]
  OBVIOUS
<1>15. d \in UdpRecords /\ d.open = c.open /\ d.flags = fl /\ d.app = b
  <2>1. fl \in SUBSET {"sent", "pending"}
    BY <1>5
  <2> QED BY <1>13, <1>14, <2>1 DEF UdpRecords
<1>16. udp' = [udp EXCEPT ![s] = d]
  <2>1. udp' = [udp EXCEPT ![s].app.send = 0, ![s].met = @ \/ (c.peer \in arp), ![s].flags = fl]
    BY <1>1, <1>3, <1>4, Zenon DEF Transmit
  <2>2. PICK e : e = [udp EXCEPT ![s].app.send = 0]
    OBVIOUS
  <2>3. udp \in [Slots -> UdpRecords] /\ e = [udp EXCEPT ![s] = x]
    BY <1>1, <1>8, <1>10, <2>2 DEF UdpInv, UdpTypes
  <2>4. PICK g : g = [e EXCEPT ![s].met = udp[s].met \/ (c.peer \in arp)]
    OBVIOUS
  <2>5. e[s] = x /\ x.met = c.met
    BY <1>1, <1>10, <2>3 DEF UdpRecords
  <2>6. g = [e EXCEPT ![s] = y]
    BY <1>1, <1>6, <1>12, <2>4, <2>5, Zenon
  <2>7. udp' = [g EXCEPT ![s].flags = fl]
    BY <2>1, <2>2, <2>4, Zenon
  <2>8. g = [udp EXCEPT ![s] = y] /\ g[s] = y
    BY <2>3, <2>6
  <2>9. udp' = [g EXCEPT ![s] = d]
    BY <1>14, <2>7, <2>8
  <2> QED BY <2>3, <2>8, <2>9
<1>17. PICK v : v = [z EXCEPT !.wire = IF c.peer \in arp THEN Append(@, n) ELSE @]
  OBVIOUS
<1>18. v \in UdpUses /\ OutOrNot(v, z, c.peer \in arp) /\ GivenNow(z, u, n)
  <2>1. GivenNow(z, u, n)
    BY <1>1
  <2>2. PICK P : P = (c.peer \in arp)
    OBVIOUS
  <2>3. v = [z EXCEPT !.wire = IF P THEN Append(@, n) ELSE @]
    BY <1>17, <2>2
  <2>4. v \in UdpUses /\ OutOrNot(v, z, P)
    BY <1>1, <2>1, <2>3, GivenIs
  <2> QED BY <2>1, <2>2, <2>4
<1>19. /\ v.holder = u.holder /\ v.given = n /\ v.busy = u.busy /\ v.over = u.over /\ UseOk(v)
       /\ OnWire(v) <=> c.peer \in arp
  BY <1>18 DEF OutOrNot, GivenNow
<1>20. use' = [use EXCEPT ![d.app.id] = v]
  <2>1. use' = [[use EXCEPT ![a.id] = z] EXCEPT ![a.id].wire = IF c.peer \in arp THEN Append(@, n) ELSE @]
    BY <1>1, Zenon DEF Transmit
  <2>2. use \in [0..MaxGuid -> UdpUses] /\ d.app.id = a.id
    BY <1>9, <1>15 DEF UdpInv, UdpTypes
  <2> QED BY <1>1, <1>17, <2>1, <2>2
<1>21. NoWait.ev = "none" /\ NoWait.due = "none" /\ NoWait \in UdpWaits
  BY UdpConsts DEF NoWait, UdpWaits, Slots
<1>22. LiveIn(d, NoWait)
  BY <1>2, <1>9, <1>15, <1>21 DEF LiveIn
<1>23. HeldOk(d, v, NoWait)
  BY <1>1, <1>2, <1>9, <1>15, <1>19, <1>21, <1>22 DEF SlotOk, HeldOk, HeldIn
<1>24. WaitOk(d, NoWait)
  BY <1>21 DEF WaitOk
<1>25. SendOk(d, v, NoWait)
  <2>1. v.given > 0 /\ v.busy
    BY <1>2, <1>19
  <2>2. ("sent" \in d.flags => OnWire(v)) /\ ("pending" \in d.flags => ~OnWire(v))
    BY <1>5, <1>15, <1>19
  <2>3. d.flags # {"sent", "pending"}
    BY <1>5, <1>15
  <2> QED BY <1>9, <1>15, <1>21, <2>1, <2>2, <2>3 DEF SendOk
<1>26. /\ wait' \in UdpWaits /\ \A r \in Slots : r # s => WaitAt(r)' = WaitAt(r)
       /\ WaitAt(s)' = NoWait
  BY <1>21, WaitEnds
<1>27. d.app.id = udp[s].app.id /\ d.app.id # 0
  BY <1>1, <1>2, <1>9, <1>15
<1> QED BY <1>15, <1>16, <1>18, <1>19, <1>20, <1>23, <1>24, <1>25, <1>26, <1>27, UdpSlotStep DEF SlotOk

\* No client is told of a datagram that did not go out, or of a stranger's.
LEMMA DataIsKnown ==
  ASSUME UdpInv, OneUdpLink, NEW s \in Slots, s = wait.slot,
         wait.ev \in {"request", "sent", "resend"}, NEW u \in UdpUses, u = use[udp[s].app.id]
  PROVE  /\ u.odd \cup (IF Known(Taker, udp[s].app.id) THEN {} ELSE {"stranger"})
              \cup (IF wait.ev = "sent" /\ ~OnWire(u) THEN {"unsent"} ELSE {}) = {}
         /\ wait.ev = "resend" => u.given > 0 /\ ~OnWire(u)
<1>1. PICK c \in UdpRecords, a \in UdpApps, w \in UdpWaits :
        /\ w = wait /\ c = udp[s] /\ a = c.app /\ u = use[a.id] /\ SlotOk(c, u, w) /\ UseOk(u)
  BY WaitFacts
<1>2. /\ a.link # 0 /\ u.holder # 0
      /\ w.ev \in {"request", "sent"} => w.link # 0
      /\ w.ev = "sent" => OnWire(u)
      /\ w.ev = "resend" => u.given > 0 /\ ~OnWire(u)
  BY <1>1, DataFacts
<1>3. Known(Taker, udp[s].app.id)
  <2>1. u.holder \in UdpLinks /\ a.link \in UdpLinks /\ w.link \in UdpLinks \cup {0}
    BY <1>1, <1>2 DEF UdpUses, UdpApps, UdpWaits
  <2>2. Taker = IF w.ev \in {"request", "sent"} THEN w.link ELSE a.link
    BY <1>1, Zenon DEF Taker
  <2>3. Taker \in UdpLinks
    BY <1>2, <2>1, <2>2
  <2> QED BY <2>1, <2>3, Zenon DEF Known, OneUdpLink
<1>4. u.odd = {}
  BY <1>1 DEF UseOk
<1> QED BY <1>1, <1>2, <1>3, <1>4

LEMMA TakeDataEventInv ==
  ASSUME UdpInv, OneUdpLink, TakeDataEvent
  PROVE  UdpInv'
<1>1. PICK s \in Slots, c \in UdpRecords, a \in UdpApps, u \in UdpUses, w \in UdpWaits :
        /\ s = wait.slot /\ w = wait /\ c = udp[s] /\ a = c.app /\ u = use[a.id]
        /\ SlotOk(c, u, w) /\ UseOk(u) /\ a.id \in 0..MaxGuid
  BY WaitFacts
<1>2. /\ wait.ev \in {"request", "sent", "resend"} /\ wait' = NoWait
      /\ UNCHANGED <<at, guid, listener>>
  BY Zenon DEF TakeDataEvent
<1>3. PICK odd : odd = u.odd \cup (IF Known(Taker, udp[s].app.id) THEN {} ELSE {"stranger"})
              \cup (IF wait.ev = "sent" /\ ~OnWire(u) THEN {"unsent"} ELSE {})
  OBVIOUS
<1>4. odd = {} /\ (w.ev = "resend" => u.given > 0 /\ ~OnWire(u))
  BY <1>1, <1>2, <1>3, DataIsKnown
<1>5. \/ /\ w.ev = "resend"
         /\ Transmit(s, a.id, u.given, [use EXCEPT ![a.id].odd = odd])
      \/ Transmit(s, a.id, u.given + 1, [use EXCEPT ![a.id].given = u.given + 1, ![a.id].odd = odd])
      \/ /\ use' = [use EXCEPT ![a.id].busy = FALSE, ![a.id].odd = odd]
         /\ udp' = [udp EXCEPT ![s].app.send = SendLeft(s)]
         /\ w.ev # "resend"
  <2>1. CASE w.ev = "resend" /\ u.given > 0
    BY <1>1, <1>3, <2>1 DEF TakeDataEvent, OnWire
  <2>2. CASE w.ev # "resend"
    BY <1>1, <1>3, <2>2 DEF TakeDataEvent, OnWire
  <2> QED BY <1>4, <2>1, <2>2
<1>6. u.given \in Nat /\ \A k \in DOMAIN u.wire : u.wire[k] \in Nat /\ u.wire[k] <= u.given
  <2>1. PICK q \in Seq(Nat) : q = u.wire
    BY DEF UdpUses
  <2>2. \A k \in DOMAIN q : q[k] \in Nat
    OBVIOUS
  <2> QED BY <1>1, <2>1, <2>2 DEF UseOk, UdpUses
<1>7. CASE /\ w.ev = "resend"
           /\ Transmit(s, a.id, u.given, [use EXCEPT ![a.id].odd = odd])
  <2>1. PICK z : z = [u EXCEPT !.odd = odd]
    OBVIOUS
  <2>2. /\ z \in UdpUses /\ z.given = u.given /\ z.odd = {} /\ z.wire = u.wire /\ z.busy = u.busy
        /\ z.over = u.over /\ z.holder = u.holder
    BY <1>4, <2>1 DEF UdpUses
  <2>3. \A k \in DOMAIN u.wire : u.wire[k] < u.given
    <3>1. \A k \in DOMAIN u.wire : u.wire[k] # u.given
      BY <1>4, <1>7 DEF OnWire
    <3> QED BY <1>6, <3>1
  <2>4. GivenNow(z, u, u.given) /\ u.given \in Nat \ {0}
    BY <1>4, <1>6, <1>7, <2>2, <2>3 DEF GivenNow
  <2>5. [use EXCEPT ![a.id].odd = odd] = [use EXCEPT ![a.id] = z]
    BY <1>1, <2>1
  <2>6. /\ Transmit(s, udp[s].app.id, u.given, [use EXCEPT ![udp[s].app.id] = z])
        /\ GivenNow(z, use[udp[s].app.id], u.given)
    BY <1>1, <1>7, <2>4, <2>5, Zenon
  <2> QED BY <1>1, <1>2, <2>2, <2>4, <2>6, TransmitInv
<1>8. CASE Transmit(s, a.id, u.given + 1, [use EXCEPT ![a.id].given = u.given + 1, ![a.id].odd = odd])
  <2>1. PICK n \in Nat \ {0} : n = u.given + 1
    BY <1>6
  <2>2. PICK z : z = [u EXCEPT !.given = n, !.odd = odd]
    OBVIOUS
  <2>3. /\ z \in UdpUses /\ z.given = n /\ z.odd = {} /\ z.wire = u.wire /\ z.busy = u.busy
        /\ z.over = u.over /\ z.holder = u.holder
    BY <1>4, <2>2 DEF UdpUses
  <2>4. \A k \in DOMAIN u.wire : u.wire[k] < n
    BY <1>6, <2>1
  <2>5. GivenNow(z, u, n)
    BY <2>3, <2>4 DEF GivenNow
  <2>6. [use EXCEPT ![a.id].given = u.given + 1, ![a.id].odd = odd] = [use EXCEPT ![a.id] = z]
    <3>1. use \in [0..MaxGuid -> UdpUses]
      BY DEF UdpInv, UdpTypes
    <3> QED BY <1>1, <2>1, <2>2, <3>1
  <2>7. /\ Transmit(s, udp[s].app.id, n, [use EXCEPT ![udp[s].app.id] = z])
        /\ GivenNow(z, use[udp[s].app.id], n)
    BY <1>1, <1>8, <2>1, <2>5, <2>6, Zenon
  <2> QED BY <1>1, <1>2, <2>3, <2>7, TransmitInv
<1>9. CASE /\ use' = [use EXCEPT ![a.id].busy = FALSE, ![a.id].odd = odd]
           /\ udp' = [udp EXCEPT ![s].app.send = SendLeft(s)]
           /\ w.ev # "resend"
  <2>1. /\ c.open /\ ~a.connect /\ LiveIn(c, w) /\ c.flags = {}
        /\ a.id # 0 /\ a.link # 0 /\ u.holder # 0
        /\ w.due = "send" => a.send = 1
        /\ w.due # "send" => a.send = 0
    BY <1>1, <1>2, DataFacts
  <2>2. SendLeft(s) = 0
    <3>1. SendLeft(s) = IF w.due = "send" THEN a.send - 1 ELSE a.send
      BY <1>1, Zenon DEF SendLeft
    <3> QED BY <2>1, <3>1
  <2>3. PICK b : b = [a EXCEPT !.send = 0]
    OBVIOUS
  <2>4. /\ b \in UdpApps /\ b.id = a.id /\ b.link = a.link /\ b.connect = a.connect
        /\ b.send = 0 /\ b.abort = a.abort /\ b.close = a.close
    BY <1>1, <2>3 DEF UdpApps
  <2>5. PICK d : d = [c EXCEPT !.app = b]
    OBVIOUS
  <2>6. d \in UdpRecords /\ d.open = c.open /\ d.flags = c.flags /\ d.app = b
    BY <1>1, <2>4, <2>5 DEF UdpRecords
  <2>7. udp' = [udp EXCEPT ![s] = d]
    BY <1>1, <1>9, <2>2, <2>3, <2>5
  <2>8. PICK v : v = [u EXCEPT !.busy = FALSE, !.odd = odd]
    OBVIOUS
  <2>9. /\ v \in UdpUses /\ v.given = u.given /\ v.odd = {} /\ v.wire = u.wire
        /\ v.over = u.over /\ v.holder = u.holder
    BY <1>4, <2>8 DEF UdpUses
  <2>10. use' = [use EXCEPT ![d.app.id] = v]
    <3>1. use \in [0..MaxGuid -> UdpUses] /\ d.app.id = a.id
      BY <2>4, <2>6 DEF UdpInv, UdpTypes
    <3> QED BY <1>1, <1>9, <2>8, <3>1
  <2>11. NoWait.ev = "none" /\ NoWait.due = "none" /\ NoWait \in UdpWaits
    BY UdpConsts DEF NoWait, UdpWaits, Slots
  <2>12. LiveIn(d, NoWait)
    BY <2>1, <2>4, <2>6, <2>11 DEF LiveIn
  <2>13. HeldOk(d, v, NoWait)
    BY <1>1, <2>1, <2>4, <2>6, <2>9, <2>11, <2>12 DEF SlotOk, HeldOk, HeldIn
  <2>14. WaitOk(d, NoWait) /\ SendOk(d, v, NoWait)
    BY <2>1, <2>4, <2>6, <2>11 DEF WaitOk, SendOk
  <2>15. UseOk(v)
    BY <1>1, <2>9 DEF UseOk
  <2>16. /\ wait' \in UdpWaits /\ \A r \in Slots : r # s => WaitAt(r)' = WaitAt(r)
         /\ WaitAt(s)' = NoWait
    BY <1>1, <1>2, <2>11, WaitEnds
  <2>17. d.app.id = udp[s].app.id /\ d.app.id # 0
    BY <1>1, <2>1, <2>4, <2>6
  <2> QED BY <1>2, <2>6, <2>7, <2>9, <2>10, <2>13, <2>14, <2>15, <2>16, <2>17, UdpSlotStep DEF SlotOk
<1> QED BY <1>5, <1>7, <1>8, <1>9

LEMMA UdpStepInv == OneUdpLink /\ UdpInv /\ [UdpNext]_udpVars => UdpInv'
<1> SUFFICES ASSUME OneUdpLink, UdpInv, [UdpNext]_udpVars PROVE UdpInv'
  OBVIOUS
<1>1. at.slot \in Slots /\ at = [ph |-> at.ph, slot |-> at.slot] /\ listener \in UdpLinks \cup {0}
  BY DEF UdpInv, UdpTypes
<1>2. CASE UNCHANGED udpVars
  <2>1. UNCHANGED <<udp, use, wait, guid, at, listener>>
    BY <1>2 DEF udpVars
  <2> QED BY <1>1, <2>1, UdpSame
<1>3. CASE UdpCommand
  <2>1. PICK l \in UdpLinks :
          \/ UdpListen(l)
          \/ \E p \in UdpPeers : UdpConnect(l, p)
          \/ \E id \in 1..MaxGuid :
               \/ UdpRequest(l, id, "abort") \/ UdpRequest(l, id, "close") \/ UdpInitSend(l, id)
               \/ \E p \in UdpPeers : UdpBindRemote(l, id, p)
    BY <1>3, Zenon DEF UdpCommand
  <2>2. CASE UdpListen(l)
    BY <1>1, <2>2, UdpSame DEF UdpListen
  <2>3. CASE \E p \in UdpPeers : UdpConnect(l, p)
    BY <2>3, UdpConnectInv
  <2>4. CASE \E id \in 1..MaxGuid : UdpRequest(l, id, "abort") \/ UdpRequest(l, id, "close")
    BY <2>4, UdpRequestInv
  <2>5. CASE \E id \in 1..MaxGuid : UdpInitSend(l, id)
    BY <2>5, UdpInitSendInv
  <2>6. CASE \E id \in 1..MaxGuid : \E p \in UdpPeers : UdpBindRemote(l, id, p)
    BY <2>6, UdpBindRemoteInv
  <2> QED BY <2>1, <2>2, <2>3, <2>4, <2>5, <2>6, Zenon
<1>4. CASE UdpInput
  <2>1. PICK p \in UdpPeers :
          \/ DatagramIn4(p) \/ DatagramIn6(p) \/ DatagramToListener(p) \/ ArpReply(p)
          \/ Resolves(p) \/ Forgets(p)
    BY <1>4, Zenon DEF UdpInput
  <2>2. CASE DatagramIn4(p) \/ DatagramIn6(p)
    BY <2>2, UdpFoundInv DEF DatagramIn4, DatagramIn6
  <2>3. CASE DatagramToListener(p)
    BY <2>3, DatagramToListenerInv
  <2>4. CASE ArpReply(p)
    <3>1. UNCHANGED <<udp, use, wait, guid, listener>> /\ at' = [ph |-> "arp", slot |-> 1]
      BY <2>4 DEF ArpReply
    <3>2. 1 \in Slots
      BY UdpConsts DEF Slots
    <3> QED BY <1>1, <3>1, <3>2, UdpSame
  <2>5. CASE Resolves(p) \/ Forgets(p)
    <3>1. UNCHANGED <<udp, use, wait, guid, listener>> /\ at' = OnSlot
      BY <2>5 DEF Resolves, Forgets
    <3> QED BY <1>1, <3>1, OnSlotIs, UdpSame
  <2> QED BY <2>1, <2>2, <2>3, <2>4, <2>5
<1>5. CASE UdpServer
  <2>1. CASE EndService \/ NoInput
    <3>1. UNCHANGED <<udp, use, wait, guid, listener>> /\ at' = OnSlot
      BY <2>1 DEF EndService, NoInput
    <3> QED BY <1>1, <3>1, OnSlotIs, UdpSame
  <2> QED BY <1>5, <2>1, TurnInv, TakeNewInv, TakeOtherInv, TakeDataEventInv DEF UdpServer
<1> QED BY <1>2, <1>3, <1>4, <1>5 DEF UdpNext

LEMMA UdpInvTold == UdpInv => UdpAsTold
<1> SUFFICES ASSUME UdpInv PROVE UdpAsTold
  OBVIOUS
<1>1. \A i \in 0..MaxGuid : use[i].odd = {}
  BY DEF UdpInv, UseOk
<1>2. \A i \in 0..MaxGuid : \A j, k \in DOMAIN use[i].wire : j < k => use[i].wire[j] < use[i].wire[k]
  BY DEF UdpInv, UseOk
<1> QED BY <1>1, <1>2 DEF UdpAsTold, EventsAreHeld, SentWasSent, DatagramsInOrder

LEMMA ServicesUdp == [Next]_vars => [UdpNext]_udpVars
<1> SUFFICES ASSUME [Next]_vars PROVE [UdpNext]_udpVars
  OBVIOUS
<1>1. CASE UNCHANGED vars
  BY <1>1 DEF vars, hostVars
<1>2. CASE UNCHANGED hostVars
  BY <1>2 DEF hostVars
<1>3. CASE HostNext
  BY <1>3, Zenon DEF HostNext
<1> QED BY <1>1, <1>2, <1>3 DEF Next

\* What the clients of UDP are told is true with one client on the server, for
\* every number of slots, ids, remote ends and datagrams, in both stacks: events
\* are on connections they hold, SENT_DATA follows a datagram that went out, and
\* datagrams leave in order, whatever is asked for inside the waits for a link
\* (uip_xtcp.c, the flags of uip_arp.c).  With two clients the event CLOSED may
\* go to the one that connects inside its wait (xtcpd_event reads the link of
\* the slot after the wait).
THEOREM UdpStaysAsTold == OneUdpLink => (Spec => []UdpAsTold)
<1> SUFFICES ASSUME OneUdpLink PROVE Spec => []UdpAsTold
  OBVIOUS
<1>1. Init => UdpInv
  BY UdpInitInv DEF Init
<1>2. UdpInv /\ [Next]_vars => UdpInv'
  BY ServicesUdp, UdpStepInv
<1> QED BY <1>1, <1>2, UdpInvTold, PTL DEF Spec

-----------------------------------------------------------------------------
(* The ICMP echo (uip.c).                                                  *)

LEMMA SquareIs == Digit * Digit \in Nat /\ Digit * Digit >= 4 /\ Digit * Digit >= 2 * Digit
BY Ip4Consts

LEMMA CarriedIs ==
  ASSUME NEW M \in Nat, M = Digit * Digit, M >= 4, NEW s \in Nat, s < 3 * M
  PROVE  Carried(s) = IF s < M THEN s ELSE IF s < 2 * M THEN s - M + 1 ELSE s - 2 * M + 2
<1>1. Carried(s) = (s % M) + s \div M
  BY DEF Carried
<1>2. CASE s < M
  <2>1. s % M = s /\ s \div M = 0
    BY <1>2
  <2> QED BY <1>1, <1>2, <2>1
<1>3. CASE s >= M /\ s < 2 * M
  <2>1. s - M \in 0..(M - 1) /\ s = 1 * M + (s - M)
    BY <1>3
  <2>2. s % M = s - M /\ s \div M = 1
    BY <2>1, QuotientIs
  <2> QED BY <1>1, <1>3, <2>2
<1>4. CASE s >= 2 * M
  <2>1. s - 2 * M \in 0..(M - 1) /\ s = 2 * M + (s - 2 * M)
    BY <1>4
  <2>2. s % M = s - 2 * M /\ s \div M = 2
    BY <2>1, QuotientIs
  <2> QED BY <1>1, <1>4, <2>2
<1> QED BY <1>2, <1>3, <1>4

LEMMA TwiceCarried ==
  ASSUME NEW M \in Nat, M >= 4, NEW s \in Nat, s < 3 * M, NEW c \in Nat, NEW r \in Int,
         c = IF s < M THEN s ELSE IF s < 2 * M THEN s - M + 1 ELSE s - 2 * M + 2,
         r = IF c < M THEN c ELSE IF c < 2 * M THEN c - M + 1 ELSE c - 2 * M + 2
  PROVE  r \in {0, M - 1} <=> s \in {0, M - 1, 2 * M - 2, 3 * M - 3}
<1>1. CASE s < M
  BY <1>1
<1>2. CASE s >= M /\ s < 2 * M
  BY <1>2
<1>3. CASE s >= 2 * M
  BY <1>3
<1> QED BY <1>1, <1>2, <1>3

\* One's complement arithmetic is arithmetic modulo M - 1.
LEMMA GoodSum ==
  ASSUME NEW M \in Nat, M = Digit * Digit, M >= 4, NEW s \in Nat, s < 3 * M
  PROVE  onesReduce(s) \in {0, M - 1} <=> s \in {0, M - 1, 2 * M - 2, 3 * M - 3}
<1>1. PICK c \in Nat : /\ c = Carried(s) /\ c < 3 * M
                       /\ c = IF s < M THEN s ELSE IF s < 2 * M THEN s - M + 1 ELSE s - 2 * M + 2
  BY CarriedIs
<1>2. Carried(c) = IF c < M THEN c ELSE IF c < 2 * M THEN c - M + 1 ELSE c - 2 * M + 2
  BY <1>1, CarriedIs
<1>3. onesReduce(s) = Carried(c)
  BY <1>1 DEF onesReduce
<1>4. PICK r \in Int : r = onesReduce(s) /\ r = IF c < M THEN c ELSE IF c < 2 * M THEN c - M + 1 ELSE c - 2 * M + 2
  BY <1>1, <1>2, <1>3
<1>5. r \in {0, M - 1} <=> s \in {0, M - 1, 2 * M - 2, 3 * M - 3}
  BY <1>1, <1>4, TwiceCarried
<1> QED BY <1>4, <1>5

LEMMA EchoWords ==
  ASSUME NEW M \in Nat, M = Digit * Digit
  PROVE  /\ HTONS(EchoType * Digit) = EchoType /\ HTONS(0 * Digit) = 0
         /\ HTONS(M - 1 - EchoType * Digit) = M - 1 - EchoType
<1> USE Ip4Consts
<1>1. (EchoType * Digit) % Digit = 0 /\ (EchoType * Digit) \div Digit = EchoType
  BY QuotientIs
<1>2. HTONS(EchoType * Digit) = EchoType /\ HTONS(0 * Digit) = 0
  BY <1>1 DEF HTONS
<1>3. PICK w, h \in Int : w = M - 1 - EchoType * Digit /\ h = Digit - 1 - EchoType
  OBVIOUS
<1>4. h \in Nat /\ Digit - 1 \in 0..(Digit - 1) /\ w = h * Digit + (Digit - 1)
  BY <1>3
<1>5. w % Digit = Digit - 1 /\ w \div Digit = h
  <2>1. PICK d, r : d = Digit /\ r = Digit - 1
    OBVIOUS
  <2>2. d \in Nat \ {0} /\ h \in Nat /\ r \in 0..(d - 1) /\ w = h * d + r
    BY <1>4, <2>1
  <2>3. w % d = r /\ w \div d = h
    BY <2>2, QuotientIs
  <2> QED BY <2>1, <2>3
<1>6. (Digit - 1) * Digit + h = M - 1 - EchoType
  BY <1>3
<1> QED BY <1>2, <1>3, <1>5, <1>6 DEF HTONS

LEMMA EchoKeepsSum ==
  ASSUME NEW chk \in 0..(Digit * Digit - 1), NEW rest \in 0..(Digit * Digit - 1)
  PROVE  Valid(0, EchoSum(chk), rest) <=> Valid(EchoType, chk, rest)
<1>1. PICK M \in Nat : M = Digit * Digit /\ M >= 4 /\ M >= 2 * Digit
  BY SquareIs
<1>2. PICK E \in Nat : E = EchoType /\ E < M /\ E > 0
  BY <1>1, Ip4Consts
<1>3. EchoSum(chk) = IF chk >= M - 1 - E THEN (chk + E + 1) % M ELSE (chk + E) % M
  BY <1>1, <1>2, EchoWords DEF EchoSum
<1>4. PICK c \in Nat : c = EchoSum(chk) /\ c < M /\ (c = chk + E \/ (c = chk + E + 1 - M /\ chk + E >= M - 1))
  <2>1. CASE chk >= M - 1 - E
    <3>1. chk + E + 1 - M \in 0..(M - 1) /\ chk + E + 1 = 1 * M + (chk + E + 1 - M)
      BY <1>1, <1>2, <2>1
    <3>2. (chk + E + 1) % M = chk + E + 1 - M
      BY <1>1, <3>1, QuotientIs
    <3> QED BY <1>1, <1>2, <1>3, <2>1, <3>1, <3>2
  <2>2. CASE ~(chk >= M - 1 - E)
    <3>1. chk + E \in 0..(M - 1)
      BY <1>1, <1>2, <2>2
    <3>2. (chk + E) % M = chk + E
      BY <1>1, <3>1
    <3> QED BY <1>1, <1>2, <1>3, <2>2, <3>1, <3>2
  <2> QED BY <2>1, <2>2
<1>5. PICK s, t \in Nat : s = E + chk + rest /\ t = 0 + c + rest /\ s < 3 * M /\ t < 3 * M
  BY <1>1, <1>2, <1>4
<1>6. Valid(EchoType, chk, rest) <=> s \in {0, M - 1, 2 * M - 2, 3 * M - 3}
  <2>1. Valid(EchoType, chk, rest) <=> onesReduce(s) \in {0, M - 1}
    BY <1>1, <1>2, <1>5, EchoWords DEF Valid
  <2> QED BY <1>1, <1>5, <2>1, GoodSum
<1>7. Valid(0, c, rest) <=> t \in {0, M - 1, 2 * M - 2, 3 * M - 3}
  <2>1. Valid(0, c, rest) <=> onesReduce(t) \in {0, M - 1}
    BY <1>1, <1>5, EchoWords DEF Valid
  <2> QED BY <1>1, <1>5, <2>1, GoodSum
<1>8. s \in {0, M - 1, 2 * M - 2, 3 * M - 3} <=> t \in {0, M - 1, 2 * M - 2, 3 * M - 3}
  BY <1>1, <1>4, <1>5
<1> QED BY <1>4, <1>6, <1>7, <1>8

LEMMA Ip4StepInv == EchoIsValid /\ [Ip4Next]_in4Vars => EchoIsValid'
<1> SUFFICES ASSUME EchoIsValid, [Ip4Next]_in4Vars PROVE EchoIsValid'
  OBVIOUS
<1>1. CASE UNCHANGED <<packet4, sent4>>
  BY <1>1 DEF EchoIsValid
<1>2. CASE \E p \in Ip4Packets : Receive4(p)
  <2>1. PICK p \in Ip4Packets : Receive4(p)
    BY <1>2
  <2>2. packet4' = p
    BY <2>1 DEF Receive4
  <2>3. CASE sent4' = Nothing4
    BY <2>3 DEF EchoIsValid, Nothing4
  <2>4. CASE sent4' = Handed("udp") /\ ~BadHeader4(p)
    BY <2>2, <2>4 DEF EchoIsValid, Handed, Nothing4, BadHeader4
  <2>5. CASE sent4' = Handed(p.proto) /\ p.proto \in {"tcp", "udp", "igmp"} /\ ~BadHeader4(p) /\ p.sum
    BY <2>2, <2>5 DEF EchoIsValid, Handed, Nothing4, BadHeader4
  <2>6. CASE sent4' = IcmpInput(p) /\ sent4' # Nothing4 /\ ~BadHeader4(p) /\ p.sum
    <3>1. /\ p.type = EchoType
          /\ sent4' = [what |-> "reply", from |-> hostaddr, to |-> "peer", type |-> 0,
                       chk |-> EchoSum(p.chk), rest |-> p.rest]
      BY <2>6 DEF IcmpInput
    <3>2. sent4'.type = 0 /\ sent4'.chk = EchoSum(p.chk) /\ sent4'.rest = p.rest
      BY <3>1
    <3>3. Valid(0, EchoSum(p.chk), p.rest) <=> Valid(EchoType, p.chk, p.rest)
      BY Ip4Consts, EchoKeepsSum
    <3>4. Valid(sent4'.type, sent4'.chk, sent4'.rest) <=> Valid(packet4'.type, packet4'.chk, packet4'.rest)
      BY <2>2, <3>1, <3>2, <3>3, Zenon
    <3> QED BY <2>2, <2>6, <3>4 DEF EchoIsValid, BadHeader4
  <2> QED BY <2>1, <2>3, <2>4, <2>5, <2>6 DEF Receive4
<1> QED BY <1>1, <1>2 DEF Ip4Next, in4Vars, GroupsChange, Readdressed

LEMMA ServicesIp4 == [Next]_vars => [Ip4Next]_in4Vars
<1> SUFFICES ASSUME [Next]_vars PROVE [Ip4Next]_in4Vars
  OBVIOUS
<1>1. CASE UNCHANGED vars
  BY <1>1 DEF vars, hostVars
<1>2. CASE UNCHANGED hostVars
  BY <1>2 DEF hostVars
<1>3. CASE HostNext
  BY <1>3, Zenon DEF HostNext
<1> QED BY <1>1, <1>2, <1>3 DEF Next

\* An echo is answered by a message that is good exactly when the echo was, for
\* every width of a byte, every checksum and every content (uip.c adds the change
\* of the type to the checksum and never looks at the message), and nothing that
\* was damaged, cut or a fragment is passed on but what the UDP connections take
\* by broadcast without a look at the header sum.
THEOREM EchoesStayValid == Spec => []EchoIsValid
<1>1. Init => EchoIsValid
  BY DEF Init, Ip4Init, EchoIsValid, Nothing4
<1>2. EchoIsValid /\ [Next]_vars => EchoIsValid'
  BY ServicesIp4, Ip4StepInv
<1> QED BY <1>1, <1>2, PTL DEF Spec

-----------------------------------------------------------------------------
(* Segments that leave as two (uip-split.c).                               *)

LEMMA Quarters ==
  ASSUME NEW a \in Nat
  PROVE  a \div 4 \in Nat /\ 4 * (a \div 4) <= a /\ a <= 4 * (a \div 4) + 3
OBVIOUS

LEMMA Halved ==
  ASSUME NEW a \in Nat
  PROVE  a \div 2 \in Nat /\ a \div 2 <= a
OBVIOUS

\* A step of the copy within a buffer, by a distance of by.
CopyStep(w, by, i) == Down(w, 2 + (i - 1) * Word, 1 + i * Word, by)

IsCopy(f, n, M, buf, by) ==
    /\ f \in [0..n -> [0..M -> Nat]] /\ f[0] = Down(buf, 0, 1, by)
    /\ \A i \in 1..n : f[i] = CopyStep(f[i - 1], by, i)

HasCopy(n, M, buf, by, c) == \E f : IsCopy(f, n, M, buf, by) /\ c = f[n]

LEMMA CopyPass ==
  ASSUME NEW M \in Nat, NEW buf \in [0..M -> Nat], NEW by \in Nat, NEW len2 \in Nat, NEW n \in Nat,
         n = Words4(len2), by + 1 + 4 * n <= M
  PROVE  HasCopy(n, M, buf, by, CopiedDown(buf, by, len2))
<1> DEFINE IsPass(f) == f = [i \in 0..n |-> IF i = 0 THEN Down(buf, 0, 1, by) ELSE CopyStep(f[i - 1], by, i)]
<1>1. PICK S : S = [0..M -> Nat]
  OBVIOUS
<1>2. PICK z : z = Down(buf, 0, 1, by)
  OBVIOUS
<1>3. z \in S
  <2>1. \A k \in 0..M : k \in 0..1 => k + by \in 0..M
    OBVIOUS
  <2>2. DOMAIN buf = 0..M
    OBVIOUS
  <2> QED BY <1>1, <1>2, <2>1, <2>2 DEF Down
<1>4. PICK G : G = [x \in S \X (1..n) |-> CopyStep(x[1], by, x[2])]
  OBVIOUS
<1>5. ASSUME NEW w \in S, NEW i \in 1..n PROVE CopyStep(w, by, i) \in S
  <2>1. PICK lo \in Nat, hi \in Nat : lo = 2 + (i - 1) * Word /\ hi = 1 + i * Word /\ hi + by <= M
    BY DEF Word
  <2>2. \A k \in 0..M : k \in lo..hi => k + by \in 0..M
    BY <2>1
  <2>3. DOMAIN w = 0..M /\ \A k \in 0..M : w[k] \in Nat
    BY <1>1
  <2>4. [k \in 0..M |-> IF k \in lo..hi THEN w[k + by] ELSE w[k]] \in S
    BY <1>1, <2>2, <2>3
  <2> QED BY <2>1, <2>3, <2>4, Zenon DEF CopyStep, Down
<1>6. G \in [S \X (1..n) -> S] /\ \A w \in S, i \in 1..n : G[<<w, i>>] = CopyStep(w, by, i)
  BY <1>4, <1>5
<1>7. PICK f \in [0..n -> S] : f = [i \in 0..n |-> IF i = 0 THEN z ELSE G[<<f[i - 1], i>>]]
  <2>1. HasRecursion(n, S, z, G)
    BY <1>3, <1>6, RecursionExists
  <2> QED BY <2>1 DEF HasRecursion
<1>8. IsPass(f)
  <2>1. \A i \in 0..n : (IF i = 0 THEN z ELSE G[<<f[i - 1], i>>]) = IF i = 0 THEN z ELSE CopyStep(f[i - 1], by, i)
    <3>1. ASSUME NEW i \in 0..n, i # 0 PROVE G[<<f[i - 1], i>>] = CopyStep(f[i - 1], by, i)
      <4>1. i \in 1..n /\ i - 1 \in 0..n
        BY <3>1
      <4> QED BY <1>6, <4>1
    <3> QED BY <3>1, Zenon
  <2> QED BY <1>2, <1>7, <2>1, Zenon
<1> DEFINE g == CHOOSE e : IsPass(e)
<1>9. IsPass(g)
  <2> HIDE DEF IsPass
  <2> QED BY <1>8, Zenon
<1>10. CopiedDown(buf, by, len2) = g[n]
  <2>1. CopiedDown(buf, by, len2) = (CHOOSE e : e = [i \in 0..Words4(len2) |-> IF i = 0 THEN Down(buf, 0, 1, by) ELSE CopyStep(e[i - 1], by, i)])[Words4(len2)]
    BY Zenon DEF CopiedDown, CopyStep
  <2> QED BY <2>1, Zenon
<1> HIDE DEF g
<1>11. /\ g[0] = Down(buf, 0, 1, by) /\ f[0] = Down(buf, 0, 1, by)
       /\ \A i \in 1..n : i - 1 \in 0..n /\ g[i] = CopyStep(g[i - 1], by, i) /\ f[i] = CopyStep(f[i - 1], by, i)
  <2>1. 0 \in 0..n /\ \A i \in 1..n : i \in 0..n /\ i - 1 \in 0..n /\ i # 0
    OBVIOUS
  <2> QED BY <1>8, <1>9, <2>1, Zenon
<1>12. g[n] = f[n]
  <2> DEFINE T == {k \in 0..n : g[k] = f[k]}
  <2>1. 0 \in T
    BY <1>11
  <2>2. ASSUME NEW i \in 1..n, i - 1 \in T PROVE i \in T
    <3>1. i \in 0..n
      OBVIOUS
    <3> QED BY <1>11, <2>2, <3>1, Zenon
  <2>3. 0..n \subseteq T
    <3> HIDE DEF T
    <3> QED BY <2>1, <2>2, StepByStep
  <2>4. n \in 0..n
    OBVIOUS
  <2> QED BY <2>3, <2>4
<1>13. IsCopy(f, n, M, buf, by)
  BY <1>1, <1>7, <1>11, Zenon DEF IsCopy
<1> QED BY <1>10, <1>12, <1>13, Zenon DEF HasCopy

CopiedFrom(c, buf, by, n) == \A k \in 0..(1 + 4 * n) : c[k] = buf[k + by]
LEMMA CopiedIs ==
  ASSUME NEW M \in Nat, NEW buf \in [0..M -> Nat], NEW by \in Nat, NEW len2 \in Nat, NEW n \in Nat,
         n = Words4(len2), by + 1 + 4 * n <= M
  PROVE  CopiedFrom(CopiedDown(buf, by, len2), buf, by, n)
<1>0. HasCopy(n, M, buf, by, CopiedDown(buf, by, len2))
  BY CopyPass
<1>1. PICK f : IsCopy(f, n, M, buf, by) /\ CopiedDown(buf, by, len2) = f[n]
  BY <1>0, Zenon DEF HasCopy
<1> DEFINE T == {i \in 0..n : \A k \in 0..M : f[i][k] = IF k <= 1 + 4 * i THEN buf[k + by] ELSE buf[k]}
<1>2. 0 \in T
  <2>1. f[0] = [k \in 0..M |-> IF k \in 0..1 THEN buf[k + by] ELSE buf[k]]
    <3>1. f[0] = Down(buf, 0, 1, by) /\ DOMAIN buf = 0..M
      BY <1>1 DEF IsCopy
    <3> QED BY <3>1, Zenon DEF Down
  <2>2. ASSUME NEW k \in 0..M PROVE f[0][k] = IF k <= 1 + 4 * 0 THEN buf[k + by] ELSE buf[k]
    <3>1. k \in 0..1 <=> k <= 1 + 4 * 0
      OBVIOUS
    <3> QED BY <2>1, <3>1
  <2>3. 0 \in 0..n
    OBVIOUS
  <2> QED BY <2>2, <2>3, Zenon
<1>3. ASSUME NEW i \in 1..n, i - 1 \in T PROVE i \in T
  <2>1. PICK w : w = f[i - 1]
    OBVIOUS
  <2>2. w \in [0..M -> Nat] /\ \A k \in 0..M : w[k] = IF k <= 1 + 4 * (i - 1) THEN buf[k + by] ELSE buf[k]
    <3>1. i - 1 \in 0..n /\ \A k \in 0..M : f[i - 1][k] = IF k <= 1 + 4 * (i - 1) THEN buf[k + by] ELSE buf[k]
      BY <1>3
    <3> QED BY <1>1, <2>1, <3>1 DEF IsCopy
  <2>3. PICK lo \in Nat, hi \in Nat : lo = 2 + (i - 1) * Word /\ hi = 1 + i * Word
    BY DEF Word
  <2>0. PICK e \in Nat : e = 1 + 4 * (i - 1) /\ lo = e + 1 /\ hi = e + 4 /\ hi + by <= M /\ 1 + 4 * i = e + 4
    <3>1. lo = 2 + (i - 1) * 4 /\ hi = 1 + i * 4
      BY <2>3 DEF Word
    <3>2. PICK j \in Nat : i = j + 1
      OBVIOUS
    <3> QED BY <3>1, <3>2
  <2>4. f[i] = [k \in 0..M |-> IF k \in lo..hi THEN w[k + by] ELSE w[k]]
    <3>1. f[i] = CopyStep(w, by, i)
      BY <1>1, <2>1 DEF IsCopy
    <3>2. DOMAIN w = 0..M
      BY <2>2
    <3> QED BY <2>3, <3>1, <3>2, Zenon DEF CopyStep, Down
  <2>5. ASSUME NEW k \in 0..M PROVE f[i][k] = IF k <= 1 + 4 * i THEN buf[k + by] ELSE buf[k]
    <3>1. CASE k \in lo..hi
      <4>1. k + by \in 0..M /\ ~(k + by <= e) /\ k <= e + 4
        BY <2>0, <3>1
      <4>2. w[k + by] = buf[k + by]
        BY <2>0, <2>2, <4>1, Zenon
      <4> QED BY <2>0, <2>4, <3>1, <4>1, <4>2, Zenon
    <3>2. CASE k \notin lo..hi
      <4>1. k <= e <=> k <= e + 4
        BY <2>0, <3>2
      <4> QED BY <2>0, <2>2, <2>4, <3>2, <4>1, Zenon
    <3> QED BY <3>1, <3>2
  <2>6. i \in 0..n
    OBVIOUS
  <2> QED BY <2>5, <2>6, Zenon
<1>4. n \in T
  <2>1. n \in 0..n
    OBVIOUS
  <2> HIDE DEF T
  <2>2. 0..n \subseteq T
    BY <1>2, <1>3, StepByStep
  <2> QED BY <2>1, <2>2
<1>5. ASSUME NEW k \in 0..(1 + 4 * n) PROVE f[n][k] = buf[k + by]
  <2>1. k \in 0..M /\ k <= 1 + 4 * n
    OBVIOUS
  <2> QED BY <1>4, <2>1, Zenon
<1> QED BY <1>1, <1>5, Zenon DEF CopiedFrom

LEMMA FunctionIsSeq ==
  ASSUME NEW S, NEW n \in Nat, NEW a \in [1..n -> S]
  PROVE  a \in Seq(S) /\ Len(a) = n
OBVIOUS

SplitInv == tcpSeqno \in Nat /\ SplitIsWhole

LEMMA SplitOutputInv ==
  ASSUME NEW n \in 0..MaxSegment, SplitInv, uip_split_output(n)
  PROVE  SplitInv'
<1>0. MaxSegment \in Nat /\ SeqWrap \in Nat \ {0} /\ tcpSeqno \in Nat
  BY SplitConsts DEF SplitInv
<1>1. PICK M \in Nat : M = MaxSegment + 8
  BY <1>0
<1>b. PICK buf : buf = Appdata(n)
  OBVIOUS
<1>2. buf \in [0..M -> Nat]
  BY <1>0, <1>1, <1>b DEF Appdata, Word
<1>3. PICK l1 \in Nat, l2 \in Nat : l1 = len1(n) /\ l2 = n - l1 /\ l1 + l2 = n
  <2>1. PICK h \in Nat : h = n \div 2 /\ h <= n
    BY <1>0, Halved
  <2>2. PICK q \in Nat : q = h \div 4 /\ 4 * q <= h
    BY Quarters
  <2>3. len1(n) = q * 4 /\ q * 4 <= n
    BY <1>0, <2>1, <2>2 DEF len1, Word
  <2> QED BY <1>0, <2>3
<1>4. /\ segment' = Frame(tcpSeqno, Payload(buf, n))
      /\ framesOut' = (IF n > SplitThreshold
                   THEN << Frame(tcpSeqno, Payload(buf, l1)),
                           Frame((tcpSeqno + l1) % SeqWrap, Payload(CopiedDown(buf, l1, l2), l2)) >>
                   ELSE << Frame(tcpSeqno, Payload(buf, n)) >>)
      /\ tcpSeqno' = (tcpSeqno + n) % SeqWrap
  BY <1>b, <1>3, Zenon DEF uip_split_output
<1>5. tcpSeqno' \in Nat
  BY <1>0, <1>4
<1>6. CASE ~(n > SplitThreshold)
  BY <1>4, <1>5, <1>6 DEF SplitInv, SplitIsWhole, Frame
<1>7. CASE n > SplitThreshold
  <2>1. PICK k \in Nat : k = Words4(l2) /\ l1 + 1 + 4 * k <= M /\ l2 <= 1 + 4 * k
    <3>1. PICK q \in Nat : q = l2 \div 4 /\ 4 * q <= l2 /\ l2 <= 4 * q + 3
      BY Quarters
    <3> QED BY <1>0, <1>1, <1>3, <3>1 DEF Words4, Word
  <2>2. PICK c : c = CopiedDown(buf, l1, l2)
    OBVIOUS
  <2>3. \A j \in 0..(1 + 4 * k) : c[j] = buf[j + l1]
    <3>1. CopiedFrom(c, buf, l1, k)
      BY <1>2, <2>1, <2>2, CopiedIs
    <3> QED BY <3>1, Zenon DEF CopiedFrom
  <2>4. PICK a, b, d : a = Payload(buf, l1) /\ b = Payload(c, l2) /\ d = Payload(buf, n)
    OBVIOUS
  <2>5. a \in Seq(Nat) /\ Len(a) = l1 /\ \A i \in 1..l1 : a[i] = buf[i - 1]
    <3>1. \A i \in 1..l1 : i - 1 \in 0..M
      BY <1>0, <1>1, <1>3
    <3>2. a \in [1..l1 -> Nat] /\ \A i \in 1..l1 : a[i] = buf[i - 1]
      BY <1>2, <2>4, <3>1 DEF Payload
    <3> QED BY <3>2, FunctionIsSeq
  <2>6. d \in Seq(Nat) /\ Len(d) = n /\ \A i \in 1..n : d[i] = buf[i - 1]
    <3>1. \A i \in 1..n : i - 1 \in 0..M
      BY <1>0, <1>1
    <3>2. \A i \in 1..n : buf[i - 1] \in Nat
      BY <1>2, <3>1, Zenon
    <3>3. d = [i \in 1..n |-> buf[i - 1]]
      BY <2>4, Zenon DEF Payload
    <3>4. d \in [1..n -> Nat] /\ \A i \in 1..n : d[i] = buf[i - 1]
      BY <3>2, <3>3, Zenon
    <3>5. n \in Nat
      BY <1>0
    <3> QED BY <3>4, <3>5, FunctionIsSeq
  <2>7. b \in Seq(Nat) /\ Len(b) = l2 /\ \A i \in 1..l2 : b[i] = buf[i - 1 + l1]
    <3>1. ASSUME NEW i \in 1..l2 PROVE c[i - 1] = buf[i - 1 + l1] /\ c[i - 1] \in Nat
      <4>1. i - 1 \in 0..(1 + 4 * k) /\ i - 1 + l1 \in 0..M
        BY <2>1
      <4> QED BY <1>2, <2>3, <4>1
    <3>2. b \in [1..l2 -> Nat] /\ \A i \in 1..l2 : b[i] = buf[i - 1 + l1]
      BY <2>4, <3>1 DEF Payload
    <3> QED BY <3>2, FunctionIsSeq
  <2>8. a \o b = d
    <3>1. PICK e : e = a \o b
      OBVIOUS
    <3>2. e \in Seq(Nat) /\ Len(e) = l1 + l2 /\ \A i \in 1..(l1 + l2) : e[i] = IF i <= l1 THEN a[i] ELSE b[i - l1]
      <4>1. a \in Seq(Nat) /\ b \in Seq(Nat)
        BY <2>5, <2>7
      <4>2. e \in Seq(Nat) /\ Len(e) = Len(a) + Len(b)
            /\ \A i \in 1..(Len(a) + Len(b)) : e[i] = IF i <= Len(a) THEN a[i] ELSE b[i - Len(a)]
        BY <3>1, <4>1, ConcatProperties
      <4> QED BY <2>5, <2>7, <4>2, Zenon
    <3>3. ASSUME NEW i \in 1..n PROVE e[i] = d[i]
      <4>1. CASE i <= l1
        <5>1. i \in 1..l1 /\ i \in 1..(l1 + l2)
          BY <1>3, <4>1
        <5> QED BY <2>5, <2>6, <3>2, <4>1, <5>1, Zenon
      <4>2. CASE ~(i <= l1)
        <5>1. i - l1 \in 1..l2 /\ (i - l1) - 1 + l1 = i - 1 /\ i \in 1..(l1 + l2)
          BY <1>3, <4>2
        <5> QED BY <2>6, <2>7, <3>2, <4>2, <5>1
      <4> QED BY <4>1, <4>2
    <3>4. e = d
      BY <1>3, <2>6, <3>2, <3>3, SeqEqual
    <3> QED BY <3>1, <3>4
  <2>9. framesOut' = <<Frame(tcpSeqno, a), Frame((tcpSeqno + l1) % SeqWrap, b)>> /\ segment' = Frame(tcpSeqno, d)
    BY <1>4, <1>7, <2>2, <2>4, Zenon
  <2> QED BY <1>5, <2>5, <2>8, <2>9 DEF SplitInv, SplitIsWhole, Frame
<1> QED BY <1>6, <1>7

LEMMA SplitNextInv == SplitInv /\ [SplitNext]_splitVars => SplitInv'
<1>1. ASSUME SplitInv, UNCHANGED splitVars PROVE SplitInv'
  BY <1>1 DEF SplitInv, SplitIsWhole, splitVars
<1> QED BY <1>1, SplitOutputInv DEF SplitNext

LEMMA SplitInitInv == SplitInit => SplitInv
  BY DEF SplitInit, SplitInv, SplitIsWhole

LEMMA ServicesSplit == [Next]_vars => [SplitNext]_splitVars
<1> SUFFICES ASSUME [Next]_vars PROVE [SplitNext]_splitVars
  OBVIOUS
<1>1. CASE UNCHANGED vars
  BY <1>1 DEF vars, hostVars
<1>2. CASE UNCHANGED hostVars
  BY <1>2 DEF hostVars
<1>3. CASE HostNext
  BY <1>3, Zenon DEF HostNext
<1> QED BY <1>1, <1>2, <1>3 DEF Next

\* What leaves is the segment that the stack made, for segments of any length, any
\* threshold and across the wrap of the sequence numbers, though uip-split.c copies the
\* second part over the first within the one buffer, a short and then whole words.
THEOREM SplitStaysWhole == Spec => []SplitIsWhole
<1>1. Init => SplitInv
  BY SplitInitInv DEF Init
<1>2. SplitInv /\ [Next]_vars => SplitInv'
  BY ServicesSplit, SplitNextInv
<1>3. SplitInv => SplitIsWhole
  BY DEF SplitInv
<1> QED BY <1>1, <1>2, <1>3, PTL DEF Spec

\* What the stack changes in place (the ICMP echo of uip.c, the segments of uip-split.c)
\* leaves as it should.
THEOREM WireStaysRight == Spec => []WireIsRight
<1>1. EchoIsValid /\ SplitIsWhole => WireIsRight
  BY DEF WireIsRight
<1> QED BY <1>1, EchoesStayValid, SplitStaysWhole, PTL
=============================================================================
