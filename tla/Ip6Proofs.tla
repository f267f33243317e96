----------------------------- MODULE Ip6Proofs ------------------------------
(***************************************************************************)
(* Proofs about the IPv6 stack, for every value of its constants: the      *)
(* packets that wait for address resolution, the solicitations that reach  *)
(* the link, reassembly, the input of a packet, the routes behind the      *)
(* neighbours, linked lists, the loops that the RPL option shows and the   *)
(* preferred parent of a node.                                             *)
(* Each unit is run by itself in MCIp6; its lemmas are about its own part  *)
(* of the state, and the theorems about the whole specification.           *)
(***************************************************************************)
EXTENDS MCIp6, OrderLemmas

USE DEF packetVars, tableVars, rplVars

-----------------------------------------------------------------------------
(* Every step is a step of each unit or leaves it as it is. *)

LEMMA QueueUnit == [Next]_vars => [PqNext]_pqVars
  BY DEF Next, vars, PacketNext, TableNext, RplNext
LEMMA ReassUnit == [Next]_vars => [ReassNext]_reassVars
  BY DEF Next, vars, PacketNext, TableNext, RplNext
LEMMA OutUnit == [Next]_vars => [OutNext]_outVars
  BY DEF Next, vars, PacketNext, TableNext, RplNext
LEMMA InputUnit == [Next]_vars => [Ip6Next]_in6Vars
  BY DEF Next, vars, PacketNext, TableNext, RplNext
LEMMA TablesUnit == [Next]_vars => [NbrNext]_nbrVars
  BY DEF Next, vars, PacketNext, TableNext, RplNext
LEMMA ListUnit == [Next]_vars => [ListNext]_listVars
  BY DEF Next, vars, PacketNext, TableNext, RplNext
LEMMA DagUnit == [Next]_vars => [DagNext]_node
  BY DEF Next, vars, PacketNext, TableNext, RplNext
LEMMA HeaderUnit == [Next]_vars => [HdrNext]_hdrVars
  BY DEF Next, vars, PacketNext, TableNext, RplNext

-----------------------------------------------------------------------------
(* Packets that wait for address resolution (uip-packetqueue.c).           *)

HopStates == {"none", "incomplete", "stale", "delay", "reachable"}
HopTable == [HS -> [ip : Hops \cup {"none"}, state : HopStates, packet : MB \cup {0}]]

PqTypes ==
    /\ hop \in HopTable /\ age \in Seq(HS)
    /\ memb \in [MB -> Nat] /\ lifetimer \in [MB -> HS \cup {0}]
    /\ queued \in [MB -> Hops \cup {"none"}]
    /\ sentTo \in [for : Hops \cup {"none"}, to : Hops \cup {"none"}]

\* The packets that entries h hold: each in a block of its own, allocated once.
Held(h, m, q) ==
    /\ \A s, t \in HS : (h[s].packet # 0 /\ h[t].packet = h[s].packet) => s = t
    /\ \A s \in HS : h[s].packet # 0 => m[h[s].packet] = 1 /\ q[h[s].packet] = h[s].ip

\* Every entry that is used has its place in the order.
Used(e) == e.ip # "none" \/ e.state # "none"
AllAged(h, a) == \A s \in HS : Used(h[s]) => \E i \in 1..Len(a) : a[i] = s

PqInv == PqTypes /\ Held(hop, memb, queued) /\ AllAged(hop, age) /\ sentTo.for = sentTo.to

LEMMA PqInvQueued == PqInv => QueuedOnce
  BY DEF PqInv, QueuedOnce, Held

LEMMA PqInitInv == PqInit => PqInv
  BY PqAssumption DEF PqInit, PqInv, PqTypes, Held, AllAged, Used, HopTable, HopStates, NoHop, HS, MB

\* memb_alloc finds a block that nobody has.
LEMMA AllocIsFree ==
  ASSUME NEW m \in [MB -> Nat], memb_alloc(m) # 0
  PROVE  memb_alloc(m) \in MB /\ m[memb_alloc(m)] = 0
<1> DEFINE T == {b \in MB : m[b] = 0}
<1>1. T # {} /\ T \subseteq Nat
  BY PqAssumption DEF memb_alloc, MB
<1>2. \E x \in T : \A y \in T : x <= y
  <2> HIDE DEF T
  <2> QED BY <1>1, LeastOf
<1>3. ~(\A b \in MB : m[b] > 0)
  BY DEF memb_alloc
<1> QED BY <1>2, <1>3 DEF memb_alloc

\* An entry takes a block for a packet, or none.
LEMMA QueueHolds ==
  ASSUME NEW h \in HopTable, NEW s \in HS, NEW ip \in Hops, NEW m \in [MB -> Nat],
         NEW t \in [MB -> HS \cup {0}], queued \in [MB -> Hops \cup {"none"}],
         h[s].ip = ip, Held(h, m, queued), Queue(h, s, ip, m, t)
  PROVE  /\ hop' \in HopTable /\ memb' \in [MB -> Nat] /\ lifetimer' \in [MB -> HS \cup {0}]
         /\ queued' \in [MB -> Hops \cup {"none"}]
         /\ Held(hop', memb', queued')
         /\ \A e \in HS : Used(hop'[e]) = Used(h[e])
<1> DEFINE b == IF h[s].packet = 0 THEN memb_alloc(m) ELSE 0
<1>1. CASE b = 0
  BY <1>1 DEF Queue
<1>2. CASE b # 0
  <2>1. b \in MB /\ m[b] = 0 /\ h[s].packet = 0
    BY <1>2, AllocIsFree
  <2>2. /\ hop' = [h EXCEPT ![s].packet = b]
        /\ memb' = [m EXCEPT ![b] = @ + 1]
        /\ lifetimer' = [t EXCEPT ![b] = s]
        /\ queued' = [queued EXCEPT ![b] = ip]
    BY <1>2 DEF Queue
  <2> HIDE DEF b
  <2>3. /\ \A e \in HS : /\ hop'[e].ip = h[e].ip /\ hop'[e].state = h[e].state
                          /\ hop'[e].packet = IF e = s THEN b ELSE h[e].packet
        /\ hop' \in HopTable
    BY <2>1, <2>2 DEF HopTable
  <2>4. memb' \in [MB -> Nat] /\ lifetimer' \in [MB -> HS \cup {0}] /\ queued' \in [MB -> Hops \cup {"none"}]
    BY <2>1, <2>2
  <2>5. \A c \in MB : /\ memb'[c] = IF c = b THEN 1 ELSE m[c]
                      /\ queued'[c] = IF c = b THEN ip ELSE queued[c]
    BY <2>1, <2>2
  <2>6. \A e \in HS : h[e].packet # 0 => h[e].packet # b
    BY <2>1 DEF Held
  <2>7. \A e \in HS : h[e].packet \in MB \cup {0} /\ 0 \notin MB
    BY PqAssumption DEF HopTable, MB
  <2>8. Held(hop', memb', queued')
    BY <2>1, <2>3, <2>5, <2>6, <2>7 DEF Held
  <2> QED BY <2>3, <2>4, <2>8 DEF Used
<1> QED BY <1>1, <1>2

\* What entry s held is free again, in entries h that are like the others.
LEMMA FreeHolds ==
  ASSUME PqInv, NEW s \in HS, NEW h, h[s].packet = 0,
         \A e \in HS : e # s => h[e].packet = hop[e].packet /\ h[e].ip = hop[e].ip
  PROVE  /\ FreedBlocks(s) \in [MB -> Nat] /\ FreedTimers(s) \in [MB -> HS \cup {0}]
         /\ Held(h, FreedBlocks(s), queued)
<1>1. hop[s].packet \in MB \cup {0} /\ memb \in [MB -> Nat] /\ lifetimer \in [MB -> HS \cup {0}]
  BY DEF PqInv, PqTypes, HopTable
<1>2. CASE hop[s].packet = 0
  <2>1. FreedBlocks(s) = memb /\ FreedTimers(s) = lifetimer
    BY <1>2 DEF FreedBlocks, FreedTimers, memb_free
  <2> QED BY <1>1, <1>2, <2>1 DEF PqInv, Held
<1>3. CASE hop[s].packet # 0
  <2>1. /\ FreedBlocks(s) = [memb EXCEPT ![hop[s].packet] = IF @ > 0 THEN @ - 1 ELSE 0]
        /\ FreedTimers(s) = [lifetimer EXCEPT ![hop[s].packet] = 0]
    BY <1>3 DEF FreedBlocks, FreedTimers, memb_free
  <2>2. FreedBlocks(s) \in [MB -> Nat] /\ FreedTimers(s) \in [MB -> HS \cup {0}]
    BY <1>1, <1>3, <2>1
  <2>3. \A e \in HS : (e # s /\ hop[e].packet # 0) =>
          hop[e].packet # hop[s].packet /\ hop[e].packet \in MB
    BY <1>3 DEF PqInv, PqTypes, HopTable, Held
  <2>4. \A e \in HS : (e # s /\ hop[e].packet # 0) => FreedBlocks(s)[hop[e].packet] = memb[hop[e].packet]
    BY <1>1, <2>1, <2>3
  <2> QED BY <2>2, <2>3, <2>4 DEF PqInv, Held
<1> QED BY <1>2, <1>3

LEMMA MadeIs ==
  ASSUME PqInv, NEW s \in HS, NEW ip \in Hops
  PROVE  /\ Made(s, ip) \in HopTable /\ Made(s, ip)[s].packet = 0 /\ Made(s, ip)[s].ip = ip
         /\ \A e \in HS : e # s => Made(s, ip)[e] = hop[e]
  BY DEF PqInv, PqTypes, HopTable, HopStates, Made

LEMMA OutputUnknownInv ==
  ASSUME PqInv, NEW ip \in Hops, OutputUnknown(ip)
  PROVE  PqInv'
<1> USE DEF PqInv
<1>1. sentTo' = sentTo
  BY DEF OutputUnknown
<1>2. ASSUME NEW s \in HS, NEW m \in [MB -> Nat], NEW t \in [MB -> HS \cup {0}],
             Held(Made(s, ip), m, queued), Queue(Made(s, ip), s, ip, m, t),
             age' \in Seq(HS), \A e \in HS : (Used(hop[e]) \/ e = s) => \E i \in 1..Len(age') : age'[i] = e
      PROVE  PqInv'
  <2>1. /\ hop' \in HopTable /\ memb' \in [MB -> Nat] /\ lifetimer' \in [MB -> HS \cup {0}]
        /\ queued' \in [MB -> Hops \cup {"none"}]
        /\ Held(hop', memb', queued')
        /\ \A e \in HS : Used(hop'[e]) = Used(Made(s, ip)[e])
    BY <1>2, MadeIs, QueueHolds DEF PqTypes
  <2>2. \A e \in HS : Used(hop'[e]) => Used(hop[e]) \/ e = s
    BY <2>1, MadeIs
  <2> QED BY <1>1, <1>2, <2>1, <2>2 DEF PqTypes, AllAged, Held
<1>3. \A s \in HS : Held(Made(s, ip), memb, queued)
  BY MadeIs DEF Held
<1>4. CASE \E s \in Incomplete : Queue(Made(s, ip), s, ip, memb, lifetimer) /\ UNCHANGED age
  <2>1. PICK s \in HS : Queue(Made(s, ip), s, ip, memb, lifetimer) /\ age' = age /\ Used(hop[s])
    BY <1>4 DEF Incomplete, Used
  <2>2. \A e \in HS : (Used(hop[e]) \/ e = s) => \E i \in 1..Len(age') : age'[i] = e
    BY <2>1 DEF AllAged
  <2> QED BY <1>2, <1>3, <2>1, <2>2 DEF PqTypes
<1>5. CASE \E s \in HS : /\ Incomplete = {} /\ hop[s].ip = "none"
                         /\ Queue(Made(s, ip), s, ip, memb, lifetimer) /\ age' = Append(age, s)
  <2>1. PICK s \in HS : Queue(Made(s, ip), s, ip, memb, lifetimer) /\ age' = Append(age, s)
    BY <1>5
  <2>2. age \in Seq(HS)
    BY DEF PqTypes
  <2>3. /\ age' \in Seq(HS) /\ Len(age') = Len(age) + 1 /\ age'[Len(age) + 1] = s
        /\ \A i \in 1..Len(age) : age'[i] = age[i]
    BY <2>1, <2>2
  <2>4. \A e \in HS : (Used(hop[e]) \/ e = s) => \E i \in 1..Len(age') : age'[i] = e
    BY <2>2, <2>3 DEF AllAged
  <2> QED BY <1>2, <1>3, <2>1, <2>3, <2>4 DEF PqTypes
<1>6. CASE /\ \A e \in HS : hop[e].ip # "none"
           /\ Queue(Made(Head(age), ip), Head(age), ip, FreedBlocks(Head(age)), FreedTimers(Head(age)))
           /\ age' = Append(Tail(age), Head(age))
  <2> DEFINE s == Head(age)
  <2>1. age \in Seq(HS) /\ age # <<>>
    <3>1. 1 \in HS
      BY PqAssumption DEF HS
    <3>2. Used(hop[1])
      BY <1>6, <3>1 DEF Used
    <3> QED BY <3>1, <3>2 DEF PqTypes, AllAged
  <2>2. s \in HS /\ age[1] = s
    BY <2>1
  <2>3. /\ age' \in Seq(HS) /\ Len(age') = Len(age) /\ age'[Len(age)] = s
        /\ \A i \in 1..(Len(age) - 1) : age'[i] = age[i + 1]
    BY <1>6, <2>1
  <2>4. ASSUME NEW e \in HS, Used(hop[e]) \/ e = s
        PROVE  \E i \in 1..Len(age') : age'[i] = e
    <3>1. CASE e = s
      BY <2>1, <2>3, <3>1
    <3>2. CASE e # s
      <4>1. PICK i \in 1..Len(age) : age[i] = e
        BY <2>4, <3>2 DEF AllAged
      <4>2. i - 1 \in 1..(Len(age) - 1) /\ (i - 1) + 1 = i
        BY <2>2, <3>2, <4>1
      <4>3. age'[i - 1] = e /\ i - 1 \in 1..Len(age')
        BY <2>1, <2>3, <4>1, <4>2
      <4> QED BY <4>3
    <3> QED BY <3>1, <3>2
  <2>5. /\ FreedBlocks(s) \in [MB -> Nat] /\ FreedTimers(s) \in [MB -> HS \cup {0}]
        /\ Held(Made(s, ip), FreedBlocks(s), queued)
    BY <2>2, MadeIs, FreeHolds
  <2>6. Queue(Made(s, ip), s, ip, FreedBlocks(s), FreedTimers(s))
    BY <1>6
  <2> HIDE DEF s
  <2> QED BY <1>2, <2>2, <2>3, <2>4, <2>5, <2>6
<1> QED BY <1>4, <1>5, <1>6 DEF OutputUnknown

LEMMA OutputIncompleteInv ==
  ASSUME PqInv, NEW ip \in Hops, OutputIncomplete(ip)
  PROVE  PqInv'
<1>1. PICK s \in HS : hop[s].ip = ip /\ Queue(hop, s, ip, memb, lifetimer) /\ UNCHANGED <<age, sentTo>>
  BY DEF OutputIncomplete, EntryFor
<1>2. /\ hop' \in HopTable /\ memb' \in [MB -> Nat] /\ lifetimer' \in [MB -> HS \cup {0}]
      /\ queued' \in [MB -> Hops \cup {"none"}]
      /\ Held(hop', memb', queued')
      /\ \A e \in HS : Used(hop'[e]) = Used(hop[e])
  BY <1>1, QueueHolds DEF PqInv, PqTypes
<1> QED BY <1>1, <1>2 DEF PqInv, PqTypes, AllAged, Held

\* What a step that empties entry s does.
LEMMA EmptiedInv ==
  ASSUME PqInv, NEW s \in HS, hop' \in HopTable, hop'[s].packet = 0,
         \A e \in HS : e # s => hop'[e] = hop[e],
         memb' = FreedBlocks(s), lifetimer' \in [MB -> HS \cup {0}], queued' = queued,
         age' \in Seq(HS), AllAged(hop', age'),
         sentTo' \in [for : Hops \cup {"none"}, to : Hops \cup {"none"}], sentTo'.for = sentTo'.to
  PROVE  PqInv'
<1>1. Held(hop', FreedBlocks(s), queued) /\ FreedBlocks(s) \in [MB -> Nat]
  BY FreeHolds
<1> QED BY <1>1 DEF PqInv, PqTypes, AllAged, Held

LEMMA OutputKnownInv ==
  ASSUME PqInv, NEW ip \in Hops, OutputKnown(ip)
  PROVE  PqInv'
<1>1. PICK s \in EntryFor(ip) :
        /\ hop[s].state # "incomplete"
        /\ uip_packetqueue_free(s)
        /\ sentTo' = IF hop[s].packet # 0 THEN [for |-> queued[hop[s].packet], to |-> ip]
                     ELSE [for |-> ip, to |-> ip]
        /\ hop' = [hop EXCEPT ![s].packet = 0,
                     ![s].state = IF @ = "stale" THEN "delay" ELSE @]
        /\ UNCHANGED <<age, queued>>
  BY Zenon DEF OutputKnown
<1>2. s \in HS /\ hop[s].ip = ip /\ hop[s] \in [ip : Hops \cup {"none"}, state : HopStates, packet : MB \cup {0}]
  BY DEF EntryFor, PqInv, PqTypes, HopTable
<1>3. /\ hop'[s] = [hop[s] EXCEPT !.packet = 0, !.state = IF @ = "stale" THEN "delay" ELSE @]
      /\ \A e \in HS : e # s => hop'[e] = hop[e]
      /\ hop' \in HopTable
  BY <1>1, <1>2 DEF PqInv, PqTypes, HopTable, HopStates
<1>4. hop'[s].packet = 0 /\ hop'[s].ip = ip
  BY <1>2, <1>3
<1>5. Used(hop[s]) /\ \A e \in HS : Used(hop'[e]) => Used(hop[e])
  BY <1>2, <1>3, PqAssumption DEF Used
<1>6. sentTo'.for = sentTo'.to /\ sentTo' \in [for : Hops \cup {"none"}, to : Hops \cup {"none"}]
  BY <1>1, <1>2 DEF PqInv, PqTypes, Held
<1>7. memb' = FreedBlocks(s) /\ lifetimer' \in [MB -> HS \cup {0}]
  <2>1. memb' = FreedBlocks(s) /\ lifetimer' = FreedTimers(s)
    BY <1>1 DEF uip_packetqueue_free
  <2>2. \A e \in HS : e # s => hop'[e].packet = hop[e].packet /\ hop'[e].ip = hop[e].ip
    BY <1>3
  <2>3. FreedTimers(s) \in [MB -> HS \cup {0}]
    BY <1>2, <1>4, <2>2, FreeHolds
  <2> QED BY <2>1, <2>3
<1>8. age' = age /\ queued' = queued
  BY <1>1
<1> QED BY <1>2, <1>3, <1>4, <1>5, <1>6, <1>7, <1>8, EmptiedInv DEF PqInv, PqTypes, AllAged

LEMMA NaInputInv ==
  ASSUME PqInv, NEW s \in HS, na_input(s)
  PROVE  PqInv'
<1>1. /\ hop[s].ip # "none"
      /\ uip_packetqueue_free(s)
      /\ sentTo' = IF hop[s].packet # 0 THEN [for |-> queued[hop[s].packet], to |-> hop[s].ip]
                   ELSE sentTo
      /\ hop' = [hop EXCEPT ![s].packet = 0, ![s].state = "reachable"]
      /\ UNCHANGED <<age, queued>>
  BY Zenon DEF na_input
<1>2. hop[s] \in [ip : Hops \cup {"none"}, state : HopStates, packet : MB \cup {0}]
  BY DEF PqInv, PqTypes, HopTable
<1>3. /\ hop'[s] = [hop[s] EXCEPT !.packet = 0, !.state = "reachable"]
      /\ \A e \in HS : e # s => hop'[e] = hop[e]
      /\ hop' \in HopTable
  BY <1>1, <1>2 DEF PqInv, PqTypes, HopTable, HopStates
<1>4. hop'[s].packet = 0
  BY <1>2, <1>3
<1>5. Used(hop[s]) /\ \A e \in HS : Used(hop'[e]) => Used(hop[e])
  BY <1>1, <1>3 DEF Used
<1>6. sentTo'.for = sentTo'.to /\ sentTo' \in [for : Hops \cup {"none"}, to : Hops \cup {"none"}]
  BY <1>1, <1>2 DEF PqInv, PqTypes, Held
<1>7. memb' = FreedBlocks(s) /\ lifetimer' \in [MB -> HS \cup {0}]
  <2>1. memb' = FreedBlocks(s) /\ lifetimer' = FreedTimers(s)
    BY <1>1, Zenon DEF uip_packetqueue_free
  <2>2. \A e \in HS : e # s => hop'[e].packet = hop[e].packet /\ hop'[e].ip = hop[e].ip
    BY <1>3
  <2>3. FreedTimers(s) \in [MB -> HS \cup {0}]
    BY <1>2, <1>4, <2>2, FreeHolds
  <2> QED BY <2>1, <2>3
<1>8. age' = age /\ queued' = queued
  BY <1>1
<1> QED BY <1>3, <1>4, <1>5, <1>6, <1>7, <1>8, EmptiedInv DEF PqInv, PqTypes, AllAged

LEMMA NsInputInv ==
  ASSUME PqInv, NEW s \in HS, ns_input(s)
  PROVE  PqInv'
<1>1. /\ hop' \in HopTable
      /\ \A e \in HS : hop'[e].ip = hop[e].ip /\ hop'[e].packet = hop[e].packet
      /\ \A e \in HS : Used(hop'[e]) => Used(hop[e])
  BY DEF ns_input, PqInv, PqTypes, HopTable, HopStates, Used
<1>2. UNCHANGED <<age, memb, lifetimer, queued, sentTo>>
  BY DEF ns_input
<1>3. PqTypes' /\ AllAged(hop, age)' /\ (sentTo.for = sentTo.to)'
  BY <1>1, <1>2 DEF PqInv, PqTypes, AllAged
<1>4. Held(hop, memb, queued)'
  BY <1>1, <1>2 DEF PqInv, Held
<1> QED BY <1>3, <1>4 DEF PqInv

LEMMA RemovalInv ==
  ASSUME PqInv, NEW s \in HS, Removal(s)
  PROVE  PqInv'
<1>1. /\ hop' \in HopTable /\ hop'[s] = NoHop /\ \A e \in HS : e # s => hop'[e] = hop[e]
  BY DEF Removal, PqInv, PqTypes, HopTable, HopStates, NoHop
<1>2. hop'[s].packet = 0 /\ ~Used(hop'[s])
  BY <1>1 DEF NoHop, Used
<1>3. age \in Seq(HS) /\ age' = RemoveFirst(age, s)
  BY DEF Removal, PqInv, PqTypes
<1>4. age' \in Seq(HS) /\ AllAged(hop', age')
  <2>1. /\ age' \in Seq(HS)
        /\ \A i \in 1..Len(age) : age[i] # s => \E j \in 1..Len(age') : age'[j] = age[i]
    BY <1>3, OthersStay DEF Without
  <2> QED BY <1>1, <1>2, <2>1 DEF PqInv, AllAged
<1>5. memb' = FreedBlocks(s) /\ lifetimer' \in [MB -> HS \cup {0}]
  BY <1>1, <1>2, FreeHolds DEF Removal, uip_packetqueue_free
<1> QED BY <1>1, <1>2, <1>4, <1>5, EmptiedInv DEF Removal, PqInv, PqTypes

\* The timer of a block may be for an entry that holds another one by now.
LEMMA TimedOutInv ==
  ASSUME PqInv, NEW b \in MB, packet_timedout(b)
  PROVE  PqInv'
<1> DEFINE s == lifetimer[b]
<1>1. s \in HS
  BY DEF packet_timedout, PqInv, PqTypes
<1>2. memb' = FreedBlocks(s) /\ lifetimer' \in [MB -> HS \cup {0}] /\ hop' = Emptied(s)
      /\ age' = age /\ queued' = queued /\ sentTo' = sentTo
  BY DEF packet_timedout, FreedBlocks, PqInv, PqTypes
<1> HIDE DEF s
<1>3. /\ hop' \in HopTable /\ hop'[s].packet = 0 /\ \A e \in HS : e # s => hop'[e] = hop[e]
      /\ \A e \in HS : Used(hop'[e]) => Used(hop[e])
  BY <1>1, <1>2 DEF Emptied, PqInv, PqTypes, HopTable, Used
<1> QED BY <1>1, <1>2, <1>3, EmptiedInv DEF PqInv, PqTypes, AllAged

LEMMA PqNextInv == PqInv /\ [PqNext]_pqVars => PqInv'
<1> SUFFICES ASSUME PqInv, [PqNext]_pqVars PROVE PqInv'
  OBVIOUS
<1>1. CASE UNCHANGED pqVars
  BY <1>1 DEF pqVars, PqInv, PqTypes, Held, AllAged
<1> QED BY <1>1, OutputUnknownInv, OutputIncompleteInv, OutputKnownInv, NaInputInv, NsInputInv,
           RemovalInv, TimedOutInv DEF PqNext

\* A packet that waits for address resolution is in one block, allocated once and held by
\* one entry, and goes to the neighbour it waits for (tcpip_ipv6_output,
\* uip_packetqueue_alloc, packet_timedout), for every size of the table and of the queue.
THEOREM PacketsQueuedOnce == Spec => []QueuedOnce
<1>1. Init => PqInv
  BY PqInitInv DEF Init
<1>2. PqInv /\ [Next]_vars => PqInv'
  BY QueueUnit, PqNextInv
<1> QED BY <1>1, <1>2, PqInvQueued, PTL DEF Spec

-----------------------------------------------------------------------------
(* Reassembly (uip_reass of uip6.c).                                       *)

ReassRecord == [on : BOOLEAN, id : Datagrams \cup {0}, bitmap : SUBSET Blocks, last : BOOLEAN,
                first : BOOLEAN, len : Nat]

\* What is marked in r was copied from datagram d, and its length is d's once the last
\* fragment has come.
IsOf(r, buf, d) ==
    /\ r.id = d /\ \A b \in r.bitmap : buf[b] = d
    /\ r.last => r.len = DatagramLength[d]

ReassInv ==
    /\ reass \in ReassRecord /\ reassbuf \in [Blocks -> Datagrams \cup {0}]
    /\ reass.on => \E d \in Datagrams : IsOf(reass, reassbuf, d)
    /\ ReassembledIsWhole

LEMMA ReassInitInv == ReassInit => ReassInv
  BY ReassAssumption DEF ReassInit, ReassInv, ReassRecord, Idle, IsOf, ReassembledIsWhole, Blocks

\* The record with one field changed.
WithOn(r, v) == [r EXCEPT !.on = v]
WithId(r, v) == [r EXCEPT !.id = v]
WithBits(r, v) == [r EXCEPT !.bitmap = v]
WithLast(r, v) == [r EXCEPT !.last = v]
WithFirst(r, v) == [r EXCEPT !.first = v]
WithLen(r, v) == [r EXCEPT !.len = v]

SameBut(q, r, except) ==
    /\ q \in ReassRecord
    /\ "on" \in except \/ q.on = r.on
    /\ "id" \in except \/ q.id = r.id
    /\ "bitmap" \in except \/ q.bitmap = r.bitmap
    /\ "last" \in except \/ q.last = r.last
    /\ "len" \in except \/ q.len = r.len

LEMMA WithOneField ==
  ASSUME NEW r \in ReassRecord
  PROVE  /\ \A v \in BOOLEAN : SameBut(WithOn(r, v), r, {"on"}) /\ WithOn(r, v).on = v
         /\ \A v \in Datagrams : SameBut(WithId(r, v), r, {"id"}) /\ WithId(r, v).id = v
         /\ \A v \in SUBSET Blocks : SameBut(WithBits(r, v), r, {"bitmap"}) /\ WithBits(r, v).bitmap = v
         /\ \A v \in BOOLEAN : SameBut(WithLast(r, v), r, {"last"}) /\ WithLast(r, v).last = v
         /\ \A v \in BOOLEAN : SameBut(WithFirst(r, v), r, {})
         /\ \A v \in Nat : SameBut(WithLen(r, v), r, {"len"}) /\ WithLen(r, v).len = v
  BY DEF ReassRecord, SameBut, WithOn, WithId, WithBits, WithLast, WithFirst, WithLen

LEMMA SameIsRecord == \A q, r, e : SameBut(q, r, e) => q \in ReassRecord
  BY DEF SameBut

LEMMA MarkedIsOf ==
  ASSUME ReassInv, NEW f \in Fragments, SameDatagram(f), ~Overflows(f)
  PROVE  /\ Marked(f) \in ReassRecord /\ IsOf(Marked(f), Copied(f), f.id)
         /\ Copied(f) \in [Blocks -> Datagrams \cup {0}]
<1> DEFINE c == Current(f)
<1>1. /\ f.id \in Datagrams /\ f.off \in Nat /\ f.n \in Nat /\ f.more \in BOOLEAN
      /\ f.more <=> f.off + f.n < DatagramLength[f.id]
      /\ f.off + f.n <= DatagramLength[f.id] /\ f.off + f.n <= ReassBufsize
  BY ReassAssumption DEF Fragments, Overflows
<1>2. c \in ReassRecord /\ IsOf(c, reassbuf, f.id)
  <2>1. CASE ~reass.on
    <3>1. c = Started(f)
      BY <2>1 DEF Current
    <3> DEFINE r1 == WithOn(Idle, TRUE)
               r2 == WithId(r1, f.id)
    <3>2. Started(f) = WithLen(r2, reass.len)
      BY DEF Started, WithOn, WithId, WithLen
    <3>3. Idle \in ReassRecord /\ Idle.bitmap = {} /\ Idle.last = FALSE /\ reass.len \in Nat
      BY DEF Idle, ReassRecord, ReassInv
    <3>4. SameBut(r1, Idle, {"on"})
      BY <3>3, WithOneField
    <3> HIDE DEF r1
    <3>5. SameBut(r2, r1, {"id"}) /\ r2.id = f.id
      BY <1>1, <3>4, WithOneField, SameIsRecord
    <3> HIDE DEF r2
    <3>6. SameBut(WithLen(r2, reass.len), r2, {"len"})
      BY <3>3, <3>5, WithOneField, SameIsRecord
    <3>7. c \in ReassRecord /\ c.bitmap = {} /\ c.last = FALSE /\ c.id = f.id
      BY <3>1, <3>2, <3>3, <3>4, <3>5, <3>6 DEF SameBut
    <3> QED BY <3>7 DEF IsOf
  <2>2. CASE reass.on
    <3>1. c = reass /\ reass.id = f.id
      BY <2>2 DEF Current, SameDatagram
    <3> QED BY <2>2, <3>1 DEF ReassInv, IsOf
  <2> QED BY <2>1, <2>2
<1>3. Covered(f) \subseteq Blocks
  BY <1>1, ReassAssumption DEF Covered, Blocks
<1>4. Copied(f) \in [Blocks -> Datagrams \cup {0}] /\ \A b \in Covered(f) : Copied(f)[b] = f.id
  BY <1>1, <1>3 DEF Copied, ReassInv
<1>5. \A b \in Blocks : Copied(f)[b] \in {f.id, reassbuf[b]}
  BY <1>3 DEF Copied
<1> HIDE DEF c
<1> DEFINE m1 == WithBits(c, c.bitmap \cup Covered(f))
           m2 == WithFirst(m1, c.first \/ f.off = 0)
           m3 == WithLast(m2, c.last \/ ~f.more)
           m4 == WithLen(m3, IF f.more THEN c.len ELSE f.off + f.n)
<1>6. Marked(f) = m4
  BY DEF Marked, c, WithBits, WithFirst, WithLast, WithLen
<1>7. /\ SameBut(m4, c, {"bitmap", "last", "len"})
      /\ m4.bitmap = c.bitmap \cup Covered(f) /\ m4.last = (c.last \/ ~f.more)
      /\ m4.len = IF f.more THEN c.len ELSE f.off + f.n
  <2>1. c.bitmap \cup Covered(f) \in SUBSET Blocks /\ (c.first \/ f.off = 0) \in BOOLEAN
        /\ (c.last \/ ~f.more) \in BOOLEAN /\ c.len \in Nat
    BY <1>2, <1>3 DEF ReassRecord
  <2>2. SameBut(m1, c, {"bitmap"}) /\ m1.bitmap = c.bitmap \cup Covered(f)
    BY <1>2, <2>1, WithOneField
  <2> HIDE DEF m1
  <2>3. SameBut(m2, m1, {})
    BY <2>1, <2>2, WithOneField, SameIsRecord
  <2> HIDE DEF m2
  <2>4. SameBut(m3, m2, {"last"}) /\ m3.last = (c.last \/ ~f.more)
    BY <2>1, <2>3, WithOneField, SameIsRecord
  <2> HIDE DEF m3
  <2>5. (IF f.more THEN c.len ELSE f.off + f.n) \in Nat
    BY <1>1, <2>1
  <2>6. SameBut(m4, m3, {"len"}) /\ m4.len = IF f.more THEN c.len ELSE f.off + f.n
    BY <2>4, <2>5, WithOneField, SameIsRecord
  <2> HIDE DEF m4
  <2> QED BY <2>2, <2>3, <2>4, <2>6 DEF SameBut
<1> HIDE DEF m4
<1>8. /\ Marked(f) \in ReassRecord
      /\ Marked(f).id = c.id /\ Marked(f).bitmap = c.bitmap \cup Covered(f)
      /\ Marked(f).last = (c.last \/ ~f.more)
      /\ Marked(f).len = IF f.more THEN c.len ELSE f.off + f.n
  BY <1>6, <1>7 DEF SameBut
<1>9. Marked(f).last => Marked(f).len = DatagramLength[f.id]
  <2>1. CASE f.more = TRUE
    BY <1>2, <1>8, <2>1 DEF IsOf
  <2>2. CASE f.more = FALSE
    <3>1. f.off + f.n = DatagramLength[f.id]
      BY <1>1, <2>2, ReassAssumption
    <3> QED BY <1>8, <2>2, <3>1
  <2> QED BY <1>1, <2>1, <2>2
<1>10. \A b \in Marked(f).bitmap : Copied(f)[b] = f.id
  BY <1>2, <1>4, <1>5, <1>8 DEF IsOf, ReassRecord
<1> QED BY <1>2, <1>4, <1>8, <1>9, <1>10 DEF IsOf

\* A block has its bit in a byte of the bitmap that is not behind the last one.
LEMMA ByteOfBlock ==
  ASSUME NEW len \in Nat, NEW b \in 0 .. (len - 1)
  PROVE  /\ b \div BitsPerByte \in Nat /\ b \in ByteOf(b \div BitsPerByte)
         /\ b \div BitsPerByte <= len \div BitsPerByte /\ len \div BitsPerByte \in Nat
<1>1. BitsPerByte \in Nat \ {0} /\ b \in Nat /\ b < len
  BY ReassAssumption
<1>2. b \div BitsPerByte \in Nat /\ BitsPerByte * (b \div BitsPerByte) <= b
      /\ b < BitsPerByte * (b \div BitsPerByte) + BitsPerByte
  BY <1>1
<1>3. b \div BitsPerByte <= len \div BitsPerByte /\ len \div BitsPerByte \in Nat
  BY <1>1
<1>4. BitsPerByte * (b \div BitsPerByte) = (b \div BitsPerByte) * BitsPerByte
      /\ (b \div BitsPerByte) * BitsPerByte \in Int
  BY <1>1, <1>2
<1> QED BY <1>1, <1>2, <1>3, <1>4 DEF ByteOf

\* The test for a whole datagram looks at every block.
LEMMA CompleteCovers ==
  ASSUME NEW r \in ReassRecord, Complete(r)
  PROVE  0 .. (r.len - 1) \subseteq r.bitmap
<1> DEFINE last == r.len \div BitsPerByte
<1>1. r.len \in Nat
  BY DEF ReassRecord
<1>2. ASSUME LastByteIsRight(r), NEW b \in 0 .. (r.len - 1), b \div BitsPerByte = last
      PROVE  b \in r.bitmap
  <2>1. b \in ByteOf(last)
    BY <1>1, <1>2, ByteOfBlock
  <2>2. b \in {x \in ByteOf(last) : x < r.len}
    BY <1>1, <2>1
  <2> QED BY <1>2, <2>2 DEF LastByteIsRight
<1>3. ASSUME NEW b \in 0 .. (r.len - 1)
      PROVE  b \in r.bitmap
  <2> DEFINE i == b \div BitsPerByte
  <2>1. i \in Nat /\ b \in ByteOf(i) /\ i <= last /\ last \in Nat
    BY <1>1, ByteOfBlock
  <2>2. CASE i = last
    BY <1>2, <1>3, <2>2 DEF Complete
  <2>3. CASE i < last
    <3> HIDE DEF i
    <3>1. i \in 0 .. (last - 1)
      BY <2>1, <2>3
    <3> QED BY <1>3, <2>1, <3>1 DEF Complete
  <2> HIDE DEF i, last
  <2>4. i = last \/ i < last
    BY <2>1
  <2> QED BY <2>2, <2>3, <2>4
<1> QED BY <1>3

LEMMA StoreInv ==
  ASSUME ReassInv, NEW f \in Fragments, SameDatagram(f), ~Overflows(f), Store(f)
  PROVE  ReassInv'
<1> DEFINE r == Marked(f)
<1>1. /\ r \in ReassRecord /\ IsOf(r, Copied(f), f.id)
      /\ Copied(f) \in [Blocks -> Datagrams \cup {0}] /\ f.id \in Datagrams
  BY MarkedIsOf DEF Fragments
<1>2. reassbuf' = Copied(f)
  BY DEF Store
<1>3. CASE ~Complete(r)
  <2>1. reass' = r /\ whole' = whole
    BY <1>3 DEF Store
  <2>2. ReassembledIsWhole'
    BY <2>1 DEF ReassInv, ReassembledIsWhole
  <2> HIDE DEF r
  <2> QED BY <1>1, <1>2, <2>1, <2>2 DEF ReassInv
<1>4. CASE Complete(r)
  <2>1. /\ reass' = WithOn(r, FALSE)
        /\ whole' = [id |-> r.id, len |-> r.len,
                     blocks |-> {b \in Blocks : reassbuf'[b] = r.id /\ b \in r.bitmap}]
    BY <1>4 DEF Store, WithOn
  <2>2. r.last /\ 0 .. (r.len - 1) \subseteq r.bitmap
    BY <1>1, <1>4, CompleteCovers DEF Complete
  <2> HIDE DEF r
  <2>3. SameBut(reass', r, {"on"}) /\ reass'.on = FALSE
    BY <1>1, <2>1, WithOneField
  <2>4. whole'.id = f.id /\ whole'.len = r.len /\ whole'.blocks = r.bitmap /\ r.len = DatagramLength[f.id]
    BY <1>1, <1>2, <2>1, <2>2 DEF IsOf, ReassRecord
  <2>5. ReassembledIsWhole'
    BY <2>2, <2>4 DEF ReassembledIsWhole
  <2> QED BY <1>1, <1>2, <2>3, <2>5, SameIsRecord DEF ReassInv
<1> QED BY <1>3, <1>4

LEMMA OffInv ==
  ASSUME ReassInv, reass' = WithOn(reass, FALSE), reassbuf' = reassbuf, whole' = whole
  PROVE  ReassInv'
<1>1. SameBut(reass', reass, {"on"}) /\ reass'.on = FALSE
  BY WithOneField DEF ReassInv
<1>2. ReassembledIsWhole'
  BY DEF ReassInv, ReassembledIsWhole
<1> QED BY <1>1, <1>2, SameIsRecord DEF ReassInv

LEMMA ReassNextInv == ReassInv /\ [ReassNext]_reassVars => ReassInv'
<1> SUFFICES ASSUME ReassInv, [ReassNext]_reassVars PROVE ReassInv'
  OBVIOUS
<1>1. CASE UNCHANGED reassVars
  BY <1>1 DEF ReassInv, ReassembledIsWhole, reassVars
<1>2. ASSUME Discard PROVE ReassInv'
  BY <1>2, OffInv DEF Discard, WithOn
<1>3. ASSUME NEW f \in Fragments, uip_reass(f) PROVE ReassInv'
  BY <1>1, <1>2, <1>3, StoreInv DEF uip_reass
<1>4. CASE uip_reass_over
  BY <1>4, OffInv DEF uip_reass_over, WithOn
<1> QED BY <1>1, <1>3, <1>4 DEF ReassNext

\* A reassembled datagram is the sender's, whatever fragments were lost, repeated, reordered
\* or mixed with those of others, for every size of the buffer and every number of datagrams.
THEOREM ReassembledStaysWhole == Spec => []ReassembledIsWhole
<1>1. Init => ReassInv
  BY ReassInitInv DEF Init
<1>2. ReassInv /\ [Next]_vars => ReassInv'
  BY ReassUnit, ReassNextInv
<1>3. ReassInv => ReassembledIsWhole
  BY DEF ReassInv
<1> QED BY <1>1, <1>2, <1>3, PTL DEF Spec

-----------------------------------------------------------------------------
(* Solicitations that reach the link (uip_server_support.c, uip-ds6.c).    *)

AddrRecords == [state : {"none", "TENTATIVE", "PREFERRED"}, dadnscount : Nat, left : Nat]
OutNbrRecords == [state : {"none", "INCOMPLETE", "known"}, nscount : Nat, left : Nat,
                  sourced : BOOLEAN]
Targets == Addrs \cup OutNbrs

OutTypes ==
    /\ uip_buf \in [kind : {"none", "ns", "data"}, to : Targets \cup Places]
    /\ addr_list \in [Addrs -> AddrRecords] /\ ds6_nbrs \in [OutNbrs -> OutNbrRecords]
    /\ pass \in [on : BOOLEAN, todo : SUBSET Targets] /\ (pass.todo # {} => pass.on)

\* A solicitation that the output call still to come sends.
Pending(x) == pass.on /\ uip_buf = Ns(x)

\* All that was counted has left the link, but for the one that is pending.
AddrAsked(a) ==
    LET r == addr_list[a]
    IN  /\ r.dadnscount <= r.left + 1 /\ (~Pending(a) => r.dadnscount <= r.left)
        /\ r.state = "PREFERRED" => MaxDad <= r.left
\* So for a neighbour, but for the first; the source does not get lost.
NbrAsked(n) ==
    LET r == ds6_nbrs[n]
    IN  Incomplete6(n) /\ r.sourced =>
            HasSource /\ r.nscount <= r.left + 2 /\ (~Pending(n) => r.nscount <= r.left + 1)

OutInv == OutTypes /\ (\A a \in Addrs : AddrAsked(a)) /\ (\A n \in OutNbrs : NbrAsked(n))

LEMMA OutInvAsked == OutInv => AskedOnTheLink
<1> SUFFICES ASSUME OutInv PROVE AskedOnTheLink
  OBVIOUS
<1>1. MaxDad \in Nat /\ MaxMulticastNs \in Nat
  BY OutAssumption
<1>2. ASSUME NEW a \in Addrs, addr_list[a].state = "PREFERRED" PROVE addr_list[a].left >= MaxDad
  <2>1. addr_list[a] \in AddrRecords /\ MaxDad <= addr_list[a].left
    BY <1>2 DEF OutInv, OutTypes, AddrAsked
  <2> QED BY <1>1, <2>1 DEF AddrRecords
<1>3. ASSUME NEW n \in OutNbrs, Silent(n), ds6_nbrs[n].sourced, uip_buf # Ns(n)
      PROVE  ds6_nbrs[n].left + 1 >= MaxMulticastNs
  <2>1. ds6_nbrs[n] \in OutNbrRecords
    BY DEF OutInv, OutTypes
  <2>2. ds6_nbrs[n].nscount <= ds6_nbrs[n].left + 1 /\ ds6_nbrs[n].nscount >= MaxMulticastNs
    BY <1>3 DEF OutInv, NbrAsked, Pending, Silent
  <2> QED BY <1>1, <2>1, <2>2 DEF OutNbrRecords
<1> QED BY <1>2, <1>3 DEF AskedOnTheLink

LEMMA OutInitInv == OutInit => OutInv
<1> SUFFICES ASSUME OutInit PROVE OutInv
  OBVIOUS
<1>1. OutTypes
  BY OutAssumption
     DEF OutInit, OutTypes, EmptyBuf, NoPass, NoAddr, Tentative, NoOutNbr, AddrRecords,
         OutNbrRecords, Places
<1>2. ASSUME NEW a \in Addrs PROVE AddrAsked(a)
  BY DEF OutInit, AddrAsked, NoAddr, Tentative
<1>3. ASSUME NEW n \in OutNbrs PROVE NbrAsked(n)
  BY DEF OutInit, NbrAsked, NoOutNbr, Incomplete6
<1> QED BY <1>1, <1>2, <1>3 DEF OutInv

\* A step after which nothing more is pending, nothing more counted, and no address lost.
LEMMA OutKept ==
  ASSUME OutInv, OutTypes', HasSource => HasSource',
         \A a \in Addrs : \/ addr_list'[a] = addr_list[a] /\ (Pending(a) => Pending(a)')
                          \/ AddrAsked(a)',
         \A n \in OutNbrs : \/ ds6_nbrs'[n] = ds6_nbrs[n] /\ (Pending(n) => Pending(n)')
                            \/ NbrAsked(n)'
  PROVE  OutInv'
<1>1. ASSUME NEW a \in Addrs PROVE AddrAsked(a)'
  BY DEF OutInv, AddrAsked
<1>2. ASSUME NEW n \in OutNbrs PROVE NbrAsked(n)'
  BY DEF OutInv, NbrAsked, Incomplete6
<1> QED BY <1>1, <1>2 DEF OutInv

LEMMA NothingAsked ==
  /\ \A a \in Addrs : addr_list'[a] \in {NoAddr, Tentative} => AddrAsked(a)'
  /\ \A n \in OutNbrs : ds6_nbrs'[n] \in {NoOutNbr, KnownNbr} => NbrAsked(n)'
<1>1. ASSUME NEW a \in Addrs, addr_list'[a] \in {NoAddr, Tentative} PROVE AddrAsked(a)'
  <2>1. addr_list'[a].dadnscount = 0 /\ addr_list'[a].left = 0 /\ addr_list'[a].state # "PREFERRED"
    BY <1>1 DEF NoAddr, Tentative
  <2> QED BY <2>1 DEF AddrAsked
<1>2. ASSUME NEW n \in OutNbrs, ds6_nbrs'[n] \in {NoOutNbr, KnownNbr} PROVE NbrAsked(n)'
  <2>1. ds6_nbrs'[n].state # "INCOMPLETE"
    BY <1>2 DEF NoOutNbr, KnownNbr
  <2> QED BY <2>1 DEF NbrAsked, Incomplete6
<1> QED BY <1>1, <1>2

LEMMA OutRecordsTyped ==
  /\ {NoAddr, Tentative} \subseteq AddrRecords /\ {NoOutNbr, KnownNbr} \subseteq OutNbrRecords
  /\ EmptyBuf \in [kind : {"none", "ns", "data"}, to : Targets \cup Places]
  /\ \A x \in Targets : Ns(x) \in [kind : {"none", "ns", "data"}, to : Targets \cup Places]
  /\ \A x \in Targets \cup Places :
       Data(x) \in [kind : {"none", "ns", "data"}, to : Targets \cup Places]
  /\ {NoPass, Output} \subseteq [on : BOOLEAN, todo : SUBSET Targets]
  /\ NoPass.todo = {} /\ Output.todo = {}
<1>1. {NoAddr, Tentative} \subseteq AddrRecords
  BY DEF NoAddr, Tentative, AddrRecords
<1>2. {NoOutNbr, KnownNbr} \subseteq OutNbrRecords
  <2>1. NoOutNbr \in OutNbrRecords
    BY DEF NoOutNbr, OutNbrRecords
  <2>2. KnownNbr \in OutNbrRecords
    BY <2>1 DEF KnownNbr, OutNbrRecords
  <2> QED BY <2>1, <2>2
<1>3. EmptyBuf \in [kind : {"none", "ns", "data"}, to : Targets \cup Places]
  BY DEF EmptyBuf, Places
<1>4. /\ \A x \in Targets : Ns(x) \in [kind : {"none", "ns", "data"}, to : Targets \cup Places]
      /\ \A x \in Targets \cup Places :
           Data(x) \in [kind : {"none", "ns", "data"}, to : Targets \cup Places]
  BY DEF Ns, Data
<1>5. /\ {NoPass, Output} \subseteq [on : BOOLEAN, todo : SUBSET Targets]
      /\ NoPass.todo = {} /\ Output.todo = {}
  BY DEF NoPass, Output
<1> QED BY <1>1, <1>2, <1>3, <1>4, <1>5

\* The solicitation in the buffer leaves, for one target.
LEMMA ToGroupInv ==
  ASSUME OutInv, pass = Output, pass' = NoPass, ToGroup
  PROVE  OutInv'
<1>1. /\ addr_list \in [Addrs -> AddrRecords] /\ ds6_nbrs \in [OutNbrs -> OutNbrRecords]
      /\ uip_buf' = EmptyBuf
      /\ addr_list' = [a \in Addrs |-> IF uip_buf = Ns(a) THEN [addr_list[a] EXCEPT !.left = @ + 1]
                                       ELSE addr_list[a]]
      /\ ds6_nbrs' = [n \in OutNbrs |-> IF uip_buf = Ns(n) THEN [ds6_nbrs[n] EXCEPT !.left = @ + 1]
                                        ELSE ds6_nbrs[n]]
  BY DEF OutInv, OutTypes, ToGroup
<1>2. ASSUME NEW a \in Addrs
      PROVE  /\ addr_list'[a] \in AddrRecords /\ addr_list'[a].state = addr_list[a].state
             /\ addr_list'[a].dadnscount = addr_list[a].dadnscount
             /\ addr_list'[a].left = IF uip_buf = Ns(a) THEN addr_list[a].left + 1
                                     ELSE addr_list[a].left
             /\ addr_list[a] \in AddrRecords
  BY <1>1 DEF AddrRecords
<1>3. ASSUME NEW n \in OutNbrs
      PROVE  /\ ds6_nbrs'[n] \in OutNbrRecords /\ ds6_nbrs'[n].state = ds6_nbrs[n].state
             /\ ds6_nbrs'[n].nscount = ds6_nbrs[n].nscount
             /\ ds6_nbrs'[n].sourced = ds6_nbrs[n].sourced
             /\ ds6_nbrs'[n].left = IF uip_buf = Ns(n) THEN ds6_nbrs[n].left + 1
                                    ELSE ds6_nbrs[n].left
             /\ ds6_nbrs[n] \in OutNbrRecords
  BY <1>1 DEF OutNbrRecords
<1>4. OutTypes'
  <2>1. addr_list' \in [Addrs -> AddrRecords] /\ ds6_nbrs' \in [OutNbrs -> OutNbrRecords]
    BY <1>1, <1>2, <1>3
  <2> QED BY <1>1, <2>1, OutRecordsTyped DEF OutTypes
<1>5. HasSource => HasSource'
  BY <1>2, OutAssumption DEF HasSource
<1>6. ASSUME NEW a \in Addrs PROVE AddrAsked(a)'
  <2>1. AddrAsked(a)
    BY DEF OutInv
  <2>2. addr_list[a].left \in Nat /\ addr_list[a].dadnscount \in Nat /\ MaxDad \in Nat
    BY <1>2, OutAssumption DEF AddrRecords
  <2> QED BY <1>2, <2>1, <2>2 DEF AddrAsked, Pending
<1>7. ASSUME NEW n \in OutNbrs PROVE NbrAsked(n)'
  <2>1. NbrAsked(n)
    BY DEF OutInv
  <2>2. ds6_nbrs[n].left \in Nat /\ ds6_nbrs[n].nscount \in Nat
    BY <1>3 DEF OutNbrRecords
  <2> QED BY <1>3, <1>5, <2>1, <2>2 DEF NbrAsked, Pending, Incomplete6
<1> QED BY <1>4, <1>6, <1>7 DEF OutInv

\* A neighbour to resolve takes the place of others.
LEMMA ToUnknownInv ==
  ASSUME OutInv, pass = Output, pass' = NoPass, NEW n \in OutNbrs, ToUnknown(n)
  PROVE  OutInv'
<1>1. PICK gone \in SUBSET OutNbrs :
        ds6_nbrs' = Entered(n, [state |-> "INCOMPLETE", nscount |-> 1, left |-> 0,
                                sourced |-> HasSource], gone)
  BY DEF ToUnknown, Losses
<1>2. uip_buf = Data(n) /\ addr_list' = addr_list /\ uip_buf' \in {Ns(n), EmptyBuf}
  BY DEF ToUnknown, uip_nd6_ns_output
<1>3. \A e \in OutNbrs : \/ ds6_nbrs'[e] = ds6_nbrs[e]
                         \/ ds6_nbrs'[e] = NoOutNbr
                         \/ ds6_nbrs'[e] = [state |-> "INCOMPLETE", nscount |-> 1, left |-> 0,
                                            sourced |-> HasSource]
  BY <1>1 DEF Entered
<1>4. HasSource \in BOOLEAN /\ HasSource' = HasSource
  BY <1>2 DEF HasSource
<1>5. OutTypes'
  <2>1. [state |-> "INCOMPLETE", nscount |-> 1, left |-> 0, sourced |-> HasSource] \in OutNbrRecords
    BY <1>4 DEF OutNbrRecords
  <2>2. ds6_nbrs' \in [OutNbrs -> OutNbrRecords]
    <3>1. \A e \in OutNbrs : ds6_nbrs'[e] \in OutNbrRecords
      BY <1>3, <2>1, OutRecordsTyped DEF OutInv, OutTypes
    <3> QED BY <1>1, <3>1 DEF Entered
  <2> QED BY <1>2, <2>2, OutRecordsTyped DEF OutInv, OutTypes, Targets
<1>6. \A x : ~Pending(x)
  BY <1>2 DEF Pending, Data, Ns
<1>7. ASSUME NEW e \in OutNbrs
      PROVE  ds6_nbrs'[e] = ds6_nbrs[e] \/ NbrAsked(e)'
  BY <1>3, <1>4, NothingAsked DEF NbrAsked, Incomplete6
<1> QED BY <1>2, <1>4, <1>5, <1>6, <1>7, OutKept

LEMMA OutputInv ==
  ASSUME OutInv, xtcpip_ipv6_output
  PROVE  OutInv'
<1>1. pass = Output /\ pass' = NoPass
  BY DEF xtcpip_ipv6_output
<1>2. ASSUME \A x \in Targets : uip_buf # Ns(x), UNCHANGED <<addr_list, ds6_nbrs>>,
             uip_buf' \in {EmptyBuf} \cup {Data(h) : h \in OutNbrs \cup {"nowhere"}}
      PROVE  OutInv'
  <2>1. OutTypes'
    BY <1>1, <1>2, OutRecordsTyped DEF OutInv, OutTypes, Targets, Places
  <2>2. \A x \in Targets : ~Pending(x)
    BY <1>2 DEF Pending
  <2> QED BY <1>2, <2>1, <2>2, OutKept DEF HasSource, Targets
<1>3. CASE ToGroup
  BY <1>1, <1>3, ToGroupInv
<1>4. CASE ToNowhere
  <2>1. \A x \in Targets : uip_buf # Ns(x)
    BY <1>4, OutAssumption DEF ToNowhere, Ns, Targets, Places
  <2> QED BY <1>2, <1>4, <2>1 DEF ToNowhere
<1>5. CASE ToDeadRoute
  BY <1>2, <1>5 DEF ToDeadRoute, Data, Ns
<1>6. ASSUME NEW n \in OutNbrs, ToNeighbour(n) PROVE OutInv'
  BY <1>2, <1>6 DEF ToNeighbour, Data, Ns
<1> QED BY <1>1, <1>3, <1>4, <1>5, <1>6, ToUnknownInv DEF xtcpip_ipv6_output

\* Between two passes nothing is pending.
LEMMA ReceivedInv ==
  ASSUME OutInv, Received, HasSource => HasSource',
         uip_buf' \in {EmptyBuf} \cup {Data(h) : h \in OutNbrs \cup Places},
         addr_list' = addr_list \/ (\E a \in Addrs, r \in {NoAddr, Tentative} :
                                      addr_list' = [addr_list EXCEPT ![a] = r]),
         ds6_nbrs' = ds6_nbrs \/ (\E n \in OutNbrs, S \in SUBSET OutNbrs :
                                    \/ ds6_nbrs' = [ds6_nbrs EXCEPT ![n] = KnownNbr]
                                    \/ ds6_nbrs' = Entered(n, KnownNbr, S))
  PROVE  OutInv'
<1>1. ~pass.on /\ pass' = Output
  BY DEF Received
<1>2. /\ addr_list' \in [Addrs -> AddrRecords]
      /\ \A a \in Addrs : addr_list'[a] = addr_list[a] \/ addr_list'[a] \in {NoAddr, Tentative}
  BY OutRecordsTyped DEF OutInv, OutTypes
<1>3. /\ ds6_nbrs' \in [OutNbrs -> OutNbrRecords]
      /\ \A n \in OutNbrs : ds6_nbrs'[n] = ds6_nbrs[n] \/ ds6_nbrs'[n] \in {NoOutNbr, KnownNbr}
  BY OutRecordsTyped DEF OutInv, OutTypes, Entered
<1>4. OutTypes'
  BY <1>1, <1>2, <1>3, OutRecordsTyped DEF OutTypes, Targets
<1>5. \A x : ~Pending(x)
  BY <1>1 DEF Pending
<1> QED BY <1>2, <1>3, <1>4, <1>5, NothingAsked, OutKept

\* What begins a pass or an output call and writes nothing.
LEMMA BeginsInv ==
  ASSUME OutInv, RsDone \/ Ds6Periodic
  PROVE  OutInv'
<1>1. pass' \in [on : BOOLEAN, todo : SUBSET Targets] /\ pass'.on
  <2>1. CASE RsDone
    BY <2>1, OutRecordsTyped DEF RsDone, Output
  <2>2. CASE Ds6Periodic
    <3> DEFINE S == {a \in Addrs : addr_list[a].state # "none"}
               T == {n \in OutNbrs : ds6_nbrs[n].state # "none"}
    <3>1. S \cup T \subseteq Targets
      BY DEF Targets
    <3>2. pass' = [on |-> TRUE, todo |-> S \cup T]
      BY <2>2 DEF Ds6Periodic
    <3> HIDE DEF S, T
    <3> QED BY <3>1, <3>2
  <2> QED BY <2>1, <2>2
<1>2. UNCHANGED <<uip_buf, addr_list, ds6_nbrs>> /\ ~pass.on
  BY DEF RsDone, Ds6Periodic
<1>3. OutTypes' /\ HasSource' = HasSource /\ (\A x : ~Pending(x))
  BY <1>1, <1>2 DEF OutInv, OutTypes, HasSource, Pending
<1> QED BY <1>2, <1>3, OutKept

\* A pass looks at what it has not looked at, and goes on.
LEMMA LookedIs ==
  ASSUME OutInv, NEW x, Looked(x)
  PROVE  /\ pass.on /\ pass'.on /\ pass' \in [on : BOOLEAN, todo : SUBSET Targets]
         /\ (uip_buf' = uip_buf => \A y : Pending(y) => Pending(y)')
BY DEF OutInv, OutTypes, Looked, Pending

LEMMA AddressPassInv ==
  ASSUME OutInv, NEW a \in Addrs, AddressPass(a)
  PROVE  OutInv'
<1>1. /\ pass.on /\ pass'.on /\ pass' \in [on : BOOLEAN, todo : SUBSET Targets] /\ ds6_nbrs' = ds6_nbrs
      /\ (uip_buf' = uip_buf => \A y : Pending(y) => Pending(y)')
  BY LookedIs DEF AddressPass
<1>2. addr_list \in [Addrs -> AddrRecords] /\ addr_list[a] \in AddrRecords /\ AddrAsked(a)
      /\ addr_list[a].dadnscount \in Nat /\ addr_list[a].left \in Nat /\ MaxDad \in Nat
  BY OutAssumption DEF OutInv, OutTypes, AddrRecords
<1>3. CASE UNCHANGED <<uip_buf, addr_list>>
  <2>1. OutTypes'
    BY <1>1, <1>3 DEF OutInv, OutTypes
  <2> QED BY <1>1, <1>3, <2>1, OutKept DEF HasSource
<1>4. CASE a # LinkLocalAddr /\ addr_list' = [addr_list EXCEPT ![a] = NoAddr] /\ UNCHANGED uip_buf
  <2>1. OutTypes'
    BY <1>1, <1>4, OutRecordsTyped DEF OutInv, OutTypes
  <2>2. HasSource => HasSource'
    BY <1>2, <1>4, OutAssumption DEF HasSource
  <2>3. \A b \in Addrs : addr_list'[b] = addr_list[b] \/ addr_list'[b] = NoAddr
    BY <1>2, <1>4
  <2> QED BY <1>1, <1>4, <2>1, <2>2, <2>3, NothingAsked, OutKept
<1>5. CASE addr_list[a].state = "TENTATIVE" /\ MayWrite /\ uip_ds6_dad(a)
  <2>1. \A x : ~Pending(x)
    BY <1>5 DEF MayWrite, Pending, EmptyBuf, Ns
  <2>2. CASE /\ addr_list[a].dadnscount < MaxDad /\ uip_buf' = Ns(a)
             /\ addr_list' = [addr_list EXCEPT ![a].dadnscount = @ + 1]
    <3>1. addr_list' \in [Addrs -> AddrRecords] /\ addr_list'[a].dadnscount = addr_list[a].dadnscount + 1
          /\ addr_list'[a].left = addr_list[a].left /\ addr_list'[a].state = addr_list[a].state
          /\ \A b \in Addrs \ {a} : addr_list'[b] = addr_list[b]
      BY <1>2, <2>2 DEF AddrRecords
    <3>2. OutTypes'
      BY <1>1, <2>2, <3>1, OutRecordsTyped DEF OutInv, OutTypes, Targets
    <3>3. HasSource => HasSource'
      BY <3>1, OutAssumption DEF HasSource
    <3>4. Pending(a)'
      BY <1>1, <2>2 DEF Pending
    <3>5. AddrAsked(a)'
      BY <1>2, <2>1, <3>1, <3>4 DEF AddrAsked
    <3> QED BY <1>1, <2>1, <3>1, <3>2, <3>3, <3>5, OutKept
  <2>3. CASE /\ ~(addr_list[a].dadnscount < MaxDad) /\ uip_buf' = uip_buf
             /\ addr_list' = [addr_list EXCEPT ![a].state = "PREFERRED"]
    <3>1. addr_list' \in [Addrs -> AddrRecords] /\ addr_list'[a].dadnscount = addr_list[a].dadnscount
          /\ addr_list'[a].left = addr_list[a].left /\ addr_list'[a].state = "PREFERRED"
          /\ \A b \in Addrs \ {a} : addr_list'[b] = addr_list[b]
      BY <1>2, <2>3 DEF AddrRecords
    <3>2. OutTypes'
      BY <1>1, <2>3, <3>1 DEF OutInv, OutTypes
    <3>3. HasSource => HasSource'
      BY <3>1, OutAssumption DEF HasSource
    <3>4. AddrAsked(a)'
      BY <1>2, <2>1, <2>3, <3>1 DEF AddrAsked
    <3> QED BY <1>1, <2>1, <3>1, <3>2, <3>3, <3>4, OutKept
  <2> QED BY <1>5, <2>2, <2>3 DEF uip_ds6_dad
<1> QED BY <1>3, <1>4, <1>5 DEF AddressPass

LEMMA NeighbourPassInv ==
  ASSUME OutInv, NEW n \in OutNbrs, NeighbourPass(n)
  PROVE  OutInv'
<1>1. /\ pass.on /\ pass'.on /\ pass' \in [on : BOOLEAN, todo : SUBSET Targets] /\ addr_list' = addr_list
      /\ (uip_buf' = uip_buf => \A y : Pending(y) => Pending(y)')
  BY LookedIs DEF NeighbourPass
<1>2. /\ ds6_nbrs \in [OutNbrs -> OutNbrRecords] /\ ds6_nbrs[n] \in OutNbrRecords /\ NbrAsked(n)
      /\ ds6_nbrs[n].nscount \in Nat /\ ds6_nbrs[n].left \in Nat /\ ds6_nbrs[n].sourced \in BOOLEAN
  BY DEF OutInv, OutTypes, OutNbrRecords
<1>3. HasSource' = HasSource
  BY <1>1 DEF HasSource
<1>4. CASE UNCHANGED <<uip_buf, ds6_nbrs>>
  <2>1. OutTypes'
    BY <1>1, <1>4 DEF OutInv, OutTypes
  <2> QED BY <1>1, <1>3, <1>4, <2>1, OutKept
<1>5. CASE Forgotten(n)
  <2>1. OutTypes'
    BY <1>1, <1>5, OutRecordsTyped DEF OutInv, OutTypes, Forgotten
  <2>2. \A e \in OutNbrs : ds6_nbrs'[e] = ds6_nbrs[e] \/ ds6_nbrs'[e] = NoOutNbr
    BY <1>2, <1>5 DEF Forgotten
  <2> QED BY <1>1, <1>3, <1>5, <2>1, <2>2, NothingAsked, OutKept DEF Forgotten
<1>6. CASE /\ Incomplete6(n) /\ MayWrite /\ uip_buf' = uip_nd6_ns_output(n, FALSE)
           /\ ds6_nbrs' = [ds6_nbrs EXCEPT ![n].nscount = @ + 1]
  <2>1. \A x : ~Pending(x)
    BY <1>6 DEF MayWrite, Pending, EmptyBuf, Ns
  <2>2. ds6_nbrs' \in [OutNbrs -> OutNbrRecords] /\ ds6_nbrs'[n].nscount = ds6_nbrs[n].nscount + 1
        /\ ds6_nbrs'[n].left = ds6_nbrs[n].left /\ ds6_nbrs'[n].state = ds6_nbrs[n].state
        /\ ds6_nbrs'[n].sourced = ds6_nbrs[n].sourced
        /\ \A e \in OutNbrs \ {n} : ds6_nbrs'[e] = ds6_nbrs[e]
    BY <1>2, <1>6 DEF OutNbrRecords
  <2>3. OutTypes'
    BY <1>1, <1>6, <2>2, OutRecordsTyped DEF OutInv, OutTypes, Targets, uip_nd6_ns_output
  <2>4. HasSource => Pending(n)'
    BY <1>1, <1>6 DEF Pending, uip_nd6_ns_output
  <2>5. NbrAsked(n)'
    BY <1>2, <1>3, <1>6, <2>1, <2>2, <2>4 DEF NbrAsked, Incomplete6
  <2> QED BY <1>1, <1>3, <2>1, <2>2, <2>3, <2>5, OutKept
<1>7. CASE MayWrite /\ uip_buf' \in {Data(n), EmptyBuf} /\ UNCHANGED ds6_nbrs
  <2>1. \A x : ~Pending(x)
    BY <1>7 DEF MayWrite, Pending, EmptyBuf, Ns
  <2>2. OutTypes'
    BY <1>1, <1>7, OutRecordsTyped DEF OutInv, OutTypes, Targets
  <2> QED BY <1>1, <1>3, <1>7, <2>1, <2>2, OutKept
<1> QED BY <1>4, <1>5, <1>6, <1>7 DEF NeighbourPass

LEMMA OutNextInv == OutInv /\ [OutNext]_outVars => OutInv'
<1> SUFFICES ASSUME OutInv, [OutNext]_outVars PROVE OutInv'
  OBVIOUS
<1>1. CASE UNCHANGED outVars
  BY <1>1 DEF outVars, OutInv, OutTypes, AddrAsked, NbrAsked, Pending, Incomplete6, HasSource
<1>2. CASE Filled
  BY <1>2, ReceivedInv DEF Filled, Received, HasSource
<1>3. ASSUME NEW n \in OutNbrs, NaReceived(n) PROVE OutInv'
  BY <1>3, ReceivedInv DEF NaReceived, HasSource
<1>4. ASSUME NEW n \in OutNbrs, NsReceived(n) PROVE OutInv'
  <2>1. \/ ds6_nbrs' = [ds6_nbrs EXCEPT ![n] = KnownNbr]
        \/ \E S \in SUBSET OutNbrs : ds6_nbrs' = Entered(n, KnownNbr, S)
    BY <1>4 DEF NsReceived
  <2>2. uip_buf' \in {Data(h) : h \in OutNbrs \cup Places} /\ Received /\ addr_list' = addr_list
    BY <1>4 DEF NsReceived, Places
  <2> QED BY <2>1, <2>2, ReceivedInv DEF HasSource
<1>5. ASSUME NEW a \in Addrs, uip_ds6_dad_failed(a) \/ RaReceived(a) PROVE OutInv'
  <2>1. /\ Received /\ uip_buf' = EmptyBuf /\ ds6_nbrs' = ds6_nbrs
        /\ \E r \in {NoAddr, Tentative} : addr_list' = [addr_list EXCEPT ![a] = r]
    BY <1>5 DEF uip_ds6_dad_failed, RaReceived
  <2>2. a # LinkLocalAddr \/ addr_list[a].state = "none"
    BY <1>5 DEF uip_ds6_dad_failed, RaReceived
  <2>3. HasSource => HasSource'
    BY <2>1, <2>2, OutAssumption DEF HasSource, OutInv, OutTypes
  <2> QED BY <2>1, <2>3, ReceivedInv
<1> QED BY <1>1, <1>2, <1>3, <1>4, <1>5, OutputInv, BeginsInv, AddressPassInv, NeighbourPassInv
     DEF OutNext

\* Duplicate address detection and the resolution of a neighbour count only what they
\* sent: for any number of addresses and neighbours, any limits, and whatever the main
\* loop puts into the one buffer in between (xtcp_process_timer, uip_ds6_periodic).
THEOREM SolicitationsReachTheLink == Spec => []AskedOnTheLink
<1>1. Init => OutInv
  BY OutInitInv DEF Init
<1>2. OutInv /\ [Next]_vars => OutInv'
  BY OutUnit, OutNextInv
<1> QED BY <1>1, <1>2, OutInvAsked, PTL DEF Spec

-----------------------------------------------------------------------------
(* The input of a packet (uip_process of uip6.c).                          *)

HeaderRecords == [kind : {"hbho", "desto", "routing", "frag"}, opts : Seq(OptionClasses), segs : Nat]

Admitted(p) == p.intact /\ p.src # "group" /\ p.dst # "other"

\* While the loop runs, no header before the current one stops the packet.
LoopInv ==
    /\ packet \in Packets /\ Admitted(packet) /\ hdr \in 1..(Len(packet.hdrs) + 1)
    /\ ~Departs(packet) => \A i \in 1..(hdr - 1) : Verdict(packet, i) = "fine"

InInv ==
    \/ packet = NoPacket /\ hdr = 0 /\ result = Dropped
    \/ LoopInv
    \/ packet \in Packets /\ hdr = 0 /\ InputAsSpecified

LEMMA PacketIs ==
  ASSUME NEW p \in Packets
  PROVE  /\ p.hdrs \in Seq(HeaderRecords) /\ Len(p.hdrs) \in Nat
         /\ p.src \in {"peer", "unspecified", "group"} /\ p.dst \in {"mine", "group", "other"}
         /\ p.up \in IcmpKinds \cup {"tcp", "udp", "none", "unknown"} /\ p.intact \in BOOLEAN
         /\ p # NoPacket
<1>1. p \in [src : {"peer", "unspecified", "group"}, dst : {"mine", "group", "other"},
             hdrs : Seq(HeaderRecords),
             up : IcmpKinds \cup {"tcp", "udp", "none", "unknown"}, intact : BOOLEAN]
  BY PacketsAssumption DEF HeaderRecords
<1>2. p.hdrs \in Seq(HeaderRecords) /\ p.src \in {"peer", "unspecified", "group"}
  BY <1>1
<1>3. p # NoPacket
  BY <1>2 DEF NoPacket
<1> QED BY <1>1, <1>2, <1>3

LEMMA HeaderIs ==
  ASSUME NEW p \in Packets, NEW i \in 1..Len(p.hdrs)
  PROVE  /\ p.hdrs[i].kind \in {"hbho", "desto", "routing", "frag"}
         /\ p.hdrs[i].opts \in Seq(OptionClasses) /\ p.hdrs[i].segs \in Nat
<1>1. p.hdrs[i] \in HeaderRecords
  BY PacketIs
<1> QED BY <1>1 DEF HeaderRecords

\* The header counts itself.
LEMMA CountIs ==
  ASSUME NEW p \in Packets, NEW i \in 1..Len(p.hdrs), NEW kind
  PROVE  LET before == Cardinality({j \in 1..(i - 1) : p.hdrs[j].kind = kind})
         IN  /\ before \in Nat
             /\ Count(p, i, kind) = IF p.hdrs[i].kind = kind THEN before + 1 ELSE before
<1> DEFINE B == {j \in 1..(i - 1) : p.hdrs[j].kind = kind}
           C == {j \in 1..i : p.hdrs[j].kind = kind}
<1>1. IsFiniteSet(B) /\ Cardinality(B) \in Nat
  <2>1. IsFiniteSet(1..(i - 1)) /\ B \in SUBSET (1..(i - 1))
    BY FS_Interval
  <2> HIDE DEF B
  <2> QED BY <2>1, FS_Subset, FS_CardinalityType
<1>2. C = IF p.hdrs[i].kind = kind THEN B \cup {i} ELSE B
  <2>1. 1..i = (1..(i - 1)) \cup {i}
    OBVIOUS
  <2> QED BY <2>1
<1>3. i \notin B
  OBVIOUS
<1>4. Count(p, i, kind) = Cardinality(C)
  BY DEF Count
<1> HIDE DEF B, C
<1>5. Cardinality(B \cup {i}) = Cardinality(B) + 1
  BY <1>1, <1>3, FS_AddElement
<1> QED BY <1>1, <1>2, <1>4, <1>5 DEF B

\* The option that decides is the first that is not skipped, if no RPL option hides it.
Asks(opts, o) ==
    LET real == {k \in DOMAIN opts : opts[k] \notin Skipped}
    IN  \E k \in real : opts[k] = o /\ \A j \in real : k <= j
LEMMA DecisiveIs ==
  ASSUME NEW opts \in Seq(OptionClasses), ~HiddenOptions(opts)
  PROVE  /\ Decisive(opts) \in OptionClasses
         /\ \A o \in OptionClasses \ Skipped : Asks(opts, o) <=> Decisive(opts) = o
<1> DEFINE other == {k \in DOMAIN opts : opts[k] # "pad"}
<1>1. DOMAIN opts = 1..Len(opts) /\ Len(opts) \in Nat /\ \A k \in 1..Len(opts) : opts[k] \in OptionClasses
  OBVIOUS
<1>2. CASE other = {}
  BY <1>2 DEF Decisive, Asks, OptionClasses, Skipped
<1>3. CASE other # {}
  <2>1. other \subseteq Nat
    BY <1>1
  <2>2. PICK x \in other : \A y \in other : x <= y
    <3> HIDE DEF other
    <3> QED BY <1>3, <2>1, LeastOf
  <2> DEFINE First(k) == opts[k] # "pad" /\ \A j \in 1..(k - 1) : opts[j] = "pad"
             c == CHOOSE k \in DOMAIN opts : First(k)
  <2>3. x \in DOMAIN opts /\ First(x)
    BY <1>1, <2>2
  <2>4. c \in DOMAIN opts /\ First(c)
    <3> HIDE DEF First
    <3> QED BY <2>3
  <2>5. c \in 1..Len(opts) /\ x \in 1..Len(opts)
    BY <1>1, <2>3, <2>4
  <2> HIDE DEF c
  <2>6. c = x
    <3>1. ~(c < x)
      BY <1>1, <2>2, <2>4, <2>5
    <3>2. ~(x < c)
      BY <2>3, <2>4, <2>5
    <3> QED BY <2>5, <3>1, <3>2
  <2>7. Decisive(opts) = opts[x]
    BY <2>3, <2>6 DEF Decisive, c
  <2>8. opts[x] \in OptionClasses /\ opts[x] # "pad" /\ x \in DOMAIN opts /\ x \in Nat
    BY <1>1, <2>3, <2>5
  <2>9. \A k \in DOMAIN opts : opts[k] \notin Skipped => k \in Nat /\ x <= k
    BY <1>1, <2>2 DEF Skipped
  <2>10. ASSUME NEW o \in OptionClasses \ Skipped, Asks(opts, o) PROVE opts[x] = o
    <3>1. PICK k \in DOMAIN opts : /\ opts[k] \notin Skipped /\ opts[k] = o
                                   /\ \A j \in DOMAIN opts : opts[j] \notin Skipped => k <= j
      BY <2>10 DEF Asks
    <3>2. CASE opts[x] \notin Skipped
      <4>1. k <= x /\ x <= k /\ k \in Nat
        BY <2>8, <2>9, <3>1, <3>2
      <4>2. k = x
        BY <2>8, <4>1
      <4> QED BY <3>1, <4>2
    <3>3. CASE opts[x] \in Skipped
      <4>1. opts[x] = "rpl" /\ x # k
        BY <2>8, <3>1, <3>3 DEF Skipped
      <4>2. x < k
        BY <2>8, <2>9, <3>1, <4>1
      <4> QED BY <2>8, <3>1, <4>1, <4>2 DEF HiddenOptions
    <3> QED BY <3>2, <3>3
  <2>11. ASSUME NEW o \in OptionClasses \ Skipped, opts[x] = o PROVE Asks(opts, o)
    BY <2>8, <2>9, <2>11 DEF Asks
  <2> QED BY <2>7, <2>8, <2>10, <2>11
<1> QED BY <1>2, <1>3

\* What the loop makes of the header it is at is the verdict on it.
LEMMA VerdictIs ==
  ASSUME packet \in Packets, hdr \in 1..Len(packet.hdrs), ~Departs(packet)
  PROVE  LET h == packet.hdrs[hdr]
             r == ext_hdr_options_process(h.opts)
         IN  Verdict(packet, hdr) =
               IF TooMany(h) THEN "next_header"
               ELSE IF h.kind = "frag" THEN "dropped"
               ELSE IF h.kind = "routing" THEN IF h.segs > 0 THEN "header" ELSE "fine"
               ELSE IF r = 0 THEN "fine" ELSE IF r = 1 THEN "dropped" ELSE "option"
<1> DEFINE h == packet.hdrs[hdr]
           r == ext_hdr_options_process(h.opts)
<1>1. /\ h.kind \in {"hbho", "desto", "routing", "frag"}
      /\ h.opts \in Seq(OptionClasses) /\ h.segs \in Nat
  BY HeaderIs
<1>2. Before(h.kind) \in Nat /\ Count(packet, hdr, h.kind) = Before(h.kind) + 1
  BY CountIs DEF Before
<1>3. h.kind = "hbho" => (Before("hbho") > 0 <=> hdr > 1)
  <2>1. ASSUME hdr > 1, h.kind = "hbho" PROVE Before("hbho") > 0
    <3>1. hdr \in 2..Len(packet.hdrs)
      BY <2>1
    <3>2. Count(packet, hdr - 1, "hbho") # 0
      BY <2>1, <3>1 DEF Departs, LateHopByHop
    <3>3. Before("hbho") = Count(packet, hdr - 1, "hbho")
      BY DEF Before, Count
    <3> QED BY <1>2, <2>1, <3>2, <3>3
  <2>2. hdr = 1 => Before("hbho") = 0
    <3>1. 1..(1 - 1) = {}
      OBVIOUS
    <3>2. hdr = 1 => {i \in 1..(hdr - 1) : packet.hdrs[i].kind = "hbho"} = {}
      BY <3>1
    <3> QED BY <3>2, FS_EmptySet DEF Before
  <2>3. hdr = 1 \/ hdr > 1
    OBVIOUS
  <2> QED BY <2>1, <2>2, <2>3
<1>4. TooMany(h) <=> \/ h.kind = "hbho" /\ hdr > 1
                     \/ h.kind = "routing" /\ Count(packet, hdr, "routing") > 1
                     \/ h.kind = "desto" /\ Count(packet, hdr, "desto") > 2
  BY <1>1, <1>2, <1>3 DEF TooMany
<1> DEFINE tells == Asks(h.opts, "tell") \/ (Asks(h.opts, "tell_ucast") /\ packet.dst # "group")
           drops == Asks(h.opts, "drop") \/ Asks(h.opts, "tell_ucast")
           asked == IF tells THEN "option" ELSE IF drops THEN "dropped" ELSE "fine"
<1>5. asked = IF r = 0 THEN "fine" ELSE IF r = 1 THEN "dropped" ELSE "option"
  <2>1. ~HiddenOptions(h.opts)
    BY DEF Departs
  <2>2. Decisive(h.opts) \in OptionClasses
        /\ \A o \in OptionClasses \ Skipped : Asks(h.opts, o) <=> Decisive(h.opts) = o
    BY <1>1, <2>1, DecisiveIs
  <2> QED BY <2>2 DEF ext_hdr_options_process, OptionClasses, Skipped
<1>6. Verdict(packet, hdr) =
        CASE h.kind = "hbho" /\ hdr > 1 -> "next_header"
          [] h.kind = "routing" /\ Count(packet, hdr, "routing") > 1 -> "next_header"
          [] h.kind = "desto" /\ Count(packet, hdr, "desto") > 2 -> "next_header"
          [] h.kind = "frag" -> "dropped"
          [] h.kind = "routing" /\ Count(packet, hdr, "routing") = 1 ->
               IF h.segs > 0 THEN "header" ELSE "fine"
          [] OTHER -> asked
  BY DEF Verdict, Asks
<1> HIDE DEF asked, tells, drops, r
<1>7. CASE TooMany(h)
  <2>1. Verdict(packet, hdr) = "next_header"
    BY <1>1, <1>2, <1>4, <1>6, <1>7
  <2> QED BY <1>7, <2>1
<1>8. CASE ~TooMany(h) /\ h.kind = "frag"
  BY <1>4, <1>6, <1>8
<1>9. CASE ~TooMany(h) /\ h.kind = "routing"
  <2>1. Count(packet, hdr, "routing") = 1
    BY <1>2, <1>4, <1>9
  <2> QED BY <1>4, <1>6, <1>9, <2>1
<1>10. CASE ~TooMany(h) /\ h.kind \in {"hbho", "desto"}
  <2>1. Verdict(packet, hdr) = asked
    BY <1>4, <1>6, <1>10
  <2> QED BY <1>5, <1>10, <2>1 DEF r
<1> QED BY <1>1, <1>7, <1>8, <1>9, <1>10 DEF r

\* The first header that stops a packet decides on it.
LEMMA FirstStopDecides ==
  ASSUME NEW p \in Packets, Admitted(p), NEW i \in 1..Len(p.hdrs), Verdict(p, i) # "fine",
         \A j \in 1..(i - 1) : Verdict(p, j) = "fine"
  PROVE  FirstStop(p) = i /\ Fate(p) = Verdict(p, i)
<1> DEFINE F(k) == \A j \in Stops(p) : k <= j
<1>1. Len(p.hdrs) \in Nat
  BY PacketIs
<1>2. i \in Stops(p) /\ \A k \in Stops(p) : k \in 1..Len(p.hdrs) /\ Verdict(p, k) # "fine"
  BY DEF Stops
<1>3. ASSUME NEW k \in Stops(p) PROVE i <= k
  <2>1. k \notin 1..(i - 1) /\ k \in 1..Len(p.hdrs)
    BY <1>2
  <2> QED BY <1>1, <2>1
<1>4. F(i)
  BY <1>3
<1>5. (CHOOSE k \in Stops(p) : F(k)) = i
  <2> DEFINE c == CHOOSE k \in Stops(p) : F(k)
  <2>1. c \in Stops(p) /\ F(c)
    BY <1>2, <1>4
  <2> HIDE DEF c
  <2>2. c <= i /\ i <= c
    BY <1>2, <1>4, <2>1
  <2>3. c \in Int /\ i \in Int
    BY <1>2, <2>1
  <2> QED BY <2>2, <2>3 DEF c
<1>6. FirstStop(p) = i
  BY <1>2, <1>5 DEF FirstStop
<1> QED BY <1>2, <1>6 DEF Fate, Admitted

\* An error leaves, or does not, as the specification has it for the header it is about.
LEMMA ErrorOutputIs ==
  ASSUME LoopInv, NEW code \in Errors,
         ~Departs(packet) => Fate(packet) = code /\ FirstStop(packet) = hdr,
         NEW unknown \in BOOLEAN, unknown => packet.up = "unknown",
         hdr = Len(packet.hdrs) + 1 => packet.up = "unknown",
         Finish(uip_icmp6_error_output(code, unknown))
  PROVE  InInv'
<1>1. /\ packet' = packet /\ hdr' = 0 /\ result' = uip_icmp6_error_output(code, unknown)
      /\ packet \in Packets /\ Len(packet.hdrs) \in Nat
      /\ hdr \in 1..(Len(packet.hdrs) + 1)
  BY PacketIs DEF Finish, LoopInv
<1> DEFINE error == Result(code, "mine", packet.src, 0)
<1>2. result' = IF \/ TakenForError(unknown) \/ packet.src = "unspecified"
                   \/ packet.dst = "group" /\ code # "option" THEN Dropped ELSE error
  BY <1>1 DEF uip_icmp6_error_output
<1>3. CASE Departs(packet)
  BY <1>1, <1>3 DEF InInv, InputAsSpecified
<1>4. CASE ~Departs(packet) /\ MayAnswer(packet, code)
  <2>1. TakenForError(unknown) => Silenced(packet)
    <3> SUFFICES ASSUME TakenForError(unknown) PROVE Silenced(packet)
      OBVIOUS
    <3>1. hdr # 1
      BY <1>4 DEF TakenForError, MayAnswer
    <3> HIDE DEF error
    <3>2. FirstStop(packet) = hdr /\ hdr > 1
      BY <1>1, <1>4, <3>1
    <3>3. CASE hdr > Len(packet.hdrs)
      <4>1. packet.up = "unknown" /\ hdr = Len(packet.hdrs) + 1
        BY <1>1, <3>1, <3>3 DEF TakenForError
      <4> QED BY <3>2, <4>1 DEF Silenced
    <3>4. CASE ~(hdr > Len(packet.hdrs))
      <4>1. packet.up \in IcmpKinds /\ hdr = Len(packet.hdrs)
        BY <3>1, <3>4 DEF TakenForError
      <4> QED BY <3>2, <4>1 DEF Silenced
    <3> QED BY <3>3, <3>4
  <2>2. result' = error \/ (Silenced(packet) /\ result' = Dropped)
    BY <1>2, <1>4, <2>1 DEF MayAnswer
  <2> HIDE DEF error
  <2> QED BY <1>1, <1>4, <2>2 DEF InInv, InputAsSpecified, error
<1>5. CASE ~Departs(packet) /\ ~MayAnswer(packet, code)
  <2>1. ASSUME ~TakenForError(unknown), packet.up = "icmp_error" PROVE AnswersAnError(packet)
    <3>1. hdr # Len(packet.hdrs) + 1
      BY <2>1
    <3>2. hdr = 1 \/ hdr < Len(packet.hdrs)
      BY <1>1, <2>1, <3>1 DEF TakenForError, IcmpKinds
    <3> QED BY <1>5, <2>1, <3>2 DEF AnswersAnError
  <2>2. result' = Dropped \/ (AnswersAnError(packet) /\ result' = error)
    BY <1>2, <1>5, <2>1 DEF MayAnswer
  <2> HIDE DEF error
  <2> QED BY <1>1, <1>5, <2>2 DEF InInv, InputAsSpecified, error
<1> QED BY <1>3, <1>4, <1>5

LEMMA FinishIs ==
  ASSUME LoopInv, NEW r, Finish(r),
         ~Departs(packet) => Fate(packet) \notin Errors /\ r.what = Fate(packet)
  PROVE  InInv'
<1>1. packet' = packet /\ hdr' = 0 /\ result' = r /\ packet \in Packets
  BY DEF Finish, LoopInv
<1> QED BY <1>1 DEF InInv, InputAsSpecified

LEMMA ContinueIs ==
  ASSUME LoopInv, hdr \in 1..Len(packet.hdrs),
         ~Departs(packet) => Verdict(packet, hdr) = "fine", Continue
  PROVE  InInv'
<1>1. packet' = packet /\ hdr' = hdr + 1 /\ packet \in Packets /\ Admitted(packet) /\ Len(packet.hdrs) \in Nat
  BY PacketIs DEF Continue, LoopInv
<1>2. hdr' \in 1..(Len(packet.hdrs) + 1)
  BY <1>1
<1>3. ASSUME ~Departs(packet), NEW i \in 1..(hdr' - 1) PROVE Verdict(packet, i) = "fine"
  <2>1. i = hdr \/ i \in 1..(hdr - 1)
    BY <1>1
  <2> QED BY <1>3, <2>1 DEF LoopInv
<1>4. LoopInv'
  BY <1>1, <1>2, <1>3 DEF LoopInv
<1> QED BY <1>4 DEF InInv

LEMMA ExtensionHeaderInv ==
  ASSUME LoopInv, ExtensionHeader
  PROVE  InInv'
<1> DEFINE h == packet.hdrs[hdr]
           r == ext_hdr_options_process(h.opts)
           v == Verdict(packet, hdr)
<1>1. /\ hdr \in 1..Len(packet.hdrs) /\ packet \in Packets /\ Admitted(packet)
      /\ hdr # Len(packet.hdrs) + 1
      /\ ~Departs(packet) => \A i \in 1..(hdr - 1) : Verdict(packet, i) = "fine"
  BY PacketIs DEF ExtensionHeader, LoopInv
<1>2. ~Departs(packet) =>
        v = IF TooMany(h) THEN "next_header"
            ELSE IF h.kind = "frag" THEN "dropped"
            ELSE IF h.kind = "routing" THEN IF h.segs > 0 THEN "header" ELSE "fine"
            ELSE IF r = 0 THEN "fine" ELSE IF r = 1 THEN "dropped" ELSE "option"
  BY <1>1, VerdictIs
<1>3. ~Departs(packet) /\ v # "fine" => Fate(packet) = v /\ FirstStop(packet) = hdr
  BY <1>1, FirstStopDecides
<1>4. Dropped.what = "dropped"
  BY DEF Dropped, Result
<1> HIDE DEF v
<1>5. ASSUME TooMany(h), BadHeader(FALSE) PROVE InInv'
  <2>1. ~Departs(packet) => Fate(packet) = "next_header" /\ FirstStop(packet) = hdr
    BY <1>2, <1>3, <1>5
  <2> QED BY <1>1, <1>5, <2>1, ErrorOutputIs DEF BadHeader, Errors
<1>6. ASSUME h.kind \in {"hbho", "desto"}, ~TooMany(h), Options(h) PROVE InInv'
  <2>1. CASE r = 0 /\ Continue
    BY <1>1, <1>2, <1>6, <2>1, ContinueIs DEF v
  <2>2. CASE r = 1 /\ Finish(Dropped)
    <3>1. ~Departs(packet) => Fate(packet) = "dropped"
      BY <1>2, <1>3, <1>6, <2>2
    <3> QED BY <1>4, <2>2, <3>1, FinishIs DEF Errors
  <2>3. CASE r = 2 /\ Finish(uip_icmp6_error_output("option", FALSE))
    <3>1. ~Departs(packet) => Fate(packet) = "option" /\ FirstStop(packet) = hdr
      BY <1>2, <1>3, <1>6, <2>3
    <3> QED BY <1>1, <2>3, <3>1, ErrorOutputIs DEF Errors
  <2> QED BY <1>6, <2>1, <2>2, <2>3 DEF Options
<1>7. ASSUME h.kind = "routing", ~TooMany(h),
             IF h.segs > 0 THEN Finish(uip_icmp6_error_output("header", FALSE)) ELSE Continue
      PROVE  InInv'
  <2>1. CASE h.segs > 0
    <3>1. ~Departs(packet) => Fate(packet) = "header" /\ FirstStop(packet) = hdr
      BY <1>2, <1>3, <1>7, <2>1
    <3> QED BY <1>1, <1>7, <2>1, <3>1, ErrorOutputIs DEF Errors
  <2>2. CASE ~(h.segs > 0)
    BY <1>1, <1>2, <1>7, <2>2, ContinueIs DEF v
  <2> QED BY <2>1, <2>2
<1>8. ASSUME h.kind = "frag", Finish(Dropped) PROVE InInv'
  <2>1. ~Departs(packet) => Fate(packet) = "dropped"
    BY <1>2, <1>3, <1>8 DEF TooMany
  <2> QED BY <1>4, <1>8, <2>1, FinishIs DEF Errors
<1> QED BY <1>5, <1>6, <1>7, <1>8 DEF ExtensionHeader

LEMMA UpperLayerInv ==
  ASSUME LoopInv, UpperLayer
  PROVE  InInv'
<1>1. /\ packet \in Packets /\ hdr = Len(packet.hdrs) + 1 /\ Len(packet.hdrs) \in Nat
      /\ Admitted(packet)
      /\ ~Departs(packet) => \A i \in 1..(hdr - 1) : Verdict(packet, i) = "fine"
  BY PacketIs DEF UpperLayer, LoopInv
<1>2. ~Departs(packet) => Stops(packet) = {}
  <2>1. hdr - 1 = Len(packet.hdrs)
    BY <1>1
  <2> QED BY <1>1, <2>1 DEF Stops
<1>3. ~Departs(packet) =>
        /\ FirstStop(packet) = hdr
        /\ Fate(packet) = IF packet.up \in {"tcp", "udp", "nd"} THEN packet.up
                          ELSE IF packet.up = "echo" THEN "reply"
                          ELSE IF packet.up = "unknown" THEN "next_header" ELSE "dropped"
  BY <1>1, <1>2 DEF Fate, FirstStop, Admitted
<1>4. \A what, from, to, ext : Result(what, from, to, ext).what = what
  BY DEF Result
<1>5. CASE packet.up \in {"tcp", "udp"} /\ Finish(Deliver)
  BY <1>3, <1>4, <1>5, FinishIs DEF Deliver, Errors
<1>6. CASE packet.up \in IcmpKinds /\ Icmp6Input
  <2>1. CASE packet.up = "nd"
    <3>1. Finish(Result("nd", packet.src, packet.dst, Len(packet.hdrs)))
      BY <1>6, <2>1 DEF Icmp6Input
    <3> QED BY <1>3, <1>4, <2>1, <3>1, FinishIs DEF Errors
  <2>2. CASE packet.up = "echo"
    <3>1. Finish(uip_icmp6_echo_request_input)
      BY <1>6, <2>2 DEF Icmp6Input
    <3> QED BY <1>3, <1>4, <2>2, <3>1, FinishIs DEF Errors, uip_icmp6_echo_request_input
  <2>3. CASE packet.up \notin {"nd", "echo"}
    <3>1. Finish(Dropped)
      BY <1>6, <2>3 DEF Icmp6Input
    <3>2. ~Departs(packet) => Fate(packet) = "dropped"
      BY <1>3, <1>6, <2>3 DEF IcmpKinds
    <3> QED BY <1>4, <3>1, <3>2, FinishIs DEF Errors, Dropped
  <2> QED BY <2>1, <2>2, <2>3
<1>7. CASE packet.up = "none" /\ Finish(Dropped)
  BY <1>3, <1>4, <1>7, FinishIs DEF Errors, Dropped
<1>8. CASE packet.up = "unknown" /\ \E byte58 \in BOOLEAN : BadHeader(byte58)
  <2>1. ~Departs(packet) => Fate(packet) = "next_header" /\ FirstStop(packet) = hdr
    BY <1>3, <1>8
  <2> QED BY <1>8, <2>1, ErrorOutputIs DEF BadHeader, Errors
<1> QED BY <1>5, <1>6, <1>7, <1>8 DEF UpperLayer

LEMMA ReceiveInv ==
  ASSUME InInv, NEW p \in Packets, Receive(p)
  PROVE  InInv'
<1>1. packet = NoPacket /\ packet' = p /\ result' = result
      /\ hdr' = IF p.intact /\ p.src # "group" /\ p.dst # "other" THEN 1 ELSE 0
  BY DEF Receive
<1>2. result = Dropped
  BY <1>1, PacketIs DEF InInv, LoopInv
<1>3. Len(p.hdrs) \in Nat /\ p.intact \in BOOLEAN
  BY PacketIs
<1>4. CASE Admitted(p)
  <2>1. hdr' = 1 /\ 1 \in 1..(Len(p.hdrs) + 1) /\ 1..(1 - 1) = {}
    BY <1>1, <1>3, <1>4 DEF Admitted
  <2> QED BY <1>1, <1>4, <2>1 DEF InInv, LoopInv
<1>5. CASE ~Admitted(p)
  <2>1. hdr' = 0 /\ Fate(p) = "dropped"
    BY <1>1, <1>3, <1>5 DEF Admitted, Fate
  <2>2. "dropped" \notin Errors /\ Dropped.what = "dropped"
    BY DEF Errors, Dropped, Result
  <2> QED BY <1>1, <1>2, <2>1, <2>2 DEF InInv, InputAsSpecified
<1> QED BY <1>4, <1>5

LEMMA Ip6NextInv == InInv /\ [Ip6Next]_in6Vars => InInv'
<1> SUFFICES ASSUME InInv, [Ip6Next]_in6Vars PROVE InInv'
  OBVIOUS
<1>1. CASE UNCHANGED in6Vars
  BY <1>1 DEF in6Vars, InInv, LoopInv, InputAsSpecified, Admitted
<1>2. ASSUME ExtensionHeader \/ UpperLayer PROVE LoopInv
  <2>1. hdr # 0
    <3>1. hdr \in 1..Len(packet.hdrs) \/ hdr = Len(packet.hdrs) + 1
      BY <1>2 DEF ExtensionHeader, UpperLayer
    <3>2. packet = NoPacket \/ packet \in Packets
      BY DEF InInv, LoopInv
    <3>3. NoPacket.hdrs = <<>> /\ Len(<<>>) = 0
      BY DEF NoPacket
    <3>4. Len(packet.hdrs) \in Nat
      BY <3>2, <3>3, PacketIs
    <3> QED BY <3>1, <3>4
  <2> QED BY <1>2, <2>1 DEF InInv
<1> QED BY <1>1, <1>2, ReceiveInv, ExtensionHeaderInv, UpperLayerInv DEF Ip6Next

\* The loop of uip_process over the extension headers gives a packet the fate that its
\* headers together ask for, for every packet: any number of headers and of options,
\* but for the departures that InputAsSpecified names.
THEOREM InputStaysSpecified == Spec => []InputAsSpecified
<1>1. Init => InInv
  BY DEF Init, Ip6Init, InInv
<1>2. InInv /\ [Next]_vars => InInv'
  BY InputUnit, Ip6NextInv
<1>3. InInv => InputAsSpecified
  <2>1. LoopInv => hdr # 0
    BY PacketIs DEF LoopInv
  <2> QED BY <2>1 DEF InInv, InputAsSpecified
<1> QED BY <1>1, <1>2, <1>3, PTL DEF Spec

-----------------------------------------------------------------------------
(* Routes behind neighbours (nbr-table.c, uip-ds6-route.c).                *)

Tables == {"nbr", "rt", "par"}
HeldBy(u, l) == [k \in Keys |-> IF "rt" \in u[k] THEN ToSet(l[k]) ELSE {}]
FreeIn(rs) == {r \in RouteIds : rs[r] = <<>>}

\* RoutesKept for a count n, the routes H[k] behind each neighbour and the free ones F.
KeptOf(n, H, F) ==
    /\ n = Cardinality(RouteIds \ F)
    /\ \A k \in Keys : H[k] \subseteq RouteIds \ F
    /\ \A r \in RouteIds \ F : \E k \in Keys : r \in H[k]
    /\ \A j, k \in Keys : j # k => H[j] \cap H[k] = {}

NbrTypes ==
    /\ nbr_table_keys \in Seq(Keys) /\ used_map \in [Keys -> SUBSET Tables]
    /\ route_list \in [Keys -> Seq(RouteIds)]
    /\ DOMAIN routes = RouteIds /\ DOMAIN lladdr = Keys

\* What is used is on the list of neighbours, and a list of routes names none twice.
Listed(keys, u) == \A k \in Keys : u[k] # {} => \E i \in 1..Len(keys) : keys[i] = k
RouteLists(u, l) == \A k \in Keys : "rt" \in u[k] => NoneTwice(l[k])

NbrInv ==
    /\ NbrTypes
    /\ Listed(nbr_table_keys, used_map) /\ RouteLists(used_map, route_list)
    /\ KeptOf(num_routes, HeldBy(used_map, route_list), FreeIn(routes))

LEMMA NbrInvKept == NbrInv => RoutesKept
<1> SUFFICES ASSUME NbrInv PROVE RoutesKept
  OBVIOUS
<1>1. /\ KeptOf(num_routes, HeldBy(used_map, route_list), FreeIn(routes))
      /\ FreeIn(routes) = FreeRoutes /\ \A k \in Keys : HeldBy(used_map, route_list)[k] = RoutesOf(k)
  BY DEF NbrInv, FreeIn, FreeRoutes, HeldBy, RoutesOf
<1>2. /\ \A k \in Keys : RoutesOf(k) \subseteq RouteIds \ FreeRoutes
      /\ \A r \in RouteIds \ FreeRoutes : \E k \in Keys : r \in RoutesOf(k)
      /\ \A j, k \in Keys : j # k => RoutesOf(j) \cap RoutesOf(k) = {}
  BY <1>1 DEF KeptOf
<1>3. UNION {RoutesOf(k) : k \in Keys} = RouteIds \ FreeRoutes
  BY <1>2
<1> QED BY <1>1, <1>2, <1>3 DEF KeptOf, RoutesKept

LEMMA RouteIdsFinite == IsFiniteSet(RouteIds) /\ \A S \in SUBSET RouteIds : IsFiniteSet(S)
<1>1. IsFiniteSet(RouteIds)
  <2>1. 1 \in Int /\ RouteNb \in Int
    BY NbrAssumption
  <2> QED BY <2>1, FS_Interval DEF RouteIds
<1> QED BY <1>1, FS_Subset

LEMMA NbrInitInv == NbrInit => NbrInv
<1> SUFFICES ASSUME NbrInit PROVE NbrInv
  OBVIOUS
<1>1. /\ NbrTypes /\ Listed(nbr_table_keys, used_map) /\ RouteLists(used_map, route_list)
  BY DEF NbrInit, NbrTypes, Listed, RouteLists, Tables
<1>2. FreeIn(routes) = RouteIds /\ \A k \in Keys : HeldBy(used_map, route_list)[k] = {}
  BY DEF NbrInit, FreeIn, HeldBy
<1>3. RouteIds \ FreeIn(routes) = {} /\ num_routes = 0
  BY <1>2 DEF NbrInit
<1> QED BY <1>1, <1>2, <1>3, FS_EmptySet DEF NbrInv, KeptOf

\* Routes that leave a neighbour are free; none leaves when gone is empty.
LEMMA KeptFreed ==
  ASSUME NEW n, NEW H, NEW F \in SUBSET RouteIds, NEW k \in Keys, NEW gone \in SUBSET H[k],
         KeptOf(n, H, F), NEW G, G[k] = H[k] \ gone, \A j \in Keys \ {k} : G[j] = H[j]
  PROVE  KeptOf(n - Cardinality(gone), G, F \cup gone)
<1>1. gone \subseteq RouteIds \ F /\ IsFiniteSet(gone) /\ IsFiniteSet(RouteIds \ F)
  BY RouteIdsFinite DEF KeptOf
<1>2. RouteIds \ (F \cup gone) = (RouteIds \ F) \ gone /\ (RouteIds \ F) \cap gone = gone
  BY <1>1
<1>3. Cardinality(RouteIds \ (F \cup gone)) = Cardinality(RouteIds \ F) - Cardinality(gone)
  BY <1>1, <1>2, FS_Difference
<1>4. \A j \in Keys : G[j] \subseteq RouteIds \ (F \cup gone)
  <2>1. G[k] \subseteq RouteIds \ (F \cup gone)
    BY DEF KeptOf
  <2>2. ASSUME NEW j \in Keys \ {k} PROVE G[j] \subseteq RouteIds \ (F \cup gone)
    BY <2>2 DEF KeptOf
  <2> QED BY <2>1, <2>2
<1>5. ASSUME NEW r \in RouteIds \ (F \cup gone) PROVE \E j \in Keys : r \in G[j]
  BY DEF KeptOf
<1>6. ASSUME NEW i \in Keys, NEW j \in Keys, i # j PROVE G[i] \cap G[j] = {}
  <2>1. G[i] \subseteq H[i] /\ G[j] \subseteq H[j] /\ H[i] \cap H[j] = {}
    BY <1>6 DEF KeptOf
  <2> QED BY <2>1
<1>7. n = Cardinality(RouteIds \ F)
  BY DEF KeptOf
<1> QED BY <1>3, <1>4, <1>5, <1>6, <1>7, Zenon DEF KeptOf

\* A free route is given to a neighbour.
LEMMA KeptAdded ==
  ASSUME NEW n, NEW H, NEW F \in SUBSET RouteIds, NEW k \in Keys, NEW r \in F,
         KeptOf(n, H, F), NEW G, G[k] = H[k] \cup {r}, \A j \in Keys \ {k} : G[j] = H[j]
  PROVE  KeptOf(n + 1, G, F \ {r})
<1>1. IsFiniteSet(RouteIds \ F) /\ r \notin RouteIds \ F
  BY RouteIdsFinite
<1>2. RouteIds \ (F \ {r}) = (RouteIds \ F) \cup {r}
  OBVIOUS
<1>3. Cardinality(RouteIds \ (F \ {r})) = Cardinality(RouteIds \ F) + 1
  BY <1>1, <1>2, FS_AddElement
<1>4. \A j \in Keys : G[j] \subseteq RouteIds \ (F \ {r})
  <2>1. G[k] \subseteq RouteIds \ (F \ {r})
    BY DEF KeptOf
  <2>2. ASSUME NEW j \in Keys \ {k} PROVE G[j] \subseteq RouteIds \ (F \ {r})
    BY <2>2 DEF KeptOf
  <2> QED BY <2>1, <2>2
<1>5. ASSUME NEW x \in RouteIds \ (F \ {r}) PROVE \E j \in Keys : x \in G[j]
  BY DEF KeptOf
<1>6. ASSUME NEW i \in Keys, NEW j \in Keys, i # j PROVE G[i] \cap G[j] = {}
  <2>1. G[i] \subseteq H[i] \cup {r} /\ G[j] \subseteq H[j] \cup {r} /\ H[i] \cap H[j] = {}
        /\ (G[i] = H[i] \/ G[j] = H[j]) /\ r \notin H[i] /\ r \notin H[j]
    BY <1>6 DEF KeptOf
  <2> QED BY <2>1
<1>7. n = Cardinality(RouteIds \ F)
  BY DEF KeptOf
<1> QED BY <1>3, <1>4, <1>5, <1>6, <1>7, Zenon DEF KeptOf

LEMMA FirstKeyIs ==
  ASSUME nbr_table_keys \in Seq(Keys), NEW ks
  PROVE  \/ FirstKey(ks) = NoKey /\ \A i \in 1..Len(nbr_table_keys) : nbr_table_keys[i] \notin ks
         \/ /\ FirstKey(ks) \in Keys /\ FirstKey(ks) \in ks
            /\ \E i \in 1..Len(nbr_table_keys) : nbr_table_keys[i] = FirstKey(ks)
<1> DEFINE at == {i \in DOMAIN nbr_table_keys : nbr_table_keys[i] \in ks}
<1>1. CASE at = {}
  BY <1>1 DEF FirstKey
<1>2. CASE at # {}
  <2>1. at \subseteq Nat /\ FirstKey(ks) = nbr_table_keys[Min(at)]
    BY <1>2 DEF FirstKey
  <2>2. \E x \in at : \A y \in at : x <= y
    <3> HIDE DEF at
    <3> QED BY <1>2, <2>1, LeastOf
  <2>3. Min(at) \in at
    BY <2>2 DEF Min
  <2>4. \E i \in at : FirstKey(ks) = nbr_table_keys[i]
    <3> HIDE DEF at
    <3> QED BY <2>1, <2>3
  <2> QED BY <2>4
<1> QED BY <1>1, <1>2

LEMMA KeyForIs ==
  ASSUME NbrInv, NEW l, KeyFor(l) # NoKey
  PROVE  /\ KeyFor(l) \in Keys
         /\ ~FreshFor(l) => \E i \in 1..Len(nbr_table_keys) : nbr_table_keys[i] = KeyFor(l)
<1>1. nbr_table_keys \in Seq(Keys)
  BY DEF NbrInv, NbrTypes
<1>2. CASE FreshFor(l)
  <2>1. KeyFor(l) = Allocated
    BY <1>2 DEF KeyFor, FreshFor
  <2>2. CASE Len(nbr_table_keys) < MaxNeighbors
    <3>1. Len(nbr_table_keys) \in Nat /\ KeyFor(l) = Len(nbr_table_keys) + 1
      BY <1>1, <2>1, <2>2 DEF Allocated
    <3>2. KeyFor(l) \in 1..MaxNeighbors
      BY <2>2, <3>1, NbrAssumption
    <3> QED BY <1>2, <3>2 DEF Keys
  <2>3. CASE ~(Len(nbr_table_keys) < MaxNeighbors)
    BY <1>1, <1>2, <2>1, <2>3, FirstKeyIs DEF Allocated, Victim
  <2> QED BY <1>2, <2>2, <2>3
<1>3. CASE ~FreshFor(l)
  BY <1>1, <1>3, FirstKeyIs DEF KeyFor, FreshFor, index_from_lladdr
<1> QED BY <1>2, <1>3

LEMMA LastOfIn ==
  ASSUME NEW n \in Nat, NEW f, \A i \in 1..n : f[i] \in Nat, NEW S, S # {},
         \A p \in S : /\ p = <<p[1], p[2]>> /\ p[1] \in 1..n /\ p[2] \in 1..f[p[1]]
  PROVE  LastOf(S) \in S
<1> DEFINE A == {p[1] : p \in S}
           i == Max(A)
           B == {p[2] : p \in {q \in S : q[1] = i}}
           j == Max(B)
<1>1. A \subseteq 0..n /\ A # {}
  OBVIOUS
<1>2. \E x \in A : \A y \in A : y <= x
  <2> HIDE DEF A
  <2> QED BY <1>1, GreatestOf
<1>3. i \in A
  <2>1. \E x \in A : \A y \in A : x >= y
    <3>1. A \subseteq Int
      BY <1>1
    <3> HIDE DEF A
    <3> QED BY <1>2, <3>1
  <2> QED BY <2>1 DEF Max
<1> HIDE DEF i
<1>4. i \in 1..n /\ B # {} /\ B \subseteq 0..f[i]
  BY <1>3
<1>5. \E x \in B : \A y \in B : y <= x
  <2> HIDE DEF B
  <2> QED BY <1>4, GreatestOf
<1>6. j \in B
  <2>1. \E x \in B : \A y \in B : x >= y
    <3>1. B \subseteq Int
      BY <1>4
    <3> HIDE DEF B
    <3> QED BY <1>5, <3>1
  <2> QED BY <2>1 DEF Max
<1>7. LastOf(S) = <<i, j>>
  BY DEF LastOf, i
<1> HIDE DEF j
<1>8. PICK p \in S : p[1] = i /\ p[2] = j
  BY <1>6
<1>9. p = <<p[1], p[2]>>
  BY <1>8
<1> QED BY <1>7, <1>8, <1>9

\* A route that is found is allocated.
LEMMA LookupFinds ==
  ASSUME NbrInv, NEW dest, uip_ds6_route_lookup(dest) # NoRoute
  PROVE  uip_ds6_route_lookup(dest) \in RouteIds \ FreeIn(routes)
<1> DEFINE m == {p \in RouteWalk : Matches(dest, RouteAt(p))}
           longest == {p \in m : routes[RouteAt(p)][2] # 0}
           best == IF longest = {} THEN m ELSE longest
           f == [i \in 1..Len(nbr_table_keys) |-> Len(RoutesAt(i))]
<1>1. m # {} /\ uip_ds6_route_lookup(dest) = RouteAt(LastOf(best))
  BY Zenon DEF uip_ds6_route_lookup
<1>2. best # {} /\ best \subseteq RouteWalk
  BY <1>1, Zenon
<1> HIDE DEF best, m, longest
<1>3. /\ nbr_table_keys \in Seq(Keys) /\ route_list \in [Keys -> Seq(RouteIds)]
      /\ Len(nbr_table_keys) \in Nat
      /\ \A i \in 1..Len(nbr_table_keys) : /\ nbr_table_keys[i] \in Keys /\ RoutesAt(i) \in Seq(RouteIds)
                                           /\ f[i] \in Nat /\ DOMAIN RoutesAt(i) = 1..f[i]
  BY DEF NbrInv, NbrTypes, RoutesAt
<1>4. ASSUME NEW p \in RouteWalk
      PROVE  /\ p = <<p[1], p[2]>> /\ p[1] \in 1..Len(nbr_table_keys) /\ p[2] \in 1..f[p[1]]
             /\ "rt" \in used_map[nbr_table_keys[p[1]]]
  <2>1. PICK i \in Entries("rt") : p \in {i} \X DOMAIN RoutesAt(i)
    BY Zenon DEF RouteWalk
  <2>2. i \in 1..Len(nbr_table_keys) /\ "rt" \in used_map[nbr_table_keys[i]]
    BY <1>3, <2>1 DEF Entries
  <2>3. DOMAIN RoutesAt(i) = 1..f[i]
    BY <1>3, <2>2, Zenon
  <2> HIDE DEF f
  <2> QED BY <2>1, <2>2, <2>3
<1>5. LastOf(best) \in best
  <2> HIDE DEF f
  <2> QED BY <1>2, <1>3, <1>4, LastOfIn
<1> DEFINE q == LastOf(best)
           k == nbr_table_keys[q[1]]
<1>6. q \in RouteWalk
  BY <1>2, <1>5
<1> HIDE DEF q
<1>7. /\ q[1] \in 1..Len(nbr_table_keys) /\ k \in Keys /\ "rt" \in used_map[k]
      /\ q[2] \in DOMAIN RoutesAt(q[1]) /\ RoutesAt(q[1]) = route_list[k]
  BY <1>3, <1>4, <1>6 DEF RoutesAt
<1>8. RouteAt(q) \in ToSet(route_list[k])
  BY <1>7 DEF RouteAt, ToSet
<1>9. HeldBy(used_map, route_list)[k] = ToSet(route_list[k])
  BY <1>7 DEF HeldBy
<1>10. HeldBy(used_map, route_list)[k] \subseteq RouteIds \ FreeIn(routes)
  BY <1>7 DEF NbrInv, KeptOf
<1> QED BY <1>1, <1>8, <1>9, <1>10 DEF q

LEMMA FreeInIs ==
  ASSUME NEW rs, NEW ps, NEW gone \in SUBSET RouteIds,
         \A r \in RouteIds : ps[r] = IF r \in gone THEN <<>> ELSE rs[r]
  PROVE  FreeIn(ps) = FreeIn(rs) \cup gone
<1>1. \A r \in RouteIds : ps[r] = <<>> <=> (rs[r] = <<>> \/ r \in gone)
  OBVIOUS
<1> QED BY <1>1, Zenon DEF FreeIn

LEMMA AddLladdrInv ==
  ASSUME NbrInv, NEW table \in {"nbr", "par"}, NEW l, NEW k \in Keys, NEW f \in BOOLEAN,
         ~f => \E i \in 1..Len(nbr_table_keys) : nbr_table_keys[i] = k,
         AddLladdr(table, l, k, f),
         route_list' = IF f THEN [route_list EXCEPT ![k] = <<>>] ELSE route_list
  PROVE  NbrInv'
<1> DEFINE gone == IF f /\ k \in ToSet(nbr_table_keys) THEN RoutesFreed(k) ELSE {}
           H == HeldBy(used_map, route_list)
           G == HeldBy(used_map', route_list')
<1>1. /\ nbr_table_keys \in Seq(Keys) /\ used_map \in [Keys -> SUBSET Tables]
      /\ route_list \in [Keys -> Seq(RouteIds)]
      /\ DOMAIN routes = RouteIds /\ DOMAIN lladdr = Keys
      /\ Listed(nbr_table_keys, used_map) /\ RouteLists(used_map, route_list)
      /\ KeptOf(num_routes, H, FreeIn(routes))
  BY DEF NbrInv, NbrTypes
<1>2. /\ nbr_table_keys' = IF f THEN Append(RemoveFirst(nbr_table_keys, k), k) ELSE nbr_table_keys
      /\ lladdr' = [lladdr EXCEPT ![k] = l]
      /\ used_map' = [used_map EXCEPT ![k] = (IF f THEN {} ELSE @) \cup {table}]
      /\ routes' = [r \in RouteIds |-> IF r \in gone THEN <<>> ELSE routes[r]]
      /\ num_routes' = num_routes - Cardinality(gone)
  BY Zenon DEF AddLladdr
<1>3. used_map' \in [Keys -> SUBSET Tables] /\ route_list' \in [Keys -> Seq(RouteIds)]
  BY <1>1, <1>2 DEF Tables
<1>4. /\ ToSet(nbr_table_keys) = {nbr_table_keys[i] : i \in 1..Len(nbr_table_keys)}
      /\ H[k] = RoutesOf(k)
  BY <1>1 DEF ToSet, HeldBy, RoutesOf
<1>5. gone = IF f THEN H[k] ELSE {}
  <2>1. CASE ~f
    BY <2>1
  <2>2. CASE f /\ k \in ToSet(nbr_table_keys)
    BY <1>4, <2>2 DEF RoutesFreed
  <2>3. CASE f /\ k \notin ToSet(nbr_table_keys)
    <3>1. used_map[k] = {}
      BY <1>1, <1>4, <2>3 DEF Listed
    <3>2. RoutesOf(k) = {}
      BY <3>1 DEF RoutesOf
    <3> QED BY <1>4, <2>3, <3>2
  <2> QED BY <2>1, <2>2, <2>3
<1> HIDE DEF gone
<1>6. /\ "rt" \in used_map'[k] <=> ("rt" \in used_map[k] /\ ~f)
      /\ f => route_list'[k] = <<>>
      /\ ~f => route_list' = route_list
      /\ \A j \in Keys \ {k} : used_map'[j] = used_map[j] /\ route_list'[j] = route_list[j]
  BY <1>1, <1>2
<1>7. KeptOf(num_routes', G, FreeIn(routes'))
  <2>1. G[k] = H[k] \ gone
    <3>1. CASE f
      BY <1>5, <1>6, <3>1 DEF HeldBy
    <3>2. CASE ~f
      <4>1. G[k] = H[k]
        BY <1>6, <3>2 DEF HeldBy
      <4> QED BY <1>5, <3>2, <4>1
    <3> QED BY <3>1, <3>2
  <2>2. \A j \in Keys \ {k} : G[j] = H[j]
    BY <1>6 DEF HeldBy
  <2>3. gone \in SUBSET H[k] /\ FreeIn(routes) \in SUBSET RouteIds /\ gone \in SUBSET RouteIds
    BY <1>1, <1>5 DEF FreeIn, KeptOf
  <2>4. FreeIn(routes') = FreeIn(routes) \cup gone
    <3>1. \A r \in RouteIds : routes'[r] = IF r \in gone THEN <<>> ELSE routes[r]
      BY <1>2, Zenon
    <3> QED BY <2>3, <3>1, FreeInIs
  <2>5. num_routes' = num_routes - Cardinality(gone)
    BY <1>2
  <2> HIDE DEF G, H
  <2>6. KeptOf(num_routes - Cardinality(gone), G, FreeIn(routes) \cup gone)
    <3>1. KeptOf(num_routes, H, FreeIn(routes))
      BY <1>1
    <3> QED BY <2>1, <2>2, <2>3, <3>1, KeptFreed
  <2> QED BY <2>4, <2>5, <2>6
<1>8. /\ nbr_table_keys' \in Seq(Keys)
      /\ \A i \in 1..Len(nbr_table_keys) : \E j \in 1..Len(nbr_table_keys') : nbr_table_keys'[j] = nbr_table_keys[i]
      /\ \E j \in 1..Len(nbr_table_keys') : nbr_table_keys'[j] = k
  <2>1. CASE ~f
    BY <1>1, <1>2, <2>1
  <2>2. CASE f
    <3> DEFINE q == RemoveFirst(nbr_table_keys, k)
    <3>1. /\ q \in Seq(Keys)
          /\ \A i \in 1..Len(nbr_table_keys) : nbr_table_keys[i] # k =>
                \E j \in 1..Len(q) : q[j] = nbr_table_keys[i]
      <4>1. nbr_table_keys \in Seq(Keys)
        BY <1>1
      <4>2. RemoveFirst(nbr_table_keys, k) \in Seq(Keys) /\ Without(nbr_table_keys, k, RemoveFirst(nbr_table_keys, k))
        BY <4>1, OthersStay
      <4> QED BY <4>2, Zenon DEF Without
    <3>2. nbr_table_keys' = Append(q, k)
      BY <1>2, <2>2
    <3> HIDE DEF q
    <3>3. /\ Append(q, k) \in Seq(Keys) /\ Len(Append(q, k)) = Len(q) + 1 /\ Len(q) \in Nat
          /\ \A i \in 1..Len(q) : Append(q, k)[i] = q[i] /\ i \in 1..(Len(q) + 1)
          /\ Append(q, k)[Len(q) + 1] = k /\ Len(q) + 1 \in 1..(Len(q) + 1)
      BY <3>1, AppendProperties
    <3>4. \E j \in 1..(Len(q) + 1) : Append(q, k)[j] = k
      BY <3>3, Zenon
    <3>5. ASSUME NEW i \in 1..Len(nbr_table_keys), nbr_table_keys[i] # k
          PROVE  \E j \in 1..(Len(q) + 1) : Append(q, k)[j] = nbr_table_keys[i]
      BY <3>1, <3>3, <3>5, Zenon
    <3> QED BY <3>2, <3>3, <3>4, <3>5, Zenon
  <2> QED BY <2>1, <2>2
<1>9. Listed(nbr_table_keys', used_map')
  <2> SUFFICES ASSUME NEW j \in Keys, used_map'[j] # {}
               PROVE  \E i \in 1..Len(nbr_table_keys') : nbr_table_keys'[i] = j
    BY DEF Listed
  <2>1. CASE j = k
    BY <1>8, <2>1
  <2>2. CASE j # k
    <3>1. used_map[j] # {}
      BY <1>6, <2>2
    <3>2. PICK i \in 1..Len(nbr_table_keys) : nbr_table_keys[i] = j
      BY <1>1, <3>1 DEF Listed
    <3> QED BY <1>8, <3>2
  <2> QED BY <2>1, <2>2
<1>10. RouteLists(used_map', route_list')
  <2> SUFFICES ASSUME NEW j \in Keys, "rt" \in used_map'[j] PROVE NoneTwice(route_list'[j])
    BY DEF RouteLists
  <2>1. "rt" \in used_map[j] /\ route_list'[j] = route_list[j]
    BY <1>6
  <2> QED BY <1>1, <2>1 DEF RouteLists
<1>11. DOMAIN routes' = RouteIds /\ DOMAIN lladdr' = Keys
  BY <1>1, <1>2
<1> QED BY <1>3, <1>7, <1>8, <1>9, <1>10, <1>11 DEF NbrInv, NbrTypes

\* Steps that leave the routes alone and take a table other than nbr_routes off a key.
LEMMA SameRoutesInv ==
  ASSUME NbrInv, used_map' \in [Keys -> SUBSET Tables],
         \A k \in Keys : /\ used_map'[k] \subseteq used_map[k]
                         /\ "rt" \in used_map[k] => "rt" \in used_map'[k],
         DOMAIN lladdr' = Keys,
         UNCHANGED <<nbr_table_keys, route_list, routes, num_routes>>
  PROVE  NbrInv'
<1>1. \A k \in Keys : "rt" \in used_map'[k] <=> "rt" \in used_map[k]
  OBVIOUS
<1>2. HeldBy(used_map', route_list') = HeldBy(used_map, route_list)
  BY <1>1 DEF HeldBy
<1>3. Listed(nbr_table_keys', used_map')
  BY DEF NbrInv, Listed
<1>4. RouteLists(used_map', route_list')
  BY <1>1 DEF NbrInv, RouteLists
<1> QED BY <1>2, <1>3, <1>4 DEF NbrInv, NbrTypes

\* The routes of gone leave neighbour k, whose entry stays only while it holds some.
LEMMA RoutesLeaveInv ==
  ASSUME NbrInv, NEW k \in Keys, "rt" \in used_map[k], NEW left \in Seq(RouteIds),
         NEW gone \in SUBSET RoutesOf(k), ToSet(left) = RoutesOf(k) \ gone, NoneTwice(left),
         route_list' = [route_list EXCEPT ![k] = left],
         \/ used_map' = used_map
         \/ left = <<>> /\ used_map' = [used_map EXCEPT ![k] = @ \ {"rt"}],
         DOMAIN routes' = RouteIds,
         \A r \in RouteIds : routes'[r] = IF r \in gone THEN <<>> ELSE routes[r],
         num_routes' = num_routes - Cardinality(gone), UNCHANGED <<nbr_table_keys, lladdr>>
  PROVE  NbrInv'
<1> DEFINE H == HeldBy(used_map, route_list)
           G == HeldBy(used_map', route_list')
<1>1. /\ nbr_table_keys \in Seq(Keys) /\ used_map \in [Keys -> SUBSET Tables]
      /\ route_list \in [Keys -> Seq(RouteIds)]
      /\ DOMAIN routes = RouteIds /\ DOMAIN lladdr = Keys
      /\ Listed(nbr_table_keys, used_map) /\ RouteLists(used_map, route_list)
      /\ KeptOf(num_routes, H, FreeIn(routes))
  BY DEF NbrInv, NbrTypes
<1>2. /\ used_map' \in [Keys -> SUBSET Tables] /\ route_list' \in [Keys -> Seq(RouteIds)]
      /\ \A j \in Keys : used_map'[j] \subseteq used_map[j]
      /\ \A j \in Keys \ {k} : used_map'[j] = used_map[j] /\ route_list'[j] = route_list[j]
      /\ route_list'[k] = left /\ ("rt" \in used_map'[k] \/ left = <<>>)
  BY <1>1
<1>3. G[k] = ToSet(left)
  <2>1. CASE "rt" \in used_map'[k]
    BY <1>2, <2>1 DEF HeldBy
  <2>2. CASE "rt" \notin used_map'[k]
    <3>1. ToSet(left) = {}
      BY <1>2, <2>2 DEF ToSet
    <3> QED BY <2>2, <3>1 DEF HeldBy
  <2> QED BY <2>1, <2>2
<1>4. H[k] = RoutesOf(k) /\ \A j \in Keys \ {k} : G[j] = H[j]
  BY <1>2 DEF HeldBy, RoutesOf
<1>5. FreeIn(routes) \in SUBSET RouteIds /\ H[k] \subseteq RouteIds
  BY <1>1 DEF FreeIn, KeptOf
<1>6. FreeIn(routes') = FreeIn(routes) \cup gone
  <2>1. gone \in SUBSET RouteIds
    BY <1>4, <1>5
  <2> QED BY <2>1, FreeInIs
<1>7. KeptOf(num_routes', G, FreeIn(routes'))
  <2>1. G[k] = H[k] \ gone /\ gone \in SUBSET H[k]
    BY <1>3, <1>4
  <2> HIDE DEF G, H
  <2>2. KeptOf(num_routes - Cardinality(gone), G, FreeIn(routes) \cup gone)
    <3>1. KeptOf(num_routes, H, FreeIn(routes)) /\ \A j \in Keys \ {k} : G[j] = H[j]
      BY <1>1, <1>4
    <3>2. FreeIn(routes) \in SUBSET RouteIds
      BY <1>5
    <3> QED BY <2>1, <3>1, <3>2, KeptFreed
  <2> QED BY <1>6, <2>2
<1>8. Listed(nbr_table_keys', used_map')
  BY <1>1, <1>2 DEF Listed
<1>9. RouteLists(used_map', route_list')
  <2> SUFFICES ASSUME NEW j \in Keys, "rt" \in used_map'[j] PROVE NoneTwice(route_list'[j])
    BY DEF RouteLists
  <2>1. CASE j = k
    BY <1>2, <2>1
  <2>2. CASE j # k
    BY <1>1, <1>2, <2>2 DEF RouteLists
  <2> QED BY <2>1, <2>2
<1> QED BY <1>1, <1>2, <1>7, <1>8, <1>9 DEF NbrInv, NbrTypes

LEMMA NbrAddInv ==
  ASSUME NbrInv, NEW ip, NEW l, uip_ds6_nbr_add(ip, l)
  PROVE  NbrInv'
<1>1. KeyFor(l) # NoKey /\ AddLladdr("nbr", l, KeyFor(l), FreshFor(l))
      /\ route_list' = IF FreshFor(l) THEN [route_list EXCEPT ![KeyFor(l)] = <<>>] ELSE route_list
  BY Zenon DEF uip_ds6_nbr_add
<1>2. PICK k \in Keys : k = KeyFor(l)
  BY <1>1, KeyForIs
<1>3. FreshFor(l) \in BOOLEAN
  BY DEF FreshFor
<1>4. PICK f \in BOOLEAN : f = FreshFor(l)
  BY <1>3
<1>5. /\ AddLladdr("nbr", l, k, f) /\ route_list' = IF f THEN [route_list EXCEPT ![k] = <<>>] ELSE route_list
  BY <1>1, <1>2, <1>4
<1>6. ~f => \E i \in 1..Len(nbr_table_keys) : nbr_table_keys[i] = k
  BY <1>1, <1>2, <1>4, KeyForIs
<1> QED BY <1>5, <1>6, AddLladdrInv

LEMMA ParentAddInv ==
  ASSUME NbrInv, NEW l, ParentAdd(l)
  PROVE  NbrInv'
<1>1. KeyFor(l) # NoKey /\ AddLladdr("par", l, KeyFor(l), FreshFor(l))
      /\ route_list' = IF FreshFor(l) THEN [route_list EXCEPT ![KeyFor(l)] = <<>>] ELSE route_list
  BY Zenon DEF ParentAdd
<1>2. PICK k \in Keys : k = KeyFor(l)
  BY <1>1, KeyForIs
<1>3. FreshFor(l) \in BOOLEAN
  BY DEF FreshFor
<1>4. PICK f \in BOOLEAN : f = FreshFor(l)
  BY <1>3
<1>5. /\ AddLladdr("par", l, k, f) /\ route_list' = IF f THEN [route_list EXCEPT ![k] = <<>>] ELSE route_list
  BY <1>1, <1>2, <1>4
<1>6. ~f => \E i \in 1..Len(nbr_table_keys) : nbr_table_keys[i] = k
  BY <1>1, <1>2, <1>4, KeyForIs
<1> QED BY <1>5, <1>6, AddLladdrInv

LEMMA RouteRmInv ==
  ASSUME NbrInv, NEW r \in RouteIds, uip_ds6_route_rm(r)
  PROVE  NbrInv'
<1> DEFINE k0 == Holder(r)
<1>1. /\ routes[r] # <<>> /\ route_list' = [route_list EXCEPT ![k0] = RemoveFirst(route_list[k0], r)]
      /\ used_map' = IF RemoveFirst(route_list[k0], r) = <<>> THEN EntryGoes(k0) ELSE used_map
      /\ routes' = [routes EXCEPT ![r] = <<>>] /\ num_routes' = num_routes - 1
      /\ UNCHANGED <<nbr_table_keys, lladdr>>
  BY Zenon DEF uip_ds6_route_rm
<1>2. \E k \in Keys : r \in RoutesOf(k)
  <2>1. r \in RouteIds \ FreeIn(routes)
    BY <1>1 DEF FreeIn
  <2>2. PICK k \in Keys : r \in HeldBy(used_map, route_list)[k]
    BY <2>1 DEF NbrInv, KeptOf
  <2> QED BY <2>2 DEF HeldBy, RoutesOf
<1>3. Holder(r) \in Keys /\ r \in RoutesOf(Holder(r))
  BY <1>2, Zenon DEF Holder
<1>4. PICK k \in Keys : k = Holder(r) /\ r \in RoutesOf(k)
  BY <1>3
<1> DEFINE left == RemoveFirst(route_list[k], r)
<1>5. /\ "rt" \in used_map[k] /\ RoutesOf(k) = ToSet(route_list[k])
      /\ route_list[k] \in Seq(RouteIds) /\ NoneTwice(route_list[k])
      /\ DOMAIN routes = RouteIds
  BY <1>4 DEF RoutesOf, NbrInv, NbrTypes, RouteLists
<1>6. /\ left \in Seq(RouteIds) /\ NoneTwice(left)
      /\ \A i \in 1..Len(route_list[k]) : route_list[k][i] # r => \E j \in 1..Len(left) : left[j] = route_list[k][i]
      /\ \A j \in 1..Len(left) : \E i \in 1..Len(route_list[k]) : left[j] = route_list[k][i]
      /\ \A j \in 1..Len(left) : left[j] # r
  <2>1. left \in Seq(RouteIds) /\ Without(route_list[k], r, left)
    BY <1>5, OthersStay
  <2> QED BY <1>5, <2>1, Zenon DEF Without
<1>7. /\ route_list' = [route_list EXCEPT ![k] = left]
      /\ \/ used_map' = used_map
         \/ left = <<>> /\ used_map' = [used_map EXCEPT ![k] = @ \ {"rt"}]
  BY <1>1, <1>4 DEF EntryGoes
<1> HIDE DEF left
<1>8. ToSet(left) = RoutesOf(k) \ {r}
  <2>1. /\ ToSet(left) = {left[j] : j \in 1..Len(left)}
        /\ RoutesOf(k) = {route_list[k][i] : i \in 1..Len(route_list[k])}
    <3>1. DOMAIN left = 1..Len(left) /\ DOMAIN route_list[k] = 1..Len(route_list[k])
      BY <1>5, <1>6
    <3> QED BY <1>5, <3>1, Zenon DEF ToSet
  <2>2. ASSUME NEW y \in ToSet(left) PROVE y \in RoutesOf(k) \ {r}
    <3>1. PICK j \in 1..Len(left) : y = left[j]
      BY <2>1, <2>2, Zenon
    <3> QED BY <1>6, <2>1, <3>1, Zenon
  <2>3. ASSUME NEW y \in RoutesOf(k) \ {r} PROVE y \in ToSet(left)
    <3>1. PICK i \in 1..Len(route_list[k]) : y = route_list[k][i]
      BY <2>1, <2>3, Zenon
    <3>2. PICK j \in 1..Len(left) : left[j] = route_list[k][i]
      BY <1>6, <2>3, <3>1, Zenon
    <3> QED BY <2>1, <3>1, <3>2, Zenon
  <2> QED BY <2>2, <2>3, Zenon
<1>9. DOMAIN routes' = RouteIds /\ \A x \in RouteIds : routes'[x] = IF x \in {r} THEN <<>> ELSE routes[x]
  BY <1>1, <1>5
<1>10. Cardinality({r}) = 1
  BY FS_Singleton
<1>11. num_routes' = num_routes - Cardinality({r}) /\ {r} \in SUBSET RoutesOf(k)
  BY <1>1, <1>4, <1>10
<1> QED BY <1>1, <1>5, <1>6, <1>7, <1>8, <1>9, <1>11, RoutesLeaveInv

LEMMA RmByNexthopInv ==
  ASSUME NbrInv, NEW ip, uip_ds6_route_rm_by_nexthop(ip)
  PROVE  NbrInv'
<1> DEFINE l == uip_ds6_nbr_lladdr_from_ipaddr(ip)
           k0 == nbr_table_get_from_lladdr("rt", l)
<1>1. /\ k0 # NoKey /\ route_list' = [route_list EXCEPT ![k0] = <<>>] /\ used_map' = EntryGoes(k0)
      /\ routes' = [r \in RouteIds |-> IF r \in RoutesOf(k0) THEN <<>> ELSE routes[r]]
      /\ num_routes' = num_routes - Cardinality(RoutesOf(k0))
      /\ UNCHANGED <<nbr_table_keys, lladdr>>
  BY Zenon DEF uip_ds6_route_rm_by_nexthop
<1>2. k0 = index_from_lladdr(l) /\ "rt" \in used_map[k0]
  BY <1>1 DEF nbr_table_get_from_lladdr
<1>3. nbr_table_keys \in Seq(Keys)
  BY DEF NbrInv, NbrTypes
<1>4. k0 \in Keys
  BY <1>1, <1>2, <1>3, FirstKeyIs DEF index_from_lladdr
<1>5. PICK k \in Keys : k = k0
  BY <1>4
<1> HIDE DEF k0
<1> DEFINE gone == RoutesOf(k)
<1>6. /\ "rt" \in used_map[k] /\ route_list' = [route_list EXCEPT ![k] = <<>>]
      /\ used_map' = [used_map EXCEPT ![k] = @ \ {"rt"}]
  BY <1>1, <1>2, <1>5 DEF EntryGoes
<1>7. <<>> \in Seq(RouteIds) /\ ToSet(<<>>) = {} /\ NoneTwice(<<>>)
  BY DEF ToSet, NoneTwice
<1>8. /\ DOMAIN routes' = RouteIds /\ \A x \in RouteIds : routes'[x] = IF x \in gone THEN <<>> ELSE routes[x]
      /\ num_routes' = num_routes - Cardinality(gone)
  BY <1>1, <1>5
<1>9. ToSet(<<>>) = RoutesOf(k) \ gone /\ gone \in SUBSET RoutesOf(k)
  BY <1>7
<1> HIDE DEF gone
<1> QED BY <1>1, <1>6, <1>7, <1>8, <1>9, RoutesLeaveInv

\* An entry for the neighbour, made empty where there was none, and a free route on it.
LEMMA RouteAddInv ==
  ASSUME NbrInv, NEW dest \in Dests, NEW ip, uip_ds6_route_add(dest, ip)
  PROVE  NbrInv'
<1> DEFINE l == uip_ds6_nbr_lladdr_from_ipaddr(ip)
           old == uip_ds6_route_lookup(dest)
           e == nbr_table_get_from_lladdr("rt", l)
           k0 == IF e = NoKey THEN KeyFor(l) ELSE e
           lists0 == IF e = NoKey THEN [route_list EXCEPT ![k0] = <<>>] ELSE route_list
           H == HeldBy(used_map, route_list)
           G == HeldBy(used_map', route_list')
<1>1. /\ nbr_table_keys \in Seq(Keys) /\ used_map \in [Keys -> SUBSET Tables]
      /\ route_list \in [Keys -> Seq(RouteIds)]
      /\ DOMAIN routes = RouteIds /\ DOMAIN lladdr = Keys
      /\ Listed(nbr_table_keys, used_map) /\ RouteLists(used_map, route_list)
      /\ KeptOf(num_routes, H, FreeIn(routes)) /\ FreeRoutes = FreeIn(routes)
  BY DEF NbrInv, NbrTypes, FreeRoutes, FreeIn
<1>2. /\ uip_ds6_nbr_lookup(ip) # NoKey /\ UNCHANGED <<nbr_table_keys, lladdr>>
      /\ \/ /\ old # NoRoute /\ routes' = [routes EXCEPT ![old] = dest]
            /\ UNCHANGED <<used_map, route_list, num_routes>>
         \/ /\ used_map' = [used_map EXCEPT ![k0] = @ \cup {"rt"}]
            /\ IF FreeRoutes = {}
                 THEN route_list' = lists0 /\ UNCHANGED <<routes, num_routes>>
                 ELSE /\ route_list' = [lists0 EXCEPT ![k0] = Append(@, Min(FreeRoutes))]
                      /\ routes' = [routes EXCEPT ![Min(FreeRoutes)] = dest]
                      /\ num_routes' = num_routes + 1
  BY Zenon DEF uip_ds6_route_add
<1>3. ASSUME old # NoRoute, routes' = [routes EXCEPT ![old] = dest],
             UNCHANGED <<used_map, route_list, num_routes>>
      PROVE  NbrInv'
  <2>1. PICK r \in RouteIds \ FreeIn(routes) : r = old
    BY <1>3, LookupFinds
  <2> HIDE DEF old
  <2>2. routes[r] # <<>> /\ dest # <<>>
    BY <2>1, NbrAssumption DEF FreeIn
  <2>3. DOMAIN routes' = RouteIds /\ \A x \in RouteIds : routes'[x] = IF x = r THEN dest ELSE routes[x]
    BY <1>1, <1>3, <2>1
  <2>4. \A x \in RouteIds : routes'[x] = <<>> <=> routes[x] = <<>>
    BY <2>2, <2>3
  <2>5. FreeIn(routes') = FreeIn(routes)
    BY <2>4 DEF FreeIn
  <2> QED BY <1>1, <1>2, <1>3, <2>3, <2>5 DEF NbrInv, NbrTypes
<1>4. \E i \in 1..Len(nbr_table_keys) : nbr_table_keys[i] \in {k \in Keys : lladdr[k] = l}
  <2> DEFINE n == uip_ds6_nbr_lookup(ip)
  <2>1. n \in Keys /\ \E i \in 1..Len(nbr_table_keys) : nbr_table_keys[i] = n
    BY <1>1, <1>2, FirstKeyIs DEF uip_ds6_nbr_lookup
  <2>2. l = lladdr[n]
    BY <1>2 DEF uip_ds6_nbr_lladdr_from_ipaddr
  <2> HIDE DEF n, l
  <2> QED BY <2>1, <2>2
<1> DEFINE x == index_from_lladdr(l)
<1>5. x # NoKey /\ x \in Keys /\ \E i \in 1..Len(nbr_table_keys) : nbr_table_keys[i] = x
  <2>1. 0 \notin Keys
    BY DEF Keys
  <2> QED BY <1>1, <1>4, <2>1, FirstKeyIs DEF index_from_lladdr, NoKey
<1>6. k0 = x /\ (e = NoKey <=> "rt" \notin used_map[x])
  BY <1>5 DEF KeyFor, nbr_table_get_from_lladdr
<1>7. PICK k \in Keys : k = k0 /\ (e = NoKey <=> "rt" \notin used_map[k])
                        /\ \E i \in 1..Len(nbr_table_keys) : nbr_table_keys[i] = k
  BY <1>5, <1>6
<1> DEFINE lists == IF "rt" \notin used_map[k] THEN [route_list EXCEPT ![k] = <<>>] ELSE route_list
<1>8. lists0 = lists
  BY <1>7
<1> HIDE DEF old, e, k0, lists0
<1>9. ASSUME used_map' = [used_map EXCEPT ![k0] = @ \cup {"rt"}],
             IF FreeRoutes = {}
               THEN route_list' = lists0 /\ UNCHANGED <<routes, num_routes>>
               ELSE /\ route_list' = [lists0 EXCEPT ![k0] = Append(@, Min(FreeRoutes))]
                    /\ routes' = [routes EXCEPT ![Min(FreeRoutes)] = dest]
                    /\ num_routes' = num_routes + 1
      PROVE  NbrInv'
  <2>1. /\ used_map' \in [Keys -> SUBSET Tables] /\ "rt" \in used_map'[k]
        /\ \A j \in Keys \ {k} : used_map'[j] = used_map[j]
    BY <1>1, <1>7, <1>9 DEF Tables
  <2>2. Listed(nbr_table_keys', used_map')
    BY <1>1, <1>2, <1>7, <2>1 DEF Listed
  <2>3. /\ lists \in [Keys -> Seq(RouteIds)] /\ \A j \in Keys \ {k} : lists[j] = route_list[j]
        /\ lists[k] = IF "rt" \notin used_map[k] THEN <<>> ELSE route_list[k]
    BY <1>1
  <2>4. ToSet(lists[k]) = H[k] /\ NoneTwice(lists[k])
    <3>1. CASE "rt" \notin used_map[k]
      BY <2>3, <3>1 DEF ToSet, HeldBy, NoneTwice
    <3>2. CASE "rt" \in used_map[k]
      BY <1>1, <2>3, <3>2 DEF HeldBy, RouteLists
    <3> QED BY <3>1, <3>2
  <2> HIDE DEF lists
  <2>5. CASE FreeRoutes = {}
    <3>1. route_list' = lists /\ UNCHANGED <<routes, num_routes>>
      BY <1>8, <1>9, <2>5
    <3>2. G[k] = H[k] \ {} /\ \A j \in Keys \ {k} : G[j] = H[j]
      <4>1. G[k] = H[k]
        BY <2>1, <2>4, <3>1 DEF HeldBy
      <4>2. \A j \in Keys \ {k} : G[j] = H[j]
        BY <2>1, <2>3, <3>1 DEF HeldBy
      <4> QED BY <4>1, <4>2
    <3>3. KeptOf(num_routes', G, FreeIn(routes'))
      <4>1. \A j \in Keys : G[j] = H[j]
        BY <3>2
      <4> HIDE DEF G, H
      <4> QED BY <1>1, <3>1, <4>1 DEF KeptOf
    <3>4. RouteLists(used_map', route_list')
      <4> SUFFICES ASSUME NEW j \in Keys, "rt" \in used_map'[j] PROVE NoneTwice(route_list'[j])
        BY DEF RouteLists
      <4> QED BY <1>1, <2>1, <2>3, <2>4, <3>1 DEF RouteLists
    <3> QED BY <1>1, <1>2, <2>1, <2>2, <2>3, <3>1, <3>3, <3>4 DEF NbrInv, NbrTypes
  <2>6. CASE FreeRoutes # {}
    <3>1. FreeRoutes \subseteq Nat /\ FreeRoutes \subseteq RouteIds
      BY DEF FreeRoutes, RouteIds
    <3>2. \E y \in FreeRoutes : \A z \in FreeRoutes : y <= z
      BY <2>6, <3>1, LeastOf
    <3>3. Min(FreeRoutes) \in FreeRoutes
      BY <3>2 DEF Min
    <3>4. PICK r \in FreeIn(routes) : r = Min(FreeRoutes)
      BY <1>1, <3>3
    <3>5. r \in RouteIds /\ routes[r] = <<>> /\ dest # <<>>
      BY <3>4, NbrAssumption DEF FreeIn
    <3>6. /\ route_list' = [lists EXCEPT ![k] = Append(lists[k], r)]
          /\ routes' = [routes EXCEPT ![r] = dest] /\ num_routes' = num_routes + 1
      BY <1>7, <1>8, <1>9, <2>3, <2>6, <3>4
    <3> DEFINE q == Append(lists[k], r)
    <3>7. /\ lists[k] \in Seq(RouteIds) /\ q \in Seq(RouteIds) /\ Len(q) = Len(lists[k]) + 1
          /\ \A i \in 1..Len(lists[k]) : q[i] = lists[k][i]
          /\ q[Len(lists[k]) + 1] = r /\ Len(lists[k]) \in Nat
      BY <2>3, <3>5, AppendProperties
    <3> HIDE DEF q
    <3>8. /\ route_list' \in [Keys -> Seq(RouteIds)] /\ route_list'[k] = q
          /\ \A j \in Keys \ {k} : route_list'[j] = route_list[j]
      BY <2>3, <3>6, <3>7 DEF q
    <3>9. DOMAIN routes' = RouteIds /\ \A y \in RouteIds : routes'[y] = IF y = r THEN dest ELSE routes[y]
      BY <1>1, <3>6
    <3>10. FreeIn(routes') = FreeIn(routes) \ {r}
      BY <3>5, <3>9 DEF FreeIn
    <3>11. r \notin H[k] /\ \A i \in 1..Len(lists[k]) : lists[k][i] # r
      <4>1. r \notin H[k]
        BY <1>1, <3>4 DEF KeptOf
      <4>2. \A i \in 1..Len(lists[k]) : lists[k][i] \in ToSet(lists[k])
        BY <3>7 DEF ToSet
      <4> HIDE DEF H
      <4> QED BY <2>4, <4>1, <4>2
    <3>12. ToSet(q) = ToSet(lists[k]) \cup {r}
      <4>1. /\ ToSet(q) = {q[i] : i \in 1..Len(q)}
            /\ ToSet(lists[k]) = {lists[k][i] : i \in 1..Len(lists[k])}
        <5>1. DOMAIN q = 1..Len(q) /\ DOMAIN lists[k] = 1..Len(lists[k])
          BY <3>7
        <5> QED BY <5>1, Zenon DEF ToSet
      <4>2. \A i \in 1..Len(q) : i \in 1..Len(lists[k]) \/ i = Len(lists[k]) + 1
        BY <3>7
      <4>3. \A i \in 1..Len(lists[k]) : i \in 1..Len(q)
        BY <3>7
      <4>4. Len(lists[k]) + 1 \in 1..Len(q)
        BY <3>7
      <4>5. ASSUME NEW y \in ToSet(q) PROVE y \in ToSet(lists[k]) \cup {r}
        <5>1. PICK i \in 1..Len(q) : y = q[i]
          BY <4>1, Zenon
        <5> QED BY <3>7, <4>1, <4>2, <5>1, Zenon
      <4>6. ASSUME NEW y \in ToSet(lists[k]) \cup {r} PROVE y \in ToSet(q)
        BY <3>7, <4>1, <4>3, <4>4, Zenon
      <4> QED BY <4>5, <4>6, Zenon
    <3>13. NoneTwice(q)
      <4>1. ASSUME NEW i \in 1..Len(q), NEW j \in 1..Len(q), q[i] = q[j], i # j PROVE FALSE
        <5>1. i \in 1..Len(lists[k]) \/ i = Len(lists[k]) + 1
          BY <3>7
        <5>2. j \in 1..Len(lists[k]) \/ j = Len(lists[k]) + 1
          BY <3>7
        <5> QED BY <2>4, <3>7, <3>11, <4>1, <5>1, <5>2 DEF NoneTwice
      <4> QED BY <4>1 DEF NoneTwice
    <3>14. G[k] = H[k] \cup {r} /\ \A j \in Keys \ {k} : G[j] = H[j]
      <4>1. G[k] = ToSet(q)
        BY <2>1, <3>8 DEF HeldBy
      <4>2. \A j \in Keys \ {k} : G[j] = H[j]
        BY <2>1, <3>8 DEF HeldBy
      <4> HIDE DEF G, H
      <4> QED BY <2>4, <3>12, <4>1, <4>2
    <3>15. KeptOf(num_routes', G, FreeIn(routes'))
      <4>1. FreeIn(routes) \in SUBSET RouteIds
        BY DEF FreeIn
      <4> HIDE DEF G, H
      <4>2. KeptOf(num_routes + 1, G, FreeIn(routes) \ {r})
        <5>1. KeptOf(num_routes, H, FreeIn(routes))
          BY <1>1
        <5> QED BY <3>14, <4>1, <5>1, KeptAdded
      <4> QED BY <3>6, <3>10, <4>2
    <3>16. RouteLists(used_map', route_list')
      <4> SUFFICES ASSUME NEW j \in Keys, "rt" \in used_map'[j] PROVE NoneTwice(route_list'[j])
        BY DEF RouteLists
      <4>1. CASE j = k
        BY <3>8, <3>13, <4>1
      <4>2. CASE j # k
        BY <1>1, <2>1, <3>8, <4>2 DEF RouteLists
      <4> QED BY <4>1, <4>2
    <3> QED BY <1>1, <1>2, <2>1, <2>2, <3>8, <3>9, <3>15, <3>16 DEF NbrInv, NbrTypes
  <2> QED BY <2>5, <2>6
<1> QED BY <1>2, <1>3, <1>9

LEMMA NbrNextInv == NbrInv /\ [NbrNext]_nbrVars => NbrInv'
<1> SUFFICES ASSUME NbrInv, [NbrNext]_nbrVars PROVE NbrInv'
  OBVIOUS
<1>1. used_map \in [Keys -> SUBSET Tables] /\ DOMAIN lladdr = Keys
  BY DEF NbrInv, NbrTypes
<1>2. ASSUME NEW k \in Keys, uip_ds6_nbr_rm(k) PROVE NbrInv'
  BY <1>1, <1>2, SameRoutesInv DEF uip_ds6_nbr_rm
<1>3. ASSUME NEW k \in Keys, ParentRemoved(k) PROVE NbrInv'
  BY <1>1, <1>3, SameRoutesInv DEF ParentRemoved
<1>4. ASSUME NEW k \in Keys, ParentLocks(k) PROVE NbrInv'
  BY <1>1, <1>4, SameRoutesInv DEF ParentLocks
<1>5. ASSUME NEW k \in Keys, NEW l, LladdrLearned(k, l) PROVE NbrInv'
  BY <1>1, <1>5, SameRoutesInv DEF LladdrLearned
<1>6. CASE UNCHANGED nbrVars
  BY <1>1, <1>6, SameRoutesInv DEF nbrVars
<1> QED BY <1>2, <1>3, <1>4, <1>5, <1>6, NbrAddInv, ParentAddInv, RouteAddInv, RouteRmInv,
           RmByNexthopInv DEF NbrNext

\* No route is lost, held by two neighbours or counted wrongly (uip-ds6-route.c), whatever
\* neighbours are evicted, removed or renamed, for any number of neighbours, routes and
\* destinations.
THEOREM RoutesStayKept == Spec => []RoutesKept
<1>1. Init => NbrInv
  BY NbrInitInv DEF Init
<1>2. NbrInv /\ [Next]_vars => NbrInv'
  BY TablesUnit, NbrNextInv
<1> QED BY <1>1, <1>2, NbrInvKept, PTL DEF Spec

-----------------------------------------------------------------------------
(* Linked lists (lib/list.c).                                              *)

Pointers == Items \cup {NULL}
\* The head h and the pointers nx make the list s.
Links(h, nx, s) ==
    /\ h = IF Len(s) = 0 THEN NULL ELSE s[1]
    /\ \A i \in 1..Len(s) : nx[s[i]] = IF i = Len(s) THEN NULL ELSE s[i + 1]
ListOf(h, nx, s) ==
    /\ h \in Pointers /\ nx \in [Items -> Pointers] /\ s \in Seq(Items)
    /\ NoneTwice(s) /\ Links(h, nx, s)

ListInv == ListOf(head, next, ref)

\* A step of the walk, after the items w.
WalkStep(h, nx, w, k) ==
    LET i == IF k = 1 THEN h ELSE IF w = <<>> THEN NULL ELSE nx[Last(w)]
    IN  IF i = NULL \/ Len(w) < k - 1 THEN w ELSE Append(w, i)

LEMMA WalkStepTyped ==
  ASSUME NEW h \in Pointers, NEW nx \in [Items -> Pointers], NEW w \in Seq(Items), NEW k \in Nat
  PROVE  WalkStep(h, nx, w, k) \in Seq(Items)
<1> DEFINE i == IF k = 1 THEN h ELSE IF w = <<>> THEN NULL ELSE nx[Last(w)]
<1>1. i \in Pointers
  <2>1. NULL \in Pointers
    BY DEF Pointers
  <2>2. w # <<>> => Last(w) \in Items
    BY DEF Last
  <2> QED BY <2>1, <2>2
<1>2. CASE i = NULL \/ Len(w) < k - 1
  BY <1>2 DEF WalkStep
<1>3. CASE ~(i = NULL \/ Len(w) < k - 1)
  <2>1. WalkStep(h, nx, w, k) = Append(w, i)
    BY <1>3, Zenon DEF WalkStep
  <2>2. i \in Items
    BY <1>1, <1>3 DEF Pointers
  <2> HIDE DEF i
  <2> QED BY <2>1, <2>2
<1> QED BY <1>2, <1>3

LEMMA WalkPass ==
  ASSUME NEW h \in Pointers, NEW nx \in [Items -> Pointers], NEW n \in Nat
  PROVE  \E f : /\ f = [k \in 0..n |-> IF k = 0 THEN <<>> ELSE WalkStep(h, nx, f[k - 1], k)]
                /\ Walk(h, nx, n) = f[n]
<1> DEFINE IsPass(f) == f = [k \in 0..n |-> IF k = 0 THEN <<>> ELSE WalkStep(h, nx, f[k - 1], k)]
<1>1. PICK S : S = Seq(Items)
  OBVIOUS
<1>2. PICK G : G = [x \in S \X (1..n) |-> WalkStep(h, nx, x[1], x[2])]
  OBVIOUS
<1>3. \A w \in S, k \in 1..n : WalkStep(h, nx, w, k) \in S
  BY <1>1, WalkStepTyped
<1>4. PICK z \in S : z = <<>>
  <2>1. <<>> \in S
    BY <1>1, EmptySeq
  <2> QED BY <2>1
<1>5. G \in [S \X (1..n) -> S] /\ \A w \in S, k \in 1..n : G[<<w, k>>] = WalkStep(h, nx, w, k)
  BY <1>2, <1>3
<1>6. PICK f \in [0..n -> S] : f = [k \in 0..n |-> IF k = 0 THEN z ELSE G[<<f[k - 1], k>>]]
  <2>1. HasRecursion(n, S, z, G)
    BY <1>5, RecursionExists
  <2> QED BY <2>1 DEF HasRecursion
<1>7. IsPass(f)
  <2>1. \A k \in 0..n : (IF k = 0 THEN z ELSE G[<<f[k - 1], k>>]) = IF k = 0 THEN <<>> ELSE WalkStep(h, nx, f[k - 1], k)
    <3>1. ASSUME NEW k \in 0..n, k # 0 PROVE G[<<f[k - 1], k>>] = WalkStep(h, nx, f[k - 1], k)
      <4>1. k \in 1..n /\ k - 1 \in 0..n
        BY <3>1
      <4> QED BY <1>5, <4>1
    <3> QED BY <1>4, <3>1, Zenon
  <2> QED BY <1>6, <2>1, Zenon
<1> DEFINE g == CHOOSE e : IsPass(e)
<1>8. IsPass(g)
  <2> HIDE DEF IsPass
  <2> QED BY <1>7, Zenon
<1>9. Walk(h, nx, n) = g[n]
  BY Zenon DEF Walk, WalkStep
<1> HIDE DEF g
<1> QED BY <1>8, <1>9, Zenon

\* The walk meets the items of the list, in order.
LEMMA WalkMeets ==
  ASSUME NEW h, NEW nx, NEW s, ListOf(h, nx, s), NEW n \in Nat, Len(s) <= n
  PROVE  Walk(h, nx, n) = s
<1>0. /\ h \in Pointers /\ nx \in [Items -> Pointers] /\ s \in Seq(Items) /\ Links(h, nx, s) /\ NULL \notin Items
  BY ListAssumption DEF ListOf
<1>1. PICK f : /\ f = [k \in 0..n |-> IF k = 0 THEN <<>> ELSE WalkStep(h, nx, f[k - 1], k)]
               /\ Walk(h, nx, n) = f[n]
  BY <1>0, WalkPass
<1> DEFINE L == Len(s)
           Met(k, w) == w \in Seq(Items) /\ Len(w) = (IF k <= L THEN k ELSE L) /\ \A i \in 1..Len(w) : w[i] = s[i]
           T == {k \in 0..n : Met(k, f[k])}
<1>2. 0 \in T
  <2>1. f[0] = <<>> /\ 0 \in 0..n
    BY <1>1
  <2>2. <<>> \in Seq(Items) /\ Len(<<>>) = 0 /\ Len(s) \in Nat
    BY <1>0, EmptySeq
  <2>3. Met(0, <<>>)
    BY <2>2
  <2> QED BY <2>1, <2>3
<1>3. ASSUME NEW k \in 1..n, k - 1 \in T PROVE k \in T
  <2>1. PICK w : w = f[k - 1]
    OBVIOUS
  <2>2. Met(k - 1, w) /\ f[k] = WalkStep(h, nx, w, k)
    BY <1>1, <1>3, <2>1
  <2>3. CASE k <= L
    <3>1. Len(w) = k - 1 /\ k \in 1..L /\ s[k] \in Items
      BY <1>0, <2>2, <2>3
    <3>2. (IF k = 1 THEN h ELSE IF w = <<>> THEN NULL ELSE nx[Last(w)]) = s[k]
      <4>1. CASE k = 1
        BY <1>0, <3>1, <4>1 DEF Links
      <4>2. CASE k # 1
        <5>1. w # <<>> /\ Last(w) = s[k - 1] /\ k - 1 \in 1..L /\ k - 1 # L /\ (k - 1) + 1 = k
          BY <2>2, <3>1, <4>2 DEF Last
        <5> QED BY <1>0, <4>2, <5>1 DEF Links
      <4> QED BY <4>1, <4>2
    <3>3. f[k] = Append(w, s[k])
      BY <1>0, <2>2, <3>1, <3>2 DEF WalkStep
    <3>4. Met(k, f[k])
      BY <1>0, <2>2, <2>3, <3>1, <3>3
    <3> QED BY <3>4
  <2>4. CASE k > L
    <3>1. Len(w) = L /\ L \in Nat
      BY <1>0, <2>2, <2>4
    <3>2. f[k] = w
      <4>1. CASE k = L + 1
        <5>1. (IF k = 1 THEN h ELSE IF w = <<>> THEN NULL ELSE nx[Last(w)]) = NULL
          <6>1. CASE L = 0
            BY <1>0, <4>1, <6>1 DEF Links
          <6>2. CASE L # 0
            <7>1. w # <<>> /\ Last(w) = s[L] /\ L \in 1..L /\ k # 1
              BY <2>2, <3>1, <4>1, <6>2 DEF Last
            <7> QED BY <1>0, <7>1 DEF Links
          <6> QED BY <6>1, <6>2
        <5> QED BY <2>2, <5>1, Zenon DEF WalkStep
      <4>2. CASE k # L + 1
        <5>1. Len(w) < k - 1
          BY <2>4, <3>1, <4>2
        <5> QED BY <2>2, <5>1, Zenon DEF WalkStep
      <4> QED BY <4>1, <4>2
    <3>3. Met(k, f[k])
      BY <2>2, <2>4, <3>1, <3>2
    <3> QED BY <3>3
  <2> QED BY <1>0, <2>3, <2>4
<1>4. n \in T
  <2>1. n \in 0..n
    OBVIOUS
  <2> HIDE DEF T
  <2>2. 0..n \subseteq T
    BY <1>2, <1>3, StepByStep
  <2> QED BY <2>1, <2>2
<1>5. f[n] \in Seq(Items) /\ Len(f[n]) = Len(s) /\ \A i \in 1..Len(s) : f[n][i] = s[i]
  BY <1>0, <1>4
<1>6. f[n] = s
  BY <1>0, <1>5, SeqEqual
<1> QED BY <1>1, <1>6

LEMMA ItemsOnceFit ==
  ASSUME NEW s \in Seq(Items), NoneTwice(s)
  PROVE  Len(s) <= Cardinality(Items)
<1>1. s \in Injection(1..Len(s), Items)
  BY DEF NoneTwice, Injection, IsInjective
<1>2. Cardinality(1..Len(s)) <= Cardinality(Items)
  BY <1>1, ListAssumption, FS_Injection
<1>3. PICK n \in Nat : n = Len(s)
  OBVIOUS
<1>4. Cardinality(1..Len(s)) = Len(s)
  <2>1. 1 \in Int /\ n \in Int
    OBVIOUS
  <2>2. Cardinality(1..n) = IF 1 > n THEN 0 ELSE n - 1 + 1
    BY <2>1, FS_Interval
  <2> QED BY <1>3, <2>2
<1> QED BY <1>2, <1>4

LEMMA ItemsAre ==
  ASSUME NEW h, NEW nx, NEW s, ListOf(h, nx, s)
  PROVE  list_items(h, nx) = s
<1>1. Len(s) <= Cardinality(Items) /\ Cardinality(Items) \in Nat /\ Len(s) \in Nat
  BY ListAssumption, ItemsOnceFit, FS_CardinalityType DEF ListOf
<1>2. PICK n \in Nat : n = Cardinality(Items) + 1 /\ Len(s) <= n
  BY <1>1
<1> QED BY <1>2, WalkMeets DEF list_items

LEMMA ListInvWalks == ListInv => ListWalks
<1> SUFFICES ASSUME ListInv PROVE ListWalks
  OBVIOUS
<1>1. list_items(head, next) = ref
  BY ItemsAre DEF ListInv
<1>2. Len(ref) <= Cardinality(Items)
  BY ItemsOnceFit DEF ListInv, ListOf
<1> QED BY <1>1, <1>2, Zenon DEF ListWalks, list_length

\* The pointer of an item that is not on the list does not matter.
LEMMA OffTheList ==
  ASSUME NEW h, NEW nx, NEW s, ListOf(h, nx, s), NEW item \in Items, NEW p \in Pointers,
         \A i \in 1..Len(s) : s[i] # item, NEW m, m = [nx EXCEPT ![item] = p]
  PROVE  ListOf(h, m, s)
<1>1. s \in Seq(Items) /\ nx \in [Items -> Pointers]
  BY DEF ListOf
<1>2. m \in [Items -> Pointers] /\ \A i \in 1..Len(s) : m[s[i]] = nx[s[i]]
  BY <1>1
<1> QED BY <1>2 DEF ListOf, Links

LEMMA RemovedIs ==
  ASSUME NEW item \in Items, ListInv
  PROVE  /\ ListOf(Removed(item).h, Removed(item).nx, RemoveFirst(ref, item))
         /\ \A i \in 1..Len(RemoveFirst(ref, item)) : RemoveFirst(ref, item)[i] # item
<1>0. /\ head \in Pointers /\ next \in [Items -> Pointers] /\ ref \in Seq(Items) /\ NoneTwice(ref)
      /\ Links(head, next, ref) /\ NULL \in Pointers
  BY DEF ListInv, ListOf, Pointers
<1>1. PICK w : w = RemoveFirst(ref, item)
  OBVIOUS
<1>2. w \in Seq(Items) /\ Without(ref, item, w)
  BY <1>0, <1>1, OthersStay
<1>3. NoneTwice(w) /\ \A i \in 1..Len(w) : w[i] # item
  BY <1>0, <1>2 DEF Without
<1>4. list_items(head, next) = ref
  BY ItemsAre DEF ListInv
<1>5. DOMAIN ref = 1..Len(ref)
  BY <1>0
<1>6. PICK o : o = Removed(item)
  OBVIOUS
<1>7. CASE \E i \in 1..Len(ref) : ref[i] = item
  <2>1. PICK k \in 1..Len(ref) : ref[k] = item /\ OneLess(ref, k, w)
    BY <1>0, <1>1, <1>7, OneTaken
  <2>2. (CHOOSE i \in DOMAIN ref : ref[i] = item) = k
    BY <1>0, <1>5, <2>1 DEF NoneTwice
  <2>3. o = [h |-> IF k = 1 THEN next[item] ELSE head,
             nx |-> IF k = 1 THEN [next EXCEPT ![item] = NULL]
                    ELSE [next EXCEPT ![ref[k - 1]] = next[item], ![item] = NULL]]
    <3>1. \E i \in DOMAIN ref : ref[i] = item
      BY <1>5, <1>7
    <3> DEFINE s == list_items(head, next)
               c == CHOOSE i \in DOMAIN s : s[i] = item
    <3>2. Removed(item) = IF \E i \in DOMAIN s : s[i] = item
                          THEN [h |-> IF c = 1 THEN next[item] ELSE head,
                                nx |-> IF c = 1 THEN [next EXCEPT ![item] = NULL]
                                       ELSE [next EXCEPT ![s[c - 1]] = next[item], ![item] = NULL]]
                          ELSE [h |-> head, nx |-> next]
      BY Zenon DEF Removed
    <3>3. s = ref
      BY <1>4
    <3>4. c = k
      BY <2>2, <3>3
    <3> HIDE DEF s, c
    <3> QED BY <1>6, <3>1, <3>2, <3>3, <3>4, Zenon
  <2>4. next[item] = IF k = Len(ref) THEN NULL ELSE ref[k + 1]
    BY <1>0, <2>1 DEF Links
  <2>5. Len(w) = Len(ref) - 1 /\ \A i \in 1..(Len(ref) - 1) : w[i] = IF i < k THEN ref[i] ELSE ref[i + 1]
    BY <2>1 DEF OneLess
  <2>6. CASE k = 1
    <3>1. o.h = next[item] /\ o.nx = [next EXCEPT ![item] = NULL]
      BY <2>3, <2>6
    <3>2. o.h = IF Len(w) = 0 THEN NULL ELSE w[1]
      BY <1>0, <2>4, <2>5, <2>6, <3>1
    <3>3. ASSUME NEW i \in 1..Len(w)
          PROVE  next[w[i]] = IF i = Len(w) THEN NULL ELSE w[i + 1]
      <4>1. w[i] = ref[i + 1] /\ i + 1 \in 1..Len(ref)
        BY <1>0, <2>5, <2>6
      <4>2. next[ref[i + 1]] = IF i + 1 = Len(ref) THEN NULL ELSE ref[(i + 1) + 1]
        BY <1>0, <4>1 DEF Links
      <4>3. i # Len(w) => i + 1 \in 1..(Len(ref) - 1) /\ w[i + 1] = ref[(i + 1) + 1]
        BY <1>0, <2>5, <2>6
      <4> QED BY <1>0, <2>5, <4>1, <4>2, <4>3
    <3>4. ListOf(o.h, next, w)
      BY <1>0, <1>2, <1>3, <3>1, <3>2, <3>3 DEF ListOf, Links
    <3>5. ListOf(o.h, o.nx, w)
      BY <1>0, <1>3, <3>1, <3>4, OffTheList
    <3> QED BY <1>1, <1>3, <1>6, <3>5
  <2>7. CASE k # 1
    <3>1. PICK p : p = ref[k - 1]
      OBVIOUS
    <3>2. k - 1 \in 1..Len(ref) /\ p \in Items /\ p # item /\ (k - 1) + 1 = k
      BY <1>0, <2>1, <2>7, <3>1 DEF NoneTwice
    <3>3. PICK m : m = [next EXCEPT ![p] = next[item]]
      OBVIOUS
    <3>4. o.h = head /\ o.nx = [m EXCEPT ![item] = NULL]
      BY <2>3, <2>7, <3>1, <3>3
    <3>5. m \in [Items -> Pointers] /\ m[p] = next[item] /\ \A x \in Items : x # p => m[x] = next[x]
      BY <1>0, <3>2, <3>3
    <3>6. head = IF Len(w) = 0 THEN NULL ELSE w[1]
      BY <1>0, <2>1, <2>5, <2>7 DEF Links
    <3>7. ASSUME NEW i \in 1..Len(w)
          PROVE  m[w[i]] = IF i = Len(w) THEN NULL ELSE w[i + 1]
      <4>1. CASE i < k - 1
        <5>1. w[i] = ref[i] /\ w[i + 1] = ref[i + 1] /\ i \in 1..Len(ref) /\ i # k - 1 /\ i # Len(ref) /\ i # Len(w)
          <6>1. /\ i \in 1..(Len(ref) - 1) /\ i + 1 \in 1..(Len(ref) - 1) /\ i \in 1..Len(ref)
                /\ i < k /\ i + 1 < k /\ i # k - 1 /\ i # Len(ref) /\ i # Len(w)
            <7>1. Len(ref) \in Nat /\ k \in 1..Len(ref) /\ Len(w) = Len(ref) - 1
              BY <1>0, <2>5
            <7> QED BY <4>1, <7>1
          <6> QED BY <2>5, <6>1, Zenon
        <5>2. ref[i] # p /\ ref[i] \in Items
          BY <1>0, <3>1, <3>2, <5>1 DEF NoneTwice
        <5> QED BY <1>0, <3>5, <5>1, <5>2 DEF Links
      <4>2. CASE i = k - 1
        <5>1. w[i] = p
          BY <1>0, <2>1, <2>5, <3>1, <4>2
        <5>2. i # Len(w) => w[i + 1] = ref[k + 1] /\ k # Len(ref)
          BY <1>0, <2>1, <2>5, <4>2
        <5>3. i = Len(w) => k = Len(ref)
          BY <1>0, <2>1, <2>5, <4>2
        <5> QED BY <2>4, <3>5, <5>1, <5>2, <5>3
      <4>3. CASE i > k - 1
        <5>1. w[i] = ref[i + 1] /\ i + 1 \in 1..Len(ref) /\ i + 1 # k - 1
          BY <1>0, <2>1, <2>5, <4>3
        <5>2. ref[i + 1] # p /\ ref[i + 1] \in Items
          BY <1>0, <3>1, <3>2, <5>1 DEF NoneTwice
        <5>3. next[ref[i + 1]] = IF i + 1 = Len(ref) THEN NULL ELSE ref[(i + 1) + 1]
          BY <1>0, <5>1 DEF Links
        <5>4. i # Len(w) => w[i + 1] = ref[(i + 1) + 1]
          BY <1>0, <2>1, <2>5, <4>3
        <5> QED BY <1>0, <2>5, <3>5, <5>1, <5>2, <5>3, <5>4
      <4> QED BY <1>0, <2>1, <4>1, <4>2, <4>3
    <3>8. ListOf(head, m, w)
      BY <1>0, <1>2, <1>3, <3>5, <3>6, <3>7 DEF ListOf, Links
    <3>9. ListOf(o.h, o.nx, w)
      BY <1>0, <1>3, <3>4, <3>8, OffTheList
    <3> QED BY <1>1, <1>3, <1>6, <3>9
  <2> QED BY <2>6, <2>7
<1>8. CASE ~(\E i \in 1..Len(ref) : ref[i] = item)
  <2>1. w = ref
    BY <1>1, <1>8 DEF RemoveFirst
  <2>2. o = [h |-> head, nx |-> next]
    BY <1>4, <1>5, <1>6, <1>8 DEF Removed
  <2> QED BY <1>1, <1>3, <1>6, <2>1, <2>2 DEF ListInv
<1> QED BY <1>7, <1>8

LEMMA RemoveInv ==
  ASSUME NEW item \in Items, ListInv, list_remove(item)
  PROVE  ListInv'
<1>1. ListOf(Removed(item).h, Removed(item).nx, RemoveFirst(ref, item))
  BY RemovedIs
<1> QED BY <1>1, Zenon DEF list_remove, ListInv

LEMMA AddInv ==
  ASSUME NEW item \in Items, ListInv, list_add(item)
  PROVE  ListInv'
<1>1. PICK h, nx, s : h = Removed(item).h /\ nx = Removed(item).nx /\ s = RemoveFirst(ref, item)
  OBVIOUS
<1>2. ListOf(h, nx, s) /\ \A i \in 1..Len(s) : s[i] # item
  BY <1>1, RemovedIs
<1>3. PICK z \in Pointers : z = NULL
  BY DEF Pointers
<1>4. PICK m : m = [nx EXCEPT ![item] = z]
  OBVIOUS
<1>5. ListOf(h, m, s)
  BY <1>2, <1>4, OffTheList
<1>6. m[item] = z /\ m \in [Items -> Pointers] /\ s \in Seq(Items) /\ NoneTwice(s) /\ Links(h, m, s) /\ NULL \notin Items
  BY <1>2, <1>4, <1>5, ListAssumption DEF ListOf
<1>7. PICK l : l = list_tail(h, m)
  OBVIOUS
<1>8. l = IF Len(s) = 0 THEN NULL ELSE s[Len(s)]
  <2>1. list_items(h, m) = s
    BY <1>5, ItemsAre
  <2>2. h = NULL <=> Len(s) = 0
    BY <1>6 DEF Links
  <2> QED BY <1>7, <2>1, <2>2 DEF list_tail, Last
<1>9. /\ head' = (IF l = NULL THEN item ELSE h)
      /\ next' = (IF l = NULL THEN m ELSE [m EXCEPT ![l] = item])
      /\ ref' = Append(s, item)
  BY <1>1, <1>3, <1>4, <1>7, Zenon DEF list_add, TakenOff
<1>10. ref' \in Seq(Items) /\ Len(ref') = Len(s) + 1 /\ \A i \in 1..Len(ref') : ref'[i] = IF i <= Len(s) THEN s[i] ELSE item
  BY <1>6, <1>9
<1>11. NoneTwice(ref')
  BY <1>2, <1>6, <1>10 DEF NoneTwice
<1>12. CASE Len(s) = 0
  <2>1. head' = item /\ next' = m
    BY <1>8, <1>9, <1>12
  <2>2. Links(head', next', ref')
    BY <1>3, <1>6, <1>10, <1>12, <2>1 DEF Links
  <2> QED BY <1>6, <1>10, <1>11, <2>1, <2>2 DEF ListInv, ListOf, Pointers
<1>13. CASE Len(s) # 0
  <2>1. l \in Items /\ l = s[Len(s)] /\ Len(s) \in 1..Len(s) /\ l # item
    BY <1>2, <1>6, <1>8, <1>13
  <2>2. head' = h /\ next' = [m EXCEPT ![l] = item]
    BY <1>6, <1>9, <2>1
  <2>3. next' \in [Items -> Pointers] /\ next'[l] = item /\ \A x \in Items : x # l => next'[x] = m[x]
    BY <1>6, <2>1, <2>2 DEF Pointers
  <2>4. ASSUME NEW i \in 1..Len(ref')
        PROVE  next'[ref'[i]] = IF i = Len(ref') THEN NULL ELSE ref'[i + 1]
    <3>1. CASE i = Len(ref')
      BY <1>3, <1>6, <1>10, <2>1, <2>3, <3>1
    <3>2. CASE i = Len(s)
      BY <1>6, <1>10, <2>1, <2>3, <3>2
    <3>3. CASE i < Len(s)
      <4>1. i \in 1..Len(s) /\ i # Len(s) /\ ref'[i] = s[i] /\ ref'[i + 1] = s[i + 1] /\ i # Len(ref') /\ s[i] \in Items
        BY <1>6, <1>10, <3>3
      <4>2. s[i] # l
        BY <1>6, <2>1, <4>1 DEF NoneTwice
      <4> QED BY <1>6, <2>3, <4>1, <4>2 DEF Links
    <3> QED BY <1>6, <1>10, <3>1, <3>2, <3>3
  <2>5. head' = IF Len(ref') = 0 THEN NULL ELSE ref'[1]
    BY <1>6, <1>10, <1>13, <2>2 DEF Links
  <2>6. head' \in Pointers
    BY <1>5, <2>2 DEF ListOf
  <2> QED BY <1>10, <1>11, <2>3, <2>4, <2>5, <2>6 DEF ListInv, ListOf, Links
<1> QED BY <1>12, <1>13

LEMMA PushInv ==
  ASSUME NEW item \in Items, ListInv, list_push(item)
  PROVE  ListInv'
<1>1. PICK h, nx, s : h = Removed(item).h /\ nx = Removed(item).nx /\ s = RemoveFirst(ref, item)
  OBVIOUS
<1>2. ListOf(h, nx, s) /\ \A i \in 1..Len(s) : s[i] # item
  BY <1>1, RemovedIs
<1>3. head' = item /\ next' = [nx EXCEPT ![item] = h] /\ ref' = <<item>> \o s
  BY <1>1, Zenon DEF list_push, TakenOff
<1>4. s \in Seq(Items) /\ nx \in [Items -> Pointers] /\ h \in Pointers /\ NoneTwice(s)
  BY <1>2 DEF ListOf
<1>5. PICK m : m = next'
  OBVIOUS
<1>6. ListOf(h, m, s) /\ m[item] = h /\ m \in [Items -> Pointers]
  BY <1>2, <1>3, <1>4, <1>5, OffTheList
<1>7. ref' \in Seq(Items) /\ Len(ref') = Len(s) + 1 /\ \A i \in 1..Len(ref') : ref'[i] = IF i = 1 THEN item ELSE s[i - 1]
  <2>1. <<item>> \in Seq(Items) /\ Len(<<item>>) = 1 /\ <<item>>[1] = item
    OBVIOUS
  <2>2. ref' \in Seq(Items) /\ Len(ref') = 1 + Len(s)
        /\ \A i \in 1..(1 + Len(s)) : ref'[i] = IF i <= 1 THEN <<item>>[i] ELSE s[i - 1]
    BY <1>3, <1>4, <2>1, ConcatProperties
  <2> QED BY <1>4, <2>1, <2>2
<1>8. NoneTwice(ref')
  <2>1. ASSUME NEW i \in 1..Len(ref'), NEW j \in 1..Len(ref'), ref'[i] = ref'[j] PROVE i = j
    <3>1. i # 1 => i - 1 \in 1..Len(s) /\ ref'[i] = s[i - 1]
      BY <1>4, <1>7
    <3>2. j # 1 => j - 1 \in 1..Len(s) /\ ref'[j] = s[j - 1]
      BY <1>4, <1>7
    <3>3. (i = 1 => ref'[i] = item) /\ (j = 1 => ref'[j] = item)
      BY <1>7
    <3>4. CASE i # 1 /\ j # 1
      <4>1. i - 1 = j - 1
        BY <1>4, <2>1, <3>1, <3>2, <3>4 DEF NoneTwice
      <4> QED BY <4>1
    <3> QED BY <1>2, <2>1, <3>1, <3>2, <3>3, <3>4
  <2> QED BY <2>1 DEF NoneTwice
<1>9. ASSUME NEW i \in 1..Len(ref')
      PROVE  m[ref'[i]] = IF i = Len(ref') THEN NULL ELSE ref'[i + 1]
  <2>1. CASE i = 1
    BY <1>4, <1>6, <1>7, <2>1 DEF ListOf, Links
  <2>2. CASE i # 1
    <3>1. i - 1 \in 1..Len(s) /\ ref'[i] = s[i - 1] /\ (i - 1) + 1 = i /\ (i - 1 = Len(s) <=> i = Len(ref'))
      BY <1>4, <1>7, <2>2
    <3>2. m[s[i - 1]] = IF i - 1 = Len(s) THEN NULL ELSE s[(i - 1) + 1]
      BY <1>6, <3>1 DEF ListOf, Links
    <3>3. i # Len(ref') => ref'[i + 1] = s[i]
      BY <1>4, <1>7, <2>2
    <3> QED BY <3>1, <3>2, <3>3
  <2> QED BY <2>1, <2>2
<1> QED BY <1>3, <1>4, <1>5, <1>6, <1>7, <1>8, <1>9 DEF ListInv, ListOf, Links, Pointers

\* The list without its last item, and without its first.
LEMMA ChopInv ==
  ASSUME ListInv, list_chop
  PROVE  ListInv'
<1>0. /\ head \in Pointers /\ next \in [Items -> Pointers] /\ ref \in Seq(Items) /\ NoneTwice(ref)
      /\ Links(head, next, ref) /\ NULL \in Pointers /\ NULL \notin Items
  BY ListAssumption DEF ListInv, ListOf, Pointers
<1>1. head # NULL
  BY DEF list_chop
<1>2. Len(ref) \in Nat \ {0} /\ 1 \in 1..Len(ref) /\ head = ref[1] /\ ref[1] \in Items
  BY <1>0, <1>1 DEF Links
<1>3. ref' = SubSeq(ref, 1, Len(ref) - 1)
  BY DEF list_chop
<1>4. ref' \in Seq(Items) /\ Len(ref') = Len(ref) - 1 /\ \A i \in 1..(Len(ref) - 1) : ref'[i] = ref[i]
  <2>1. PICK n \in Nat : n = Len(ref) - 1
    BY <1>2
  <2>2. \A i \in 1..n : ref[i] \in Items
    BY <1>0, <2>1
  <2>3. 1 \in Int /\ n \in Int
    OBVIOUS
  <2>4. SubSeq(ref, 1, n) \in Seq(Items)
    BY <2>2, <2>3, SubSeqProperties
  <2>5. Len(SubSeq(ref, 1, n)) = IF 1 <= n THEN n - 1 + 1 ELSE 0
    BY <2>2, <2>3, SubSeqProperties
  <2>6. \A i \in 1..(n - 1 + 1) : SubSeq(ref, 1, n)[i] = ref[1 + i - 1]
    BY <2>2, <2>3, SubSeqProperties
  <2>7. ref' = SubSeq(ref, 1, n)
    BY <1>3, <2>1
  <2>8. Len(ref') = n
    BY <2>5, <2>7
  <2>9. \A i \in 1..n : ref'[i] = ref[i]
    BY <2>6, <2>7
  <2> QED BY <2>1, <2>4, <2>7, <2>8, <2>9
<1>5. NoneTwice(ref')
  BY <1>0, <1>2, <1>4 DEF NoneTwice
<1>6. next[head] = NULL <=> Len(ref) = 1
  <2>1. next[ref[1]] = IF 1 = Len(ref) THEN NULL ELSE ref[1 + 1]
    BY <1>0, <1>2 DEF Links
  <2>2. Len(ref) # 1 => ref[1 + 1] \in Items
    <3>1. PICK n \in Nat : n = Len(ref) /\ n # 0
      BY <1>2
    <3>2. n # 1 => 1 + 1 \in 1..n
      BY <3>1
    <3> QED BY <1>0, <3>1, <3>2
  <2> QED BY <1>0, <1>2, <2>1, <2>2
<1>7. CASE next[head] = NULL
  <2>1. head' = NULL /\ next' = next
    BY <1>7 DEF list_chop
  <2>2. Len(ref') = 0
    <3>1. Len(ref') = Len(ref) - 1 /\ Len(ref) = 1
      BY <1>4, <1>6, <1>7, Zenon
    <3> QED BY <3>1
  <2>3. Links(head', next', ref')
    BY <2>1, <2>2 DEF Links
  <2> QED BY <1>0, <1>4, <1>5, <2>1, <2>3 DEF ListInv, ListOf
<1>8. CASE next[head] # NULL
  <2>1. list_items(head, next) = ref
    BY ItemsAre DEF ListInv
  <2>2. PICK p : p = ref[Len(ref) - 1]
    OBVIOUS
  <2>3. next' = [next EXCEPT ![p] = NULL] /\ head' = head
    BY <1>8, <2>1, <2>2 DEF list_chop
  <2>4. Len(ref) - 1 \in 1..Len(ref) /\ p \in Items
    <3>1. Len(ref) - 1 \in 1..Len(ref)
      BY <1>2, <1>6, <1>8
    <3> QED BY <1>0, <2>2, <3>1
  <2>5. next' \in [Items -> Pointers] /\ next'[p] = NULL /\ \A x \in Items : x # p => next'[x] = next[x]
    BY <1>0, <2>3, <2>4
  <2>6. ASSUME NEW i \in 1..Len(ref')
        PROVE  next'[ref'[i]] = IF i = Len(ref') THEN NULL ELSE ref'[i + 1]
    <3>1. CASE i = Len(ref')
      BY <1>4, <2>2, <2>4, <2>5, <3>1
    <3>2. CASE i # Len(ref')
      <4>1. i \in 1..Len(ref) /\ ref'[i] = ref[i] /\ ref'[i + 1] = ref[i + 1] /\ i # Len(ref) - 1 /\ i # Len(ref) /\ ref[i] \in Items
        BY <1>0, <1>2, <1>4, <3>2
      <4>2. ref[i] # p
        BY <1>0, <2>2, <2>4, <4>1 DEF NoneTwice
      <4> QED BY <1>0, <2>5, <3>2, <4>1, <4>2 DEF Links
    <3> QED BY <3>1, <3>2
  <2>7. head' = IF Len(ref') = 0 THEN NULL ELSE ref'[1]
    BY <1>2, <1>4, <1>6, <1>8, <2>3
  <2> QED BY <1>0, <1>4, <1>5, <2>3, <2>5, <2>6, <2>7 DEF ListInv, ListOf, Links
<1> QED BY <1>7, <1>8

LEMMA PopInv ==
  ASSUME ListInv, list_pop
  PROVE  ListInv'
<1>0. /\ head \in Pointers /\ next \in [Items -> Pointers] /\ ref \in Seq(Items) /\ NoneTwice(ref)
      /\ Links(head, next, ref)
  BY DEF ListInv, ListOf
<1>1. head # NULL /\ head' = next[head] /\ next' = next /\ ref' = Tail(ref)
  BY DEF list_pop
<1>2. Len(ref) \in Nat \ {0} /\ 1 \in 1..Len(ref) /\ head = ref[1] /\ ref[1] \in Items
  BY <1>0, <1>1 DEF Links
<1>3. ref' \in Seq(Items) /\ Len(ref') = Len(ref) - 1 /\ \A i \in 1..Len(ref') : ref'[i] = ref[i + 1]
  BY <1>0, <1>1, <1>2
<1>4. NoneTwice(ref')
  <2>1. ASSUME NEW i \in 1..Len(ref'), NEW j \in 1..Len(ref'), ref'[i] = ref'[j] PROVE i = j
    <3>1. i + 1 \in 1..Len(ref) /\ j + 1 \in 1..Len(ref) /\ ref[i + 1] = ref[j + 1]
      BY <1>2, <1>3, <2>1
    <3>2. i + 1 = j + 1
      BY <1>0, <3>1 DEF NoneTwice
    <3> QED BY <3>2
  <2> QED BY <2>1 DEF NoneTwice
<1>5. head' \in Pointers /\ head' = IF Len(ref') = 0 THEN NULL ELSE ref'[1]
  <2>1. next[ref[1]] = IF 1 = Len(ref) THEN NULL ELSE ref[1 + 1]
    BY <1>0, <1>2 DEF Links
  <2>2. next[ref[1]] \in Pointers
    BY <1>0, <1>2
  <2>3. Len(ref) # 1 => 1 \in 1..Len(ref') /\ ref'[1] = ref[1 + 1]
    BY <1>2, <1>3
  <2> QED BY <1>1, <1>2, <1>3, <2>1, <2>2, <2>3
<1>6. ASSUME NEW i \in 1..Len(ref')
      PROVE  next'[ref'[i]] = IF i = Len(ref') THEN NULL ELSE ref'[i + 1]
  <2>1. i + 1 \in 1..Len(ref) /\ ref'[i] = ref[i + 1] /\ (i = Len(ref') <=> i + 1 = Len(ref))
    BY <1>2, <1>3
  <2>2. next[ref[i + 1]] = IF i + 1 = Len(ref) THEN NULL ELSE ref[(i + 1) + 1]
    BY <1>0, <2>1 DEF Links
  <2>3. i # Len(ref') => ref'[i + 1] = ref[(i + 1) + 1]
    BY <1>2, <1>3
  <2> QED BY <1>1, <2>1, <2>2, <2>3
<1> QED BY <1>0, <1>1, <1>3, <1>4, <1>5, <1>6 DEF ListInv, ListOf, Links

LEMMA InsertInv ==
  ASSUME NEW item \in Items, NEW p \in Pointers, ListInv, list_insert(p, item)
  PROVE  ListInv'
<1>0. /\ head \in Pointers /\ next \in [Items -> Pointers] /\ ref \in Seq(Items) /\ NoneTwice(ref)
      /\ Links(head, next, ref)
  BY DEF ListInv, ListOf
<1>1. CASE p = NULL
  <2>1. list_push(item)
    BY <1>1 DEF list_insert
  <2> QED BY <2>1, PushInv
<1>2. CASE p # NULL
  <2>1. /\ item \notin ToSet(ref) /\ p \in ToSet(ref)
        /\ next' = [next EXCEPT ![item] = next[p], ![p] = item] /\ head' = head
        /\ LET k == CHOOSE k \in DOMAIN ref : ref[k] = p
           IN  ref' = SubSeq(ref, 1, k) \o <<item>> \o SubSeq(ref, k + 1, Len(ref))
    BY <1>2 DEF list_insert
  <2>2. PICK k \in 1..Len(ref) : ref[k] = p
    BY <1>0, <2>1 DEF ToSet
  <2>3. \A i \in 1..Len(ref) : ref[i] # item
    BY <1>0, <2>1 DEF ToSet
  <2>4. p \in Items /\ p # item /\ (CHOOSE i \in DOMAIN ref : ref[i] = p) = k
    BY <1>0, <2>2, <2>3 DEF NoneTwice
  <2>5. PICK n \in Nat : n = Len(ref)
    BY <1>0
  <2>6. PICK a, b : a = SubSeq(ref, 1, k) /\ b = SubSeq(ref, k + 1, n)
    OBVIOUS
  <2>7. a \in Seq(Items) /\ Len(a) = k /\ \A i \in 1..k : a[i] = ref[i]
    <3>1. 1 \in Int /\ k \in Int /\ \A i \in 1..k : ref[i] \in Items
      BY <1>0, <2>5
    <3>2. Len(a) = (IF 1 <= k THEN k - 1 + 1 ELSE 0) /\ a \in Seq(Items) /\ \A i \in 1..(k - 1 + 1) : a[i] = ref[1 + i - 1]
      BY <2>6, <3>1, SubSeqProperties
    <3> QED BY <1>0, <3>2
  <2>8. b \in Seq(Items) /\ Len(b) = n - k /\ \A i \in 1..(n - k) : b[i] = ref[k + i]
    <3>1. k + 1 \in Int /\ n \in Int /\ \A i \in (k + 1)..n : ref[i] \in Items
      BY <1>0, <2>5
    <3>2. Len(b) = (IF k + 1 <= n THEN n - (k + 1) + 1 ELSE 0) /\ b \in Seq(Items) /\ \A i \in 1..(n - (k + 1) + 1) : b[i] = ref[k + 1 + i - 1]
      BY <2>6, <3>1, SubSeqProperties
    <3>3. \A i \in 1..(n - k) : k + 1 + i - 1 = k + i /\ i \in 1..(n - (k + 1) + 1)
      BY <2>5
    <3> QED BY <2>5, <3>2, <3>3
  <2>9. ref' = (a \o <<item>>) \o b
    BY <2>1, <2>4, <2>5, <2>6
  <2>10. ref' \in Seq(Items) /\ Len(ref') = n + 1
         /\ \A i \in 1..(n + 1) : ref'[i] = IF i <= k THEN ref[i] ELSE IF i = k + 1 THEN item ELSE ref[i - 1]
    <3>1. PICK c : c = a \o <<item>>
      OBVIOUS
    <3>2. <<item>> \in Seq(Items) /\ Len(<<item>>) = 1 /\ <<item>>[1] = item
      OBVIOUS
    <3>3. c \in Seq(Items) /\ Len(c) = k + 1 /\ \A i \in 1..(k + 1) : c[i] = IF i <= k THEN a[i] ELSE <<item>>[i - k]
      BY <2>7, <3>1, <3>2, ConcatProperties
    <3>4. \A i \in 1..(k + 1) : c[i] = IF i <= k THEN ref[i] ELSE item
      BY <2>7, <3>2, <3>3
    <3>5. ref' \in Seq(Items) /\ Len(ref') = (k + 1) + (n - k)
          /\ \A i \in 1..((k + 1) + (n - k)) : ref'[i] = IF i <= k + 1 THEN c[i] ELSE b[i - (k + 1)]
      <4>1. ref' = c \o b
        BY <2>9, <3>1, Zenon
      <4>2. PICK r : r = c \o b
        OBVIOUS
      <4>3. r \in Seq(Items) /\ Len(r) = Len(c) + Len(b)
            /\ \A i \in 1..(Len(c) + Len(b)) : r[i] = IF i <= Len(c) THEN c[i] ELSE b[i - Len(c)]
        <5>1. c \in Seq(Items) /\ b \in Seq(Items)
          BY <2>8, <3>3
        <5> QED BY <4>2, <5>1, ConcatProperties
      <4> QED BY <2>8, <3>3, <4>1, <4>2, <4>3, Zenon
    <3>6. ASSUME NEW i \in 1..(n + 1), i > k + 1 PROVE ref'[i] = ref[i - 1]
      <4>1. i - (k + 1) \in 1..(n - k) /\ k + (i - (k + 1)) = i - 1 /\ i \in 1..((k + 1) + (n - k)) /\ ~(i <= k + 1)
        BY <2>5, <3>6
      <4>2. ref'[i] = b[i - (k + 1)]
        BY <3>5, <4>1
      <4> QED BY <2>8, <4>1, <4>2
    <3>7. ASSUME NEW i \in 1..(n + 1), i <= k + 1 PROVE ref'[i] = IF i <= k THEN ref[i] ELSE item
      <4>1. i \in 1..(k + 1) /\ i \in 1..((k + 1) + (n - k))
        BY <2>5, <3>7
      <4> QED BY <3>4, <3>5, <3>7, <4>1
    <3> QED BY <2>5, <3>5, <3>6, <3>7
  <2>11. PICK m : m = next'
    OBVIOUS
  <2>12. /\ m \in [Items -> Pointers] /\ m[item] = next[p] /\ m[p] = item
         /\ \A x \in Items : x # p /\ x # item => m[x] = next[x]
    BY <1>0, <2>1, <2>4, <2>11 DEF Pointers
  <2>13. next[p] = IF k = n THEN NULL ELSE ref[k + 1]
    BY <1>0, <2>2, <2>5 DEF Links
  <2>14. ASSUME NEW i \in 1..(n + 1)
         PROVE  m[ref'[i]] = IF i = n + 1 THEN NULL ELSE ref'[i + 1]
    <3>1. CASE i < k
      <4>1. i \in 1..Len(ref) /\ i # n /\ i # k /\ ref'[i] = ref[i] /\ ref'[i + 1] = ref[i + 1] /\ ref[i] \in Items /\ i # n + 1
        BY <1>0, <2>5, <2>10, <3>1
      <4>2. ref[i] # p /\ ref[i] # item
        BY <1>0, <2>2, <2>3, <4>1 DEF NoneTwice
      <4> QED BY <1>0, <2>5, <2>12, <4>1, <4>2 DEF Links
    <3>2. CASE i = k
      BY <2>2, <2>5, <2>10, <2>12, <3>2
    <3>3. CASE i = k + 1
      BY <2>5, <2>10, <2>12, <2>13, <3>3
    <3>4. CASE i > k + 1
      <4>1. i - 1 \in 1..Len(ref) /\ i - 1 # k /\ ref'[i] = ref[i - 1] /\ (i - 1 = n <=> i = n + 1) /\ (i - 1) + 1 = i
        BY <1>0, <2>5, <2>10, <3>4
      <4>2. ref[i - 1] # p /\ ref[i - 1] # item /\ ref[i - 1] \in Items
        BY <1>0, <2>2, <2>3, <4>1 DEF NoneTwice
      <4>3. next[ref[i - 1]] = IF i - 1 = n THEN NULL ELSE ref[(i - 1) + 1]
        BY <1>0, <2>5, <4>1 DEF Links
      <4>4. i # n + 1 => ref'[i + 1] = ref[i]
        <5>1. i # n + 1 => i + 1 \in 1..(n + 1) /\ ~(i + 1 <= k) /\ i + 1 # k + 1 /\ (i + 1) - 1 = i
          BY <2>5, <3>4
        <5> QED BY <2>10, <5>1
      <4> QED BY <2>12, <4>1, <4>2, <4>3, <4>4
    <3> QED BY <2>5, <3>1, <3>2, <3>3, <3>4
  <2>15. NoneTwice(ref')
    <3> DEFINE o(i) == IF i <= k THEN i ELSE i - 1
    <3>1. ASSUME NEW i \in 1..(n + 1), NEW j \in 1..(n + 1), ref'[i] = ref'[j] PROVE i = j
      <4>1. i # k + 1 => o(i) \in 1..Len(ref) /\ ref'[i] = ref[o(i)]
        BY <2>5, <2>10
      <4>2. j # k + 1 => o(j) \in 1..Len(ref) /\ ref'[j] = ref[o(j)]
        BY <2>5, <2>10
      <4>3. ref'[k + 1] = item
        BY <2>5, <2>10
      <4>4. CASE i = k + 1 \/ j = k + 1
        BY <2>3, <3>1, <4>1, <4>2, <4>3, <4>4
      <4>5. CASE i # k + 1 /\ j # k + 1
        <5>1. o(i) = o(j)
          BY <1>0, <3>1, <4>1, <4>2, <4>5 DEF NoneTwice
        <5> QED BY <4>5, <5>1
      <4> QED BY <4>4, <4>5
    <3> QED BY <2>10, <3>1 DEF NoneTwice
  <2>16. head' = IF Len(ref') = 0 THEN NULL ELSE ref'[1]
    <3>1. Len(ref') # 0 /\ Len(ref) # 0 /\ 1 \in 1..(n + 1) /\ 1 <= k
      BY <2>5, <2>10
    <3>2. head = ref[1]
      BY <1>0, <3>1 DEF Links
    <3> QED BY <2>1, <2>10, <3>1, <3>2
  <2>17. Links(head', m, ref')
    BY <2>10, <2>14, <2>16 DEF Links
  <2>18. ListOf(head', m, ref')
    BY <1>0, <2>1, <2>10, <2>12, <2>15, <2>17 DEF ListOf
  <2> QED BY <2>11, <2>18 DEF ListInv
<1> QED BY <1>1, <1>2

LEMMA EmptyList == ASSUME NEW nx \in [Items -> Pointers] PROVE ListOf(NULL, nx, <<>>)
<1>1. <<>> \in Seq(Items) /\ Len(<<>>) = 0
  BY EmptySeq
<1> QED BY <1>1 DEF ListOf, Links, NoneTwice, Pointers

LEMMA ListNextInv == ListInv /\ [ListNext]_listVars => ListInv'
<1> SUFFICES ASSUME ListInv, [ListNext]_listVars PROVE ListInv'
  OBVIOUS
<1>1. CASE UNCHANGED listVars
  BY <1>1 DEF ListInv, listVars
<1>2. ASSUME NEW i \in Items, list_remove(i) \/ list_add(i) \/ list_push(i) PROVE ListInv'
  BY <1>2, RemoveInv, AddInv, PushInv
<1>3. ASSUME NEW i \in Items, NEW p \in Pointers, list_insert(p, i) PROVE ListInv'
  BY <1>3, InsertInv
<1>4. CASE list_init
  <2>1. next \in [Items -> Pointers]
    BY DEF ListInv, ListOf
  <2>2. ListOf(NULL, next, <<>>)
    BY <2>1, EmptyList
  <2> QED BY <1>4, <2>2, Zenon DEF list_init, ListInv
<1> QED BY <1>1, <1>2, <1>3, <1>4, ChopInv, PopInv DEF ListNext, Pointers

LEMMA ListInitInv == ListInit => ListInv
<1> SUFFICES ASSUME ListInit PROVE ListInv
  OBVIOUS
<1>1. next \in [Items -> Pointers]
  BY DEF ListInit, Pointers
<1>2. ListOf(NULL, next, <<>>)
  BY <1>1, EmptyList
<1> QED BY <1>2, Zenon DEF ListInit, ListInv

\* A walk along the pointers meets the items of the list in order, each once, and ends
\* (lib/list.c), for any number of items and whatever pointers are left over.
THEOREM ListsWalk == Spec => []ListWalks
<1>1. Init => ListInv
  BY ListInitInv DEF Init
<1>2. ListInv /\ [Next]_vars => ListInv'
  BY ListUnit, ListNextInv
<1> QED BY <1>1, <1>2, ListInvWalks, PTL DEF Spec

-----------------------------------------------------------------------------
(* Loops that the RPL option shows (rpl-ext-header.c).                     *)

\* Each node of q sends to the one hopOf names; the ranks do not rise along q up to place t,
\* and rise from t to the last node but one, to which the option was verified.
Follows(q, hopOf) == \A k \in 1..(Len(q) - 1) : q[k + 1] = hopOf[q[k]]
Falls(q, rank, t) == \A k, l \in 1..t : k < l => rank[q[l]] <= rank[q[k]]
Rises(q, rank, t, n) == \A k, l \in t..n : k < l => rank[q[k]] < rank[q[l]]
Valley(q, hopOf, rank, S) ==
    /\ q \in Seq(S) /\ Follows(q, hopOf) /\ \A s \in S : hopOf[s] # s /\ rank[s] \in Int
    /\ \E t \in 1..(Len(q) - 1) : Falls(q, rank, t) /\ Rises(q, rank, t, Len(q) - 1)

LEMMA RoundAndRound ==
  ASSUME NEW S, NEW q \in Seq(S), NEW hopOf, Follows(q, hopOf),
         NEW i \in 1..Len(q), NEW m \in 1..Len(q), i < m, q[i] = q[m], NEW j \in m..Len(q)
  PROVE  \A k \in i..j : \E x \in i..m : q[k] = q[x]
<1> DEFINE Bad == {k \in i..j : \A x \in i..m : q[k] # q[x]}
<1>1. SUFFICES ASSUME Bad # {} PROVE FALSE
  <2>1. Bad = {}
    BY <1>1
  <2> QED BY <2>1
<1>2. Bad \subseteq Nat
  OBVIOUS
<1>3. \E k \in Bad : \A y \in Bad : k <= y
  <2> HIDE DEF Bad
  <2> QED BY <1>1, <1>2, LeastOf
<1>4. PICK k \in Bad : \A y \in Bad : k <= y
  BY <1>3
<1>5. k \in i..j /\ \A x \in i..m : q[k] # q[x]
  BY <1>4
<1>6. k \notin i..m /\ k - 1 \in i..j /\ m \in i..m /\ i \in i..m /\ k - 1 \in 1..(Len(q) - 1) /\ (k - 1) + 1 = k
      /\ ~(k <= k - 1)
  BY <1>5
<1>7. k - 1 \notin Bad
  BY <1>4, <1>6, Zenon
<1>8. PICK x \in i..m : q[k - 1] = q[x]
  BY <1>6, <1>7, Zenon
<1>9. PICK y \in i..(m - 1) : q[k - 1] = q[y]
  <2>1. CASE x = m
    <3>1. i \in i..(m - 1)
      OBVIOUS
    <3> QED BY <1>8, <2>1, <3>1, Zenon
  <2>2. CASE x # m
    <3>1. x \in i..(m - 1)
      BY <2>2
    <3> QED BY <1>8, <3>1, Zenon
  <2> QED BY <2>1, <2>2
<1>10. y \in 1..(Len(q) - 1) /\ y + 1 \in i..m
  BY <1>9
<1>11. q[k] = hopOf[q[k - 1]]
  <2>1. q[(k - 1) + 1] = hopOf[q[k - 1]]
    BY <1>6, Zenon DEF Follows
  <2> QED BY <1>6, <2>1, Zenon
<1>12. q[y + 1] = hopOf[q[y]]
  BY <1>10, Zenon DEF Follows
<1>13. q[k] = q[y + 1]
  BY <1>9, <1>11, <1>12, Zenon
<1> QED BY <1>5, <1>10, <1>13, Zenon

OneRank(q, rank) ==
    \A i, m, j \in 1..Len(q) : i < m /\ m < j /\ q[i] = q[m] /\ q[m] = q[j] =>
        \A k, l \in i..j : rank[q[k]] = rank[q[l]]

\* A node met for the third time was in a loop of nodes of one rank.
LEMMA LoopHasOneRank ==
  ASSUME NEW S, NEW q, NEW hopOf, NEW rank, Valley(q, hopOf, rank, S)
  PROVE  OneRank(q, rank)
<1> USE DEF OneRank
<1> TAKE i, m, j \in 1..Len(q)
<1> HAVE i < m /\ m < j /\ q[i] = q[m] /\ q[m] = q[j]
<1>0. /\ q \in Seq(S) /\ Follows(q, hopOf) /\ \A s \in S : hopOf[s] # s /\ rank[s] \in Int
      /\ \E t \in 1..(Len(q) - 1) : Falls(q, rank, t) /\ Rises(q, rank, t, Len(q) - 1)
  BY DEF Valley
<1>t. PICK t \in 1..(Len(q) - 1) : Falls(q, rank, t) /\ Rises(q, rank, t, Len(q) - 1)
  BY <1>0
<1> USE <1>0, <1>t
<1> DEFINE f(k) == rank[q[k]]
<1>1. \A k \in 1..Len(q) : q[k] \in S
  OBVIOUS
<1>2. \A k \in 1..Len(q) : f(k) \in Int
  BY <1>1, Zenon
<1>3. f(i) = f(m)
  OBVIOUS
<1>4. /\ i \in 1..(Len(q) - 1) /\ m \in 1..(Len(q) - 1)
      /\ q[i + 1] = q[m + 1]
  <2>1. i \in 1..(Len(q) - 1) /\ m \in 1..(Len(q) - 1)
    OBVIOUS
  <2> QED BY <2>1, Zenon DEF Follows
<1>5. m + 1 # j
  <2>1. SUFFICES ASSUME m + 1 = j PROVE FALSE
    OBVIOUS
  <2>2. q[m + 1] = hopOf[q[m]]
    BY <1>4, Zenon DEF Follows
  <2> QED BY <1>1, <2>1, <2>2, Zenon
<1>6. m + 1 \in 1..(Len(q) - 1) /\ m < m + 1
  BY <1>5
<1>7. m <= t
  <2>1. SUFFICES ASSUME t < m PROVE FALSE
    OBVIOUS
  <2>2. m \in t..(Len(q) - 1) /\ m + 1 \in t..(Len(q) - 1)
    BY <1>4, <1>6, <2>1
  <2>3. f(m) < f(m + 1)
    BY <1>6, <2>2, Zenon DEF Rises
  <2>4. CASE t <= i
    <3>1. i \in t..(Len(q) - 1)
      BY <1>4, <2>4
    <3>2. f(i) < f(m)
      BY <2>2, <3>1, Zenon DEF Rises
    <3>3. f(i) \in Int
      BY <1>2
    <3> QED BY <1>3, <3>2, <3>3
  <2>5. CASE i < t
    <3>1. i \in 1..t /\ i + 1 \in 1..t /\ i < i + 1 /\ i + 1 \in 1..Len(q)
      BY <2>5
    <3>2. f(i + 1) <= f(i)
      BY <3>1, Zenon DEF Falls
    <3>3. f(i + 1) = f(m + 1) /\ f(i) \in Int /\ f(m) \in Int /\ f(i + 1) \in Int
      BY <1>2, <1>4, <3>1, Zenon
    <3> HIDE DEF f
    <3> QED BY <1>3, <2>3, <3>2, <3>3
  <2> QED BY <2>4, <2>5
<1>8. ASSUME NEW k \in i..m PROVE f(k) = f(i)
  <2>1. k \in 1..t /\ i \in 1..t /\ m \in 1..t /\ k \in 1..Len(q)
    BY <1>7
  <2>2. CASE k = i
    BY <2>2
  <2>3. CASE k = m
    BY <1>3, <2>3
  <2>4. CASE i < k /\ k < m
    <3>1. f(k) <= f(i)
      BY <2>1, <2>4, Zenon DEF Falls
    <3>2. f(m) <= f(k)
      BY <2>1, <2>4, Zenon DEF Falls
    <3>3. f(k) \in Int /\ f(i) \in Int
      BY <1>2, <2>1, Zenon
    <3> HIDE DEF f
    <3> QED BY <1>3, <3>1, <3>2, <3>3
  <2>5. k = i \/ k = m \/ (i < k /\ k < m)
    OBVIOUS
  <2> QED BY <2>2, <2>3, <2>4, <2>5
<1>9. ASSUME NEW k \in i..j PROVE f(k) = f(i)
  <2>1. j \in m..Len(q) /\ i \in 1..Len(q) /\ m \in 1..Len(q) /\ i < m /\ q[i] = q[m]
    OBVIOUS
  <2>2. \A y \in i..j : \E x \in i..m : q[y] = q[x]
    BY ONLY <2>1, <1>0, RoundAndRound, Zenon
  <2>3. PICK x \in i..m : q[k] = q[x]
    BY ONLY <2>2, k \in i..j
  <2> QED BY <1>8, <2>3, Zenon
<1> QED BY <1>9, Zenon

HdrOptions == [down : BOOLEAN, rankErr : BOOLEAN, fwdErr : BOOLEAN, senderrank : Nat]
HdrNets == [rank : [HdrNodes -> NodeRanks], up : Hops6, down : Hops6]
NextOf(nt) == [n \in HdrNodes |-> IF nt.down[n] # 0 THEN nt.down[n] ELSE nt.up[n]]

\* A packet on its way in which nothing was found wrong.
OnItsWay ==
    /\ net \in HdrNets /\ trail \in Seq(HdrNodes) /\ Len(trail) >= 2
    /\ option \in HdrOptions /\ option.fwdErr = FALSE
    /\ option.senderrank = net.rank[trail[Len(trail) - 1]]
    /\ Follows(trail, NextOf(net))
    /\ \E t \in 1..(Len(trail) - 1) :
          /\ Falls(trail, net.rank, t) /\ Rises(trail, net.rank, t, Len(trail) - 1)
          /\ option.down = TRUE \/ t = Len(trail) - 1

HdrInv == flagged \in BOOLEAN /\ (flagged = TRUE \/ trail = <<>> \/ OnItsWay)

LEMMA NextIsAnother ==
  ASSUME NEW nt \in HdrNets
  PROVE  \A s \in HdrNodes : /\ NextOf(nt)[s] # s /\ nt.rank[s] \in Int /\ nt.rank[s] \in Nat
                             /\ NextOf(nt)[s] # 0 => NextOf(nt)[s] \in HdrNodes
<1> SUFFICES ASSUME NEW s \in HdrNodes
             PROVE  /\ NextOf(nt)[s] # s /\ nt.rank[s] \in Int /\ nt.rank[s] \in Nat
                    /\ NextOf(nt)[s] # 0 => NextOf(nt)[s] \in HdrNodes
  OBVIOUS
<1>1. nt.rank \in [HdrNodes -> NodeRanks] /\ nt.up \in Hops6 /\ nt.down \in Hops6
  BY DEF HdrNets
<1>2. /\ nt.up[s] \in 0..NumNodes /\ nt.down[s] \in 0..NumNodes /\ nt.up[s] # s /\ nt.down[s] # s
      /\ nt.rank[s] \in NodeRanks
  BY <1>1 DEF Hops6
<1>3. NextOf(nt)[s] = IF nt.down[s] # 0 THEN nt.down[s] ELSE nt.up[s]
  BY DEF NextOf
<1> DEFINE x == nt.up[s]
           y == nt.down[s]
           z == NextOf(nt)[s]
<1>4. x \in 0..NumNodes /\ y \in 0..NumNodes /\ x # s /\ y # s /\ z = IF y # 0 THEN y ELSE x
  BY <1>2, <1>3
<1> HIDE DEF x, y, z
<1>5. z # s /\ (z # 0 => z \in 1..NumNodes)
  BY <1>4, HdrAssumption DEF HdrNodes
<1>6. nt.rank[s] \in Nat
  BY <1>2, HdrAssumption, Zenon
<1>7. \A v \in Nat : v \in Int
  OBVIOUS
<1> QED BY <1>5, <1>6, <1>7, Zenon DEF HdrNodes, z

LEMMA HdrInvSeen == HdrInv => LoopIsSeen
<1> SUFFICES ASSUME HdrInv, NEW i \in DOMAIN trail, NEW j \in DOMAIN trail, i < j,
                    NEW m \in (i + 1)..(j - 1), trail[i] = trail[m], trail[m] = trail[j], ~flagged
             PROVE  \A k, l \in i..j : net.rank[trail[k]] = net.rank[trail[l]]
  BY ZenonT(40) DEF LoopIsSeen
<1>1. OnItsWay
  <2>1. trail # <<>> /\ flagged = FALSE
    BY DEF HdrInv
  <2> QED BY <2>1, Zenon DEF HdrInv
<1>2. trail \in Seq(HdrNodes) /\ net \in HdrNets /\ Follows(trail, NextOf(net))
  BY <1>1 DEF OnItsWay
<1>3. i \in 1..Len(trail) /\ j \in 1..Len(trail) /\ m \in 1..Len(trail) /\ i < m /\ m < j
  BY <1>2
<1>4. \A s \in HdrNodes : NextOf(net)[s] # s /\ net.rank[s] \in Int
  BY <1>2, NextIsAnother
<1>5. Valley(trail, NextOf(net), net.rank, HdrNodes)
  BY <1>1, <1>2, <1>4, Zenon DEF OnItsWay, Valley
<1>6. OneRank(trail, net.rank)
  BY <1>5, LoopHasOneRank
<1> QED BY <1>3, <1>6 DEF OneRank

LEMMA HdrInitInv == HdrInit => HdrInv
  BY DEF HdrInit, HdrInv

LEMMA OriginateInv ==
  ASSUME HdrInv, NEW r \in [HdrNodes -> NodeRanks], NEW u \in Hops6, NEW d \in Hops6,
         NEW n \in HdrNodes, Originate(r, u, d, n)
  PROVE  HdrInv'
<1> DEFINE onward == IF d[n] # 0 THEN d[n] ELSE u[n]
<1>1. /\ net' = [rank |-> r, up |-> u, down |-> d] /\ onward # 0 /\ trail' = <<n, onward>>
      /\ option' = rpl_update_header_final(n, onward) /\ flagged' = flagged
  BY DEF Originate
<1>2. net' \in HdrNets /\ net'.rank = r /\ net'.down = d /\ net'.up = u
  BY <1>1 DEF HdrNets
<1>3. /\ option' = [down |-> onward # u[n], rankErr |-> FALSE, fwdErr |-> FALSE, senderrank |-> r[n]]
  BY <1>1, <1>2 DEF rpl_update_header_final
<1>4. NextOf(net')[n] = onward
  BY <1>2 DEF NextOf
<1>5. r[n] \in Nat /\ onward \in HdrNodes
  BY <1>1, <1>2, <1>4, NextIsAnother
<1> HIDE DEF onward
<1>6. trail' \in Seq(HdrNodes) /\ Len(trail') = 2 /\ trail'[1] = n /\ trail'[2] = onward
  BY <1>1, <1>5
<1>7. option' \in HdrOptions /\ option'.fwdErr = FALSE /\ option'.senderrank = r[n]
  BY <1>3, <1>5 DEF HdrOptions
<1>8. Follows(trail', NextOf(net'))
  BY <1>4, <1>6 DEF Follows
<1>9. Falls(trail', net'.rank, 1) /\ Rises(trail', net'.rank, 1, Len(trail') - 1)
  BY <1>6 DEF Falls, Rises
<1>10. /\ 1 \in 1..(Len(trail') - 1) /\ 1 = Len(trail') - 1 /\ Len(trail') >= 2
       /\ option'.senderrank = net'.rank[trail'[Len(trail') - 1]]
  BY <1>2, <1>6, <1>7
<1>11. OnItsWay'
  BY <1>2, <1>6, <1>7, <1>8, <1>9, <1>10, Zenon DEF OnItsWay
<1> QED BY <1>1, <1>11 DEF HdrInv

\* A packet on its way that is verified and forwarded with nothing found wrong.
LEMMA ForwardedOn ==
  ASSUME OnItsWay, NEW onward \in HdrNodes, onward = NextOf(net)[At], trail' = Append(trail, onward), net' = net,
         option' \in HdrOptions, option'.fwdErr = FALSE, option'.senderrank = net.rank[At],
         option.down = TRUE => option'.down = TRUE,
         option.down = (option.senderrank < net.rank[At])
  PROVE  OnItsWay'
<1> DEFINE L == Len(trail)
<1>1. /\ net \in HdrNets /\ trail \in Seq(HdrNodes) /\ L \in Nat /\ L >= 2
      /\ option \in HdrOptions /\ option.senderrank = net.rank[trail[L - 1]]
      /\ Follows(trail, NextOf(net)) /\ At = trail[L]
  BY DEF OnItsWay, At
<1>2. PICK t \in 1..(L - 1) : /\ Falls(trail, net.rank, t) /\ Rises(trail, net.rank, t, L - 1)
                              /\ option.down = TRUE \/ t = L - 1
  BY DEF OnItsWay
<1>3. /\ trail' \in Seq(HdrNodes) /\ Len(trail') = L + 1
      /\ \A k \in 1..L : trail'[k] = trail[k]
      /\ trail'[L + 1] = onward
  BY <1>1, AppendProperties
<1> HIDE DEF L
<1>4. Follows(trail', NextOf(net'))
  <2>1. ASSUME NEW k \in 1..(L + 1 - 1) PROVE trail'[k + 1] = NextOf(net)[trail'[k]]
    <3>1. CASE k = L
      BY <1>1, <1>3, <3>1
    <3>2. CASE k # L
      <4>1. k \in 1..(L - 1) /\ k \in 1..L /\ k + 1 \in 1..L
        BY <1>1, <3>2
      <4> QED BY <1>1, <1>3, <4>1 DEF Follows, L
    <3> QED BY <3>1, <3>2
  <2>2. L + 1 - 1 = Len(trail') - 1
    BY <1>1, <1>3
  <2> QED BY <2>1, <2>2, Zenon DEF Follows
<1>5. /\ \A k \in 1..L : net.rank[trail[k]] \in Int
      /\ \A k \in 1..L : net'.rank[trail'[k]] = net.rank[trail[k]]
  <2>1. \A k \in 1..L : trail[k] \in HdrNodes
    BY <1>1 DEF L
  <2> QED BY <1>1, <1>3, <2>1, NextIsAnother
<1>6. \E x \in 1..L : /\ Falls(trail', net'.rank, x) /\ Rises(trail', net'.rank, x, L)
                      /\ option'.down = TRUE \/ x = L
  <2>1. CASE option.down = TRUE
    <3>1. net.rank[trail[L - 1]] < net.rank[trail[L]]
      BY <1>1, <2>1
    <3>2. Falls(trail', net'.rank, t)
      <4>1. ASSUME NEW k \in 1..t, NEW l \in 1..t, k < l PROVE net'.rank[trail'[l]] <= net'.rank[trail'[k]]
        <5>1. k \in 1..L /\ l \in 1..L
          BY <1>1, <1>2
        <5>2. net.rank[trail[l]] <= net.rank[trail[k]]
          BY <1>2, <4>1 DEF Falls
        <5> QED BY <1>5, <5>1, <5>2
      <4> QED BY <4>1 DEF Falls
    <3>3. Rises(trail', net'.rank, t, L)
      <4>1. ASSUME NEW k \in t..L, NEW l \in t..L, k < l PROVE net'.rank[trail'[k]] < net'.rank[trail'[l]]
        <5>1. k \in 1..L /\ l \in 1..L /\ k \in t..(L - 1) /\ (l \in t..(L - 1) \/ l = L) /\ L - 1 \in 1..L
              /\ (k < L - 1 \/ k = L - 1) /\ L - 1 \in t..(L - 1)
          BY <1>1, <1>2, <4>1
        <5>2. CASE l # L
          <6>1. net.rank[trail[k]] < net.rank[trail[l]]
            BY <1>2, <4>1, <5>1, <5>2 DEF Rises
          <6> QED BY <1>5, <5>1, <6>1
        <5>3. CASE l = L /\ k = L - 1
          BY <1>5, <3>1, <5>1, <5>3
        <5>4. CASE l = L /\ k < L - 1
          <6>1. net.rank[trail[k]] < net.rank[trail[L - 1]]
            BY <1>2, <5>1, <5>4 DEF Rises
          <6>2. net.rank[trail[k]] \in Int /\ net.rank[trail[L - 1]] \in Int /\ net.rank[trail[L]] \in Int
            BY <1>5, <5>1, <5>4
          <6>3. net.rank[trail[k]] < net.rank[trail[L]]
            BY <3>1, <6>1, <6>2
          <6> QED BY <1>5, <5>1, <5>4, <6>3
        <5> QED BY <5>1, <5>2, <5>3, <5>4
      <4> QED BY <4>1 DEF Rises
    <3>4. t \in 1..L
      BY <1>1
    <3> QED BY <2>1, <3>2, <3>3, <3>4
  <2>2. CASE option.down = FALSE
    <3>1. t = L - 1 /\ ~(net.rank[trail[L - 1]] < net.rank[trail[L]])
      BY <1>1, <1>2, <2>2
    <3>2. Falls(trail', net'.rank, L)
      <4>1. ASSUME NEW k \in 1..L, NEW l \in 1..L, k < l PROVE net'.rank[trail'[l]] <= net'.rank[trail'[k]]
        <5>1. k \in 1..t /\ (l \in 1..t \/ l = L) /\ L - 1 \in 1..L /\ L \in 1..L
              /\ (k < L - 1 \/ k = L - 1) /\ L - 1 \in 1..t
          BY <1>1, <3>1, <4>1
        <5>2. net.rank[trail[L - 1]] \in Int /\ net.rank[trail[L]] \in Int /\ net.rank[trail[k]] \in Int
          BY <1>5, <5>1
        <5>3. CASE l # L
          <6>1. net.rank[trail[l]] <= net.rank[trail[k]]
            BY <1>2, <4>1, <5>1, <5>3 DEF Falls
          <6> QED BY <1>5, <6>1
        <5>4. CASE l = L
          <6>1. net.rank[trail[L - 1]] <= net.rank[trail[k]]
            BY <1>2, <5>1, <5>2 DEF Falls
          <6>2. net.rank[trail[L]] <= net.rank[trail[k]]
            BY <3>1, <5>2, <6>1
          <6> QED BY <1>5, <5>1, <5>4, <6>2
        <5> QED BY <5>3, <5>4
      <4> QED BY <4>1 DEF Falls
    <3>3. Rises(trail', net'.rank, L, L)
      BY <1>1 DEF Rises
    <3>4. L \in 1..L
      BY <1>1
    <3> QED BY <3>2, <3>3, <3>4
  <2> QED BY <1>1, <2>1, <2>2 DEF HdrOptions
<1>7. Len(trail') - 1 = L /\ Len(trail') >= 2 /\ option'.senderrank = net'.rank[trail'[Len(trail') - 1]]
  <2>1. Len(trail') - 1 = L /\ Len(trail') >= 2 /\ L \in 1..L
    BY <1>1, <1>3
  <2> QED BY <1>1, <1>5, <2>1
<1> QED BY <1>1, <1>3, <1>4, <1>6, <1>7 DEF OnItsWay

LEMMA VerifyInv ==
  ASSUME HdrInv, rpl_verify_header
  PROVE  HdrInv'
<1> DEFINE wrong == option.down # (option.senderrank < net.rank[At])
           down == IF option.fwdErr THEN [net.down EXCEPT ![At] = 0] ELSE net.down
           opt == IF option.fwdErr THEN [option EXCEPT !.fwdErr = FALSE]
                  ELSE [option EXCEPT !.rankErr = @ \/ wrong]
           sent == rpl_update_header_empty(opt, down)
           onward == NextHop(At, down)
<1>1. /\ trail # <<>> /\ net' = [net EXCEPT !.down = down]
      /\ Forwarded(down, sent)
      /\ flagged' = (flagged \/ option.fwdErr \/ wrong \/ option'.fwdErr)
  BY Zenon DEF rpl_verify_header
<1>2. flagged' = TRUE \/ flagged' = FALSE
  BY <1>1
<1>3. SUFFICES ASSUME flagged' = FALSE, trail' # <<>> PROVE OnItsWay'
  BY <1>2, Zenon DEF HdrInv
<1>4. flagged = FALSE /\ ~option.fwdErr /\ ~wrong /\ ~option'.fwdErr
  <2> HIDE DEF wrong
  <2>1. flagged' = (flagged \/ option.fwdErr \/ wrong \/ option'.fwdErr) /\ flagged \in BOOLEAN
    BY <1>1, Zenon DEF HdrInv
  <2> QED BY <1>3, <2>1
<1>5. OnItsWay
  BY <1>1, <1>4 DEF HdrInv
<1>6. /\ net \in HdrNets /\ trail \in Seq(HdrNodes) /\ At \in HdrNodes
      /\ option \in HdrOptions
  BY <1>5 DEF OnItsWay, At
<1>7. down = net.down /\ opt = [option EXCEPT !.rankErr = @ \/ wrong]
  BY <1>4, Zenon
<1>8. net' = net
  BY <1>1, <1>6, <1>7 DEF HdrNets
<1>9. opt.down = option.down /\ opt.fwdErr = option.fwdErr /\ opt.rankErr \in BOOLEAN
  <2> HIDE DEF wrong
  <2>1. opt.down = option.down /\ opt.fwdErr = option.fwdErr /\ opt.rankErr = (option.rankErr \/ wrong)
    BY <1>6, <1>7 DEF HdrOptions
  <2>2. (option.rankErr \/ wrong) \in BOOLEAN
    OBVIOUS
  <2> HIDE DEF opt
  <2> QED BY <2>1, <2>2
<1> HIDE DEF opt, down, wrong
<1>10. /\ onward # 0 /\ trail' = Append(trail, onward) /\ option' = sent
  BY <1>1, <1>3 DEF Forwarded
<1>11. onward = NextOf(net)[At] /\ onward \in HdrNodes
  <2>1. onward = NextOf(net)[At]
    BY <1>6, <1>7 DEF NextHop, NextOf
  <2> QED BY <1>6, <1>10, <2>1, NextIsAnother
<1>12. /\ option' = [down |-> opt.down \/ down[At] # 0, rankErr |-> opt.rankErr,
                     fwdErr |-> opt.fwdErr \/ (opt.down /\ down[At] = 0), senderrank |-> net.rank[At]]
  BY <1>10 DEF rpl_update_header_empty
<1>13. net.rank[At] \in Nat
  BY <1>6, NextIsAnother
<1>14. option' \in HdrOptions /\ option'.senderrank = net.rank[At]
  BY <1>9, <1>12, <1>13 DEF HdrOptions
<1>15. option.down = TRUE => option'.down = TRUE
  BY <1>9, <1>12
<1>16. option'.fwdErr = FALSE
  BY <1>4, <1>14 DEF HdrOptions
<1>17. option.down = (option.senderrank < net.rank[At])
  BY <1>4 DEF wrong
<1> HIDE DEF onward
<1> QED BY <1>5, <1>8, <1>10, <1>11, <1>14, <1>15, <1>16, <1>17, ForwardedOn

LEMMA HdrNextInv == HdrInv /\ [HdrNext]_hdrVars => HdrInv'
<1> SUFFICES ASSUME HdrInv, [HdrNext]_hdrVars PROVE HdrInv'
  OBVIOUS
<1>1. CASE UNCHANGED hdrVars
  BY <1>1 DEF hdrVars, HdrInv, OnItsWay
<1> QED BY <1>1, OriginateInv, VerifyInv DEF HdrNext

\* A packet that goes round a loop twice is noticed (rpl-ext-header.c), in a network of
\* any size with any ranks and routes and for any hop limit; a loop of nodes of one rank
\* is the only one that may escape.
THEOREM LoopsAreSeen == Spec => []LoopIsSeen
<1>1. Init => HdrInv
  BY HdrInitInv DEF Init
<1>2. HdrInv /\ [Next]_vars => HdrInv'
  BY HeaderUnit, HdrNextInv
<1> QED BY <1>1, <1>2, HdrInvSeen, PTL DEF Spec

-----------------------------------------------------------------------------
(* The preferred parent of a node (rpl-dag.c).                             *)

ParentRecords == [in : BOOLEAN, nbr : BOOLEAN, rank : Nat, metric : Nat, updated : BOOLEAN]
DagRecords ==
    [joined : BOOLEAN, rank : Int, minRank : Int, version : Int, pref : 0..NumParents,
     par : [Nbrs -> ParentRecords], defRoute : 0..NumParents, routers : SUBSET Nbrs,
     told : SUBSET Nbrs, lost : SUBSET Nbrs, daoTimer : BOOLEAN]

\* The paths that the node can still withdraw: those of neighbours in the cache.
Paths(s) == s.told \ s.lost
PathsKnown(s) == \A q \in Paths(s) : s.par[q].nbr = TRUE

\* Inside a handler, the preferred parent may be given up before its route is.
Loose(s) ==
    /\ s \in DagRecords /\ s.joined = TRUE
    /\ Paths(s) \subseteq {s.pref} /\ PathsKnown(s) /\ s.routers \subseteq {s.defRoute}
    /\ s.pref # 0 => s.par[s.pref].in = TRUE /\ s.defRoute = s.pref
Clean(s) == Loose(s) /\ s.defRoute = s.pref
\* The rank fits the preferred parent, if that is not p.
RankBut(s, p) == s.pref \notin {0, p} => \/ s.rank = calculate_rank(s, s.pref)
                                         \/ s.par[s.pref].updated = TRUE
Good(s) == Clean(s) /\ RankBut(s, 0)
\* Before it has joined, the node has no parents.
Alone(s) ==
    /\ s \in DagRecords /\ s.joined = FALSE /\ s.pref = 0 /\ s.defRoute = 0
    /\ Paths(s) = {} /\ s.routers = {} /\ \A p \in Nbrs : s.par[p].in = FALSE

DagInv == Good(node) \/ Alone(node)

USE DEF Paths, PathsKnown

LEMMA DagInvAttached == DagInv => AttachedOnce
<1>1. 0 \notin Nbrs
  BY DagAssumption DEF Nbrs
<1>2. CASE Good(node)
  BY <1>1, <1>2 DEF Good, Clean, Loose, RankBut, AttachedOnce
<1>3. CASE Alone(node)
  BY <1>1, <1>3 DEF Alone, AttachedOnce
<1> QED BY <1>2, <1>3 DEF DagInv

\* What changing one part of the record leaves.
SameFields(t, s, fields) ==
    /\ "joined" \notin fields => t.joined = s.joined
    /\ "rank" \notin fields => t.rank = s.rank
    /\ "pref" \notin fields => t.pref = s.pref
    /\ "par" \notin fields => t.par = s.par
    /\ "defRoute" \notin fields => t.defRoute = s.defRoute
    /\ "routers" \notin fields => t.routers = s.routers
    /\ "told" \notin fields => t.told = s.told /\ t.lost = s.lost

\* A No-Path DAO that cannot be sent leaves no path that could be withdrawn.
LEMMA NoPathIs ==
  ASSUME NEW s \in DagRecords, PathsKnown(s), NEW p \in 0..NumParents
  PROVE  LET t == NoPath(s, p)
         IN  t \in DagRecords /\ SameFields(t, s, {"told"}) /\ Paths(t) = Paths(s) \ {p}
<1>1. CASE Reachable(s, p)
  <2>1. PICK a, b \in SUBSET Nbrs : a = s.told \ {p} /\ b = s.lost \ {p}
    BY DEF DagRecords
  <2>2. PICK t : t = [s EXCEPT !.told = a, !.lost = b]
    OBVIOUS
  <2>3. t \in DagRecords /\ SameFields(t, s, {"told"}) /\ t.told = a /\ t.lost = b
    BY <2>2 DEF DagRecords, SameFields
  <2>4. NoPath(s, p) = t
    BY <1>1, <2>1, <2>2 DEF NoPath
  <2> QED BY <2>1, <2>3, <2>4
<1>2. CASE ~Reachable(s, p)
  <2>1. NoPath(s, p) = s
    BY <1>2 DEF NoPath
  <2>2. p \notin Paths(s)
    BY <1>2, DagAssumption DEF DagRecords, Nbrs, Reachable
  <2> QED BY <2>1, <2>2 DEF SameFields
<1> QED BY <1>1, <1>2

LEMMA NullifyIs ==
  ASSUME NEW s \in DagRecords, PathsKnown(s), NEW p \in Nbrs, s.pref \in {0, p}
  PROVE  LET t == rpl_nullify_parent(s, p)
         IN  /\ t \in DagRecords /\ t.joined = s.joined /\ t.par = s.par
             /\ t.pref = 0 /\ t.defRoute = 0
             /\ t.routers = s.routers \ {s.defRoute} /\ Paths(t) = Paths(s) \ {p}
<1> DEFINE a == [s EXCEPT !.pref = 0]
           b == [a EXCEPT !.rank = InfiniteRank]
           c == [b EXCEPT !.routers = @ \ {b.defRoute}, !.defRoute = 0]
           d == NoPath(c, p)
<1>0. p \in 0..NumParents /\ 0 \in 0..NumParents /\ InfiniteRank \in Int
  BY DagAssumption DEF Nbrs
<1>1. a \in DagRecords /\ a.pref = 0 /\ SameFields(a, s, {"pref"})
  BY <1>0 DEF DagRecords, SameFields
<1> HIDE DEF a
<1>2. b \in DagRecords /\ SameFields(b, a, {"rank"})
  BY <1>0, <1>1 DEF DagRecords, SameFields
<1> HIDE DEF b
<1>3. c \in DagRecords /\ c.routers = b.routers \ {b.defRoute} /\ c.defRoute = 0 /\ SameFields(c, b, {"routers", "defRoute"})
  BY <1>0, <1>2 DEF DagRecords, SameFields
<1> HIDE DEF c
<1>4. d \in DagRecords /\ Paths(d) = Paths(c) \ {p} /\ SameFields(d, c, {"told"})
  <2>1. PathsKnown(c)
    BY <1>1, <1>2, <1>3 DEF SameFields
  <2> QED BY <1>0, <1>3, <2>1, NoPathIs
<1>5. rpl_nullify_parent(s, p) = d
  BY Zenon DEF rpl_nullify_parent, rpl_set_preferred_parent, RouteRemoved, a, b, c
<1> HIDE DEF d
<1> QED BY <1>1, <1>2, <1>3, <1>4, <1>5 DEF SameFields

LEMMA NullifyLoose ==
  ASSUME NEW s, Loose(s), NEW p \in Nbrs
  PROVE  LET t == rpl_nullify_parent(s, p)
         IN  /\ Loose(t) /\ t.par = s.par
             /\ s.pref \in {0, p} => t.pref = 0 /\ Clean(t)
             /\ s.pref \notin {0, p} => t = s
<1>1. CASE s.pref \in {0, p}
  <2>0. s \in DagRecords /\ PathsKnown(s)
    BY DEF Loose
  <2>1. 0 \notin Nbrs
    BY DagAssumption DEF Nbrs
  <2>2. PICK t : t = rpl_nullify_parent(s, p)
    OBVIOUS
  <2>3. /\ t \in DagRecords /\ t.joined = s.joined /\ t.par = s.par
        /\ t.pref = 0 /\ t.defRoute = 0
        /\ t.routers = s.routers \ {s.defRoute} /\ Paths(t) = Paths(s) \ {p}
    BY <1>1, <2>0, <2>2, NullifyIs
  <2>4. t.routers = {} /\ Paths(t) = {}
    BY <1>1, <2>0, <2>1, <2>3 DEF Loose, DagRecords
  <2>5. Loose(t) /\ Clean(t)
    BY <2>3, <2>4 DEF Loose, Clean
  <2> QED BY <1>1, <2>2, <2>3, <2>5, Zenon
<1>2. CASE s.pref \notin {0, p}
  <2>1. rpl_nullify_parent(s, p) = s
    BY <1>2, Zenon DEF rpl_nullify_parent
  <2> QED BY <1>2, <2>1
<1> QED BY <1>1, <1>2

LEMMA RemoveClean ==
  ASSUME NEW s, Clean(s), NEW p \in Nbrs
  PROVE  LET t == rpl_remove_parent(s, p)
         IN  Clean(t) /\ t.pref = IF s.pref = p THEN 0 ELSE s.pref
<1>1. PICK u : u = rpl_nullify_parent(s, p)
  OBVIOUS
<1>2. /\ Loose(u) /\ u.par = s.par
      /\ s.pref \in {0, p} => u.pref = 0 /\ Clean(u)
      /\ s.pref \notin {0, p} => u = s
  BY <1>1, NullifyLoose DEF Clean
<1>3. u \in DagRecords /\ Clean(u) /\ u.pref = (IF s.pref = p THEN 0 ELSE s.pref) /\ u.pref # p
  <2>1. p # 0
    BY DagAssumption DEF Nbrs
  <2> QED BY <1>2, <2>1 DEF Loose
<1>4. PICK t : t = [u EXCEPT !.par[p].in = FALSE]
  OBVIOUS
<1>5. /\ t \in DagRecords /\ SameFields(t, u, {"par"})
      /\ \A q \in Nbrs : (q # p => t.par[q] = u.par[q]) /\ t.par[q].nbr = u.par[q].nbr
  BY <1>3, <1>4 DEF DagRecords, ParentRecords, SameFields
<1>6. t.pref # 0 => t.par[t.pref].in = TRUE
  <2>1. u.pref # 0 => u.pref \in Nbrs
    BY <1>3 DEF DagRecords, Nbrs
  <2> QED BY <1>3, <1>5, <2>1 DEF Clean, Loose, SameFields
<1>7. Clean(t) /\ t.pref = u.pref
  <2>1. Paths(u) \subseteq Nbrs
    BY <1>3 DEF DagRecords
  <2> QED BY <1>3, <1>5, <1>6, <2>1 DEF Clean, Loose, SameFields
<1>8. t = rpl_remove_parent(s, p)
  BY <1>1, <1>4, Zenon DEF rpl_remove_parent
<1> QED BY <1>3, <1>7, <1>8

\* A pass over the parents: what it leaves behind after the first i of them.
RemoveStep(t, i) == IF t.par[i].in THEN rpl_remove_parent(t, i) ELSE t
NullifyStep(t, i) == IF t.par[i].in THEN rpl_nullify_parent(t, i) ELSE t

LEMMA RemovePass ==
  ASSUME NEW s, Clean(s)
  PROVE  \E f : /\ f = [i \in 0..NumParents |-> IF i = 0 THEN s ELSE RemoveStep(f[i - 1], i)]
                /\ remove_parents(s) = f[NumParents]
<1> DEFINE IsPass(f) == f = [i \in 0..NumParents |-> IF i = 0 THEN s ELSE RemoveStep(f[i - 1], i)]
<1>1. NumParents \in Nat /\ Nbrs = 1..NumParents
  BY DagAssumption DEF Nbrs
<1>2. PICK S : S = {t \in DagRecords : Clean(t)}
  OBVIOUS
<1>3. PICK G : G = [x \in S \X Nbrs |-> RemoveStep(x[1], x[2])]
  OBVIOUS
<1>4. \A t \in S, i \in Nbrs : RemoveStep(t, i) \in S
  BY <1>2, RemoveClean DEF RemoveStep, Clean, Loose
<1>5. s \in S /\ G \in [S \X (1..NumParents) -> S] /\ \A t \in S, i \in Nbrs : G[<<t, i>>] = RemoveStep(t, i)
  <2>1. s \in S
    BY <1>2 DEF Clean, Loose
  <2> QED BY <1>1, <1>3, <1>4, <2>1
<1>6. PICK f \in [0..NumParents -> S] : f = [i \in 0..NumParents |-> IF i = 0 THEN s ELSE G[<<f[i - 1], i>>]]
  <2>1. HasRecursion(NumParents, S, s, G)
    BY <1>1, <1>5, RecursionExists
  <2> QED BY <2>1 DEF HasRecursion
<1>7. IsPass(f)
  <2>1. \A i \in 1..NumParents : i - 1 \in 0..NumParents
    BY <1>1
  <2>2. \A i \in 0..NumParents : (IF i = 0 THEN s ELSE G[<<f[i - 1], i>>]) = IF i = 0 THEN s ELSE RemoveStep(f[i - 1], i)
    BY <1>1, <1>5, <2>1
  <2> QED BY <1>6, <2>2, Zenon
<1> DEFINE g == CHOOSE h : IsPass(h)
<1>8. IsPass(g)
  <2> HIDE DEF IsPass
  <2> QED BY <1>7, Zenon
<1>9. remove_parents(s) = g[NumParents]
  BY Zenon DEF remove_parents, EachParent, RemoveStep
<1> HIDE DEF g
<1> QED BY <1>8, <1>9, Zenon

LEMMA RemoveAllClean ==
  ASSUME NEW s, Clean(s)
  PROVE  Clean(remove_parents(s)) /\ remove_parents(s).pref = 0
<1>1. PICK f : /\ f = [i \in 0..NumParents |-> IF i = 0 THEN s ELSE RemoveStep(f[i - 1], i)]
               /\ remove_parents(s) = f[NumParents]
  BY RemovePass
<1>2. NumParents \in Nat /\ Nbrs = 1..NumParents
  BY DagAssumption DEF Nbrs
<1> DEFINE T == {i \in 0..NumParents : Clean(f[i]) /\ (f[i].pref = 0 \/ f[i].pref > i)}
<1>3. 0 \in T
  <2>1. f[0] = s
    BY <1>1, <1>2
  <2>2. s.pref \in 0..NumParents
    BY DEF Clean, Loose, DagRecords
  <2> QED BY <1>2, <2>1, <2>2
<1>4. ASSUME NEW i \in 1..NumParents, i - 1 \in T PROVE i \in T
  <2>1. PICK t : t = f[i - 1]
    OBVIOUS
  <2>2. f[i] = RemoveStep(t, i) /\ Clean(t) /\ (t.pref = 0 \/ t.pref > i - 1) /\ t.pref \in 0..NumParents
    BY <1>1, <1>2, <1>4, <2>1 DEF Clean, Loose, DagRecords
  <2>3. CASE t.par[i].in
    <3>1. Clean(f[i]) /\ f[i].pref = IF t.pref = i THEN 0 ELSE t.pref
      BY <1>2, <2>2, <2>3, RemoveClean DEF RemoveStep
    <3> QED BY <2>2, <3>1
  <2>4. CASE ~t.par[i].in
    <3>1. f[i] = t
      BY <2>2, <2>4 DEF RemoveStep
    <3>2. t.pref # i
      BY <1>2, <2>2, <2>4 DEF Clean, Loose
    <3> QED BY <2>2, <3>1, <3>2
  <2> QED BY <2>3, <2>4
<1>5. NumParents \in T
  <2>1. NumParents \in 0..NumParents
    BY <1>2
  <2> HIDE DEF T
  <2>2. 0..NumParents \subseteq T
    BY <1>2, <1>3, <1>4, StepByStep
  <2> QED BY <2>1, <2>2
<1>6. PICK t : t = f[NumParents]
  OBVIOUS
<1>7. Clean(t) /\ t.pref = 0
  <2>1. Clean(t) /\ (t.pref = 0 \/ t.pref > NumParents)
    BY <1>5, <1>6
  <2> QED BY <2>1, <1>2 DEF Clean, Loose, DagRecords
<1> QED BY <1>1, <1>6, <1>7

LEMMA NullifyPass ==
  ASSUME NEW s, Loose(s)
  PROVE  \E f : /\ f = [i \in 0..NumParents |-> IF i = 0 THEN s ELSE NullifyStep(f[i - 1], i)]
                /\ nullify_parents(s) = f[NumParents]
<1> DEFINE IsPass(f) == f = [i \in 0..NumParents |-> IF i = 0 THEN s ELSE NullifyStep(f[i - 1], i)]
<1>1. NumParents \in Nat /\ Nbrs = 1..NumParents
  BY DagAssumption DEF Nbrs
<1>2. PICK S : S = {t \in DagRecords : Loose(t)}
  OBVIOUS
<1>3. PICK G : G = [x \in S \X Nbrs |-> NullifyStep(x[1], x[2])]
  OBVIOUS
<1>4. \A t \in S, i \in Nbrs : NullifyStep(t, i) \in S
  BY <1>2, NullifyLoose DEF NullifyStep, Loose
<1>5. s \in S /\ G \in [S \X (1..NumParents) -> S] /\ \A t \in S, i \in Nbrs : G[<<t, i>>] = NullifyStep(t, i)
  <2>1. s \in S
    BY <1>2 DEF Loose
  <2> QED BY <1>1, <1>3, <1>4, <2>1
<1>6. PICK f \in [0..NumParents -> S] : f = [i \in 0..NumParents |-> IF i = 0 THEN s ELSE G[<<f[i - 1], i>>]]
  <2>1. HasRecursion(NumParents, S, s, G)
    BY <1>1, <1>5, RecursionExists
  <2> QED BY <2>1 DEF HasRecursion
<1>7. IsPass(f)
  <2>1. \A i \in 1..NumParents : i - 1 \in 0..NumParents
    BY <1>1
  <2>2. \A i \in 0..NumParents : (IF i = 0 THEN s ELSE G[<<f[i - 1], i>>]) = IF i = 0 THEN s ELSE NullifyStep(f[i - 1], i)
    BY <1>1, <1>5, <2>1
  <2> QED BY <1>6, <2>2, Zenon
<1> DEFINE g == CHOOSE h : IsPass(h)
<1>8. IsPass(g)
  <2> HIDE DEF IsPass
  <2> QED BY <1>7, Zenon
<1>9. nullify_parents(s) = g[NumParents]
  BY Zenon DEF nullify_parents, EachParent, NullifyStep
<1> HIDE DEF g
<1> QED BY <1>8, <1>9, Zenon

LEMMA NullifyAllClean ==
  ASSUME NEW s, Loose(s), Clean(s) \/ \E p \in Nbrs : s.par[p].in
  PROVE  Clean(nullify_parents(s)) /\ nullify_parents(s).pref = 0
<1>1. PICK f : /\ f = [i \in 0..NumParents |-> IF i = 0 THEN s ELSE NullifyStep(f[i - 1], i)]
               /\ nullify_parents(s) = f[NumParents]
  BY NullifyPass
<1>2. NumParents \in Nat /\ Nbrs = 1..NumParents
  BY DagAssumption DEF Nbrs
<1> DEFINE T == {i \in 0..NumParents : /\ Loose(f[i]) /\ f[i].par = s.par /\ (f[i].pref = 0 \/ f[i].pref > i)
                                       /\ Clean(f[i]) \/ \A p \in 1..i : ~s.par[p].in}
<1>3. 0 \in T
  <2>1. f[0] = s
    BY <1>1, <1>2
  <2>2. s.pref \in 0..NumParents
    BY DEF Loose, DagRecords
  <2> QED BY <1>2, <2>1, <2>2
<1>4. ASSUME NEW i \in 1..NumParents, i - 1 \in T PROVE i \in T
  <2>1. PICK t : t = f[i - 1]
    OBVIOUS
  <2>2. /\ f[i] = NullifyStep(t, i) /\ Loose(t) /\ (t.pref = 0 \/ t.pref > i - 1) /\ t.pref \in 0..NumParents
        /\ t.par = s.par /\ (Clean(t) \/ \A p \in 1..(i - 1) : ~s.par[p].in)
    BY <1>1, <1>2, <1>4, <2>1 DEF Loose, DagRecords
  <2>3. CASE t.par[i].in
    <3>1. PICK u : u = rpl_nullify_parent(t, i)
      OBVIOUS
    <3>2. /\ Loose(u) /\ u.par = t.par
          /\ t.pref \in {0, i} => u.pref = 0 /\ Clean(u)
          /\ t.pref \notin {0, i} => u = t
      BY <1>2, <2>2, <3>1, NullifyLoose
    <3>3. Clean(u)
      BY <2>2, <3>2 DEF Clean, Loose
    <3>4. f[i] = u
      BY <2>2, <2>3, <3>1, Zenon DEF NullifyStep
    <3> QED BY <2>2, <3>2, <3>3, <3>4
  <2>4. CASE ~t.par[i].in
    <3>1. f[i] = t
      BY <2>2, <2>4 DEF NullifyStep
    <3>2. t.pref # i
      BY <1>2, <2>2, <2>4 DEF Loose
    <3>3. \A p \in 1..i : p = i \/ p \in 1..(i - 1)
      OBVIOUS
    <3> QED BY <2>2, <2>4, <3>1, <3>2, <3>3
  <2> QED BY <2>3, <2>4
<1>5. NumParents \in T
  <2>1. NumParents \in 0..NumParents
    BY <1>2
  <2> HIDE DEF T
  <2>2. 0..NumParents \subseteq T
    BY <1>2, <1>3, <1>4, StepByStep
  <2> QED BY <2>1, <2>2
<1>6. PICK t : t = f[NumParents]
  OBVIOUS
<1>7. Loose(t) /\ (t.pref = 0 \/ t.pref > NumParents) /\ (Clean(t) \/ \A p \in Nbrs : ~s.par[p].in) /\ t.par = s.par
  BY <1>2, <1>5, <1>6
<1>8. t.pref = 0
  BY <1>2, <1>7 DEF Loose, DagRecords
<1>9. Clean(t)
  <2>1. CASE \E p \in Nbrs : s.par[p].in
    BY <1>7, <2>1
  <2>2. CASE Clean(s) /\ \A p \in Nbrs : ~s.par[p].in
    <3> DEFINE V == {i \in 0..NumParents : f[i] = s}
    <3>1. 0 \in V
      BY <1>1, <1>2
    <3>2. ASSUME NEW i \in 1..NumParents, i - 1 \in V PROVE i \in V
      BY <1>1, <1>2, <2>2, <3>2 DEF NullifyStep
    <3>3. NumParents \in V
      <4>1. NumParents \in 0..NumParents
        BY <1>2
      <4> HIDE DEF V
      <4>2. 0..NumParents \subseteq V
        BY <1>2, <3>1, <3>2, StepByStep
      <4> QED BY <4>1, <4>2
    <3> QED BY <1>6, <2>2, <3>3
  <2> QED BY <2>1, <2>2
<1> QED BY <1>1, <1>6, <1>8, <1>9

\* The parent that is selected is in the table.
BestStep(s, b, i) ==
  IF ~s.par[i].in \/ s.par[i].rank = InfiniteRank THEN b
  ELSE IF b = 0 THEN i ELSE best_parent(s, b, i)

LEMMA SelectedIsIn ==
  ASSUME NEW s
  PROVE  /\ rpl_select_parent(s) \in 0..NumParents
         /\ rpl_select_parent(s) # 0 => s.par[rpl_select_parent(s)].in
<1> DEFINE IsPass(f) == f = [i \in 0..NumParents |-> IF i = 0 THEN 0 ELSE BestStep(s, f[i - 1], i)]
<1>1. NumParents \in Nat /\ Nbrs = 1..NumParents
  BY DagAssumption DEF Nbrs
<1>2. PICK S : S = {b \in 0..NumParents : b # 0 => s.par[b].in}
  OBVIOUS
<1>3. PICK G : G = [x \in S \X Nbrs |-> BestStep(s, x[1], x[2])]
  OBVIOUS
<1>4. \A b \in S, i \in Nbrs : BestStep(s, b, i) \in S
  <2> SUFFICES ASSUME NEW b \in S, NEW i \in Nbrs PROVE BestStep(s, b, i) \in S
    OBVIOUS
  <2>1. best_parent(s, b, i) \in {b, i}
    BY Zenon DEF best_parent
  <2>2. BestStep(s, b, i) = b \/ (s.par[i].in /\ BestStep(s, b, i) \in {b, i})
    BY <2>1, Zenon DEF BestStep
  <2>3. s.par[i].in => i \in S
    BY <1>1, <1>2
  <2> QED BY <2>2, <2>3
<1>5. 0 \in S /\ G \in [S \X (1..NumParents) -> S] /\ \A t \in S, i \in Nbrs : G[<<t, i>>] = BestStep(s, t, i)
  <2>1. 0 \in S
    BY <1>1, <1>2
  <2> QED BY <1>1, <1>3, <1>4, <2>1
<1>6. PICK f \in [0..NumParents -> S] : f = [i \in 0..NumParents |-> IF i = 0 THEN 0 ELSE G[<<f[i - 1], i>>]]
  <2>1. HasRecursion(NumParents, S, 0, G)
    BY <1>1, <1>5, RecursionExists
  <2> QED BY <2>1 DEF HasRecursion
<1>7. IsPass(f)
  <2>1. \A i \in 1..NumParents : i - 1 \in 0..NumParents
    BY <1>1
  <2>2. \A i \in 0..NumParents : (IF i = 0 THEN 0 ELSE G[<<f[i - 1], i>>]) = IF i = 0 THEN 0 ELSE BestStep(s, f[i - 1], i)
    BY <1>1, <1>5, <2>1
  <2> QED BY <1>6, <2>2, Zenon
<1> DEFINE g == CHOOSE h : IsPass(h)
<1>8. IsPass(g)
  <2> HIDE DEF IsPass
  <2> QED BY <1>7, Zenon
<1>9. rpl_select_parent(s) = g[NumParents]
  BY Zenon DEF rpl_select_parent, BestStep
<1>10. PICK h : h = g /\ h = [i \in 0..NumParents |-> IF i = 0 THEN 0 ELSE BestStep(s, h[i - 1], i)]
  BY <1>8, Zenon
<1> HIDE DEF g
<1> DEFINE T == {i \in 0..NumParents : h[i] \in S}
<1>11. 0 \in T
  BY <1>1, <1>5, <1>10
<1>12. ASSUME NEW i \in 1..NumParents, i - 1 \in T PROVE i \in T
  BY <1>1, <1>4, <1>10, <1>12
<1>13. NumParents \in T
  <2>1. NumParents \in 0..NumParents
    BY <1>1
  <2> HIDE DEF T
  <2>2. 0..NumParents \subseteq T
    BY <1>1, <1>11, <1>12, StepByStep
  <2> QED BY <2>1, <2>2
<1> QED BY <1>2, <1>9, <1>10, <1>13

LEMMA RankTyped ==
  ASSUME NEW s \in DagRecords, NEW p \in 0..NumParents
  PROVE  calculate_rank(s, p) \in Int
<1>1. CASE p = 0
  BY <1>1, DagAssumption DEF calculate_rank
<1>2. CASE p # 0
  <2>1. p \in Nbrs
    BY <1>2 DEF Nbrs
  <2>2. s.par[p] \in ParentRecords
    BY <2>1 DEF DagRecords
  <2>3. s.par[p].rank \in Int /\ s.par[p].metric \in Int /\ InfiniteRank \in Int
    BY <2>2, DagAssumption DEF ParentRecords
  <2> QED BY <2>3 DEF calculate_rank
<1> QED BY <1>1, <1>2

\* A rank depends on the table of parents only.
LEMMA SameRank ==
  ASSUME NEW s, NEW t, NEW p, p # 0 => s.par[p].rank = t.par[p].rank /\ s.par[p].metric = t.par[p].metric
  PROVE  calculate_rank(s, p) = calculate_rank(t, p)
BY DEF calculate_rank

\* rpl_select_dag finds a parent whose rank is taken, or gives the preferred one up.
LEMMA SelectDag ==
  ASSUME NEW s, Clean(s)
  PROVE  LET sel == rpl_select_dag(s)
         IN  /\ sel.found => Good(sel.s)
             /\ ~sel.found => Loose(sel.s) /\ (Clean(sel.s) \/ \E p \in Nbrs : sel.s.par[p].in)
<1>1. PICK best, rank : best = rpl_select_parent(s) /\ rank = calculate_rank(s, best)
  OBVIOUS
<1>2. /\ best \in 0..NumParents /\ (best # 0 => s.par[best].in)
      /\ s \in DagRecords /\ s.joined = TRUE /\ rank \in Int
  BY <1>1, SelectedIsIn, RankTyped DEF Clean, Loose
<1>3. best # 0 => best \in Nbrs /\ s.par[best].in = TRUE
  BY <1>2 DEF Nbrs, DagRecords, ParentRecords
<1>4. CASE best = 0
  <2>1. rpl_select_dag(s) = [found |-> FALSE, s |-> s]
    BY <1>1, <1>4, Zenon DEF rpl_select_dag
  <2> QED BY <2>1 DEF Clean
<1>5. CASE best # 0
  <2>1. PICK lower, m : /\ lower = (s.pref = 0 \/ rank < s.minRank)
                        /\ m = (IF lower THEN rank ELSE s.minRank)
    OBVIOUS
  <2>2. m \in Int
    BY <1>2, <2>1 DEF DagRecords
  <2>3. PICK t : t = [[s EXCEPT !.pref = best] EXCEPT !.rank = rank, !.minRank = IF lower THEN rank ELSE @]
    OBVIOUS
  <2>4. /\ t \in DagRecords /\ t.pref = best /\ t.rank = rank /\ t.joined = TRUE /\ t.par = s.par
        /\ Paths(t) = Paths(s) /\ t.routers = s.routers /\ t.defRoute = s.defRoute
    BY <1>2, <2>2, <2>1, <2>3 DEF DagRecords
  <2>5. calculate_rank(t, best) = rank
    BY <1>1, <2>4, SameRank
  <2>6. PICK moved : moved = rpl_schedule_dao(rpl_set_default_route(t, best))
    OBVIOUS
  <2>7. /\ moved \in DagRecords /\ moved.pref = best /\ moved.rank = rank /\ moved.joined = TRUE
        /\ moved.par = s.par /\ Paths(moved) = Paths(s) /\ moved.defRoute = best /\ moved.routers = {best}
    <3>1. PICK a : a = [t EXCEPT !.routers = @ \ {t.defRoute}, !.defRoute = 0]
      OBVIOUS
    <3>2. /\ a \in DagRecords /\ a.routers = t.routers \ {t.defRoute}
          /\ a.pref = best /\ a.rank = rank /\ a.joined = TRUE /\ a.par = s.par /\ Paths(a) = Paths(s)
      <4>0. PICK rs \in SUBSET Nbrs, z \in 0..NumParents : rs = t.routers \ {t.defRoute} /\ z = 0
        <5>1. t.routers \in SUBSET Nbrs /\ 0 \in 0..NumParents
          BY <2>4, DagAssumption DEF DagRecords
        <5> QED BY <5>1
      <4>1. PICK c : c = [t EXCEPT !.routers = rs]
        OBVIOUS
      <4>2. /\ c \in DagRecords /\ c.routers = t.routers \ {t.defRoute}
            /\ c.pref = best /\ c.rank = rank /\ c.joined = TRUE /\ c.par = s.par /\ Paths(c) = Paths(s)
        BY <2>4, <4>0, <4>1 DEF DagRecords
      <4>3. a = [c EXCEPT !.defRoute = z]
        BY <3>1, <4>0, <4>1
      <4> QED BY <4>0, <4>2, <4>3 DEF DagRecords
    <3>3. \A x \in s.routers : x = s.defRoute
      BY DEF Clean, Loose
    <3>4. a.routers = {}
      BY <2>4, <3>2, <3>3
    <3>5. PICK b : b = [a EXCEPT !.routers = @ \union {best}, !.defRoute = best]
      OBVIOUS
    <3>6. /\ b \in DagRecords /\ b.routers = {best} /\ b.defRoute = best
          /\ b.pref = best /\ b.rank = rank /\ b.joined = TRUE /\ b.par = s.par /\ Paths(b) = Paths(s)
      BY <1>3, <1>5, <3>2, <3>4, <3>5 DEF DagRecords
    <3>7. moved = [b EXCEPT !.daoTimer = TRUE]
      BY <1>5, <2>6, <3>1, <3>5, Zenon DEF rpl_schedule_dao, rpl_set_default_route, RouteRemoved
    <3> QED BY <3>6, <3>7 DEF DagRecords
  <2>8. CASE ~lower /\ ~acceptable_rank(t, rank)
    <3>1. PICK u, v : u = [t EXCEPT !.pref = 0] /\ v = NoPath(u, s.pref)
      OBVIOUS
    <3>2. /\ u \in DagRecords /\ u.pref = 0 /\ u.joined = TRUE /\ u.par = s.par /\ Paths(u) = Paths(s)
          /\ u.routers = s.routers /\ u.defRoute = s.defRoute
      BY <2>4, <3>1, DagAssumption DEF DagRecords
    <3>3. /\ v \in DagRecords /\ v.pref = 0 /\ v.joined = TRUE /\ v.par = s.par /\ Paths(v) = Paths(s) \ {s.pref}
          /\ v.routers = s.routers /\ v.defRoute = s.defRoute
      <4>1. PathsKnown(u) /\ s.pref \in 0..NumParents
        BY <1>2, <3>2 DEF Clean, Loose, DagRecords
      <4>2. v \in DagRecords /\ SameFields(v, u, {"told"}) /\ Paths(v) = Paths(u) \ {s.pref}
        BY <3>1, <3>2, <4>1, NoPathIs
      <4> HIDE DEF Paths
      <4> QED BY <3>2, <4>2 DEF SameFields
    <3>4. Paths(v) = {}
      BY <3>3 DEF Clean, Loose
    <3>5. rpl_select_dag(s) = [found |-> FALSE, s |-> v]
      BY <1>1, <1>5, <2>1, <2>3, <2>8, <3>1, Zenon DEF rpl_select_dag, rpl_set_preferred_parent
    <3>6. Loose(v) /\ \E p \in Nbrs : v.par[p].in
      BY <1>3, <1>5, <3>3, <3>4 DEF Clean, Loose
    <3> QED BY <3>5, <3>6
  <2>9. CASE ~(~lower /\ ~acceptable_rank(t, rank)) /\ best = s.pref
    <3>1. rpl_select_dag(s) = [found |-> TRUE, s |-> t]
      BY <1>1, <1>5, <2>1, <2>3, <2>9, Zenon DEF rpl_select_dag, rpl_set_preferred_parent
    <3>2. Good(t)
      BY <1>2, <1>3, <1>5, <2>4, <2>5, <2>9 DEF Good, Clean, Loose, RankBut
    <3> QED BY <3>1, <3>2
  <2>10. CASE ~(~lower /\ ~acceptable_rank(t, rank)) /\ best # s.pref
    <3>1. PICK v : v = NoPath(moved, s.pref)
      OBVIOUS
    <3>2. rpl_select_dag(s) = [found |-> TRUE, s |-> v]
      BY <1>1, <1>5, <2>1, <2>3, <2>6, <2>10, <3>1, Zenon DEF rpl_select_dag, rpl_set_preferred_parent
    <3>3. /\ v \in DagRecords /\ v.pref = best /\ v.rank = rank /\ v.joined = TRUE
          /\ v.par = s.par /\ Paths(v) = Paths(s) \ {s.pref} /\ v.defRoute = best /\ v.routers = {best}
      <4>1. PathsKnown(moved) /\ s.pref \in 0..NumParents
        BY <1>2, <2>7 DEF Clean, Loose, DagRecords
      <4>2. v \in DagRecords /\ SameFields(v, moved, {"told"}) /\ Paths(v) = Paths(moved) \ {s.pref}
        BY <2>7, <3>1, <4>1, NoPathIs
      <4> HIDE DEF Paths
      <4> QED BY <2>7, <4>2 DEF SameFields
    <3>4. Paths(v) = {}
      BY <3>3 DEF Clean, Loose
    <3>5. calculate_rank(v, best) = rank
      BY <1>1, <3>3, SameRank
    <3>6. Good(v)
      BY <1>3, <1>5, <3>3, <3>4, <3>5 DEF Good, Clean, Loose, RankBut
    <3> QED BY <3>2, <3>6
  <2> QED BY <2>8, <2>9, <2>10
<1> QED BY <1>4, <1>5

LEMMA ParentEvent ==
  ASSUME NEW s, NEW p \in Nbrs, Clean(s), RankBut(s, p)
  PROVE  Good(rpl_process_parent_event(s, p).s)
<1>1. CASE ~acceptable_rank(s, s.par[p].rank)
  <2>1. PICK t : t = rpl_nullify_parent(s, p)
    OBVIOUS
  <2>2. /\ Loose(t) /\ (s.pref \in {0, p} => t.pref = 0 /\ Clean(t))
        /\ (s.pref \notin {0, p} => t = s)
    BY <2>1, NullifyLoose DEF Clean
  <2>3. Good(t)
    BY <2>2 DEF Good, RankBut
  <2>4. rpl_process_parent_event(s, p) = [kept |-> FALSE, s |-> t]
    BY <1>1, <2>1, Zenon DEF rpl_process_parent_event
  <2> QED BY <2>3, <2>4
<1>2. CASE acceptable_rank(s, s.par[p].rank)
  <2>1. PICK sel : sel = rpl_select_dag(s)
    OBVIOUS
  <2>2. /\ sel.found => Good(sel.s)
        /\ ~sel.found => Loose(sel.s) /\ (Clean(sel.s) \/ \E q \in Nbrs : sel.s.par[q].in)
    BY <2>1, SelectDag
  <2>3. CASE sel.found
    <3>1. rpl_process_parent_event(s, p) = [kept |-> TRUE, s |-> sel.s]
      BY <1>2, <2>1, <2>3, Zenon DEF rpl_process_parent_event
    <3> QED BY <2>2, <2>3, <3>1
  <2>4. CASE ~sel.found
    <3>1. PICK u : u = [sel.s EXCEPT !.rank = InfiniteRank]
      OBVIOUS
    <3>2. /\ u \in DagRecords /\ u.pref = sel.s.pref /\ u.joined = sel.s.joined /\ u.par = sel.s.par
          /\ Paths(u) = Paths(sel.s) /\ u.routers = sel.s.routers /\ u.defRoute = sel.s.defRoute
      BY <2>2, <2>4, <3>1, DagAssumption DEF Loose, DagRecords
    <3>3. Loose(u) /\ (Clean(u) \/ \E q \in Nbrs : u.par[q].in)
      BY <2>2, <2>4, <3>2 DEF Clean, Loose
    <3>4. Good(nullify_parents(u))
      BY <3>3, NullifyAllClean DEF Good, RankBut
    <3>5. rpl_process_parent_event(s, p) = [kept |-> FALSE, s |-> nullify_parents(u)]
      BY <1>2, <2>1, <2>4, <3>1, Zenon DEF rpl_process_parent_event, rpl_local_repair
    <3> QED BY <3>4, <3>5
  <2> QED BY <2>3, <2>4
<1> QED BY <1>1, <1>2

LEMMA InitialMetricIs == InitialMetric \in Nat
<1>1. \E m \in Metrics : \A n \in Metrics : m <= n
  BY DagAssumption, LeastOf
<1> QED BY <1>1, DagAssumption DEF InitialMetric

\* What making a parent's entry anew leaves.
WithParent(t, s, p) ==
    /\ t \in DagRecords /\ t.joined = s.joined /\ t.pref = s.pref /\ Paths(t) = Paths(s)
    /\ t.routers = s.routers /\ t.defRoute = s.defRoute /\ t.rank = s.rank
    /\ t.par[p].in = TRUE /\ t.par[p].nbr = TRUE /\ \A q \in Nbrs : q # p => t.par[q] = s.par[q]

LEMMA AddParent ==
  ASSUME NEW s \in DagRecords, NEW p \in Nbrs, NEW dio \in Dios
  PROVE  WithParent(rpl_add_parent(s, p, dio), s, p)
<1>1. PICK e : e = [in |-> TRUE, nbr |-> TRUE, rank |-> dio.rank, metric |-> InitialMetric, updated |-> FALSE]
  OBVIOUS
<1>2. e \in ParentRecords /\ e.in = TRUE /\ e.nbr = TRUE
  BY <1>1, InitialMetricIs, DagAssumption DEF ParentRecords
<1>3. rpl_add_parent(s, p, dio) = [s EXCEPT !.par[p] = e]
  BY <1>1, Zenon DEF rpl_add_parent
<1> QED BY <1>2, <1>3 DEF DagRecords, WithParent

LEMMA JoinGood ==
  ASSUME NEW s, Alone(s), NEW p \in Nbrs, NEW dio \in Dios
  PROVE  LET t == rpl_join_instance(s, p, dio) IN Good(t) \/ Alone(t)
<1>1. PICK t : t = rpl_add_parent(s, p, dio)
  OBVIOUS
<1>2. s \in DagRecords /\ p # 0 /\ p \in 0..NumParents
  BY DagAssumption DEF Alone, Nbrs
<1>3. /\ t \in DagRecords /\ t.joined = FALSE /\ t.pref = 0 /\ Paths(t) = {} /\ t.routers = {} /\ t.defRoute = 0
      /\ t.par[p].in = TRUE /\ \A q \in Nbrs : q # p => t.par[q].in = FALSE
  <2>1. WithParent(t, s, p)
    BY <1>1, <1>2, AddParent
  <2> QED BY <2>1 DEF Alone, WithParent
<1>4. CASE ~dio.known
  <2>1. PICK u : u = [t EXCEPT !.par[p].in = FALSE]
    OBVIOUS
  <2>2. /\ u \in DagRecords /\ u.joined = t.joined /\ u.pref = t.pref /\ Paths(u) = Paths(t)
        /\ u.routers = t.routers /\ u.defRoute = t.defRoute
        /\ u.par[p].in = FALSE /\ \A q \in Nbrs : q # p => u.par[q] = t.par[q]
    BY <1>3, <2>1 DEF DagRecords, ParentRecords
  <2>3. Alone(u)
    BY <1>3, <2>2 DEF Alone
  <2>4. rpl_join_instance(s, p, dio) = u
    BY <1>1, <1>4, <2>1, Zenon DEF rpl_join_instance
  <2> QED BY <2>3, <2>4
<1>5. CASE dio.known
  <2>1. PICK r \in Int : r = calculate_rank(t, p)
    BY <1>2, <1>3, RankTyped
  <2>2. PICK v : v = dio.version /\ v \in Int
    BY DagAssumption
  <2>3. PICK u : u = [[t EXCEPT !.pref = p] EXCEPT !.joined = TRUE, !.version = v, !.rank = r, !.minRank = r]
    OBVIOUS
  <2>4. /\ u \in DagRecords /\ u.joined = TRUE /\ u.pref = p /\ u.rank = r /\ u.par = t.par
        /\ Paths(u) = Paths(t) /\ u.routers = t.routers /\ u.defRoute = t.defRoute
    <3>1. PICK a : a = [[t EXCEPT !.pref = p] EXCEPT !.rank = r, !.minRank = r]
      OBVIOUS
    <3>2. /\ a \in DagRecords /\ a.pref = p /\ a.rank = r /\ a.par = t.par
          /\ Paths(a) = Paths(t) /\ a.routers = t.routers /\ a.defRoute = t.defRoute
      BY <1>2, <1>3, <3>1 DEF DagRecords
    <3>3. PICK j : j = TRUE
      OBVIOUS
    <3>4. u = [a EXCEPT !.joined = j, !.version = v]
      BY <1>3, <2>3, <3>1, <3>3 DEF DagRecords
    <3> QED BY <2>2, <3>2, <3>3, <3>4 DEF DagRecords
  <2>5. PICK w : w = [[u EXCEPT !.routers = @ \ {u.defRoute}, !.defRoute = 0] EXCEPT !.routers = @ \union {p}, !.defRoute = p]
    OBVIOUS
  <2>6. /\ w \in DagRecords /\ w.joined = TRUE /\ w.pref = p /\ w.rank = r /\ w.par = t.par
        /\ Paths(w) = {} /\ w.routers = {p} /\ w.defRoute = p
    <3>1. PICK rs \in SUBSET Nbrs : rs = {p}
      OBVIOUS
    <3>2. (u.routers \ {u.defRoute}) \union {p} = rs
      BY <1>3, <2>4, <3>1
    <3>3. w = [u EXCEPT !.routers = rs, !.defRoute = p]
      BY <2>4, <2>5, <3>2 DEF DagRecords
    <3> QED BY <1>2, <1>3, <2>4, <3>1, <3>3 DEF DagRecords
  <2>7. PICK x : x = [w EXCEPT !.daoTimer = TRUE]
    OBVIOUS
  <2>8. /\ x \in DagRecords /\ x.joined = TRUE /\ x.pref = p /\ x.rank = r /\ x.par = t.par
        /\ Paths(x) = {} /\ x.routers = {p} /\ x.defRoute = p
    BY <2>6, <2>7 DEF DagRecords
  <2>9. calculate_rank(x, p) = r
    BY <2>1, <2>8, SameRank
  <2>10. Good(x)
    BY <1>3, <2>8, <2>9 DEF Good, Clean, Loose, RankBut
  <2>11. rpl_join_instance(s, p, dio) = x
    BY <1>1, <1>2, <1>5, <2>1, <2>2, <2>3, <2>5, <2>7, Zenon
       DEF rpl_join_instance, rpl_set_preferred_parent, rpl_schedule_dao, rpl_set_default_route, RouteRemoved
  <2> QED BY <2>10, <2>11
<1> QED BY <1>4, <1>5

LEMMA RepairGood ==
  ASSUME NEW s, Clean(s), NEW p \in Nbrs, NEW dio \in Dios
  PROVE  Good(global_repair(s, p, dio))
<1>1. PICK a : a = remove_parents(s)
  OBVIOUS
<1>2. Clean(a) /\ a.pref = 0
  BY <1>1, RemoveAllClean
<1>0. PICK v \in Int : v = dio.version
  <2>1. dio.version \in Int
    BY DagAssumption
  <2> QED BY <2>1
<1>3. PICK b : b = [a EXCEPT !.version = v]
  OBVIOUS
<1>4. /\ b \in DagRecords /\ b.joined = a.joined /\ b.pref = 0 /\ Paths(b) = Paths(a)
      /\ b.routers = a.routers /\ b.defRoute = a.defRoute /\ b.par = a.par
  BY <1>2, <1>3 DEF Clean, Loose, DagRecords
<1>5. PICK t : t = rpl_add_parent(b, p, dio)
  OBVIOUS
<1>6. /\ t \in DagRecords /\ t.joined = a.joined /\ t.pref = 0 /\ Paths(t) = Paths(a)
      /\ t.routers = a.routers /\ t.defRoute = a.defRoute
      /\ \A q \in Nbrs : a.par[q].nbr = TRUE => t.par[q].nbr = TRUE
  <2>1. WithParent(t, b, p)
    BY <1>4, <1>5, AddParent
  <2> QED BY <1>4, <2>1 DEF WithParent
<1>7. PICK r \in Int : r = calculate_rank(t, p)
  <2>1. p \in 0..NumParents
    BY DagAssumption DEF Nbrs
  <2> QED BY <1>6, <2>1, RankTyped
<1>8. PICK u : u = [t EXCEPT !.rank = r, !.minRank = r]
  OBVIOUS
<1>9. /\ u \in DagRecords /\ u.joined = a.joined /\ u.pref = 0 /\ Paths(u) = Paths(a)
      /\ u.routers = a.routers /\ u.defRoute = a.defRoute /\ u.par = t.par
  BY <1>6, <1>8 DEF DagRecords
<1>10. Clean(u) /\ RankBut(u, p)
  <2>1. Paths(a) \subseteq Nbrs
    BY <1>2 DEF Clean, Loose, DagRecords
  <2> QED BY <1>2, <1>6, <1>9, <2>1 DEF Clean, Loose, RankBut
<1>11. global_repair(s, p, dio) = rpl_process_parent_event(u, p).s
  BY <1>1, <1>0, <1>3, <1>5, <1>7, <1>8, Zenon DEF global_repair
<1> QED BY <1>10, <1>11, ParentEvent

LEMMA CandidateGood ==
  ASSUME NEW s, Good(s), NEW p \in Nbrs, NEW dio \in Dios
  PROVE  Good(Candidate(s, p, dio))
<1>0. s \in DagRecords /\ dio.rank \in Nat
  BY DagAssumption DEF Good, Clean, Loose
<1>1. PICK t : t = IF s.par[p].in THEN [s EXCEPT !.par[p].rank = dio.rank] ELSE rpl_add_parent(s, p, dio)
  OBVIOUS
<1>2. /\ t \in DagRecords /\ t.joined = s.joined /\ t.pref = s.pref /\ Paths(t) = Paths(s)
      /\ t.routers = s.routers /\ t.defRoute = s.defRoute /\ t.rank = s.rank
      /\ t.par[p].in = TRUE /\ (s.par[p].nbr = TRUE => t.par[p].nbr = TRUE)
      /\ \A q \in Nbrs : q # p => t.par[q] = s.par[q]
  <2>1. CASE s.par[p].in
    BY <1>0, <1>1, <2>1 DEF DagRecords, ParentRecords
  <2>2. CASE ~s.par[p].in
    <3>1. WithParent(t, s, p)
      BY <1>0, <1>1, <2>2, AddParent
    <3> QED BY <3>1 DEF WithParent
  <2> QED BY <2>1, <2>2
<1>3. s.pref # 0 => s.pref \in Nbrs
  BY <1>0 DEF DagRecords, Nbrs
<1>4. Clean(t)
  <2>1. Paths(s) \subseteq Nbrs
    BY <1>0 DEF DagRecords
  <2>2. PathsKnown(t)
    BY <1>2, <2>1 DEF Good, Clean, Loose
  <2> HIDE DEF Paths, PathsKnown
  <2> QED BY <1>2, <1>3, <2>2 DEF Good, Clean, Loose
<1>5. RankBut(t, p)
  <2>1. CASE t.pref \in {0, p}
    BY <2>1 DEF RankBut
  <2>2. CASE t.pref \notin {0, p}
    <3>1. t.par[t.pref] = s.par[s.pref] /\ t.pref = s.pref
      BY <1>2, <1>3, <2>2
    <3>2. calculate_rank(t, t.pref) = calculate_rank(s, s.pref)
      BY <3>1, SameRank
    <3> QED BY <1>2, <2>2, <3>1, <3>2 DEF Good, RankBut
  <2> QED BY <2>1, <2>2
<1>6. PICK e : e = rpl_process_parent_event(t, p)
  OBVIOUS
<1>7. Good(e.s)
  BY <1>4, <1>5, <1>6, ParentEvent
<1>8. PICK u : u = IF dio.fresh THEN [e.s EXCEPT !.daoTimer = TRUE] ELSE e.s
  OBVIOUS
<1>9. /\ u \in DagRecords /\ u.joined = e.s.joined /\ u.pref = e.s.pref /\ Paths(u) = Paths(e.s) /\ u.rank = e.s.rank
      /\ u.routers = e.s.routers /\ u.defRoute = e.s.defRoute /\ u.par = e.s.par
  BY <1>7, <1>8 DEF Good, Clean, Loose, DagRecords
<1>10. CASE e.kept /\ p = e.s.pref
  <2>1. PICK w : w = [u EXCEPT !.routers = @ \union {p}]
    OBVIOUS
  <2>2. /\ w \in DagRecords /\ w.joined = e.s.joined /\ w.pref = e.s.pref /\ Paths(w) = Paths(e.s) /\ w.rank = e.s.rank
        /\ w.routers = e.s.routers \union {p} /\ w.defRoute = e.s.defRoute /\ w.par = e.s.par
    BY <1>9, <2>1 DEF DagRecords
  <2>3. calculate_rank(w, w.pref) = calculate_rank(e.s, e.s.pref)
    BY <2>2, SameRank
  <2>4. Good(w)
    BY <1>7, <1>10, <2>2, <2>3 DEF Good, Clean, Loose, RankBut
  <2>5. Candidate(s, p, dio) = w
    BY <1>1, <1>6, <1>8, <1>10, <2>1, Zenon DEF Candidate, rpl_schedule_dao
  <2> QED BY <2>4, <2>5
<1>11. CASE ~(e.kept /\ p = e.s.pref)
  <2>1. Candidate(s, p, dio) = e.s
    BY <1>1, <1>6, <1>11, Zenon DEF Candidate
  <2> QED BY <1>7, <2>1
<1> QED BY <1>10, <1>11

\* rpl_recalculate_ranks looks at a parent again.
RecalculateStep(t, i) == IF t.par[i].in THEN Recalculated(t, i) ELSE t

LEMMA RecalculatedGood ==
  ASSUME NEW s, Good(s), NEW p \in Nbrs
  PROVE  Good(Recalculated(s, p))
<1>1. CASE ~s.par[p].updated
  BY <1>1 DEF Recalculated
<1>2. CASE s.par[p].updated
  <2>1. PICK t : t = [s EXCEPT !.par[p].updated = FALSE]
    OBVIOUS
  <2>2. s \in DagRecords
    BY DEF Good, Clean, Loose
  <2>3. /\ t \in DagRecords /\ t.joined = s.joined /\ t.pref = s.pref /\ Paths(t) = Paths(s)
        /\ t.routers = s.routers /\ t.defRoute = s.defRoute /\ t.rank = s.rank
        /\ t.par[p].in = s.par[p].in /\ t.par[p].nbr = s.par[p].nbr /\ \A q \in Nbrs : q # p => t.par[q] = s.par[q]
    BY <2>1, <2>2 DEF DagRecords, ParentRecords
  <2>4. s.pref # 0 => s.pref \in Nbrs
    BY <2>2 DEF DagRecords, Nbrs
  <2>5. Clean(t)
    <3>1. Paths(s) \subseteq Nbrs
      BY <2>2 DEF DagRecords
    <3>2. PathsKnown(t)
      BY <2>3, <3>1 DEF Good, Clean, Loose
    <3> HIDE DEF Paths, PathsKnown
    <3> QED BY <2>3, <2>4, <3>2 DEF Good, Clean, Loose
  <2>6. RankBut(t, p)
    <3>1. CASE t.pref \in {0, p}
      BY <3>1 DEF RankBut
    <3>2. CASE t.pref \notin {0, p}
      <4>1. t.par[t.pref] = s.par[s.pref] /\ t.pref = s.pref
        BY <2>3, <2>4, <3>2
      <4>2. calculate_rank(t, t.pref) = calculate_rank(s, s.pref)
        BY <4>1, SameRank
      <4> QED BY <2>3, <3>2, <4>1, <4>2 DEF Good, RankBut
    <3> QED BY <3>1, <3>2
  <2>7. Recalculated(s, p) = rpl_process_parent_event(t, p).s
    BY <1>2, <2>1, Zenon DEF Recalculated
  <2> QED BY <2>5, <2>6, <2>7, ParentEvent
<1> QED BY <1>1, <1>2

LEMMA RecalculatePass ==
  ASSUME NEW s, Good(s)
  PROVE  \E f : /\ f = [i \in 0..NumParents |-> IF i = 0 THEN s ELSE RecalculateStep(f[i - 1], i)]
                /\ EachParent(Recalculated, s) = f[NumParents]
<1> DEFINE IsPass(f) == f = [i \in 0..NumParents |-> IF i = 0 THEN s ELSE RecalculateStep(f[i - 1], i)]
<1>1. NumParents \in Nat /\ Nbrs = 1..NumParents
  BY DagAssumption DEF Nbrs
<1>2. PICK S : S = {t \in DagRecords : Good(t)}
  OBVIOUS
<1>3. PICK G : G = [x \in S \X Nbrs |-> RecalculateStep(x[1], x[2])]
  OBVIOUS
<1>4. \A t \in S, i \in Nbrs : RecalculateStep(t, i) \in S
  BY <1>2, RecalculatedGood DEF RecalculateStep, Good, Clean, Loose
<1>5. s \in S /\ G \in [S \X (1..NumParents) -> S] /\ \A t \in S, i \in Nbrs : G[<<t, i>>] = RecalculateStep(t, i)
  <2>1. s \in S
    BY <1>2 DEF Good, Clean, Loose
  <2> QED BY <1>1, <1>3, <1>4, <2>1
<1>6. PICK f \in [0..NumParents -> S] : f = [i \in 0..NumParents |-> IF i = 0 THEN s ELSE G[<<f[i - 1], i>>]]
  <2>1. HasRecursion(NumParents, S, s, G)
    BY <1>1, <1>5, RecursionExists
  <2> QED BY <2>1 DEF HasRecursion
<1>7. IsPass(f)
  <2>1. \A i \in 1..NumParents : i - 1 \in 0..NumParents
    BY <1>1
  <2>2. \A i \in 0..NumParents : (IF i = 0 THEN s ELSE G[<<f[i - 1], i>>]) = IF i = 0 THEN s ELSE RecalculateStep(f[i - 1], i)
    BY <1>1, <1>5, <2>1
  <2> QED BY <1>6, <2>2, Zenon
<1> DEFINE g == CHOOSE h : IsPass(h)
<1>8. IsPass(g)
  <2> HIDE DEF IsPass
  <2> QED BY <1>7, Zenon
<1>9. EachParent(Recalculated, s) = g[NumParents]
  BY Zenon DEF EachParent, RecalculateStep
<1> HIDE DEF g
<1> QED BY <1>8, <1>9, Zenon

LEMMA RecalculateAllGood ==
  ASSUME NEW s, Good(s)
  PROVE  Good(EachParent(Recalculated, s))
<1>1. PICK f : /\ f = [i \in 0..NumParents |-> IF i = 0 THEN s ELSE RecalculateStep(f[i - 1], i)]
               /\ EachParent(Recalculated, s) = f[NumParents]
  BY RecalculatePass
<1>2. NumParents \in Nat /\ Nbrs = 1..NumParents
  BY DagAssumption DEF Nbrs
<1> DEFINE T == {i \in 0..NumParents : Good(f[i])}
<1>3. 0 \in T
  <2>1. f[0] = s
    BY <1>1, <1>2
  <2> QED BY <1>2, <2>1
<1>4. ASSUME NEW i \in 1..NumParents, i - 1 \in T PROVE i \in T
  <2>1. PICK t : t = f[i - 1]
    OBVIOUS
  <2>2. f[i] = RecalculateStep(t, i) /\ Good(t)
    BY <1>1, <1>2, <1>4, <2>1
  <2>3. Good(f[i])
    BY <1>2, <2>2, RecalculatedGood DEF RecalculateStep
  <2> QED BY <2>3
<1>5. NumParents \in T
  <2>1. NumParents \in 0..NumParents
    BY <1>2
  <2> HIDE DEF T
  <2>2. 0..NumParents \subseteq T
    BY <1>2, <1>3, <1>4, StepByStep
  <2> QED BY <2>1, <2>2
<1> QED BY <1>1, <1>5

\* A change of what the parents are, without one coming or going, is noted in updated.
Noted(t, s) ==
    /\ t \in DagRecords /\ t.joined = s.joined /\ t.pref = s.pref /\ t.rank = s.rank
    /\ Paths(t) \subseteq Paths(s) \union {s.pref} /\ (PathsKnown(s) => PathsKnown(t))
    /\ t.routers \subseteq s.routers /\ t.defRoute = s.defRoute
    /\ \A q \in Nbrs : /\ t.par[q].in = s.par[q].in
                       /\ \/ t.par[q].updated = TRUE
                          \/ /\ t.par[q].rank = s.par[q].rank /\ t.par[q].metric = s.par[q].metric
                             /\ t.par[q].updated = s.par[q].updated

LEMMA NotedInv ==
  ASSUME NEW s, NEW t, Noted(t, s)
  PROVE  (Good(s) => Good(t)) /\ (Alone(s) => Alone(t))
<1>1. 0 \notin Nbrs
  BY DagAssumption DEF Nbrs
<1>2. Paths(t) \subseteq Nbrs /\ (t.pref # 0 => t.pref \in Nbrs)
  BY DEF Noted, DagRecords, Nbrs
<1>3. Alone(s) => Alone(t)
  BY <1>1, <1>2 DEF Alone, Noted
<1>4. ASSUME Good(s) PROVE Good(t)
  <2>1. Clean(t)
    BY <1>2, <1>4 DEF Good, Clean, Loose, Noted
  <2>2. RankBut(t, 0)
    <3>1. CASE t.pref = 0
      BY <3>1 DEF RankBut
    <3>2. CASE t.pref # 0 /\ t.par[t.pref].updated = TRUE
      BY <3>2 DEF RankBut
    <3>3. CASE t.pref # 0 /\ t.par[t.pref].updated # TRUE
      <4>1. /\ t.par[t.pref].rank = s.par[t.pref].rank /\ t.par[t.pref].metric = s.par[t.pref].metric
            /\ t.par[t.pref].updated = s.par[t.pref].updated /\ t.pref = s.pref /\ t.rank = s.rank
        BY <1>2, <3>3 DEF Noted
      <4>2. calculate_rank(t, t.pref) = calculate_rank(s, t.pref)
        BY <4>1, SameRank
      <4> QED BY <1>4, <3>3, <4>1, <4>2 DEF Good, RankBut
    <3> QED BY <3>1, <3>2, <3>3
  <2> QED BY <2>1, <2>2 DEF Good
<1> QED BY <1>3, <1>4

\* The entry of a parent after a callback about it.
IsEntry(e, q) == e \in ParentRecords /\ e.in = q.in /\ e.nbr = q.nbr
LEMMA EntryNoted ==
  ASSUME NEW s \in DagRecords, NEW p \in Nbrs, NEW e \in ParentRecords, e.in = s.par[p].in,
         s.par[p].nbr = TRUE => e.nbr = TRUE,
         \/ e.updated = TRUE
         \/ e.rank = s.par[p].rank /\ e.metric = s.par[p].metric /\ e.updated = s.par[p].updated
  PROVE  Noted([s EXCEPT !.par[p] = e], s)
<1>1. PICK t : t = [s EXCEPT !.par[p] = e]
  OBVIOUS
<1>2. /\ t \in DagRecords /\ t.joined = s.joined /\ t.pref = s.pref /\ t.rank = s.rank
      /\ Paths(t) = Paths(s) /\ t.routers = s.routers /\ t.defRoute = s.defRoute
  BY <1>1 DEF DagRecords
<1>3. \A q \in Nbrs : t.par[q] = IF q = p THEN e ELSE s.par[q]
  BY <1>1 DEF DagRecords
<1>4. PathsKnown(s) => PathsKnown(t)
  BY <1>2, <1>3 DEF DagRecords
<1>5. Noted(t, s)
  <2> HIDE DEF Paths, PathsKnown
  <2> QED BY <1>2, <1>3, <1>4 DEF Noted
<1> QED BY <1>1, <1>5

LEMMA VersionNoted ==
  ASSUME NEW s \in DagRecords, NEW v \in Int
  PROVE  Noted([s EXCEPT !.version = v], s)
BY DEF Noted, DagRecords

LEMMA CallbackNoted ==
  ASSUME NEW s \in DagRecords, NEW p \in Nbrs
  PROVE  LET t == rpl_ipv6_neighbor_callback(s, p)
         IN  Noted(t, s) /\ t.told = s.told /\ t.lost = s.lost
<1>1. CASE s.joined /\ s.par[p].in
  <2>0. s.par[p] \in ParentRecords
    BY DEF DagRecords
  <2>1. PICK v \in BOOLEAN, q \in ParentRecords, i \in Nat : v = TRUE /\ q = s.par[p] /\ i = InfiniteRank
    BY <2>0, DagAssumption
  <2>2. PICK e : e = [q EXCEPT !.rank = i, !.updated = v]
    OBVIOUS
  <2>3. IsEntry(e, q) /\ e.updated = v
    BY <2>2 DEF IsEntry, ParentRecords
  <2>4. PICK t : t = [s EXCEPT !.par[p] = e]
    OBVIOUS
  <2>5. Noted(t, s) /\ t.told = s.told /\ t.lost = s.lost
    <3>1. Noted(t, s)
      BY <2>1, <2>3, <2>4, EntryNoted DEF IsEntry
    <3> QED BY <2>4, <3>1 DEF DagRecords
  <2>6. rpl_ipv6_neighbor_callback(s, p) = t
    BY <1>1, <2>1, <2>2, <2>4, Zenon DEF rpl_ipv6_neighbor_callback
  <2> QED BY <2>5, <2>6
<1>2. CASE ~(s.joined /\ s.par[p].in)
  <2>1. rpl_ipv6_neighbor_callback(s, p) = s
    BY <1>2 DEF rpl_ipv6_neighbor_callback
  <2> QED BY <2>1 DEF Noted
<1> QED BY <1>1, <1>2

\* What setting nbr of one entry leaves.
WithNbr(s, p, b) == [s EXCEPT !.par[p].nbr = b]
NbrIs(t, s, p, b) ==
    /\ t \in DagRecords /\ SameFields(t, s, {"par"})
    /\ \A q \in Nbrs : /\ (q = p => t.par[q].nbr = b) /\ (q # p => t.par[q].nbr = s.par[q].nbr)
                       /\ t.par[q].in = s.par[q].in /\ t.par[q].rank = s.par[q].rank
                       /\ t.par[q].metric = s.par[q].metric /\ t.par[q].updated = s.par[q].updated
LEMMA NbrSet ==
  ASSUME NEW s \in DagRecords, NEW p \in Nbrs, NEW b \in BOOLEAN
  PROVE  NbrIs(WithNbr(s, p, b), s, p, b)
BY DEF DagRecords, ParentRecords, SameFields, WithNbr, NbrIs

LEMMA NbrAddNoted ==
  ASSUME NEW s \in DagRecords, NEW p \in Nbrs
  PROVE  Noted(NbrAdded(s, p), s)
<1>1. CASE s.par[p].nbr
  <2>1. NbrAdded(s, p) = s
    BY <1>1 DEF NbrAdded
  <2> QED BY <2>1 DEF Noted
<1>2. CASE ~s.par[p].nbr
  <2>b. PICK b \in BOOLEAN : b = TRUE
    OBVIOUS
  <2>1. PICK t, u : t = WithNbr(s, p, b) /\ u = rpl_ipv6_neighbor_callback(t, p)
    OBVIOUS
  <2>2. t \in DagRecords /\ Noted(t, s)
    <3>1. /\ t \in DagRecords /\ SameFields(t, s, {"par"})
          /\ \A q \in Nbrs : /\ (q = p => t.par[q].nbr = b) /\ (q # p => t.par[q].nbr = s.par[q].nbr)
                             /\ t.par[q].in = s.par[q].in /\ t.par[q].rank = s.par[q].rank
                             /\ t.par[q].metric = s.par[q].metric /\ t.par[q].updated = s.par[q].updated
      <4>1. NbrIs(t, s, p, b)
        BY <2>1, NbrSet
      <4> QED BY <4>1 DEF NbrIs
    <3>2. PathsKnown(s) => PathsKnown(t)
      BY <2>b, <3>1 DEF SameFields, DagRecords
    <3> HIDE DEF PathsKnown
    <3> QED BY <3>1, <3>2 DEF Noted, SameFields
  <2>3. Noted(u, t) /\ u.told = t.told /\ u.lost = t.lost
    BY <2>1, <2>2, CallbackNoted
  <2>4. Noted(u, s)
    BY <2>2, <2>3 DEF Noted
  <2>5. NbrAdded(s, p) = u
    BY <1>2, <2>b, <2>1, Zenon DEF NbrAdded, WithNbr
  <2> QED BY <2>4, <2>5
<1> QED BY <1>1, <1>2

LEMMA NbrRmNoted ==
  ASSUME NEW s \in DagRecords, NEW p \in Nbrs
  PROVE  Noted(NbrRemoved(s, p), s)
<1>1. CASE ~s.par[p].nbr
  <2>1. NbrRemoved(s, p) = s
    BY <1>1 DEF NbrRemoved
  <2> QED BY <2>1 DEF Noted
<1>2. CASE s.par[p].nbr
  <2>1. PICK u : u = rpl_ipv6_neighbor_callback(s, p)
    OBVIOUS
  <2>2. Noted(u, s) /\ u.told = s.told /\ u.lost = s.lost /\ u \in DagRecords
    <3>1. Noted(u, s) /\ u.told = s.told /\ u.lost = s.lost
      BY <2>1, CallbackNoted
    <3> HIDE DEF Paths, PathsKnown
    <3> QED BY <3>1 DEF Noted
  <2>b. PICK b \in BOOLEAN : b = FALSE
    OBVIOUS
  <2>3. PICK w, l : w = WithNbr(u, p, b) /\ l = u.lost \union (s.told \cap {p})
    OBVIOUS
  <2>4. /\ w \in DagRecords /\ SameFields(w, u, {"par"})
        /\ \A q \in Nbrs : /\ (q = p => w.par[q].nbr = b) /\ (q # p => w.par[q].nbr = u.par[q].nbr)
                           /\ w.par[q].in = u.par[q].in /\ w.par[q].rank = u.par[q].rank
                           /\ w.par[q].metric = u.par[q].metric /\ w.par[q].updated = u.par[q].updated
    <3>1. NbrIs(w, u, p, b)
      BY <2>2, <2>3, NbrSet
    <3> HIDE DEF Paths, PathsKnown
    <3> QED BY <3>1 DEF NbrIs
  <2>5. l \in SUBSET Nbrs
    BY <2>2, <2>3 DEF DagRecords
  <2>6. PICK t : t = [w EXCEPT !.lost = l]
    OBVIOUS
  <2>7. /\ t \in DagRecords /\ t.told = w.told /\ t.lost = l /\ t.par = w.par /\ t.joined = w.joined
        /\ t.pref = w.pref /\ t.rank = w.rank /\ t.routers = w.routers /\ t.defRoute = w.defRoute
    BY <2>4, <2>5, <2>6 DEF DagRecords
  <2>8. Paths(t) = Paths(u) \ {p}
    BY <2>2, <2>3, <2>4, <2>7 DEF SameFields
  <2>9. Noted(t, u)
    <3>1. PathsKnown(u) => PathsKnown(t)
      BY <2>2, <2>b, <2>4, <2>7, <2>8 DEF DagRecords
    <3> HIDE DEF Paths, PathsKnown
    <3> QED BY <2>4, <2>7, <2>8, <3>1 DEF Noted, SameFields
  <2>10. Noted(t, s)
    BY <2>2, <2>9 DEF Noted
  <2>11. NbrRemoved(s, p) = t
    <3>1. t = [u EXCEPT !.par[p].nbr = FALSE, !.lost = @ \union (s.told \cap {p})]
      BY <2>b, <2>2, <2>3, <2>4, <2>6 DEF SameFields, WithNbr
    <3> QED BY <1>2, <2>1, <3>1, Zenon DEF NbrRemoved
  <2> QED BY <2>10, <2>11
<1> QED BY <1>1, <1>2

LEMMA DioInv ==
  ASSUME DagInv, NEW p \in Nbrs, NEW dio \in Dios, dio_input(p, dio)
  PROVE  DagInv'
<1>1. PICK s : s = NbrAdded(node, p)
  OBVIOUS
<1>2. node' = IF dio.whole THEN rpl_process_dio(s, p, dio) ELSE s
  BY <1>1, Zenon DEF dio_input
<1>3. node \in DagRecords
  BY DEF DagInv, Good, Clean, Loose, Alone
<1>4. Noted(s, node)
  BY <1>1, <1>3, NbrAddNoted
<1>5. Good(s) \/ Alone(s)
  BY <1>4, NotedInv DEF DagInv
<1>6. dio.version \in Nat /\ LolMax \in Nat /\ LolCircular \in Nat
  BY DagAssumption
<1>7. s \in DagRecords
  BY <1>4 DEF Noted
<1>8. rpl_process_dio(s, p, dio) \in {s, [s EXCEPT !.version = Increment(dio.version)]}
      \/ (~s.joined /\ rpl_process_dio(s, p, dio) = rpl_join_instance(s, p, dio))
      \/ (s.joined /\ rpl_process_dio(s, p, dio) = global_repair(s, p, dio))
      \/ (s.joined /\ rpl_process_dio(s, p, dio) = Candidate(s, p, dio))
  BY Zenon DEF rpl_process_dio
<1>9. CASE node' = s
  BY <1>5, <1>9 DEF DagInv, Good, Clean, Loose, RankBut, Alone
<1>10. CASE node' = [s EXCEPT !.version = Increment(dio.version)]
  <2>1. PICK v \in Int : v = Increment(dio.version)
    <3>1. Increment(dio.version) \in Int
      BY <1>6 DEF Increment
    <3> QED BY <3>1
  <2>2. PICK t : t = [s EXCEPT !.version = v]
    OBVIOUS
  <2>3. Good(t) \/ Alone(t)
    BY <1>5, <1>7, <2>2, VersionNoted, NotedInv
  <2>4. node' = t
    BY <1>10, <2>1, <2>2
  <2> QED BY <2>3, <2>4 DEF DagInv
<1>11. CASE ~s.joined /\ node' = rpl_join_instance(s, p, dio)
  <2>1. Alone(s)
    BY <1>5, <1>11 DEF Good, Clean, Loose
  <2>2. PICK t : t = rpl_join_instance(s, p, dio)
    OBVIOUS
  <2>3. Good(t) \/ Alone(t)
    BY <2>1, <2>2, JoinGood
  <2> QED BY <1>11, <2>2, <2>3 DEF DagInv
<1>12. CASE s.joined /\ (node' = global_repair(s, p, dio) \/ node' = Candidate(s, p, dio))
  <2>1. Good(s)
    BY <1>5, <1>12 DEF Alone
  <2>2. PICK t, u : t = global_repair(s, p, dio) /\ u = Candidate(s, p, dio)
    OBVIOUS
  <2>3. Good(t) /\ Good(u)
    BY <2>1, <2>2, RepairGood, CandidateGood DEF Good
  <2> QED BY <1>12, <2>2, <2>3 DEF DagInv
<1> QED BY <1>2, <1>8, <1>9, <1>10, <1>11, <1>12, Zenon

LEMMA EvictedInv ==
  ASSUME DagInv, NEW p \in Nbrs, Evicted(p)
  PROVE  DagInv'
<1>1. node.par[p].in /\ p # node.pref
  BY DEF Evicted
<1>2. Good(node) /\ node \in DagRecords
  BY <1>1 DEF DagInv, Alone, Good, Clean, Loose
<1>3. PICK s, t : s = NbrRemoved(node, p) /\ t = rpl_remove_parent(s, p)
  OBVIOUS
<1>4. Good(s) /\ s.pref = node.pref
  <2>1. Noted(s, node)
    BY <1>2, <1>3, NbrRmNoted
  <2>2. Good(s)
    BY <1>2, <2>1, NotedInv
  <2> HIDE DEF Paths, PathsKnown
  <2> QED BY <2>1, <2>2 DEF Noted
<1>5. Clean(t) /\ t.pref = s.pref
  BY <1>1, <1>3, <1>4, RemoveClean DEF Good
<1>6. Good(t)
  <2>1. CASE s.pref = 0
    BY <1>5, <2>1 DEF Good, RankBut
  <2>2. CASE s.pref # 0
    <3>1. rpl_nullify_parent(s, p) = s
      BY <1>1, <1>4, <2>2, Zenon DEF rpl_nullify_parent
    <3>2. t = [s EXCEPT !.par[p].in = FALSE]
      BY <1>3, <3>1, Zenon DEF rpl_remove_parent
    <3>3. t.rank = s.rank /\ t.par[s.pref] = s.par[s.pref]
      <4>1. s \in DagRecords
        BY <1>4 DEF Good, Clean, Loose
      <4> QED BY <1>1, <1>4, <2>2, <3>2, <4>1 DEF DagRecords, Nbrs
    <3>4. calculate_rank(t, t.pref) = calculate_rank(s, s.pref)
      BY <1>5, <3>3, SameRank
    <3> QED BY <1>4, <1>5, <3>3, <3>4 DEF Good, RankBut
  <2> QED BY <2>1, <2>2
<1>7. node' = t
  BY <1>3, Zenon DEF Evicted
<1> QED BY <1>6, <1>7 DEF DagInv

LEMMA SetRootInv ==
  ASSUME DagInv, rpl_set_root
  PROVE  DagInv'
<1>1. Alone(node)
  BY DEF DagInv, rpl_set_root, Good, Clean, Loose
<1>2. PICK r \in Int, v \in Int, j \in BOOLEAN : r = RootRank /\ v = LolMax - LolWindow + 1 /\ j = TRUE
  <2>1. RootRank \in Int /\ LolMax - LolWindow + 1 \in Int
    BY DagAssumption
  <2> QED BY <2>1
<1>3. node' = [node EXCEPT !.joined = j, !.rank = r, !.version = v]
  BY <1>2, Zenon DEF rpl_set_root
<1>4. /\ node' \in DagRecords /\ node'.joined = TRUE /\ node'.pref = 0 /\ node'.defRoute = 0
      /\ Paths(node') = {} /\ node'.routers = {}
  BY <1>1, <1>2, <1>3 DEF Alone, DagRecords
<1>5. PICK t : t = node'
  OBVIOUS
<1>6. Good(t)
  BY <1>4, <1>5 DEF Good, Clean, Loose, RankBut
<1> QED BY <1>5, <1>6 DEF DagInv

LEMMA DagNextInv == DagInv /\ [DagNext]_node => DagInv'
<1> SUFFICES ASSUME DagInv, [DagNext]_node PROVE DagInv'
  OBVIOUS
<1>1. node \in DagRecords
  BY DEF DagInv, Good, Clean, Loose, Alone
<1>2. ASSUME NEW t, node' = t, Noted(t, node) PROVE DagInv'
  <2>1. Good(t) \/ Alone(t)
    BY <1>2, NotedInv DEF DagInv
  <2> QED BY <1>2, <2>1 DEF DagInv
<1>3. ASSUME NEW p \in Nbrs, NEW dio \in Dios, dio_input(p, dio) PROVE DagInv'
  BY <1>3, DioInv
<1>4. CASE rpl_set_root
  BY <1>4, SetRootInv
<1>5. CASE rpl_repair_root
  <2>1. PICK v \in Int : v = Increment(node.version)
    <3>1. Increment(node.version) \in Int
      <4>1. node.version \in Int /\ LolMax \in Nat /\ LolCircular \in Nat
        BY <1>1, DagAssumption DEF DagRecords
      <4> QED BY <4>1 DEF Increment
    <3> QED BY <3>1
  <2>2. PICK t : t = [node EXCEPT !.version = v]
    OBVIOUS
  <2>3. node' = t
    BY <1>5, <2>1, <2>2, Zenon DEF rpl_repair_root
  <2> QED BY <1>1, <1>2, <2>2, <2>3, VersionNoted
<1>6. ASSUME NEW p \in Nbrs, NEW m \in Metrics, rpl_link_neighbor_callback(p, m) PROVE DagInv'
  <2>1. node.par[p] \in ParentRecords /\ m \in Nat
    BY <1>1, DagAssumption DEF DagRecords
  <2>f. PICK f \in BOOLEAN, v \in BOOLEAN, q \in ParentRecords, i \in Nat :
            f = FALSE /\ v = TRUE /\ q = node.par[p] /\ i = InfiniteRank
    BY <2>1, DagAssumption
  <2>d. PICK e : e = [q EXCEPT !.updated = v, !.metric = m]
    OBVIOUS
  <2>e. e \in ParentRecords /\ e = [node.par[p] EXCEPT !.updated = TRUE, !.metric = m] /\ e.in = node.par[p].in
        /\ e.nbr = node.par[p].nbr /\ e.updated = TRUE
    <3>1. IsEntry(e, q) /\ e.updated = v
      BY <2>1, <2>d DEF IsEntry, ParentRecords
    <3> QED BY <2>f, <2>d, <3>1, Zenon DEF IsEntry
  <2>3. node' = [node EXCEPT !.par[p] = e]
    BY <1>6, <2>e DEF rpl_link_neighbor_callback
  <2> QED BY <1>1, <1>2, <2>e, <2>3, EntryNoted
<1>7. ASSUME NEW p \in Nbrs, NeighborComes(p) \/ NeighborGoes(p) PROVE DagInv'
  <2>1. PICK t, u : t = NbrAdded(node, p) /\ u = NbrRemoved(node, p)
    OBVIOUS
  <2>2. Noted(t, node) /\ Noted(u, node) /\ (node' = t \/ node' = u)
    BY <1>1, <1>7, <2>1, NbrAddNoted, NbrRmNoted DEF NeighborComes, NeighborGoes
  <2> QED BY <1>2, <2>2
<1>8. ASSUME NEW p \in Nbrs, LoopDetected(p) PROVE DagInv'
  <2>1. node.par[p] \in ParentRecords
    BY <1>1 DEF DagRecords
  <2>f. PICK f \in BOOLEAN, v \in BOOLEAN, q \in ParentRecords, i \in Nat :
            f = FALSE /\ v = TRUE /\ q = node.par[p] /\ i = InfiniteRank
    BY <2>1, DagAssumption
  <2>d. PICK e : e = [q EXCEPT !.rank = i, !.updated = v]
    OBVIOUS
  <2>e. e \in ParentRecords /\ e = [node.par[p] EXCEPT !.rank = InfiniteRank, !.updated = TRUE] /\ e.in = node.par[p].in
        /\ e.nbr = node.par[p].nbr /\ e.updated = TRUE
    <3>1. IsEntry(e, q) /\ e.updated = v
      BY <2>1, <2>d DEF IsEntry, ParentRecords
    <3> QED BY <2>f, <2>d, <3>1, Zenon DEF IsEntry
  <2>3. node' = [node EXCEPT !.par[p] = e]
    BY <1>8, <2>e DEF LoopDetected
  <2> QED BY <1>1, <1>2, <2>e, <2>3, EntryNoted
<1>9. ASSUME NEW p \in Nbrs, Evicted(p) PROVE DagInv'
  BY <1>9, EvictedInv
<1>10. CASE rpl_recalculate_ranks
  <2>1. Good(node)
    BY <1>10 DEF rpl_recalculate_ranks, DagInv, Alone
  <2>2. PICK t : t = EachParent(Recalculated, node)
    OBVIOUS
  <2>3. Good(t)
    BY <2>1, <2>2, RecalculateAllGood
  <2>4. node' = t
    BY <1>10, <2>2, Zenon DEF rpl_recalculate_ranks
  <2> QED BY <2>3, <2>4 DEF DagInv
<1>11. CASE handle_dao_timer
  <2>1. PICK s : s = Announced(node, node.pref)
    OBVIOUS
  <2>2. PICK t : t = [s EXCEPT !.daoTimer = FALSE]
    OBVIOUS
  <2>3. node.pref # 0 => node.pref \in Nbrs
    BY <1>1 DEF DagRecords, Nbrs
  <2>4. Noted(s, node)
    <3>1. CASE Reachable(node, node.pref)
      <4>1. PICK a, b \in SUBSET Nbrs : a = node.told \union {node.pref} /\ b = node.lost \ {node.pref}
        BY <1>1, <2>3, <3>1 DEF DagRecords, Reachable
      <4>2. s = [node EXCEPT !.told = a, !.lost = b]
        BY <2>1, <3>1, <4>1 DEF Announced
      <4>3. /\ s \in DagRecords /\ SameFields(s, node, {"told"}) /\ s.told = a /\ s.lost = b
        BY <1>1, <4>2 DEF DagRecords, SameFields
      <4>4. Paths(s) = Paths(node) \union {node.pref} /\ node.par[node.pref].nbr = TRUE
        BY <1>1, <2>3, <3>1, <4>1, <4>3 DEF Reachable, DagRecords, ParentRecords
      <4>5. PathsKnown(node) => PathsKnown(s)
        BY <4>3, <4>4 DEF SameFields
      <4> HIDE DEF Paths, PathsKnown
      <4> QED BY <4>3, <4>4, <4>5 DEF Noted, SameFields
    <3>2. CASE ~Reachable(node, node.pref)
      <4>1. s = node
        BY <2>1, <3>2 DEF Announced
      <4> QED BY <1>1, <4>1 DEF Noted
    <3> QED BY <3>1, <3>2
  <2>5. Noted(t, node)
    BY <2>2, <2>4 DEF Noted, DagRecords
  <2>6. node' = t
    BY <1>11, <2>1, <2>2, Zenon DEF handle_dao_timer
  <2> QED BY <1>2, <2>5, <2>6
<1>12. CASE RouteExpires
  <2>1. PICK rs \in SUBSET Nbrs : rs = {}
    OBVIOUS
  <2>2. PICK t : t = [node EXCEPT !.routers = rs]
    OBVIOUS
  <2>3. Noted(t, node)
    BY <1>1, <2>1, <2>2 DEF Noted, DagRecords
  <2>4. node' = t
    BY <1>12, <2>1, <2>2, Zenon DEF RouteExpires
  <2> QED BY <1>2, <2>3, <2>4
<1>13. CASE UNCHANGED node
  BY <1>13 DEF DagInv, Good, Clean, Loose, RankBut, Alone, calculate_rank
<1> QED BY <1>3, <1>4, <1>5, <1>6, <1>7, <1>8, <1>9, <1>10, <1>11, <1>12, <1>13 DEF DagNext

LEMMA DagInitInv == DagInit => DagInv
<1> SUFFICES ASSUME DagInit PROVE Alone(node)
  BY DEF DagInv
<1>1. NotParent \in ParentRecords /\ NotParent.in = FALSE
  BY DEF NotParent, ParentRecords
<1>2. 0 \in 0..NumParents /\ InfiniteRank \in Int
  BY DagAssumption
<1> QED BY <1>1, <1>2 DEF DagInit, Alone, DagRecords

HIDE DEF Paths, PathsKnown

\* What the node told its neighbours, its default route and its rank agree with its
\* preferred parent (rpl-dag.c), for any number of parents, any DIOs they send, any link
\* metrics and ranks, and whatever is recalculated, repaired, evicted or lost; only a
\* neighbour that left the neighbour cache after it was told may keep a path.
THEOREM ParentsStayAttached == Spec => []AttachedOnce
<1>1. Init => DagInv
  BY DagInitInv DEF Init
<1>2. DagInv /\ [Next]_vars => DagInv'
  BY DagUnit, DagNextInv
<1> QED BY <1>1, <1>2, DagInvAttached, PTL DEF Spec

-----------------------------------------------------------------------------
\* The connection that MCIp6 runs is that of Tcp6Spec, about which Contiki6Proofs has its
\* theorems (uip_process of uip6.c).
THEOREM TcpRuns == Spec => Tcp6Spec
<1>1. Init => Tcp6Init
  BY DEF Init
<1>2. [Next]_vars => [Tcp6Next]_tcp6Vars
  BY DEF Next, vars, PacketNext, TableNext, RplNext
<1> QED BY <1>1, <1>2, PTL DEF Spec, Tcp6Spec
=============================================================================
