------------------------------ MODULE PacketQueue ------------------------------
(***************************************************************************)
(* Packets that wait for address resolution: xtcpip_ipv6_output of         *)
(* uip_server_support.c with UIP_CONF_IPV6_QUEUE_PKT, uip-packetqueue.c,   *)
(* the memory blocks of memb.c behind it, and the calls of uip-ds6-nbr.c   *)
(* and uip-nd6.c.  The option is off in the default build.                 *)
(* An unresolved neighbour has the null key of nbr-table.c: a second one   *)
(* takes over its entry, without the callback that frees the packet.       *)
(***************************************************************************)
EXTENDS Integers, FiniteSets, SequencesExt

CONSTANTS Hops,       \* addresses of next hops
          NbrEntries, \* entries of the neighbour table
          MaxQueued   \* MAX_NUM_QUEUED_PACKETS

ASSUME PqAssumption == NbrEntries \in Nat \ {0} /\ MaxQueued \in Nat /\ "none" \notin Hops

VARIABLES hop,       \* entries: ip ("none": free), state, packet (a block, 0: NULL)
          age,       \* the entries in the order they were made
          memb,      \* count of each block
          lifetimer, \* each block's ctimer: the entry it was set for, 0 when not running
          queued,    \* the next hop of the packet in each block
          sentTo     \* the last packet sent: its next hop, the neighbour it went to

pqVars == <<hop, age, memb, lifetimer, queued, sentTo>>

HS == 1..NbrEntries
MB == 1..MaxQueued
NoHop == [ip |-> "none", state |-> "none", packet |-> 0]

PqInit == /\ hop = [s \in HS |-> NoHop] /\ age = <<>>
          /\ memb = [b \in MB |-> 0] /\ lifetimer = [b \in MB |-> 0]
          /\ queued = [b \in MB |-> "none"]
          /\ sentTo = [for |-> "none", to |-> "none"]

EntryFor(ip) == {s \in HS : hop[s].ip = ip}

\* memb_alloc: the first block that is not used, 0 when there is none.
memb_alloc(m) == IF \A b \in MB : m[b] > 0 THEN 0
                 ELSE CHOOSE b \in MB : m[b] = 0 /\ \A a \in MB : m[a] = 0 => b <= a
memb_free(b) == IF b = 0 THEN memb ELSE [memb EXCEPT ![b] = IF @ > 0 THEN @ - 1 ELSE 0]

\* uip_packetqueue_alloc and the copy of the packet, for entry s of hops h,
\* with blocks m and timers t.
Queue(h, s, ip, m, t) ==
    LET b == IF h[s].packet = 0 THEN memb_alloc(m) ELSE 0
    IN  IF b = 0 THEN hop' = h /\ memb' = m /\ lifetimer' = t /\ UNCHANGED queued
        ELSE /\ hop' = [h EXCEPT ![s].packet = b]
             /\ memb' = [m EXCEPT ![b] = @ + 1]
             /\ lifetimer' = [t EXCEPT ![b] = s]
             /\ queued' = [queued EXCEPT ![b] = ip]

\* uip_packetqueue_free: the blocks and the timers after it.
FreedBlocks(s) == memb_free(hop[s].packet)
FreedTimers(s) == IF hop[s].packet = 0 THEN lifetimer ELSE [lifetimer EXCEPT ![hop[s].packet] = 0]
uip_packetqueue_free(s) == memb' = FreedBlocks(s) /\ lifetimer' = FreedTimers(s)

\* A slip: the handle keeps the block that was freed.
KeepsHandle(s) == hop
\* The handle after packet_timedout.
Emptied(s) == [hop EXCEPT ![s].packet = 0]
\* packet_timedout frees what the handle has now.
packet_timedout(b) ==
    LET s == lifetimer[b]
    IN  /\ s # 0
        /\ memb' = memb_free(hop[s].packet)
        /\ hop' = Emptied(s)
        /\ lifetimer' = [lifetimer EXCEPT ![b] = 0]
        /\ UNCHANGED <<age, queued, sentTo>>

-----------------------------------------------------------------------------
\* tcpip_ipv6_output for a next hop without an entry: uip_ds6_nbr_add with
\* the null key, the packet queued, a solicitation sent.
Incomplete == {s \in HS : hop[s].state = "incomplete"}
Made(s, ip) == [hop EXCEPT ![s] = [ip |-> ip, state |-> "incomplete", packet |-> 0]]
OutputUnknown(ip) ==
    /\ EntryFor(ip) = {} /\ UNCHANGED sentTo
    /\ \/ \E s \in Incomplete :   \* the entry of the null key is taken over
            Queue(Made(s, ip), s, ip, memb, lifetimer) /\ UNCHANGED age
       \/ \E s \in HS :
            /\ Incomplete = {} /\ hop[s].ip = "none"
            /\ Queue(Made(s, ip), s, ip, memb, lifetimer)
            /\ age' = Append(age, s)
       \/ LET s == Head(age)   \* the oldest is removed: Removal
          IN  /\ Incomplete = {} /\ \A e \in HS : hop[e].ip # "none"
              /\ Queue(Made(s, ip), s, ip, FreedBlocks(s), FreedTimers(s))
              /\ age' = Append(Tail(age), s)
OutputIncomplete(ip) ==
    \E s \in EntryFor(ip) :
        /\ hop[s].state = "incomplete"
        /\ Queue(hop, s, ip, memb, lifetimer) /\ UNCHANGED <<age, sentTo>>
\* A known neighbour gets the packet, and then the one that waits for it.
OutputKnown(ip) ==
    \E s \in EntryFor(ip) :
        /\ hop[s].state # "incomplete"
        /\ uip_packetqueue_free(s)
        /\ sentTo' = IF hop[s].packet # 0 THEN [for |-> queued[hop[s].packet], to |-> ip]
                     ELSE [for |-> ip, to |-> ip]
        /\ hop' = [hop EXCEPT ![s].packet = 0,
                     ![s].state = IF @ = "stale" THEN "delay" ELSE @]
        /\ UNCHANGED <<age, queued>>

\* An advertisement: the packet that waits goes out as the answer to it.
na_input(s) ==
    /\ hop[s].ip # "none"
    /\ uip_packetqueue_free(s)
    /\ sentTo' = IF hop[s].packet # 0 THEN [for |-> queued[hop[s].packet], to |-> hop[s].ip]
                 ELSE sentTo
    /\ hop' = [hop EXCEPT ![s].packet = 0, ![s].state = "reachable"]
    /\ UNCHANGED <<age, queued>>
\* A solicitation with the neighbour's address leaves the packet waiting.
ns_input(s) ==
    /\ hop[s].state = "incomplete"
    /\ hop' = [hop EXCEPT ![s].state = "stale"]
    /\ UNCHANGED <<age, memb, lifetimer, queued, sentTo>>
Removal(s) ==
    /\ hop[s].ip # "none"
    /\ uip_packetqueue_free(s)
    /\ hop' = [hop EXCEPT ![s] = NoHop] /\ age' = RemoveFirst(age, s)
    /\ UNCHANGED <<queued, sentTo>>

PqNext == \/ \E ip \in Hops : OutputUnknown(ip) \/ OutputIncomplete(ip) \/ OutputKnown(ip)
          \/ \E s \in HS : na_input(s) \/ ns_input(s) \/ Removal(s)
          \/ \E b \in MB : packet_timedout(b)

-----------------------------------------------------------------------------
\* A packet waits for one neighbour, in a block that is allocated, and goes
\* to the neighbour it waits for, though entries are taken over, evicted and
\* removed while packets wait and their timers run on.
QueuedOnce ==
    /\ \A s, t \in HS : (hop[s].packet # 0 /\ hop[t].packet = hop[s].packet) => s = t
    /\ \A s \in HS : hop[s].packet # 0 =>
         memb[hop[s].packet] = 1 /\ queued[hop[s].packet] = hop[s].ip
    /\ sentTo.for = sentTo.to
=============================================================================
