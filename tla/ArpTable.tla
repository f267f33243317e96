------------------------------- MODULE ArpTable ------------------------------
(***************************************************************************)
(* The ARP table of uip_arp.c: the mapping a host is reached by, its       *)
(* refreshment from requests and replies, its ageing by a clock that is    *)
(* one byte wide, and the choice of the entry to throw away.  An address   *)
(* of 0 marks an unused entry.                                             *)
(***************************************************************************)
EXTENDS Integers, Sequences

CONSTANTS ArpHosts,   \* the addresses of the local network, none is 0
          ArpMacs,    \* hardware addresses
          ArpSize,    \* UIP_ARPTAB_SIZE
          ArpMaxAge,  \* UIP_ARP_MAXAGE
          ArpWrap     \* 256: the clock is a u8_t

ASSUME ArpConsts == /\ 0 \notin ArpHosts /\ ArpSize \in Nat \ {0} /\ ArpWrap \in Nat
                    /\ ArpMaxAge \in 1..ArpWrap

VARIABLES arpTable, arptime,
          latest,   \* the hardware address last heard for each address
          since     \* how many ticks ago, counted without a wrap

arpVars == <<arpTable, arptime, latest, since>>

Entries == 1..ArpSize
MaxSince == ArpWrap + 1

ArpInit == /\ arpTable = [i \in Entries |-> [ip |-> 0, eth |-> "none", time |-> 0]]
           /\ arptime = 0
           /\ latest = [h \in ArpHosts |-> "none"]
           /\ since = [h \in ArpHosts |-> 0]

\* A slip: the age of an entry is compared one tick late.
AgeLate(i) == arptime' - arpTable[i].time - 1

\* The bytes are promoted to int before they are subtracted.
Age(i) == arptime' - arpTable[i].time
AgeNow(i) == arptime - arpTable[i].time

uip_arp_timer ==
    /\ arptime' = (arptime + 1) % ArpWrap
    /\ arpTable' = [i \in Entries |->
           IF arpTable[i].ip # 0 /\ Age(i) >= ArpMaxAge
           THEN [arpTable[i] EXCEPT !.ip = 0] ELSE arpTable[i]]
    /\ since' = [h \in ArpHosts |-> IF since[h] = MaxSince THEN MaxSince ELSE since[h] + 1]
    /\ UNCHANGED latest

\* The entry uip_arp_update fills: the one of the host, the first unused one,
\* or the oldest, which is the first entry when no age is positive.
OldestFrom(S) == IF \E i \in S : AgeNow(i) > 0
                 THEN CHOOSE i \in S : /\ \A j \in S : AgeNow(j) <= AgeNow(i)
                                       /\ \A j \in 1..(i - 1) : AgeNow(j) < AgeNow(i)
                 ELSE 1
FirstWith(ip) == CHOOSE i \in Entries : /\ arpTable[i].ip = ip
                                        /\ \A j \in 1..(i - 1) : arpTable[j].ip # ip
InTable(ip) == \E i \in Entries : arpTable[i].ip = ip

\* A slip: the entry of the host is not looked for.
NoSearch(ip) == IF InTable(0) THEN FirstWith(0) ELSE OldestFrom(Entries)
ArpPlace(ip) == IF InTable(ip) THEN FirstWith(ip)
                ELSE IF InTable(0) THEN FirstWith(0) ELSE OldestFrom(Entries)

uip_arp_update(ip, eth) ==
    /\ arpTable' = [arpTable EXCEPT ![ArpPlace(ip)] =
                      [ip |-> ip, eth |-> eth, time |-> arptime]]
    /\ latest' = [latest EXCEPT ![ip] = eth]
    /\ since' = [since EXCEPT ![ip] = 0]
    /\ UNCHANGED arptime

\* uip_arp_arpin takes the sender of a request or a reply that is for the
\* host's own address; what it answers to a request is left out.
uip_arp_arpin(ip, eth) == uip_arp_update(ip, eth)

\* uip_arp_out: the entry a datagram for ip is sent by, 0 for an ARP request.
uip_arp_out(ip) == IF InTable(ip) THEN FirstWith(ip) ELSE 0

ArpNext == uip_arp_timer \/ \E ip \in ArpHosts, eth \in ArpMacs : uip_arp_arpin(ip, eth)

-----------------------------------------------------------------------------
\* A datagram goes to the hardware address that was last heard for its
\* destination: no older entry of it is left in the table (uip_arp_update).
ReachedByLatest ==
    \A ip \in ArpHosts :
        LET i == uip_arp_out(ip) IN i # 0 => arpTable[i].eth = latest[ip]

\* An entry in use that the clock has not overtaken is no older than the
\* maximum age: it was heard, or refreshed, that recently (uip_arp_timer).
YoungOrWrapped ==
    \A i \in Entries : LET ip == arpTable[i].ip IN
        (ip # 0 /\ arpTable[i].time <= arptime /\ since[ip] < ArpWrap)
            => since[ip] < ArpMaxAge

\* Both: an address that is used is the host's latest, and recent.
ArpIsCurrent == ReachedByLatest /\ YoungOrWrapped
=============================================================================
