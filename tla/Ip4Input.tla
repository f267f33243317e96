------------------------------- MODULE Ip4Input -------------------------------
(***************************************************************************)
(* uip_process of the IPv4 stack's uip.c on a received packet, from the    *)
(* checks of the IP header to the protocols, with the ICMP echo, in the    *)
(* configuration of the build: broadcasts on, reassembly and ping address  *)
(* configuration off, with IGMP built in.                                  *)
(* A 16-bit word is two digits, as in memory; a little-endian machine      *)
(* reads the first one as the low one.                                     *)
(***************************************************************************)
EXTENDS Integers

CONSTANTS Digit,     \* the values of a byte
          EchoType,  \* ICMP_ECHO
          Ip4Packets \* [vhl, len, frag, dst, sum, proto, type, chk, rest]

ASSUME Ip4Consts ==
  /\ Digit \in Nat \ {0, 1} /\ EchoType \in 1..(Digit - 1)
  /\ \A p \in Ip4Packets : p.chk \in 0..(Digit * Digit - 1) /\ p.rest \in 0..(Digit * Digit - 1)

VARIABLES hostaddr,  \* uip_hostaddr: "none" (all zeroes) or "mine"
          groups4,   \* the groups of which igmp_check_addr knows
          packet4, sent4

in4Vars == <<hostaddr, groups4, packet4, sent4>>

Words == 0..(Digit * Digit - 1)
HTONS(w) == (w % Digit) * Digit + w \div Digit

Nothing4 == [what |-> "nothing", from |-> "none", to |-> "none", type |-> 0, chk |-> 0, rest |-> 0]
NoPacket4 == [vhl |-> FALSE, len |-> "whole", frag |-> FALSE, dst |-> "other", sum |-> FALSE,
              proto |-> "other", type |-> 0, chk |-> 0, rest |-> 0]

Ip4Init == /\ hostaddr \in {"none", "mine"} /\ groups4 = {}
           /\ packet4 = NoPacket4 /\ sent4 = Nothing4

\* dhcpc_configured, autoip_configured and uip_linkdown write uip_hostaddr.
Readdressed(a) == hostaddr' = a /\ UNCHANGED <<groups4, packet4, sent4>>
\* igmp_join_group and igmp_leave_group.
GroupsChange == groups4' = {"group"} \ groups4 /\ UNCHANGED <<hostaddr, packet4, sent4>>

-----------------------------------------------------------------------------
\* chksum and onesReduce: the sum of two words with its carries put back in.
Carried(s) == (s % (Digit * Digit)) + s \div (Digit * Digit)
onesReduce(s) == Carried(Carried(s))

\* The header is refused: version, the length of the frame, a fragment.
BadHeader4(p) == ~p.vhl \/ p.len = "short" \/ p.frag

\* UDP goes in by broadcast or to any group, and its header sum is not looked at.
Broadcast(p) == hostaddr # "none" /\ p.proto = "udp" /\ p.dst \in {"broadcast", "group", "other_group"}

\* Anything is for a host that has no address.
ForHost(p) == hostaddr \in {"none", p.dst} \/ p.dst \in groups4

\* A slip: the carry is not put back in.
NoCarry(chk) == (chk + HTONS(EchoType * Digit)) % (Digit * Digit)
\* The echo's checksum is changed by what its type is changed by.
EchoSum(chk) ==
  IF chk >= HTONS(Digit * Digit - 1 - EchoType * Digit)
  THEN (chk + HTONS(EchoType * Digit) + 1) % (Digit * Digit)
  ELSE (chk + HTONS(EchoType * Digit)) % (Digit * Digit)

\* ICMP: an echo is turned round in place, anything else is dropped.
IcmpInput(p) ==
  IF p.type # EchoType THEN Nothing4
  ELSE [what |-> "reply", from |-> hostaddr, to |-> "peer", type |-> 0, chk |-> EchoSum(p.chk), rest |-> p.rest]

Handed(what) == [Nothing4 EXCEPT !.what = what]
Receive4(p) ==
  /\ packet4' = p
  /\ sent4' = IF BadHeader4(p) THEN Nothing4
              ELSE IF Broadcast(p) THEN Handed("udp")
              ELSE IF ~ForHost(p) \/ ~p.sum THEN Nothing4
              ELSE IF p.proto \in {"tcp", "udp", "igmp"} THEN Handed(p.proto)
              ELSE IF p.proto = "icmp" THEN IcmpInput(p)
              ELSE Nothing4
  /\ UNCHANGED <<hostaddr, groups4>>

Ip4Next == \/ \E p \in Ip4Packets : Receive4(p)
           \/ GroupsChange \/ \E a \in {"none", "mine"} : Readdressed(a)

-----------------------------------------------------------------------------
\* An ICMP message is as its sender made it when its words add up to zero in
\* one's complement arithmetic, in whatever order its bytes are read.
Valid(type, chk, rest) == onesReduce(HTONS(type * Digit) + chk + rest) \in {0, Digit * Digit - 1}

\* An echo is answered by a message that is good exactly when the echo was,
\* for every checksum and through every carry (uip.c changes the checksum
\* without looking at the message), and what was damaged, cut or a fragment
\* reaches nobody but, with a bad header sum, the UDP connections that take
\* broadcasts.
EchoIsValid ==
  /\ sent4.what = "reply" =>
       (Valid(sent4.type, sent4.chk, sent4.rest) <=> Valid(packet4.type, packet4.chk, packet4.rest))
  /\ sent4.what # "nothing" =>
       /\ packet4.vhl /\ packet4.len # "short" /\ ~packet4.frag
       /\ packet4.sum \/ sent4.what = "udp"
===============================================================================
