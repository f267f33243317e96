---------------------------- MODULE Ds6Addresses ----------------------------
(***************************************************************************)
(* uip-ds6.c: the addresses, prefixes and multicast groups of the IPv6     *)
(* interface, with the messages of uip-nd6.c that change them: duplicate   *)
(* address detection, the prefixes that routers advertise, and the         *)
(* solicitation of routers.  A host; periodic passes are one unit of time  *)
(* apart.                                                                  *)
(***************************************************************************)
EXTENDS Integers, Sequences, FiniteSets, FiniteSetsExt

CONSTANTS Nets,           \* advertised prefixes; an address is named by its prefix
          AddrNb,         \* UIP_DS6_ADDR_NB
          PrefixNb,       \* UIP_DS6_PREFIX_NB
          MaxDadNs,       \* UIP_ND6_DEF_MAXDADNS
          MaxRs,          \* UIP_ND6_MAX_RTR_SOLICITATIONS
          TwoHours,       \* the 2 * 60 * 60 of uip_nd6_ra_input, in passes
          Validlts,       \* valid lifetimes that are advertised
          DadRetrans,     \* retrans_timer, in passes
          MaxClaims       \* bound: claims of a tentative address by other nodes

LinkLocal == "link_local"
Unspecified == "unspecified"    \* the unspecified address

ASSUME DsAssumption ==
  /\ LinkLocal \notin Nets /\ Unspecified \notin Nets
  /\ {AddrNb, PrefixNb, MaxDadNs, MaxRs, TwoHours, DadRetrans, MaxClaims} \subseteq Nat /\ AddrNb > 0
  /\ Validlts \subseteq Nat

AllNodes == "all_nodes"
Solicited == "solicited_node"   \* the same for all addresses: they share the interface id
Infinite == -1                  \* UIP_ND6_INFINITE_LIFETIME
Free == [used |-> FALSE]

VARIABLES
  addr_list, prefix_list, maddr_list,
  rscount, rsTimer, haveRouter,
  conflict,                     \* history: addresses claimed by another node while tentative
  claims                        \* bound

dsVars == <<addr_list, prefix_list, maddr_list, rscount, rsTimer, haveRouter, conflict, claims>>

NewAddr(ip, life) ==
  [used |-> TRUE, ip |-> ip, life |-> life, st |-> "TENTATIVE", dad |-> 0, timer |-> 0]
NewPrefix(net, life) == [used |-> TRUE, net |-> net, life |-> life]

\* uip_ds6_init
DsInit ==
  /\ addr_list = [s \in 1 .. AddrNb |-> IF s = AddrNb THEN NewAddr(LinkLocal, Infinite) ELSE Free]
  /\ prefix_list = [s \in 1 .. PrefixNb |-> IF s = PrefixNb THEN NewPrefix(LinkLocal, Infinite) ELSE Free]
  /\ maddr_list = {Solicited, AllNodes}
  /\ rscount = 0 /\ rsTimer = TRUE /\ haveRouter = FALSE /\ conflict = {} /\ claims = 0

\* uip_ds6_list_loop: the element that is found, or the last one that is free.
AddrSlot(ip) == {s \in DOMAIN addr_list : addr_list[s].used /\ addr_list[s].ip = ip}
PrefixSlot(net) == {s \in DOMAIN prefix_list : prefix_list[s].used /\ prefix_list[s].net = net}
FreeOf(list) == {s \in DOMAIN list : ~list[s].used}

AddrState(ip) == IF AddrSlot(ip) = {} THEN "none" ELSE addr_list[Max(AddrSlot(ip))].st

\* uip_ds6_maddr_add and uip_ds6_maddr_rm.
MaddrAdded(g) == maddr_list' = maddr_list \cup {g}
MaddrRemoved(g) == maddr_list' = maddr_list \ {g}

\* uip_ds6_addr_add, when the address is not there; nothing happens without space.
AddrAdd(ip, life) ==
  IF FreeOf(addr_list) = {} THEN UNCHANGED <<addr_list, maddr_list, conflict>>
  ELSE /\ addr_list' = [addr_list EXCEPT ![Max(FreeOf(addr_list))] = NewAddr(ip, life)]
       /\ MaddrAdded(Solicited)
       /\ conflict' = conflict \ {ip}

\* uip_ds6_addr_rm leaves the group, which other addresses may share.
AddrRm(S) ==
  /\ addr_list' = [s \in DOMAIN addr_list |-> IF s \in S THEN Free ELSE addr_list[s]]
  /\ IF S = {} THEN UNCHANGED maddr_list ELSE MaddrRemoved(Solicited)

-----------------------------------------------------------------------------
(* Duplicate address detection. *)

\* Slip: every address stays.
DadIgnored(ip) == UNCHANGED <<addr_list, maddr_list>>
\* A link-local address stays.
uip_ds6_dad_failed(ip) ==
  IF ip = LinkLocal THEN UNCHANGED <<addr_list, maddr_list>> ELSE AddrRm(AddrSlot(ip))

\* uip_nd6_ns_input with an unspecified source, and uip_nd6_na_input: another node has,
\* or is about to have, the address.
DuplicateSeen(ip) ==
  /\ AddrState(ip) = "TENTATIVE" /\ conflict' = conflict \cup {ip}
  /\ claims < MaxClaims /\ claims' = claims + 1
  /\ uip_ds6_dad_failed(ip)
  /\ UNCHANGED <<prefix_list, rscount, rsTimer, haveRouter>>

-----------------------------------------------------------------------------
(* A prefix option of uip_nd6_ra_input. *)

\* The on-link flag: Infinite and 0 are told apart from other lifetimes.
OnLink(net, validlt) ==
  LET s == PrefixSlot(net)
  IN  prefix_list' =
        IF s # {} THEN [prefix_list EXCEPT ![Max(s)] = IF validlt = 0 THEN Free ELSE NewPrefix(net, validlt)]
        ELSE IF validlt # 0 /\ FreeOf(prefix_list) # {}
          THEN [prefix_list EXCEPT ![Max(FreeOf(prefix_list))] = NewPrefix(net, validlt)]
        ELSE prefix_list

RenewedLife(old, validlt) ==
  IF validlt = Infinite THEN Infinite
  ELSE IF validlt > TwoHours \/ (old # Infinite /\ validlt > old) THEN validlt
  ELSE TwoHours

\* The autonomous flag.
Autonomous(net, validlt) ==
  IF AddrSlot(net) # {}
    THEN /\ addr_list' = [addr_list EXCEPT ![Max(AddrSlot(net))].life = RenewedLife(@, validlt)]
         /\ UNCHANGED <<maddr_list, conflict>>
    ELSE AddrAdd(net, validlt)

PrefixOption(net, onlink, auto, validlt) ==
  /\ IF onlink THEN OnLink(net, validlt) ELSE UNCHANGED prefix_list
  /\ IF auto /\ validlt # 0 THEN Autonomous(net, validlt) ELSE UNCHANGED <<addr_list, maddr_list, conflict>>
  /\ UNCHANGED <<rscount, rsTimer, haveRouter, claims>>

-----------------------------------------------------------------------------
(* Timers. *)

Aged(n) == IF n > 0 THEN n - 1 ELSE n
Expired(e) == e.used /\ e.life = 0

DadDue(s) ==
  LET a == addr_list[s]
  IN  a.used /\ ~Expired(a) /\ a.st = "TENTATIVE" /\ a.dad <= MaxDadNs /\ a.timer = 0
\* The first solicitation of a pass fills the buffer, and what comes after it waits.
DadProbes == {s \in DOMAIN addr_list : DadDue(s) /\ addr_list[s].dad < MaxDadNs}
BeforeProbe(s) == \A t \in DadProbes : s <= t

\* Slip: one solicitation too many.
DadOnceMore(a) ==
  IF a.dad <= MaxDadNs THEN [a EXCEPT !.dad = @ + 1, !.timer = DadRetrans] ELSE [a EXCEPT !.st = "PREFERRED"]
uip_ds6_dad(a) ==
  IF a.dad < MaxDadNs THEN [a EXCEPT !.dad = @ + 1, !.timer = DadRetrans] ELSE [a EXCEPT !.st = "PREFERRED"]

\* uip_ds6_periodic: addresses and prefixes.
DsPeriodic ==
  LET tick(a) == IF a.used THEN [a EXCEPT !.life = Aged(@), !.timer = Aged(@)] ELSE a
      gone == {s \in DOMAIN addr_list : Expired(addr_list[s])}
      pass(s) == IF s \in gone THEN Free
                 ELSE IF DadDue(s) /\ BeforeProbe(s) THEN tick(uip_ds6_dad(addr_list[s]))
                 ELSE tick(addr_list[s])
      age(p) == IF Expired(p) THEN Free ELSE IF p.used THEN [p EXCEPT !.life = Aged(@)] ELSE p
  IN  /\ addr_list' = [s \in DOMAIN addr_list |-> pass(s)]
      /\ IF gone = {} THEN UNCHANGED maddr_list ELSE MaddrRemoved(Solicited)
      /\ prefix_list' = [s \in DOMAIN prefix_list |-> age(prefix_list[s])]
      /\ UNCHANGED <<rscount, rsTimer, haveRouter, conflict, claims>>

\* uip_ds6_send_rs, when its timer expires; it stops itself in the end.
uip_ds6_send_rs ==
  /\ rsTimer
  /\ IF ~haveRouter /\ rscount < MaxRs THEN rscount' = rscount + 1 /\ UNCHANGED rsTimer
     ELSE rsTimer' = FALSE /\ UNCHANGED rscount
  /\ UNCHANGED <<addr_list, prefix_list, maddr_list, haveRouter, conflict, claims>>

RouterComesOrGoes ==
  haveRouter' = ~haveRouter /\ UNCHANGED <<addr_list, prefix_list, maddr_list, rscount, rsTimer, conflict, claims>>

DsNext ==
  \/ \E ip \in Nets \cup {LinkLocal} : DuplicateSeen(ip)
  \/ \E net \in Nets, onlink, auto \in BOOLEAN, v \in Validlts \cup {Infinite} : PrefixOption(net, onlink, auto, v)
  \/ DsPeriodic \/ uip_ds6_send_rs \/ RouterComesOrGoes

-----------------------------------------------------------------------------
(* The source address of what the host sends. *)

\* get_match_length: whether the addresses have their prefix in common.
get_match_length(dst, ip) == IF dst = ip THEN 1 ELSE 0

\* uip_ds6_select_src: the last of the preferred addresses that match best.
uip_ds6_select_src(dst) ==
  LET preferred == {s \in DOMAIN addr_list : /\ addr_list[s].used /\ addr_list[s].st = "PREFERRED"
                                             /\ (addr_list[s].ip = LinkLocal <=> dst = LinkLocal)}
      match(s) == get_match_length(dst, addr_list[s].ip)
      best == {s \in preferred : \A t \in preferred : match(t) <= match(s)}
  IN  IF best = {} THEN Unspecified ELSE addr_list[Max(best)].ip

\* Nothing leaves from a global address that another node claimed while it was tentative,
\* whatever the destination (uip_ds6_dad_failed, uip_ds6_dad, uip_ds6_select_src).
NoDuplicateUse == \A dst \in Nets \cup {LinkLocal} : uip_ds6_select_src(dst) \notin Nets \cap conflict
=============================================================================
