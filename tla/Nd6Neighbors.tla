---------------------------- MODULE Nd6Neighbors ----------------------------
(***************************************************************************)
(* The neighbour cache of the IPv6 stack and the default routers:          *)
(* neighbour discovery messages as uip-nd6.c takes them in, the state      *)
(* changes of the output path in uip_server_support.c, and the periodic    *)
(* pass of uip-ds6-nbr.c and uip-ds6-route.c, one unit of time apart.      *)
(* This node has a preferred address of its own.                           *)
(***************************************************************************)
EXTENDS Integers, Sequences, FiniteSets, SequencesExt

CONSTANTS NbrIps,        \* IP addresses of neighbours
          NbrLls,        \* their link-layer addresses
          NbrSlots,      \* NBR_TABLE_MAX_NEIGHBORS
          DefrtNb,       \* UIP_DS6_DEFRT_NB
          MaxSolicit,    \* UIP_ND6_MAX_MULTICAST_SOLICIT and UIP_ND6_MAX_UNICAST_SOLICIT
          RetransTime, ReachableTime, DelayTime, RouterTime   \* in passes

ASSUME NudAssumption ==
  {NbrSlots, DefrtNb, MaxSolicit, RetransTime, ReachableTime, DelayTime, RouterTime} \subseteq Nat \ {0}

NoLl == "no_lladdr"
NoNbr == 0
NudSlots == 1 .. NbrSlots

VARIABLES
  cache,      \* the items of ds6_neighbors
  order,      \* the slots in the order of nbr_table_keys
  defrts,     \* defaultrouterlist
  nbr         \* the static pointer of uip-nd6.c

nudVars == <<cache, order, defrts, nbr>>

Empty == [ok |-> FALSE, ip |-> NoLl, ll |-> NoLl, st |-> "STALE", ns |-> 0, isrouter |-> FALSE,
          reachable |-> 0, sendns |-> 0]
Fresh(ip, l, st, isrouter) ==
  [Empty EXCEPT !.ok = TRUE, !.ip = ip, !.ll = l, !.st = st, !.isrouter = isrouter]

NudInit == cache = [k \in NudSlots |-> Empty] /\ order = <<>> /\ defrts = <<>> /\ nbr = NoNbr

\* The first neighbour of the list that is one of ks, as the loops find it.
FirstSlot(ks) ==
  LET s == SelectSeq(order, LAMBDA k : k \in ks) IN IF s = <<>> THEN NoNbr ELSE s[1]
Known(ip) == FirstSlot({k \in NudSlots : cache[k].ok /\ cache[k].ip = ip})

\* The slot of uip_ds6_nbr_add: that of the link-layer address, the null one included, a
\* new one, or the one that is invalid or else oldest.
SlotFor(l) ==
  LET same == FirstSlot({k \in NudSlots : cache[k].ll = l})
      dead == FirstSlot({k \in NudSlots : ~cache[k].ok})
  IN  IF same # NoNbr THEN same
      ELSE IF Len(order) < NbrSlots THEN Len(order) + 1
      ELSE IF dead # NoNbr THEN dead ELSE order[1]

NbrAdd(entry) ==
  LET k == SlotFor(entry.ll)
  IN  /\ cache' = [cache EXCEPT ![k] = entry]
      /\ order' = IF \E j \in ToSet(order) : cache[j].ll = entry.ll THEN order
                  ELSE Append(SelectSeq(order, LAMBDA x : x # k), k)

\* A default router taken off the list; the places of one in it.
DefrtWithout(ip) == SelectSeq(defrts, LAMBDA d : d.ip # ip)
DefrtOf(ip) == {i \in DOMAIN defrts : defrts[i].ip = ip}

-----------------------------------------------------------------------------
(* Output. *)

\* uip_ds6_defrt_choose: the first router whose neighbour is resolved, or else the last.
uip_ds6_defrt_choose ==
  LET good == SelectSeq(defrts, LAMBDA d : Known(d.ip) # NoNbr /\ cache[Known(d.ip)].st # "INCOMPLETE")
  IN  IF good # <<>> THEN good[1].ip ELSE IF defrts = <<>> THEN NoLl ELSE Last(defrts).ip

\* xtcpip_ipv6_output once the next hop is determined: a neighbour that is not known is
\* solicited, with the null link-layer address for its key.
SendTo(nexthop) ==
  LET k == Known(nexthop)
  IN  /\ IF k = NoNbr
           THEN NbrAdd([Fresh(nexthop, NoLl, "INCOMPLETE", FALSE) EXCEPT !.ns = 1, !.sendns = RetransTime])
           ELSE /\ cache[k].st = "STALE"
                /\ cache' = [cache EXCEPT ![k].st = "DELAY", ![k].reachable = DelayTime, ![k].ns = 0]
                /\ UNCHANGED order
      /\ UNCHANGED <<defrts, nbr>>
OnLinkOutput(ip) == SendTo(ip)
OffLinkOutput == defrts # <<>> /\ SendTo(uip_ds6_defrt_choose)

-----------------------------------------------------------------------------
(* Input. *)

\* Slip: the sender is looked up among the neighbours that are resolved.
KnownResolved(ip) == FirstSlot({k \in NudSlots : cache[k].ok /\ cache[k].ip = ip /\ cache[k].ll # NoLl})
Sender(src) == Known(src)

\* A solicitation or an advertisement of a router teaches the sender's link-layer address.
Learned(k, l, st) ==
  [cache EXCEPT ![k].ll = l,
                ![k].st = IF cache[k].ll # l \/ @ = "INCOMPLETE" THEN "STALE" ELSE @,
                ![k].isrouter = st \/ @]

\* uip_nd6_ns_input with a source link-layer address option.
uip_nd6_ns_input(src, l) ==
  LET k == Sender(src)
  IN  /\ nbr' = k
      /\ IF k = NoNbr THEN NbrAdd(Fresh(src, l, "STALE", FALSE))
         ELSE cache' = Learned(k, l, FALSE) /\ UNCHANGED order
      /\ UNCHANGED defrts

\* uip_nd6_ra_input.  Without the option nbr is what an earlier message left.
uip_nd6_ra_input(src, l, lifetime) ==
  LET k == IF l = NoLl THEN nbr ELSE IF Sender(src) = NoNbr THEN SlotFor(l) ELSE Sender(src)
  IN  /\ nbr' = k
      /\ IF l = NoLl
           THEN /\ cache' = IF nbr # NoNbr /\ lifetime > 0 THEN [cache EXCEPT ![nbr].isrouter = TRUE] ELSE cache
                /\ UNCHANGED order
           ELSE IF Sender(src) = NoNbr THEN NbrAdd(Fresh(src, l, "STALE", TRUE))
           ELSE cache' = Learned(k, l, TRUE) /\ UNCHANGED order
      /\ defrts' = IF lifetime = 0 THEN DefrtWithout(src)
                   ELSE IF DefrtOf(src) # {}
                     THEN [i \in DOMAIN defrts |-> IF defrts[i].ip = src THEN [defrts[i] EXCEPT !.life = lifetime] ELSE defrts[i]]
                   ELSE IF Len(defrts) < DefrtNb THEN <<[ip |-> src, life |-> lifetime]>> \o defrts
                   ELSE defrts

\* The entry after uip_nd6_na_input with link-layer address l (NoLl: no option).
\* Slip: an entry without a link-layer address becomes reachable too.
AdvertisedAnyhow(e, l, sol, ovr) ==
  [e EXCEPT !.st = IF sol THEN "REACHABLE" ELSE @, !.reachable = IF sol THEN ReachableTime ELSE @]
Advertised(e, l, sol, ovr) ==
  LET changed == l # NoLl /\ l # e.ll
      taken == [e EXCEPT !.ll = IF l # NoLl THEN l ELSE @]
  IN  IF e.st = "INCOMPLETE"
        THEN IF l = NoLl THEN e
             ELSE IF sol THEN [taken EXCEPT !.st = "REACHABLE", !.ns = 0, !.reachable = ReachableTime]
             ELSE [taken EXCEPT !.st = "STALE"]
      ELSE IF ~ovr /\ changed
        THEN [e EXCEPT !.st = IF @ = "REACHABLE" THEN "STALE" ELSE @]
      ELSE IF sol THEN [taken EXCEPT !.st = "REACHABLE", !.reachable = ReachableTime]
      ELSE [taken EXCEPT !.st = IF changed THEN "STALE" ELSE @]

\* The advertisement is passed over: no option for an incomplete entry, or another
\* link-layer address without the override flag.
PassedOver(e, l, ovr) ==
  IF e.st = "INCOMPLETE" THEN l = NoLl ELSE l # NoLl /\ l # e.ll /\ ~ovr

uip_nd6_na_input(tgt, src, l, sol, ovr, router) ==
  LET k == Known(tgt)
      e == cache[k]
      out == PassedOver(e, l, ovr)
  IN  /\ k # NoNbr /\ nbr' = k
      /\ cache' = [cache EXCEPT ![k] = [Advertised(e, l, sol, ovr) EXCEPT !.isrouter = IF out THEN @ ELSE router]]
      /\ defrts' = IF ~out /\ e.st # "INCOMPLETE" /\ e.isrouter /\ ~router THEN DefrtWithout(src) ELSE defrts
      /\ UNCHANGED order

-----------------------------------------------------------------------------
(* uip_ds6_neighbor_periodic and uip_ds6_defrt_periodic. *)

MaySolicit(n) == n < MaxSolicit
\* uip_len is not 0 any more once a solicitation is in the buffer: one is sent in a pass.
Solicitor ==
  FirstSlot({k \in NudSlots : cache[k].ok /\ cache[k].st \in {"INCOMPLETE", "PROBE"}
                /\ MaySolicit(cache[k].ns) /\ cache[k].sendns = 0})

Counted(n) == n + 1

Older(n) == IF n > 0 THEN n - 1 ELSE 0
Passed(k) ==
  LET e == cache[k]
      f == IF e.st = "REACHABLE" /\ e.reachable = 0 THEN [e EXCEPT !.st = "STALE"]
           ELSE IF e.st = "DELAY" /\ e.reachable = 0 THEN [e EXCEPT !.st = "PROBE", !.ns = 0, !.sendns = 0]
           ELSE IF e.st \in {"INCOMPLETE", "PROBE"} /\ ~MaySolicit(e.ns) THEN [e EXCEPT !.ok = FALSE]
           ELSE IF k = Solicitor THEN [e EXCEPT !.ns = Counted(@), !.sendns = RetransTime]
           ELSE e
  IN  IF e.ok THEN [f EXCEPT !.reachable = Older(@), !.sendns = Older(@)] ELSE e

\* The routers of neighbours that do not answer probes.
\* Slip: the default router stays.
DeadRoutersKept == {}
DeadRouters ==
  {cache[k].ip : k \in {k \in NudSlots : cache[k].ok /\ cache[k].st = "PROBE" /\ ~MaySolicit(cache[k].ns)}}

uip_ds6_periodic ==
  LET aged == [i \in DOMAIN defrts |-> [defrts[i] EXCEPT !.life = @ - 1]]
  IN  /\ cache' = [k \in NudSlots |-> Passed(k)]
      /\ defrts' = SelectSeq(aged, LAMBDA d : d.life > 0 /\ d.ip \notin DeadRouters)
      /\ UNCHANGED <<order, nbr>>

NudNext ==
  \/ \E ip \in NbrIps : OnLinkOutput(ip)
  \/ OffLinkOutput
  \/ \E ip \in NbrIps, l \in NbrLls : uip_nd6_ns_input(ip, l)
  \/ \E ip \in NbrIps, l \in NbrLls \cup {NoLl}, t \in {0, RouterTime} : uip_nd6_ra_input(ip, l, t)
  \/ \E ip \in NbrIps, l \in NbrLls \cup {NoLl}, sol, ovr, router \in BOOLEAN :
       uip_nd6_na_input(ip, ip, l, sol, ovr, router)
  \/ uip_ds6_periodic

-----------------------------------------------------------------------------
\* Packets go out to every neighbour that is not INCOMPLETE, so each of those has a
\* link-layer address, whichever message resolved it.
ResolvedHasLladdr == \A k \in NudSlots : cache[k].ok /\ cache[k].st # "INCOMPLETE" => cache[k].ll # NoLl

\* No two entries are for the same neighbour, although the null link-layer address is
\* shared and addresses are written into the keys.
OneEntryEach ==
  \A j, k \in NudSlots : cache[j].ok /\ cache[k].ok /\ cache[j].ip = cache[k].ip => j = k

\* A router that does not answer its probes is no default router any more in the step
\* that gives it up.
DeadRouterGoes ==
  [][\A k \in NudSlots : cache[k].ok /\ cache[k].st = "PROBE" /\ ~cache'[k].ok
       => \A i \in DOMAIN defrts' : defrts'[i].ip # cache[k].ip]_nudVars

\* The three together: a neighbour that packets are sent to is one that can be reached.
NeighboursUsable == [](ResolvedHasLladdr /\ OneEntryEach) /\ DeadRouterGoes
=============================================================================
