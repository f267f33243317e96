------------------------------- MODULE RplHeader -------------------------------
(***************************************************************************)
(* The RPL hop-by-hop option of a packet on its way through nodes whose    *)
(* ranks and routes need not be consistent: rpl-ext-header.c, called from  *)
(* uip6.c and uip_server_support.c.  RPL is off in the default build.      *)
(***************************************************************************)
EXTENDS Integers, Sequences

CONSTANTS NumNodes,    \* nodes 1..NumNodes, next hop 0 for none
          NodeRanks,   \* their ranks; the least one is the root's
          MaxHops      \* the hop limit

ASSUME HdrAssumption == NumNodes \in Nat /\ NodeRanks \subseteq Nat /\ MaxHops \in Nat

VARIABLES net,    \* each node's rank, preferred parent (up) and route (down)
          option, \* the packet's RPL option: down, rankErr, fwdErr, senderrank
          trail,  \* the nodes it visited; the last one has it
          flagged \* an inconsistency has been found

hdrVars == <<net, option, trail, flagged>>

HdrNodes == 1..NumNodes
Hops6 == {h \in [HdrNodes -> 0..NumNodes] : \A n \in HdrNodes : h[n] # n}

NoOption == [down |-> FALSE, rankErr |-> FALSE, fwdErr |-> FALSE, senderrank |-> 0]

HdrInit == net = <<>> /\ option = NoOption /\ trail = <<>> /\ flagged = FALSE

At == trail[Len(trail)]
\* xtcpip_ipv6_output: the route, or else the default route.
NextHop(n, d) == IF d[n] # 0 THEN d[n] ELSE net.up[n]

\* xtcpip_ipv6_output: the packet goes to the next hop or is dropped.
Forwarded(down, opt) ==
    LET next == NextHop(At, down)
    IN  IF next = 0 THEN trail' = <<>> /\ option' = NoOption
        ELSE trail' = Append(trail, next) /\ option' = opt

\* A slip: the option keeps the rank of the node that sent the packet first.
KeepsSender(opt, down) == [opt EXCEPT !.fwdErr = opt.fwdErr \/ (opt.down /\ down[At] = 0),
                                      !.down = opt.down \/ down[At] # 0]
\* rpl_update_header_empty: the option of a packet that node At forwards.
rpl_update_header_empty(opt, down) ==
    [down |-> opt.down \/ down[At] # 0, rankErr |-> opt.rankErr,
     fwdErr |-> opt.fwdErr \/ (opt.down /\ down[At] = 0), senderrank |-> net.rank[At]]

\* rpl_update_header_final: the option of a packet that has none yet.
rpl_update_header_final(n, next) ==
    [down |-> next # net'.up[n], rankErr |-> FALSE, fwdErr |-> FALSE, senderrank |-> net'.rank[n]]

\* Any node of any network sends a packet.
Originate(r, u, d, n) ==
    /\ trail = <<>> /\ net' = [rank |-> r, up |-> u, down |-> d]
    /\ LET next == IF d[n] # 0 THEN d[n] ELSE u[n]
       IN  /\ next # 0 /\ trail' = <<n, next>>
           /\ option' = rpl_update_header_final(n, next)
    /\ UNCHANGED flagged

\* rpl_verify_header, and the packet is forwarded.
rpl_verify_header ==
    LET closer == option.senderrank < net.rank[At]
        wrong == option.down # closer
        down == IF option.fwdErr THEN [net.down EXCEPT ![At] = 0] ELSE net.down
        opt == IF option.fwdErr THEN [option EXCEPT !.fwdErr = FALSE]
               ELSE [option EXCEPT !.rankErr = @ \/ wrong]
    IN  /\ trail # <<>> /\ Len(trail) < MaxHops
        /\ net' = [net EXCEPT !.down = down]
        /\ Forwarded(down, rpl_update_header_empty(opt, down))
        /\ flagged' = (flagged \/ option.fwdErr \/ wrong \/ option'.fwdErr)

HdrNext ==
    \/ /\ net = <<>>
       /\ \E r \in [HdrNodes -> NodeRanks], u, d \in Hops6, n \in HdrNodes : Originate(r, u, d, n)
    \/ rpl_verify_header

\* A packet that is caught in a loop is noticed before it has gone round
\* twice: rpl_verify_header finds a wrong rank or rpl_update_header_empty a
\* missing route on the way, whatever the ranks and the routes of the nodes
\* are.  Only a loop of nodes of one rank escapes.
LoopIsSeen ==
    \A i, j \in DOMAIN trail :
        (i < j /\ \E m \in i + 1..j - 1 : trail[i] = trail[m] /\ trail[m] = trail[j]) =>
            flagged \/ \A k, l \in i..j : net.rank[trail[k]] = net.rank[trail[l]]
================================================================================
