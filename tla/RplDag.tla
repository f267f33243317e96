-------------------------------- MODULE RplDag --------------------------------
(***************************************************************************)
(* One node of an RPL network with one DODAG: rpl-dag.c with the objective *)
(* function of rpl-mrhof.c, the DAO timer of rpl-timers.c and the          *)
(* neighbour callbacks of rpl.c.  RPL is off in the default build.         *)
(* The node's state is a record that the functions of rpl-dag.c transform: *)
(* they call one another, and a handler is one action.                     *)
(***************************************************************************)
EXTENDS Integers

CONSTANTS NumParents, \* neighbours that can be parents, in the order of rpl_parents
          Dios,       \* DIOs a neighbour sends: rank, version, known, fresh, whole
          Metrics,    \* values of link_metric; the least one is the initial value
          MinDiff,    \* RPL_DAG_MC_ETX_DIVISOR / PARENT_SWITCH_THRESHOLD_DIV
          RootRank, MaxRankInc, InfiniteRank,
          LolMax, LolCircular, LolWindow \* the lollipop counters

ASSUME DagAssumption ==
    /\ {NumParents, InfiniteRank, LolMax, LolCircular} \subseteq Nat
    /\ {MinDiff, RootRank, MaxRankInc, LolWindow} \subseteq Int
    /\ Metrics \subseteq Nat /\ Metrics # {}
    /\ Dios \subseteq [rank : Nat, version : Nat, known : BOOLEAN, fresh : BOOLEAN, whole : BOOLEAN]

VARIABLE node

Nbrs == 1..NumParents

NotParent == [in |-> FALSE, nbr |-> FALSE, rank |-> 0, metric |-> 0, updated |-> FALSE]

\* joined: the instance is used and its DAG joined; pref: preferred_parent, 0
\* for NULL, which is also the locked entry of rpl_parents; par: the entries of
\* rpl_parents (in), those whose neighbour is still in the neighbour cache
\* (nbr); told: the neighbours whose last DAO from this node announced a path;
\* lost: those of them that have left the neighbour cache since that DAO;
\* routers: the default routes in uip_ds6; defRoute: the one that
\* instance->def_route was set for.
DagInit == node = [joined |-> FALSE, rank |-> InfiniteRank, minRank |-> InfiniteRank,
                   version |-> 0, pref |-> 0, par |-> [p \in Nbrs |-> NotParent],
                   defRoute |-> 0, routers |-> {}, told |-> {}, lost |-> {}, daoTimer |-> FALSE]

-------------------------------------------------------------------------------
\* lollipop_greater_than and RPL_LOLLIPOP_INCREMENT.
Greater(a, b) ==
    IF a > LolCircular /\ b <= LolCircular THEN LolMax + 1 + b - a > LolWindow
    ELSE \/ a > b /\ a - b < LolWindow
         \/ a < b /\ b - a > LolCircular + 1 - LolWindow
Increment(v) == IF v > LolCircular THEN (v + 1) % (LolMax + 1) ELSE (v + 1) % (LolCircular + 1)

\* calculate_rank and calculate_path_metric of MRHOF; p = 0 is NULL.
calculate_rank(s, p) ==
    IF p = 0 \/ InfiniteRank - s.par[p].rank < s.par[p].metric THEN InfiniteRank
    ELSE s.par[p].rank + s.par[p].metric
PathMetric(s, p) == (s.par[p].rank + s.par[p].metric) % (InfiniteRank + 1)

\* best_parent: the preferred parent stays when the two are close.
best_parent(s, p, q) ==
    LET a == PathMetric(s, p)
        b == PathMetric(s, q)
    IN  IF s.pref \in {p, q} /\ a < b + MinDiff /\ a > b - MinDiff THEN s.pref
        ELSE IF a < b THEN p ELSE q

acceptable_rank(s, r) == r # InfiniteRank /\ (MaxRankInc = 0 \/ r <= s.minRank + MaxRankInc)

\* dao_output_target finds the parent's address in the neighbour cache; without
\* one it sends nothing.
Reachable(s, p) == p # 0 /\ s.par[p].nbr
\* dao_output to p with RPL_ZERO_LIFETIME, a No-Path DAO, and with the default
\* lifetime.
NoPath(s, p) ==
    IF Reachable(s, p) THEN [s EXCEPT !.told = @ \ {p}, !.lost = @ \ {p}] ELSE s
Announced(s, p) ==
    IF Reachable(s, p) THEN [s EXCEPT !.told = @ \union {p}, !.lost = @ \ {p}] ELSE s

\* uip_ds6_defrt_rm(instance->def_route), and rpl_set_default_route.
RouteRemoved(s) == [s EXCEPT !.routers = @ \ {s.defRoute}, !.defRoute = 0]
rpl_set_default_route(s, p) ==
    IF p = 0 THEN RouteRemoved(s)
    ELSE [RouteRemoved(s) EXCEPT !.routers = @ \union {p}, !.defRoute = p]

rpl_schedule_dao(s) == [s EXCEPT !.daoTimer = TRUE]

\* The entry of the preferred parent is the one that nbr_table keeps locked.
rpl_set_preferred_parent(s, p) == [s EXCEPT !.pref = p]

\* A slip: the parent goes and no No-Path DAO is sent.
Silently(s, p) == IF s.pref \notin {p, 0} THEN s
                  ELSE RouteRemoved([s EXCEPT !.pref = 0, !.rank = InfiniteRank])
\* rpl_nullify_parent; the joined flag matters with several DAGs only.
rpl_nullify_parent(s, p) ==
    IF s.pref \notin {p, 0} THEN s
    ELSE NoPath(RouteRemoved([rpl_set_preferred_parent(s, 0) EXCEPT !.rank = InfiniteRank]), p)
rpl_remove_parent(s, p) == [rpl_nullify_parent(s, p) EXCEPT !.par[p].in = FALSE]

\* F applied to each parent, in the order of the table.
EachParent(F(_, _), s) ==
    LET after[i \in 0..NumParents] ==
            IF i = 0 THEN s
            ELSE LET t == after[i - 1] IN IF t.par[i].in THEN F(t, i) ELSE t
    IN  after[NumParents]
remove_parents(s) == EachParent(rpl_remove_parent, s)
nullify_parents(s) == EachParent(rpl_nullify_parent, s)

InitialMetric == CHOOSE m \in Metrics : \A n \in Metrics : m <= n
\* rpl_add_parent: the entry is made anew, also when there was one.
rpl_add_parent(s, p, dio) ==
    [s EXCEPT !.par[p] = [in |-> TRUE, nbr |-> TRUE, rank |-> dio.rank,
                          metric |-> InitialMetric,
                          updated |-> FALSE]]

-------------------------------------------------------------------------------
\* rpl_select_parent: the best neighbour of the table, 0 for none.
rpl_select_parent(s) ==
    LET best[i \in 0..NumParents] ==
            IF i = 0 THEN 0
            ELSE LET b == best[i - 1]
                 IN  IF ~s.par[i].in \/ s.par[i].rank = InfiniteRank THEN b
                     ELSE IF b = 0 THEN i ELSE best_parent(s, b, i)
    IN  best[NumParents]

\* rpl_select_dag: the state after it; found is FALSE when it returns NULL.
rpl_select_dag(s) ==
    LET best == rpl_select_parent(s)
        rank == calculate_rank(s, best)
        lower == s.pref = 0 \/ rank < s.minRank
        t == [rpl_set_preferred_parent(s, best) EXCEPT !.rank = rank, !.minRank = IF lower THEN rank ELSE @]
        moved == rpl_schedule_dao(rpl_set_default_route(t, best))
    IN  IF best = 0 THEN [found |-> FALSE, s |-> s]
        ELSE IF ~lower /\ ~acceptable_rank(t, rank)
        THEN [found |-> FALSE, s |-> NoPath(rpl_set_preferred_parent(t, 0), s.pref)]
        ELSE [found |-> TRUE, s |-> IF best = s.pref THEN t ELSE NoPath(moved, s.pref)]

rpl_local_repair(s) == nullify_parents([s EXCEPT !.rank = InfiniteRank])

\* kept is the function's result.
rpl_process_parent_event(s, p) ==
    LET sel == rpl_select_dag(s)
    IN  IF ~acceptable_rank(s, s.par[p].rank) THEN [kept |-> FALSE, s |-> rpl_nullify_parent(s, p)]
        ELSE IF sel.found THEN [kept |-> TRUE, s |-> sel.s]
        ELSE [kept |-> FALSE, s |-> rpl_local_repair(sel.s)]

-------------------------------------------------------------------------------
\* rpl_join_instance; without a supported objective function it gives up.
rpl_join_instance(s, p, dio) ==
    LET t == rpl_add_parent(s, p, dio)
        r == calculate_rank(t, p)
        u == [rpl_set_preferred_parent(t, p) EXCEPT !.joined = TRUE, !.version = dio.version,
                                                    !.rank = r, !.minRank = r]
    IN  IF ~dio.known THEN [t EXCEPT !.par[p].in = FALSE]
        ELSE rpl_schedule_dao(rpl_set_default_route(u, p))

global_repair(s, p, dio) ==
    LET t == rpl_add_parent([remove_parents(s) EXCEPT !.version = dio.version], p, dio)
        r == calculate_rank(t, p)
    IN  rpl_process_parent_event([t EXCEPT !.rank = r, !.minRank = r], p).s

\* A DIO of the same version: its sender is a candidate parent.
Candidate(s, p, dio) ==
    LET t == IF s.par[p].in THEN [s EXCEPT !.par[p].rank = dio.rank] ELSE rpl_add_parent(s, p, dio)
        e == rpl_process_parent_event(t, p)
        u == IF dio.fresh THEN rpl_schedule_dao(e.s) ELSE e.s
    IN  IF e.kept /\ p = e.s.pref THEN [u EXCEPT !.routers = @ \union {p}] ELSE e.s

\* rpl_process_dio: dio.known: a supported objective function; dio.fresh: a
\* DTSN greater than the parent's last one.
rpl_process_dio(s, p, dio) ==
    LET isRoot == s.rank = RootRank
    IN  IF ~s.joined THEN rpl_join_instance(s, p, dio)
        ELSE IF Greater(dio.version, s.version)
        THEN IF isRoot THEN [s EXCEPT !.version = Increment(dio.version)]
             ELSE global_repair(s, p, dio)
        ELSE IF Greater(s.version, dio.version) \/ dio.rank < RootRank \/ isRoot THEN s
        ELSE Candidate(s, p, dio)

\* rpl_ipv6_neighbor_callback, which NbrAdded and NbrRemoved call for
\* every neighbour: a parent has to be looked at again.  No DAO is sent.
rpl_ipv6_neighbor_callback(s, p) ==
    IF s.joined /\ s.par[p].in
    THEN [s EXCEPT !.par[p] = [@ EXCEPT !.rank = InfiniteRank, !.updated = TRUE]] ELSE s
NbrAdded(s, p) ==
    IF s.par[p].nbr THEN s ELSE rpl_ipv6_neighbor_callback([s EXCEPT !.par[p].nbr = TRUE], p)
NbrRemoved(s, p) ==
    IF s.par[p].nbr
    THEN [rpl_ipv6_neighbor_callback(s, p) EXCEPT !.par[p].nbr = FALSE, !.lost = @ \union (s.told \cap {p})]
    ELSE s

\* dio_input: the sender is a neighbour from then on, also when an option of
\* the DIO is malformed (dio.whole is FALSE) and the rest is not looked at.
dio_input(p, dio) ==
    LET s == NbrAdded(node, p)
    IN  node' = IF dio.whole THEN rpl_process_dio(s, p, dio) ELSE s

\* Neighbour discovery adds a neighbour, or gives one up, the preferred parent too.
NeighborComes(p) == node' = NbrAdded(node, p)
NeighborGoes(p) == node' = NbrRemoved(node, p)

\* rpl_set_root, called before the node has joined, and rpl_repair_root.
rpl_set_root ==
    /\ ~node.joined
    /\ node' = [node EXCEPT !.joined = TRUE, !.rank = RootRank,
                            !.version = LolMax - LolWindow + 1]
rpl_repair_root == /\ node.joined /\ node.rank = RootRank
                   /\ node' = [node EXCEPT !.version = Increment(@)]

\* rpl_link_neighbor_callback with MRHOF's neighbor_link_callback.
rpl_link_neighbor_callback(p, m) ==
    /\ node.joined /\ node.par[p].in /\ node.par[p].nbr
    /\ node' = [node EXCEPT !.par[p] = [@ EXCEPT !.updated = TRUE, !.metric = m]]

\* dao_input from a node that should not be below this one.
LoopDetected(p) ==
    /\ node.joined /\ node.par[p].in /\ node.par[p].nbr
    /\ node.par[p].rank < node.rank \/ p = node.pref
    /\ node' = [node EXCEPT !.par[p] = [@ EXCEPT !.rank = InfiniteRank, !.updated = TRUE]]

Recalculated(s, p) ==
    IF s.par[p].updated THEN rpl_process_parent_event([s EXCEPT !.par[p].updated = FALSE], p).s
    ELSE s
\* handle_periodic_timer: rpl_recalculate_ranks.
rpl_recalculate_ranks ==
    /\ node.joined /\ \E p \in Nbrs : node.par[p].in /\ node.par[p].updated
    /\ node' = EachParent(Recalculated, node)

handle_dao_timer ==
    node.daoTimer /\ node' = [Announced(node, node.pref) EXCEPT !.daoTimer = FALSE]

\* uip_ds6_periodic: the lifetime of the default route ends.
RouteExpires == node.routers # {} /\ node' = [node EXCEPT !.routers = {}]

\* nbr_table makes room: an entry that is not locked goes, first from the
\* neighbour cache, then from the parents.
Evicted(p) == /\ node.par[p].in /\ p # node.pref
              /\ node' = rpl_remove_parent(NbrRemoved(node, p), p)

DagNext == \/ \E p \in Nbrs, dio \in Dios : dio_input(p, dio)
           \/ rpl_set_root \/ rpl_repair_root
           \/ \E p \in Nbrs, m \in Metrics : rpl_link_neighbor_callback(p, m)
           \/ \E p \in Nbrs : NeighborComes(p) \/ NeighborGoes(p) \/ LoopDetected(p) \/ Evicted(p)
           \/ rpl_recalculate_ranks \/ handle_dao_timer \/ RouteExpires

-------------------------------------------------------------------------------
\* What the node told its neighbours, its default route and the rank it
\* announces agree with its preferred parent, through repairs, expired routes,
\* detected loops and neighbours that come and go: no neighbour keeps a path to
\* a node that went elsewhere, but one that left the neighbour cache after it
\* was told (none is withdrawn from it, even when it is back); the node does
\* not send upwards through a neighbour it gave up, and its rank is the one its
\* parent gives it or rpl_recalculate_ranks is due.
AttachedOnce ==
    /\ (node.told \ node.lost) \union node.routers \subseteq {node.pref}
    /\ node.pref # 0 => \/ node.rank = calculate_rank(node, node.pref)
                        \/ node.par[node.pref].updated
===============================================================================
