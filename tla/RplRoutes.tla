------------------------------- MODULE RplRoutes -------------------------------
(***************************************************************************)
(* Downward routes of RPL's storing mode: dao_input and the DAO output of  *)
(* rpl-icmp6.c, rpl_add_route and rpl_purge_routes of rpl.c, and what      *)
(* uip_ds6_route_add does for a destination that it knows.  A leaf is      *)
(* below one of several routers, which are below the root; DAOs may be     *)
(* lost.  RPL is off in the default build.                                 *)
(***************************************************************************)
EXTENDS Integers, Sequences

CONSTANTS Routers,     \* the routers below the root
          LongLife,    \* RPL_LIFETIME of a DAO, in periods of the timer
          ShortLife,   \* DAO_EXPIRATION_TIMEOUT
          MaxInFlight  \* DAOs on the way on a link

VARIABLES above,  \* the leaf's preferred parent, "none" once it has died
          due,    \* the leaf's DAO timer runs
          route,  \* route to the leaf in each table: via, lifetime, nopath_received
          daos    \* DAOs on the way: from the leaf to a router, from it to the root

routesVars == <<above, due, route, daos>>

Tables == Routers \union {"root"}
Unrouted == [via |-> "none", lifetime |-> 0, nopath |-> FALSE]

RoutesInit == /\ above \in {CHOOSE r \in Routers : TRUE} /\ due = TRUE
              /\ route = [t \in Tables |-> Unrouted]
              /\ daos = [t \in Tables |-> <<>>]

\* dao_output_target: a message to table t from a node; ds is daos.
Sent(ds, t, from, lifetime) ==
    IF Len(ds[t]) >= MaxInFlight THEN ds
    ELSE [ds EXCEPT ![t] = Append(@, [from |-> from, lifetime |-> lifetime])]

\* A DIO with a new DTSN makes the DAO due (rpl_schedule_dao); handle_dao_timer.
NewDtsn == /\ above # "none" /\ ~due
                    /\ due' = TRUE /\ UNCHANGED <<above, route, daos>>
DaoTimer == /\ due /\ Len(daos[above]) < MaxInFlight
                    /\ due' = FALSE /\ daos' = Sent(daos, above, "leaf", LongLife)
                    /\ UNCHANGED <<above, route>>

\* The leaf's rpl_select_dag prefers another parent.
Moves(r) == /\ above \notin {"none", r} /\ above' = r
            /\ daos' = Sent(daos, above, "leaf", 0) /\ due' = TRUE /\ UNCHANGED route
Dies == /\ above # "none" /\ above' = "none" /\ due' = FALSE /\ UNCHANGED <<route, daos>>

DaoLost(t) == /\ daos[t] # <<>> /\ daos' = [daos EXCEPT ![t] = Tail(@)]
           /\ UNCHANGED <<above, due, route>>

\* dao_input at table t.  A route that is there keeps its next hop:
\* uip_ds6_route_add finds it and clears its state only.
dao_input(t) ==
    LET m == Head(daos[t])
        rest == [daos EXCEPT ![t] = Tail(@)]
        r == route[t]
        mine == r.via = m.from /\ ~r.nopath
    IN  /\ daos[t] # <<>> /\ UNCHANGED <<above, due>>
        /\ IF m.lifetime = 0
           THEN /\ daos' = rest
                /\ route' = IF mine THEN [route EXCEPT ![t].nopath = TRUE, ![t].lifetime = ShortLife]
                            ELSE route
           ELSE /\ daos' = IF t = "root" THEN rest ELSE Sent(rest, "root", t, m.lifetime)
                /\ route' = [route EXCEPT ![t] = [via |-> IF r.via = "none" THEN m.from ELSE r.via,
                                                  lifetime |-> m.lifetime, nopath |-> FALSE]]

\* A slip: a lifetime of 1 is not decremented.
StaysAtOne(n) == IF n > 1 THEN n - 1 ELSE n
LifetimeLeft(n) == IF n >= 1 THEN n - 1 ELSE n
\* rpl_purge_routes at table t; a router tells the root.
rpl_purge_routes(t) ==
    LET n == LifetimeLeft(route[t].lifetime)
    IN  /\ route[t] # Unrouted /\ UNCHANGED <<above, due>>
        /\ IF n < 1 THEN /\ route' = [route EXCEPT ![t] = Unrouted]
                         /\ daos' = IF t = "root" THEN daos ELSE Sent(daos, "root", t, 0)
           ELSE route' = [route EXCEPT ![t].lifetime = n] /\ UNCHANGED daos

RoutesNext == \/ NewDtsn \/ DaoTimer \/ Dies
              \/ \E r \in Routers : Moves(r)
              \/ \E t \in Tables : DaoLost(t) \/ dao_input(t) \/ rpl_purge_routes(t)

\* The routes to a node that is gone disappear from every table, whichever
\* DAOs and No-Path DAOs were lost: dao_input and rpl_purge_routes between
\* them leave no route that is not counted down.
DeadIsForgotten ==
    (above = "none") ~> (\A t \in Tables : route[t] = Unrouted)
================================================================================
