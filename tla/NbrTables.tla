----------------------------- MODULE NbrTables ------------------------------
(***************************************************************************)
(* net/nbr-table.c with two of its tables: ds6_neighbors (uip-ds6-nbr.c)   *)
(* and nbr_routes with the routes behind each neighbour (uip-ds6-route.c). *)
(* A third table, the RPL parents, is the one that locks neighbours.       *)
(* A neighbour is an index into all tables; used_map says in which of them *)
(* its item is valid.                                                      *)
(***************************************************************************)
EXTENDS Integers, Sequences, FiniteSets, SequencesExt, FiniteSetsExt

CONSTANTS MaxNeighbors,   \* NBR_TABLE_MAX_NEIGHBORS
          RouteNb,        \* UIP_DS6_ROUTE_NB
          Lladdrs,        \* link-layer addresses
          NextHops,       \* IP addresses of neighbours
          Dests           \* destinations: <<network, host or 0>>; 0 is the whole network

ASSUME NbrAssumption == MaxNeighbors \in Nat \ {0} /\ RouteNb \in Nat /\ <<>> \notin Dests

NullAddr == "rimeaddr_null"
NoKey == 0
NoRoute == 0
Keys == 1 .. MaxNeighbors
RouteIds == 1 .. RouteNb

VARIABLES
  nbr_table_keys,            \* the list: keys in the order they were added
  lladdr,                    \* of each key
  used_map, locked_map,      \* of each key: subsets of the tables
  nbrIp,                     \* the items of ds6_neighbors
  route_list,                \* the items of nbr_routes
  routes,                    \* the destination of each route; <<>> where it is free
  num_routes

nbrVars == <<nbr_table_keys, lladdr, used_map, locked_map, nbrIp, route_list, routes, num_routes>>

NbrInit ==
  /\ nbr_table_keys = <<>> /\ lladdr = [k \in Keys |-> NullAddr]
  /\ used_map = [k \in Keys |-> {}] /\ locked_map = [k \in Keys |-> {}]
  /\ nbrIp = [k \in Keys |-> NullAddr] /\ route_list = [k \in Keys |-> <<>>]
  /\ routes = [r \in RouteIds |-> <<>>] /\ num_routes = 0

\* The first key of the list that is one of ks, as the loops find it.
FirstKey(ks) ==
  LET at == {i \in DOMAIN nbr_table_keys : nbr_table_keys[i] \in ks}
  IN  IF at = {} THEN NoKey ELSE nbr_table_keys[Min(at)]

index_from_lladdr(l) == FirstKey({k \in Keys : lladdr[k] = l})
uip_ds6_nbr_lookup(ip) == FirstKey({k \in Keys : "nbr" \in used_map[k] /\ nbrIp[k] = ip})
nbr_table_get_from_lladdr(table, l) ==
  LET k == index_from_lladdr(l) IN IF k # NoKey /\ table \in used_map[k] THEN k ELSE NoKey
uip_ds6_nbr_lladdr_from_ipaddr(ip) ==
  LET k == uip_ds6_nbr_lookup(ip) IN IF k = NoKey THEN NullAddr ELSE lladdr[k]

Evictable == {k \in ToSet(nbr_table_keys) : locked_map[k] = {}}
\* The neighbour that nbr_table_allocate takes: a new one, or else of the ones that no
\* table has locked the first of those in the fewest tables.
Victim ==
  FirstKey({k \in Evictable :
              \A j \in Evictable : Cardinality(used_map[k]) <= Cardinality(used_map[j])})
Allocated ==
  IF Len(nbr_table_keys) < MaxNeighbors THEN Len(nbr_table_keys) + 1 ELSE Victim

RoutesOf(k) == IF "rt" \in used_map[k] THEN ToSet(route_list[k]) ELSE {}

\* Slip: the callback of nbr_routes is not called.
NoneFreed(k) == {}
\* The routes that the callback takes away with neighbour k (rm_routelist).
RoutesFreed(k) == RoutesOf(k)

\* nbr_table_add_lladdr: the item of key k in table is valid and cleared; a key taken
\* from another neighbour loses all its items first.
AddLladdr(table, l, k, fresh) ==
  LET gone == IF fresh /\ k \in ToSet(nbr_table_keys) THEN RoutesFreed(k) ELSE {}
  IN  /\ nbr_table_keys' = IF fresh THEN Append(RemoveFirst(nbr_table_keys, k), k)
                           ELSE nbr_table_keys
      /\ lladdr' = [lladdr EXCEPT ![k] = l]
      /\ used_map' = [used_map EXCEPT ![k] = (IF fresh THEN {} ELSE @) \cup {table}]
      /\ routes' = [r \in RouteIds |-> IF r \in gone THEN <<>> ELSE routes[r]]
      /\ num_routes' = num_routes - Cardinality(gone)

KeyFor(l) == IF index_from_lladdr(l) # NoKey THEN index_from_lladdr(l) ELSE Allocated
FreshFor(l) == index_from_lladdr(l) = NoKey

-----------------------------------------------------------------------------
\* Callers look the address up first.  A neighbour whose link-layer address is not
\* known has the null address as its key.
uip_ds6_nbr_add(ip, l) ==
  LET k == KeyFor(l)
  IN  /\ uip_ds6_nbr_lookup(ip) = NoKey /\ k # NoKey
      /\ AddLladdr("nbr", l, k, FreshFor(l))
      /\ nbrIp' = [nbrIp EXCEPT ![k] = ip]
      /\ route_list' = IF FreshFor(l) THEN [route_list EXCEPT ![k] = <<>>] ELSE route_list
      /\ UNCHANGED locked_map

uip_ds6_nbr_rm(k) ==
  /\ "nbr" \in used_map[k]
  /\ used_map' = [used_map EXCEPT ![k] = @ \ {"nbr"}]
  /\ locked_map' = [locked_map EXCEPT ![k] = @ \ {"nbr"}]
  /\ UNCHANGED <<nbr_table_keys, lladdr, nbrIp, route_list, routes, num_routes>>

\* uip_nd6_na_input writes the address it learned into the key.
LladdrLearned(k, l) ==
  /\ "nbr" \in used_map[k] /\ lladdr' = [lladdr EXCEPT ![k] = l]
  /\ UNCHANGED <<nbr_table_keys, used_map, locked_map, nbrIp, route_list, routes, num_routes>>

\* The parent table of RPL, as rpl-dag.c uses it; its callback takes the parent out.
ParentAdd(l) ==
  LET k == KeyFor(l)
  IN  /\ k # NoKey /\ AddLladdr("par", l, k, FreshFor(l))
      /\ route_list' = IF FreshFor(l) THEN [route_list EXCEPT ![k] = <<>>] ELSE route_list
      /\ UNCHANGED <<locked_map, nbrIp>>
ParentLocks(k) ==
  /\ "par" \in used_map[k] /\ locked_map' = [locked_map EXCEPT ![k] = @ \cup {"par"}]
  /\ UNCHANGED <<nbr_table_keys, lladdr, used_map, nbrIp, route_list, routes, num_routes>>
ParentRemoved(k) ==
  /\ "par" \in used_map[k]
  /\ used_map' = [used_map EXCEPT ![k] = @ \ {"par"}]
  /\ locked_map' = [locked_map EXCEPT ![k] = @ \ {"par"}]
  /\ UNCHANGED <<nbr_table_keys, lladdr, nbrIp, route_list, routes, num_routes>>

-----------------------------------------------------------------------------
(* Routes. *)

\* The entries of a table by their place in the list, in the order nbr_table_head and
\* nbr_table_next give them.
Entries(table) == {i \in DOMAIN nbr_table_keys : table \in used_map[nbr_table_keys[i]]}
RoutesAt(i) == route_list[nbr_table_keys[i]]

\* uip_ds6_route_head and uip_ds6_route_next: the walk goes through the lists of the
\* entries one after the other, and it ends at an entry whose list is empty.  A place
\* of it is <<entry, index into its list>>.
RouteWalk ==
  UNION {{i} \X DOMAIN RoutesAt(i) :
           i \in {e \in Entries("rt") : \A n \in Entries("rt") : n <= e => RoutesAt(n) # <<>>}}
LastOf(places) ==
  LET i == Max({p[1] : p \in places}) IN <<i, Max({p[2] : p \in {q \in places : q[1] = i}})>>

RouteAt(p) == RoutesAt(p[1])[p[2]]
Matches(dest, r) == routes[r][1] = dest[1] /\ routes[r][2] \in {0, dest[2]}
\* Of the routes that match, the last of the longest.
uip_ds6_route_lookup(dest) ==
  LET m == {p \in RouteWalk : Matches(dest, RouteAt(p))}
      longest == {p \in m : routes[RouteAt(p)][2] # 0}
  IN  IF m = {} THEN NoRoute ELSE RouteAt(LastOf(IF longest = {} THEN m ELSE longest))

FreeRoutes == {r \in RouteIds : routes[r] = <<>>}

\* An existing route that matches is made to stand for the new destination, and stays
\* with its next hop.
uip_ds6_route_add(dest, ip) ==
  LET l == uip_ds6_nbr_lladdr_from_ipaddr(ip)
      old == uip_ds6_route_lookup(dest)
      e == nbr_table_get_from_lladdr("rt", l)
      k == IF e = NoKey THEN KeyFor(l) ELSE e
      lists == IF e = NoKey THEN [route_list EXCEPT ![k] = <<>>] ELSE route_list
      r == Min(FreeRoutes)
  IN  /\ uip_ds6_nbr_lookup(ip) # NoKey
      /\ \/ /\ old # NoRoute /\ routes' = [routes EXCEPT ![old] = dest]
            /\ UNCHANGED <<used_map, route_list, num_routes>>
         \/ /\ old = NoRoute
            /\ used_map' = [used_map EXCEPT ![k] = @ \cup {"rt"}]
            /\ IF FreeRoutes = {}
                 THEN route_list' = lists /\ UNCHANGED <<routes, num_routes>>
                 ELSE /\ route_list' = [lists EXCEPT ![k] = Append(@, r)]
                      /\ routes' = [routes EXCEPT ![r] = dest]
                      /\ num_routes' = num_routes + 1
      /\ UNCHANGED <<nbr_table_keys, lladdr, locked_map, nbrIp>>

Holder(r) == CHOOSE k \in Keys : r \in RoutesOf(k)

\* The entry goes with its last route.
EntryGoes(k) == [used_map EXCEPT ![k] = @ \ {"rt"}]
uip_ds6_route_rm(r) ==
  LET k == Holder(r)
      left == RemoveFirst(route_list[k], r)
  IN  /\ routes[r] # <<>>
      /\ route_list' = [route_list EXCEPT ![k] = left]
      /\ used_map' = IF left = <<>> THEN EntryGoes(k) ELSE used_map
      /\ routes' = [routes EXCEPT ![r] = <<>>] /\ num_routes' = num_routes - 1
      /\ UNCHANGED <<nbr_table_keys, lladdr, locked_map, nbrIp>>

\* The routes of the neighbour; of the null address when the next hop is not known.
uip_ds6_route_rm_by_nexthop(ip) ==
  LET k == nbr_table_get_from_lladdr("rt", uip_ds6_nbr_lladdr_from_ipaddr(ip))
  IN  /\ k # NoKey
      /\ route_list' = [route_list EXCEPT ![k] = <<>>]
      /\ used_map' = EntryGoes(k)
      /\ routes' = [r \in RouteIds |-> IF r \in RoutesOf(k) THEN <<>> ELSE routes[r]]
      /\ num_routes' = num_routes - Cardinality(RoutesOf(k))
      /\ UNCHANGED <<nbr_table_keys, lladdr, locked_map, nbrIp>>

NbrNext ==
  \/ \E ip \in NextHops, l \in Lladdrs \cup {NullAddr} : uip_ds6_nbr_add(ip, l)
  \/ \E k \in Keys : \/ uip_ds6_nbr_rm(k) \/ ParentLocks(k) \/ ParentRemoved(k)
                     \/ \E l \in Lladdrs : LladdrLearned(k, l)
  \/ \E l \in Lladdrs : ParentAdd(l)
  \/ \E d \in Dests, ip \in NextHops : uip_ds6_route_add(d, ip)
  \/ \E r \in RouteIds : uip_ds6_route_rm(r)
  \/ \E ip \in NextHops : uip_ds6_route_rm_by_nexthop(ip)

-----------------------------------------------------------------------------
\* No route is lost or held twice: each route that is allocated is on the list of exactly
\* one valid entry of nbr_routes, and num_routes counts them, whatever neighbours were
\* evicted, removed or renamed.
RoutesKept ==
  /\ num_routes = Cardinality(RouteIds \ FreeRoutes)
  /\ UNION {RoutesOf(k) : k \in Keys} = RouteIds \ FreeRoutes
  /\ \A j, k \in Keys : j # k => RoutesOf(j) \cap RoutesOf(k) = {}
=============================================================================
