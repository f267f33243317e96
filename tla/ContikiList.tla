---------------------------- MODULE ContikiList -----------------------------
(***************************************************************************)
(* lib/list.c: singly linked lists threaded through their items, on which  *)
(* the timers, the neighbour table, the routes and the default routers of  *)
(* the IPv6 stack rest.  ref is the sequence the list stands for, by the   *)
(* definitions a caller has in mind.                                       *)
(***************************************************************************)
EXTENDS Integers, Sequences, FiniteSets, SequencesExt

CONSTANT Items

NULL == "NULL"

ASSUME ListAssumption == IsFiniteSet(Items) /\ NULL \notin Items

VARIABLES head,   \* *list
          next,   \* the next pointer of each item, on the list or not
          ref

listVars == <<head, next, ref>>

ListInit == head = NULL /\ next = [i \in Items |-> NULL] /\ ref = <<>>

\* The items a loop over the list meets, at most n of them.
Walk(h, nx, n) ==
  LET f[k \in 0 .. n] ==
        IF k = 0 THEN <<>>
        ELSE LET i == IF k = 1 THEN h
                      ELSE IF f[k - 1] = <<>> THEN NULL ELSE nx[Last(f[k - 1])]
             IN  IF i = NULL \/ Len(f[k - 1]) < k - 1 THEN f[k - 1] ELSE Append(f[k - 1], i)
  IN  f[n]

list_items(h, nx) == Walk(h, nx, Cardinality(Items) + 1)
list_length(h, nx) == Len(list_items(h, nx))
list_tail(h, nx) == IF h = NULL THEN NULL ELSE Last(list_items(h, nx))

\* list_remove as a pair: the head and the pointers it leaves.
Removed(item) ==
  LET s == list_items(head, next)
  IN  IF \E k \in DOMAIN s : s[k] = item
        THEN LET k == CHOOSE k \in DOMAIN s : s[k] = item
             IN  [h |-> IF k = 1 THEN next[item] ELSE head,
                  nx |-> IF k = 1 THEN [next EXCEPT ![item] = NULL]
                         ELSE [next EXCEPT ![s[k - 1]] = next[item], ![item] = NULL]]
        ELSE [h |-> head, nx |-> next]

\* Slip: the item is not taken off first.
RemovedNot(item) == [h |-> head, nx |-> next]

\* list_add and list_push take the item off the list first.
TakenOff(item) == Removed(item)

list_remove(item) ==
  /\ head' = Removed(item).h /\ next' = Removed(item).nx
  /\ ref' = RemoveFirst(ref, item)

list_add(item) ==
  LET o == TakenOff(item)
      cleared == [o.nx EXCEPT ![item] = NULL]
      l == list_tail(o.h, cleared)
  IN  /\ head' = IF l = NULL THEN item ELSE o.h
      /\ next' = IF l = NULL THEN cleared ELSE [cleared EXCEPT ![l] = item]
      /\ ref' = Append(RemoveFirst(ref, item), item)

list_push(item) ==
  LET o == TakenOff(item)
  IN  /\ head' = item /\ next' = [o.nx EXCEPT ![item] = o.h]
      /\ ref' = <<item>> \o RemoveFirst(ref, item)

list_chop ==
  /\ head # NULL
  /\ IF next[head] = NULL
       THEN head' = NULL /\ UNCHANGED next
       ELSE LET s == list_items(head, next)
            IN  next' = [next EXCEPT ![s[Len(s) - 1]] = NULL] /\ UNCHANGED head
  /\ ref' = SubSeq(ref, 1, Len(ref) - 1)

\* The item that is popped keeps its pointer into the list.
list_pop ==
  /\ head # NULL /\ head' = next[head] /\ ref' = Tail(ref) /\ UNCHANGED next

\* An item that is not on the list goes behind one that is.
list_insert(previtem, newitem) ==
  /\ newitem \notin ToSet(ref)
  /\ IF previtem = NULL
       THEN list_push(newitem)
       ELSE /\ previtem \in ToSet(ref)
            /\ next' = [next EXCEPT ![newitem] = next[previtem], ![previtem] = newitem]
            /\ UNCHANGED head
            /\ LET k == CHOOSE k \in DOMAIN ref : ref[k] = previtem
               IN  ref' = SubSeq(ref, 1, k) \o <<newitem>> \o SubSeq(ref, k + 1, Len(ref))

list_init == head' = NULL /\ ref' = <<>> /\ UNCHANGED next

ListNext ==
  \/ \E i \in Items : list_remove(i) \/ list_add(i) \/ list_push(i)
  \/ \E i \in Items, p \in Items \cup {NULL} : list_insert(p, i)
  \/ list_chop \/ list_pop \/ list_init

-----------------------------------------------------------------------------
\* However items are added, moved, inserted and taken off, with pointers left over from
\* earlier, a walk along the pointers meets exactly the items of the list, in order and
\* each once, and it ends.
ListWalks ==
  /\ list_items(head, next) = ref
  /\ list_length(head, next) <= Cardinality(Items)
=============================================================================
