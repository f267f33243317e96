--------------------------------- MODULE Igmp --------------------------------
(***************************************************************************)
(* Multicast group membership, igmp.c: the clients join and leave groups,  *)
(* the periodic pass sends at most one message per call, and queries and   *)
(* reports come in from the network.  A message's checksum is a number of  *)
(* SumWidth bits that the code compares with an int.                       *)
(***************************************************************************)
EXTENDS Integers, Sequences

CONSTANTS Groups,      \* multicast addresses
          MaxGroups,   \* MAX_IGMP_GROUPS
          SumWidth,    \* 16
          MaxJoins     \* joins by the clients

ASSUME IgmpConsts == MaxGroups \in Nat \ {0} /\ SumWidth \in Nat \ {0}

VARIABLES groups,   \* the group states
          uipLen,   \* the message the periodic pass leaves in the buffer
          reports,  \* reports sent for a slot since its group was joined
          wanted,   \* the groups that were joined and not left since
          joins

igmpVars == <<groups, uipLen, reports, wanted, joins>>

GroupSlots == 1..MaxGroups
Nothing == [type |-> "none"]

igmp_init == /\ groups = [i \in GroupSlots |-> [state |-> "non_member", addr |-> "none",
                                                 flag |-> FALSE, expired |-> FALSE]]
             /\ uipLen = Nothing
             /\ reports = [i \in GroupSlots |-> 0]
             /\ wanted = {} /\ joins = 0

-----------------------------------------------------------------------------
NonMember(i) == groups[i].state = "non_member"
JoinSlot(i) == NonMember(i) /\ \A j \in 1..(i - 1) : ~NonMember(j)

igmp_join_group(a) ==
    /\ joins < MaxJoins /\ joins' = joins + 1
    /\ wanted' = wanted \cup {a}
    /\ IF \E i \in GroupSlots : NonMember(i)
       THEN \E i \in GroupSlots :
              /\ JoinSlot(i)
              /\ groups' = [groups EXCEPT ![i].addr = a, ![i].state = "pending_join"]
              /\ reports' = [reports EXCEPT ![i] = 0]
       ELSE UNCHANGED <<groups, reports>>
    /\ UNCHANGED uipLen

\* As the condition is parenthesised, an idle member matches any address.
Matches(i, a) == \/ groups[i].state = "idle_member"
                 \/ groups[i].state = "delayed_member" /\ groups[i].addr = a

igmp_leave_group(a) ==
    /\ wanted' = wanted \ {a}
    /\ groups' = [i \in GroupSlots |->
                    IF Matches(i, a) THEN [groups[i] EXCEPT !.state = "pending_leave"]
                    ELSE groups[i]]
    /\ UNCHANGED <<uipLen, reports, joins>>

igmp_check_addr(a) == \E i \in GroupSlots : Matches(i, a)

-----------------------------------------------------------------------------
Sent(type, i) == [type |-> type, addr |-> groups[i].addr]
MessageDue(i) == \/ groups[i].state = "pending_join"
                 \/ groups[i].state = "delayed_member" /\ groups[i].expired
                 \/ groups[i].state = "pending_leave" /\ groups[i].flag

\* igmp_group_periodic, for the slots up to and with the first that sends.
Reported(i) == groups[i].state \in {"pending_join", "delayed_member"}
AfterPeriodic(i) ==
    CASE groups[i].state = "pending_join" ->
           [groups[i] EXCEPT !.flag = TRUE, !.state = "delayed_member", !.expired = FALSE]
      [] groups[i].state = "delayed_member" /\ groups[i].expired ->
           [groups[i] EXCEPT !.flag = TRUE, !.state = "idle_member"]
      [] groups[i].state = "pending_leave" -> [groups[i] EXCEPT !.state = "non_member"]
      [] OTHER -> groups[i]

\* A slip: the pass goes no further than the first group in use.
ToFirstUsed == IF \E i \in GroupSlots : ~NonMember(i)
               THEN CHOOSE i \in GroupSlots : ~NonMember(i) /\ \A j \in 1..(i-1) : NonMember(j)
               ELSE MaxGroups
LastVisited == IF \E i \in GroupSlots : MessageDue(i)
               THEN CHOOSE i \in GroupSlots : MessageDue(i) /\ \A j \in 1..(i-1) : ~MessageDue(j)
               ELSE MaxGroups

\* igmp_periodic, and the buffer that xtcp_process_periodic_timer sends.
igmp_periodic ==
    LET last == LastVisited IN
    /\ groups' = [i \in GroupSlots |-> IF i <= last THEN AfterPeriodic(i) ELSE groups[i]]
    /\ IF MessageDue(last)
       THEN /\ uipLen' = Sent(IF Reported(last) THEN "report" ELSE "leave", last)
            /\ reports' = [reports EXCEPT ![last] = IF Reported(last) THEN @ + 1 ELSE @]
       ELSE uipLen' = Nothing /\ UNCHANGED reports
    /\ UNCHANGED <<wanted, joins>>

TimerExpires(i) ==
    /\ groups[i].state = "delayed_member" /\ ~groups[i].expired
    /\ groups' = [groups EXCEPT ![i].expired = TRUE]
    /\ UNCHANGED <<uipLen, reports, wanted, joins>>

-----------------------------------------------------------------------------
(* A message comes in.  The sum is a u16_t, and its complement in the      *)
(* comparison is that of an int.                                           *)
Sums == 0..(2 ^ SumWidth - 1)
ChecksumOnWire(sum) == 2 ^ SumWidth - 1 - sum
igmp_checksum_valid(checksum, sum) == checksum = -1 - sum

AfterQuery(i, a) ==
    IF groups[i].state \in {"idle_member", "delayed_member"} /\ a \in {"all", groups[i].addr}
    THEN [groups[i] EXCEPT !.state = "delayed_member", !.expired = FALSE] ELSE groups[i]
AfterReport(i, a) ==
    IF groups[i].state = "delayed_member" /\ a = groups[i].addr
    THEN [groups[i] EXCEPT !.state = "idle_member", !.flag = FALSE] ELSE groups[i]

igmp_in(type, a, sum) ==
    /\ groups' = [i \in GroupSlots |->
         IF ~igmp_checksum_valid(ChecksumOnWire(sum), sum) THEN groups[i]
         ELSE IF type = "query" THEN AfterQuery(i, a) ELSE AfterReport(i, a)]
    /\ uipLen' = Nothing
    /\ UNCHANGED <<reports, wanted, joins>>

IgmpNext ==
    \/ \E a \in Groups : igmp_join_group(a) \/ igmp_leave_group(a)
    \/ igmp_periodic
    \/ \E i \in GroupSlots : TimerExpires(i)
    \/ \E a \in Groups \cup {"all"}, sum \in Sums :
         igmp_in("query", a, sum) \/ igmp_in("report", a, sum)

-----------------------------------------------------------------------------
\* Every join is followed by its report, though a call of the periodic pass
\* ends with the first group that has something to send.
JoinIsReported ==
    \A i \in GroupSlots : (groups[i].state = "pending_join") ~> (reports[i] > 0)
=============================================================================
