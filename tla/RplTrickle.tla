------------------------------ MODULE RplTrickle ------------------------------
(***************************************************************************)
(* The Trickle timer that paces the DIOs of a node, rpl-timers.c, with the *)
(* DIS messages of rpl-icmp6.c.  RPL is off in the default build.          *)
(* With Doublings = 0, which a DIO can announce, Joins sets the interval   *)
(* to its minimum and rpl_reset_dio_timer then never starts the timer.     *)
(***************************************************************************)
EXTENDS Integers

CONSTANTS IntMin,     \* dio_intmin
          Doublings,  \* dio_intdoubl, at least 1
          Redundancy  \* dio_redundancy

VARIABLES intcurrent, \* dio_intcurrent; 0 before the instance is joined
          dioTimer,    \* dio_timer is set
          dioSend,    \* dio_send: the first half of the interval
          heard,      \* dio_counter, up to Redundancy
          sendOk,     \* dio_send_ok
          linkLocal,  \* there is a preferred link-local address
          news        \* an inconsistency that no DIO has told the neighbours yet

trickleVars == <<intcurrent, dioTimer, dioSend, heard, sendOk, linkLocal, news>>

TrickleInit == /\ intcurrent = 0 /\ dioTimer = FALSE /\ dioSend = FALSE /\ heard = 0
               /\ sendOk = FALSE /\ linkLocal = FALSE /\ news = FALSE

new_dio_interval(i) == intcurrent' = i /\ dioSend' = TRUE /\ heard' = 0 /\ dioTimer' = TRUE

\* rpl_reset_dio_timer: nothing when the interval is the shortest already.
Reset_dio_timer(i) == IF i > IntMin THEN new_dio_interval(IntMin)
                      ELSE intcurrent' = i /\ UNCHANGED <<dioTimer, dioSend, heard>>

\* rpl_join_instance or rpl_set_root.
Joins == /\ intcurrent = 0 /\ Reset_dio_timer(IntMin + Doublings)
         /\ news' = TRUE /\ UNCHANGED <<sendOk, linkLocal>>
\* An inconsistent DIO, a new parent, a repair, a DIS to the group.
Inconsistency == /\ intcurrent # 0 /\ Reset_dio_timer(intcurrent)
                 /\ news' = TRUE /\ UNCHANGED <<sendOk, linkLocal>>

\* rpl_process_dio: a DIO that agrees with what the node knows.
ConsistentDio == /\ intcurrent # 0 /\ heard < Redundancy /\ heard' = heard + 1
                 /\ UNCHANGED <<intcurrent, dioTimer, dioSend, sendOk, linkLocal, news>>

\* (A DIS to this node alone is answered to its sender: no state changes.)
AddressPreferred == ~linkLocal /\ linkLocal' = TRUE
                    /\ UNCHANGED <<intcurrent, dioTimer, dioSend, heard, sendOk, news>>

\* A slip: the timer that could not send is not set again.
NotSetAgain == dioTimer' = FALSE
SetAgain == dioTimer' = TRUE
\* handle_dio_timer without a link-local address, in the first half of the
\* interval, and at its end.
Postpones == /\ dioTimer /\ ~sendOk /\ ~linkLocal /\ SetAgain
             /\ UNCHANGED <<intcurrent, dioSend, heard, sendOk, linkLocal, news>>
MaySend == dioTimer /\ (sendOk \/ linkLocal) /\ sendOk' = TRUE
Suppresses == /\ MaySend /\ dioSend /\ heard >= Redundancy
              /\ dioSend' = FALSE /\ UNCHANGED <<intcurrent, dioTimer, heard, linkLocal, news>>
\* dio_output tells the neighbours all that there is to tell (the DTSN that it
\* counts up is NewDtsn of RplRoutes).
dio_output == news' = FALSE
Sends == /\ MaySend /\ dioSend /\ heard < Redundancy
         /\ dioSend' = FALSE /\ dio_output
         /\ UNCHANGED <<intcurrent, dioTimer, heard, linkLocal>>
Doubles == /\ MaySend /\ ~dioSend
           /\ new_dio_interval(IF intcurrent < IntMin + Doublings THEN intcurrent + 1 ELSE intcurrent)
           /\ UNCHANGED <<linkLocal, news>>

handle_dio_timer == Postpones \/ Suppresses \/ Sends \/ Doubles

TrickleNext == \/ Joins \/ Inconsistency \/ ConsistentDio \/ AddressPreferred
               \/ Postpones \/ Suppresses \/ Sends \/ Doubles

\* What changed is announced: a reset that finds the timer at its shortest
\* interval or in its second half, a postponed and a suppressed DIO only delay
\* the next DIO of the node.
NewsIsSent == news ~> ~news
===============================================================================
