--------------------------- MODULE ContikiTimers ----------------------------
(***************************************************************************)
(* sys/etimer.c, sys/ctimer.c and sys/timer.c.  Event timers are on        *)
(* timerlist until the etimer process, polled by the main loop, posts      *)
(* their TIMER event; the ctimer process turns the event of a callback     *)
(* timer into its callback.  All event timers here belong to callback      *)
(* timers, whose process does not exit.                                    *)
(***************************************************************************)
EXTENDS Integers, Sequences, FiniteSets, SequencesExt

CONSTANTS Ctimers,     \* callback timers
          Wrap,        \* clock_time_t is counted modulo this
          Intervals,   \* intervals that are set
          QueueLen,    \* PROCESS_CONF_NUMEVENTS
          MaxLag,      \* bound: clock ticks between two rounds of the main loop
          MaxSets      \* bound: timers set and events posted between two callbacks

ASSUME TimersAssumption ==
  /\ {Wrap, QueueLen, MaxLag, MaxSets} \subseteq Nat
  /\ \A i \in Intervals : i \in Nat /\ i > 0 /\ i + MaxLag * (QueueLen + 2) < Wrap

Other == "other"          \* an event that is no timer's
NoProc == "no_process"

VARIABLES
  now,                    \* clock_time()
  timerlist,              \* as a sequence
  owner,                  \* p of each event timer
  start, interval,
  posted,                 \* the event queue
  pollWanted,             \* needspoll of etimer_process
  ctimer_list,
  lag, sets,              \* bounds
  age,                    \* history: ticks since the timer was started, up to its interval
  overtaken               \* history: set again while an event of it was queued

timerVars == <<now, timerlist, owner, start, interval, posted, pollWanted, ctimer_list, lag, sets, age, overtaken>>

TimersInit ==
  /\ now = Wrap - 2 /\ timerlist = <<>> /\ owner = [t \in Ctimers |-> NoProc]
  /\ start = [t \in Ctimers |-> 0] /\ interval = [t \in Ctimers |-> 0]
  /\ posted = <<>> /\ pollWanted = FALSE /\ ctimer_list = <<>>
  /\ lag = 0 /\ sets = 0 /\ age = [c \in Ctimers |-> 0] /\ overtaken = {}

OffList(s, t) == SelectSeq(s, LAMBDA x : x # t)

\* Slip: the two clock values are compared, not their distance.
ComparedExpired(t) == now >= (start[t] + interval[t]) % Wrap
timer_expired(t) == (now - start[t]) % Wrap >= interval[t]

\* timer_set, timer_reset, which counts from the last expiry, and timer_restart.
timer_set(t, i) == interval' = [interval EXCEPT ![t] = i] /\ start' = [start EXCEPT ![t] = now]
timer_reset(t) == start' = [start EXCEPT ![t] = (@ + interval[t]) % Wrap] /\ UNCHANGED interval
timer_restart(t) == start' = [start EXCEPT ![t] = now] /\ UNCHANGED interval

\* add_timer
OnTimerlist(t, s) == IF owner[t] # NoProc /\ t \in ToSet(s) THEN s ELSE <<t>> \o s

add_timer(t, p, a) ==
  /\ pollWanted' = TRUE /\ owner' = [owner EXCEPT ![t] = p]
  /\ timerlist' = OnTimerlist(t, timerlist)
  /\ sets < MaxSets /\ sets' = sets + 1
  /\ age' = [c \in Ctimers |-> IF c = t THEN a ELSE age[c]]
  /\ overtaken' = IF t \in ToSet(posted) THEN overtaken \cup {t} ELSE overtaken
  /\ UNCHANGED <<now, posted, lag>>

etimer_set(t, i, p) == timer_set(t, i) /\ add_timer(t, p, 0)

\* Used, as in the periodic handlers, by a timer whose event has come.
etimer_reset(t, p) ==
  /\ interval[t] > 0 /\ owner[t] = NoProc /\ timer_expired(t)
  /\ (now - (start[t] + interval[t])) % Wrap < interval[t]
  /\ timer_reset(t) /\ add_timer(t, p, (now - (start[t] + interval[t])) % Wrap)

etimer_restart(t, p) == interval[t] > 0 /\ timer_restart(t) /\ add_timer(t, p, 0)

etimer_stop(t) ==
  /\ timerlist' = OffList(timerlist, t) /\ owner' = [owner EXCEPT ![t] = NoProc]
  /\ UNCHANGED <<now, start, interval, posted, pollWanted, lag, sets, age, overtaken>>

ctimer_set(c, i) == etimer_set(c, i, "ctimer") /\ ctimer_list' = Append(OffList(ctimer_list, c), c)
ctimer_reset(c) == etimer_reset(c, "ctimer") /\ ctimer_list' = Append(OffList(ctimer_list, c), c)
ctimer_restart(c) == etimer_restart(c, "ctimer") /\ ctimer_list' = Append(OffList(ctimer_list, c), c)
ctimer_stop(c) == etimer_stop(c) /\ ctimer_list' = OffList(ctimer_list, c)

-----------------------------------------------------------------------------
(* The etimer process on a poll: the loop that starts again after each     *)
(* event it could post.                                                    *)

\* The timers that are posted: the ones first on the list, while there is room.
Due == SelectSeq(timerlist, timer_expired)
QueueRoom == QueueLen - Len(posted)
PostedNow == SubSeq(Due, 1, IF Len(Due) < QueueRoom THEN Len(Due) ELSE QueueRoom)

\* Slip: a timer that could not be posted is taken off as well.
TakenAll == ToSet(Due)
Taken == ToSet(PostedNow)

\* A timer that could not be posted makes etimer_request_poll be called.
PollAgain == Len(Due) > QueueRoom

\* The main loop calls etimer_request_poll and then process_run, which polls and
\* takes one event.
etimer_process ==
  /\ posted' = posted \o PostedNow
  /\ timerlist' = SelectSeq(timerlist, LAMBDA t : t \notin Taken)
  /\ owner' = [t \in Ctimers |-> IF t \in Taken THEN NoProc ELSE owner[t]]
  /\ pollWanted' = PollAgain /\ lag' = 0
  /\ UNCHANGED <<now, start, interval, ctimer_list, sets, age, overtaken>>

\* ctimer_process on its TIMER event; a timer that is not on the list is passed over.
ctimer_process ==
  /\ posted # <<>> /\ posted' = Tail(posted)
  /\ ctimer_list' = OffList(ctimer_list, posted[1])
  /\ overtaken' = IF posted[1] \in ToSet(Tail(posted)) THEN overtaken ELSE overtaken \ {posted[1]}
  /\ sets' = IF posted[1] \in ToSet(ctimer_list) THEN 0 ELSE sets
  /\ UNCHANGED <<now, timerlist, owner, start, interval, pollWanted, lag, age>>

\* Other processes post events of their own.
OtherEvent ==
  /\ QueueRoom > 0 /\ posted' = Append(posted, Other)
  /\ sets < MaxSets /\ sets' = sets + 1
  /\ UNCHANGED <<now, timerlist, owner, start, interval, pollWanted, ctimer_list, lag, age, overtaken>>

Tick ==
  /\ lag < MaxLag /\ lag' = lag + 1 /\ now' = (now + 1) % Wrap
  /\ age' = [c \in Ctimers |-> IF age[c] < interval[c] THEN age[c] + 1 ELSE age[c]]
  /\ UNCHANGED <<timerlist, owner, start, interval, posted, pollWanted, ctimer_list, sets, overtaken>>

TimersNext ==
  \/ \E c \in Ctimers : \/ \E i \in Intervals : ctimer_set(c, i)
                        \/ ctimer_reset(c) \/ ctimer_restart(c) \/ ctimer_stop(c)
  \/ etimer_process \/ ctimer_process \/ OtherEvent \/ Tick

-----------------------------------------------------------------------------
\* A callback does not come before its interval is over, also when the clock has wrapped;
\* the exception is a timer set again while its last expiry was still in the queue.
NotEarly ==
  [][\A c \in ToSet(ctimer_list) :
       posted # <<>> /\ posted[1] = c /\ posted' = Tail(posted) /\ c \notin ToSet(ctimer_list')
         => age[c] >= interval[c] \/ c \in overtaken]_timerVars

\* With the event queue full at times, a pending callback comes or is stopped in the end.
CallbackComes == \A c \in Ctimers : []<>(c \notin ToSet(ctimer_list))

\* Both: a callback comes, and not too early.
CallbackOnTime == NotEarly /\ CallbackComes
=============================================================================
