--------------------------- MODULE ContikiProcess ---------------------------
(***************************************************************************)
(* sys/process.c: the processes that the IPv6 stack runs in.  They are on  *)
(* a list, get events from a queue of limited length or directly, and are  *)
(* polled.  Threads call back into the kernel, so calls nest: stack holds  *)
(* the functions that have not returned, each with its place in its loop.  *)
(* What a thread does is external: any of the calls that process.h offers, *)
(* except that no process is made to exit from inside a call of its own.   *)
(***************************************************************************)
EXTENDS Integers, Sequences, FiniteSets, SequencesExt

CONSTANTS Procs,       \* processes
          NumEvents,   \* PROCESS_CONF_NUMEVENTS
          MaxCalls     \* bound: calls into the kernel in a round of process_run

ASSUME ProcAssumption == {NumEvents, MaxCalls} \subseteq Nat

NONE == "none"
BROADCAST == "broadcast"

VARIABLES
  process_list, pnext,        \* the list
  pstate,                     \* NONE 0, RUNNING 1, CALLED 2
  needspoll, poll_requested,
  events,                     \* the queue: the receiver of each event
  stack,
  turn,                       \* where process_run is
  calls,                      \* calls made in this round
  pollDue                     \* history: polls that were asked for and not made

procVars == <<process_list, pnext, pstate, needspoll, poll_requested, events, stack, turn, calls, pollDue>>

\* process_init
ProcInit ==
  /\ process_list = NONE /\ pnext = [p \in Procs |-> NONE]
  /\ pstate = [p \in Procs |-> 0] /\ needspoll = {} /\ poll_requested = FALSE
  /\ events = <<>> /\ stack = <<>> /\ turn = "poll" /\ calls = 0 /\ pollDue = {}

OnList ==
  LET n == Cardinality(Procs) + 1
      f[k \in 0 .. n] ==
        IF k = 0 THEN <<>>
        ELSE LET i == IF k = 1 THEN process_list
                      ELSE IF Len(f[k - 1]) < k - 1 THEN NONE ELSE pnext[Last(f[k - 1])]
             IN  IF i = NONE THEN f[k - 1] ELSE Append(f[k - 1], i)
  IN  f[n]
Listed(p) == p \in ToSet(OnList)

Frame(kind, p, at, from) == [kind |-> kind, p |-> p, at |-> at, from |-> from, visited |-> FALSE]
Top == stack[Len(stack)]
Below == SubSeq(stack, 1, Len(stack) - 1)
Running(p) == stack # <<>> /\ Top.kind = "thread" /\ Top.p = p
InChain(p) == \E k \in DOMAIN stack : stack[k].p = p

\* Slip: the state of the process is not looked at.
CallAny(base, st, p) ==
  pstate' = [st EXCEPT ![p] = 2] /\ stack' = Append(base, Frame("thread", p, NONE, NONE))

\* call_process, from a function whose frames are base; st is the state before it.
call_process(base, st, p) ==
  IF st[p] = 1
    THEN /\ pstate' = [st EXCEPT ![p] = 2]
         /\ stack' = Append(base, Frame("thread", p, NONE, NONE))
    ELSE pstate' = st /\ stack' = base

-----------------------------------------------------------------------------
(* What a thread may call; the main program calls the first three as well. *)

Caller == stack # <<>> => Top.kind = "thread"
CallMade == calls < MaxCalls /\ calls' = calls + 1

process_start(p) ==
  /\ Caller /\ CallMade /\ ~Listed(p)
  /\ pnext' = [pnext EXCEPT ![p] = process_list] /\ process_list' = p
  /\ call_process(stack, [pstate EXCEPT ![p] = 1], p)
  /\ UNCHANGED <<needspoll, poll_requested, events, turn, pollDue>>

Room == Len(events) # NumEvents

process_post(p) ==
  /\ Caller /\ CallMade /\ Room
  /\ events' = Append(events, p)
  /\ UNCHANGED <<process_list, pnext, pstate, needspoll, poll_requested, stack, turn, pollDue>>

\* Slip: the request is made only if none is.
PollNoted(p) == poll_requested' = (poll_requested \/ needspoll = {})
\* needspoll is set, and the request with it.
PollFlag(p) == poll_requested' = TRUE

process_poll(p) ==
  /\ Caller /\ CallMade /\ pstate[p] # 0
  /\ needspoll' = needspoll \cup {p} /\ PollFlag(p)
  /\ pollDue' = pollDue \cup {p}
  /\ UNCHANGED <<process_list, pnext, pstate, events, stack, turn>>

process_post_synch(p) ==
  /\ stack # <<>> /\ Top.kind = "thread" /\ CallMade /\ pstate[p] = 1
  /\ call_process(stack, pstate, p)
  /\ UNCHANGED <<process_list, pnext, needspoll, poll_requested, events, turn, pollDue>>

\* exit_process up to its loop, from the frames base: from is the process that calls it.
exit_process(base, p, from) ==
  /\ pstate' = [pstate EXCEPT ![p] = 0]
  /\ stack' = Append(base, Frame("exit", p, process_list, from))

process_exit(p) ==
  /\ Caller /\ CallMade /\ ~InChain(p) /\ Listed(p) /\ pstate[p] # 0
  /\ exit_process(stack, p, IF stack = <<>> THEN NONE ELSE Top.p)
  /\ UNCHANGED <<process_list, pnext, needspoll, poll_requested, events, turn, pollDue>>

-----------------------------------------------------------------------------
(* The loops. *)

\* Slip: the process stays on the list.
UnlinkedNot(p) == UNCHANGED <<process_list, pnext>>

Unlinked(p) ==
  IF p = process_list
    THEN process_list' = pnext[p] /\ UNCHANGED pnext
    ELSE LET prev == {q \in ToSet(OnList) : pnext[q] = p}
         IN  /\ pnext' = [q \in Procs |-> IF q \in prev THEN pnext[p] ELSE pnext[q]]
             /\ UNCHANGED process_list

\* A visit calls the process the loop is at; coming back, it goes to the next one.
Visit(base) == Append(base, [Top EXCEPT !.visited = TRUE])
Advance == stack' = Append(Below, [Top EXCEPT !.at = pnext[Top.at], !.visited = FALSE])

\* The loop of exit_process; at its end the process itself gets PROCESS_EVENT_EXIT,
\* unless it is the caller, and is taken off the list.
ExitLoop ==
  /\ stack # <<>> /\ Top.kind = "exit"
  /\ IF Top.at # NONE
       THEN /\ IF Top.visited THEN Advance /\ UNCHANGED pstate
               ELSE IF Top.at = Top.p THEN stack' = Visit(Below) /\ UNCHANGED pstate
               ELSE call_process(Visit(Below), pstate, Top.at)
            /\ UNCHANGED <<process_list, pnext, pollDue>>
       ELSE IF Top.from # Top.p /\ ~Top.visited
       THEN /\ stack' = Append(Visit(Below), Frame("last", Top.p, NONE, NONE))
            /\ UNCHANGED <<process_list, pnext, pstate, pollDue>>
       ELSE /\ Unlinked(Top.p) /\ stack' = Below /\ pollDue' = pollDue \ {Top.p}
            /\ UNCHANGED pstate
  /\ UNCHANGED <<needspoll, poll_requested, events, turn, calls>>

\* A thread that was called with PROCESS_EVENT_EXIT returns.
LastReturns ==
  /\ stack # <<>> /\ Top.kind = "last" /\ stack' = Below
  /\ UNCHANGED <<process_list, pnext, pstate, needspoll, poll_requested, events, turn, calls, pollDue>>

\* The rest of call_process: the thread waits for its next event, or it has ended.
ThreadYields ==
  /\ stack # <<>> /\ Top.kind = "thread"
  /\ pstate' = [pstate EXCEPT ![Top.p] = 1] /\ stack' = Below
  /\ UNCHANGED <<process_list, pnext, needspoll, poll_requested, events, turn, calls, pollDue>>

ThreadEnds ==
  /\ stack # <<>> /\ Top.kind = "thread"
  /\ exit_process(Below, Top.p, Top.p)
  /\ UNCHANGED <<process_list, pnext, needspoll, poll_requested, events, turn, calls, pollDue>>

\* do_poll, from the frames base.
do_poll(base) ==
  /\ poll_requested' = FALSE /\ stack' = Append(base, Frame("poll", NONE, process_list, NONE))

PollLoop ==
  /\ stack # <<>> /\ Top.kind = "poll"
  /\ IF Top.at = NONE
       THEN stack' = Below /\ UNCHANGED <<pstate, needspoll, pollDue>>
       ELSE IF Top.visited \/ Top.at \notin needspoll
       THEN Advance /\ UNCHANGED <<pstate, needspoll, pollDue>>
       ELSE /\ needspoll' = needspoll \ {Top.at} /\ pollDue' = pollDue \ {Top.at}
            /\ call_process(Visit(Below), [pstate EXCEPT ![Top.at] = 1], Top.at)
  /\ UNCHANGED <<process_list, pnext, poll_requested, events, turn, calls>>

\* The loop of do_event over all processes, with polls in between.
BroadcastLoop ==
  /\ stack # <<>> /\ Top.kind = "bcast"
  /\ IF Top.at = NONE
       THEN stack' = Below /\ UNCHANGED <<pstate, poll_requested>>
       ELSE IF Top.visited THEN Advance /\ UNCHANGED <<pstate, poll_requested>>
       ELSE IF poll_requested THEN do_poll(stack) /\ UNCHANGED pstate
       ELSE /\ call_process(Visit(Below), pstate, Top.at) /\ UNCHANGED poll_requested
  /\ UNCHANGED <<process_list, pnext, needspoll, events, turn, calls, pollDue>>

\* process_run: the polls, and then one event.
RunPolls ==
  /\ stack = <<>> /\ turn = "poll" /\ turn' = "event"
  /\ IF poll_requested THEN do_poll(stack) ELSE UNCHANGED <<poll_requested, stack>>
  /\ calls' = 0 /\ UNCHANGED <<process_list, pnext, pstate, needspoll, events, pollDue>>

RunEvent ==
  /\ stack = <<>> /\ turn = "event" /\ turn' = "poll"
  /\ IF events = <<>> THEN UNCHANGED <<events, stack, pstate>>
     ELSE /\ events' = Tail(events)
          /\ IF events[1] = BROADCAST
               THEN stack' = <<Frame("bcast", NONE, process_list, NONE)>> /\ UNCHANGED pstate
               ELSE call_process(stack, pstate, events[1])
  /\ UNCHANGED <<process_list, pnext, needspoll, poll_requested, calls, pollDue>>

ProcKernel ==
  ExitLoop \/ LastReturns \/ ThreadYields \/ PollLoop \/ BroadcastLoop \/ RunPolls \/ RunEvent

ProcNext ==
  \/ \E p \in Procs : \/ process_start(p) \/ process_post(p) \/ process_poll(p)
                      \/ process_post_synch(p) \/ process_exit(p)
  \/ process_post(BROADCAST)
  \/ ThreadEnds \/ ProcKernel

-----------------------------------------------------------------------------
\* Between two rounds of process_run exactly the processes on the list are running, and
\* none is left marked as called, however starts, exits and calls were nested.
ListedRuns == stack = <<>> => \A p \in Procs : pstate[p] = IF Listed(p) THEN 1 ELSE 0

\* A thread is never entered while an earlier call of it has not returned.
NotReentered ==
  \A j, k \in DOMAIN stack :
    j # k /\ stack[j].kind \in {"thread", "last"} /\ stack[k].kind \in {"thread", "last"} => stack[j].p # stack[k].p

\* A poll that a process asked for, from inside a poll handler, a broadcast or an exit
\* too, is made in the end unless it exits.
PollsHappen == \A p \in Procs : p \in pollDue ~> p \notin pollDue

\* The three together: whatever processes start, poll, post to and exit from inside one
\* another's threads, the kernel serves those that run and no others.
ProcessesServed == [](ListedRuns /\ NotReentered) /\ PollsHappen
=============================================================================
