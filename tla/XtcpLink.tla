------------------------------ MODULE XtcpLink ------------------------------
(***************************************************************************)
(* The channel protocol between the XTCP server thread and its clients:    *)
(* xtcp_server.xc on one side, xtcp_client.xc (with the refusal that       *)
(* xtcp_blocking_client.xc adds) on the other.                             *)
(*                                                                         *)
(* A link is a pair of FIFO channels.  "END" is the XS1_CT_END control     *)
(* token, "CMD" the XTCP_CMD_TOKEN; every other message is a burst of data *)
(* words, named for what it says.  A burst that the sender closes with END *)
(* and the reader reads together with that END (connection records,        *)
(* command words, payloads written by a master) is one message; the bursts *)
(* "ready", "refuse" and "bytes" are written by a slave and closed by the  *)
(* other side, so their END is a message of its own.  A step is one input  *)
(* with the outputs up to the next input.                                  *)
(***************************************************************************)
EXTENDS Integers, Sequences

CONSTANTS NumClients,   \* num_xtcp, the number of links
          Cmds,         \* the kinds of command the clients issue
          Jobs          \* the kinds of event the stack raises

Links == 0 .. NumClients - 1
NoLink == -1

CmdKinds == {"plain", "push", "pull"}   \* without payload, with one, asking for one
JobKinds == {"event", "recv", "send"}   \* xtcpd_send_event, xtcpd_recv, xtcpd_send
IfEvents == {"ifup", "ifdown"}

ASSUME ClientsAssumption == NumClients \in Nat \ {0}
ASSUME KindsAssumption == Cmds \subseteq CmdKinds /\ Jobs \subseteq JobKinds

Words == {"data", "bytes", "ready", "refuse"}
Tokens == {"END", "CMD"} \cup CmdKinds \cup JobKinds \cup IfEvents \cup Words

VARIABLES
  notified,       \* the links l with notified[l] = 1: an unanswered END was sent
  pending_event,  \* pending_event[l]: queued interface event or "none"
  uip_ifstate,    \* state of the interface, as the event that reports it
  prev_ifstate,   \* prev_ifstate[l]: the last state queued for l
  phase,          \* of the main loop: before or after uip_xtcp_checkstate
  spc,            \* what the server thread waits for
  cur,            \* the link it serves (the loop index in a sweep)
  wait,           \* waiting_link
  job,            \* the event that waits for waiting_link
  activity,       \* the flag of xtcpd_service_clients
  cpc,            \* cpc[l]: what client l waits for
  seen,           \* seen[l]: the last interface event client l received
  s2c, c2s        \* the channels of link l

srvVars == <<notified, pending_event, uip_ifstate, prev_ifstate, phase, spc, cur, wait, job, activity>>
cliVars == <<cpc, seen>>
vars == <<srvVars, cliVars, s2c, c2s>>

Init ==
  /\ notified = {}
  /\ pending_event = [l \in Links |-> "none"]
  /\ uip_ifstate = "ifdown"
  /\ prev_ifstate = [l \in Links |-> "none"]
  /\ phase = "poll" /\ spc = "main" /\ cur = 0 /\ wait = NoLink /\ job = "event" /\ activity = 0
  /\ cpc = [l \in Links |-> "idle"]
  /\ seen = [l \in Links |-> "none"]
  /\ s2c = [l \in Links |-> <<>>]
  /\ c2s = [l \in Links |-> <<>>]

-----------------------------------------------------------------------------
(* Inputs and outputs of the two sides. *)

SrvGet(l, tok) ==
  /\ c2s[l] # <<>> /\ Head(c2s[l]) = tok
  /\ c2s' = [c2s EXCEPT ![l] = Tail(@)]
SrvPut(l, msgs) == s2c' = [s2c EXCEPT ![l] = @ \o msgs]

CliGet(l, tok) ==
  /\ s2c[l] # <<>> /\ Head(s2c[l]) = tok
  /\ s2c' = [s2c EXCEPT ![l] = Tail(@)]
CliPut(l, msgs) == c2s' = [c2s EXCEPT ![l] = @ \o msgs]

-----------------------------------------------------------------------------
(* The server's main loop: xtcpd_service_clients, then the connections'    *)
(* polls, uip_xtcp_checkstate, then packets and timers.  Before and after  *)
(* the check the stack may raise any number of events, each for one link.  *)

\* uip_xtcp_up / uip_xtcp_down, called by the address configuration.
IfChange ==
  /\ spc = "main" /\ phase = "input"
  /\ uip_ifstate' = IF uip_ifstate = "ifup" THEN "ifdown" ELSE "ifup"
  /\ UNCHANGED <<notified, pending_event, prev_ifstate, phase, spc, cur, wait, job, activity, cliVars, s2c, c2s>>

\* uip_xtcp_checkstate: xtcpd_queue_event for every link that has not been
\* told of the present state.  A queued event replaces an undelivered one.
Stale == {l \in Links : prev_ifstate[l] # uip_ifstate}
\* Slips: notifying a link again, and keeping an undelivered event.
CheckStateAlways ==
  /\ spc = "main" /\ phase = "poll" /\ phase' = "input"
  /\ pending_event' = [l \in Links |-> IF l \in Stale THEN uip_ifstate ELSE pending_event[l]]
  /\ prev_ifstate' = [l \in Links |-> uip_ifstate]
  /\ s2c' = [l \in Links |-> IF l \in Stale THEN s2c[l] \o <<"END">> ELSE s2c[l]]
  /\ notified' = notified \cup Stale
  /\ UNCHANGED <<uip_ifstate, spc, cur, wait, job, activity, cliVars, c2s>>
CheckStateFirst ==
  /\ spc = "main" /\ phase = "poll" /\ phase' = "input"
  /\ pending_event' = [l \in Links |-> IF l \in Stale /\ pending_event[l] = "none"
                                       THEN uip_ifstate ELSE pending_event[l]]
  /\ prev_ifstate' = [l \in Links |-> uip_ifstate]
  /\ s2c' = [l \in Links |-> IF l \in Stale \ notified THEN s2c[l] \o <<"END">> ELSE s2c[l]]
  /\ notified' = notified \cup Stale
  /\ UNCHANGED <<uip_ifstate, spc, cur, wait, job, activity, cliVars, c2s>>

CheckState ==
  /\ spc = "main" /\ phase = "poll" /\ phase' = "input"
  /\ pending_event' = [l \in Links |-> IF l \in Stale THEN uip_ifstate ELSE pending_event[l]]
  /\ prev_ifstate' = [l \in Links |-> uip_ifstate]
  /\ s2c' = [l \in Links |-> IF l \in Stale \ notified THEN s2c[l] \o <<"END">> ELSE s2c[l]]
  /\ notified' = notified \cup Stale
  /\ UNCHANGED <<uip_ifstate, spc, cur, wait, job, activity, cliVars, c2s>>

\* xtcpd_service_clients: sweeps over all links until one finds no activity.
BeginService ==
  /\ spc = "main" /\ phase = "input" /\ phase' = "poll"
  /\ spc' = "sweep" /\ cur' = 0 /\ activity' = 0
  /\ UNCHANGED <<notified, pending_event, uip_ifstate, prev_ifstate, wait, job, cliVars, s2c, c2s>>

\* Entry of xtcpd_service_clients_until_ready(l).
AwaitReady(l) ==
  /\ IF l \in notified THEN UNCHANGED s2c ELSE SrvPut(l, <<"END">>)
  /\ notified' = notified \cup {l}
  /\ spc' = "sweep" /\ cur' = 0

\* The stack calls xtcpd_event, xtcpd_recv or xtcpd_send for link l.
RaiseEvent(l, j) ==
  /\ spc = "main"
  /\ AwaitReady(l)
  /\ wait' = l /\ job' = j
  /\ UNCHANGED <<pending_event, uip_ifstate, prev_ifstate, phase, activity, cliVars, c2s>>

-----------------------------------------------------------------------------
(* xtcpd_service_client0(cur) *)

\* The select's default: nothing from this client.
SkipLink ==
  /\ spc = "sweep" /\ cur \in Links /\ c2s[cur] = <<>>
  /\ cur' = cur + 1
  /\ UNCHANGED <<notified, pending_event, uip_ifstate, prev_ifstate, phase, spc, wait, job, activity, cliVars, s2c, c2s>>

\* The client answered the notification: hand over a queued interface event.
ServiceReply ==
  /\ spc = "sweep" /\ cur \in Links
  /\ SrvGet(cur, "END")
  /\ notified' = notified \ {cur}
  /\ activity' = IF wait = NoLink THEN 1 ELSE activity
  /\ IF pending_event[cur] # "none"
       THEN SrvPut(cur, <<pending_event[cur]>>) /\ spc' = "pend" /\ cur' = cur
       ELSE UNCHANGED <<s2c, spc>> /\ cur' = cur + 1
  /\ UNCHANGED <<pending_event, uip_ifstate, prev_ifstate, phase, wait, job, cliVars>>

\* Slip: notifying again whether or not the link is the waiting one.
PendingDeliveredAgain ==
  /\ spc = "pend"
  /\ SrvGet(cur, "END")
  /\ pending_event' = [pending_event EXCEPT ![cur] = "none"]
  /\ SrvPut(cur, <<"END">>) /\ notified' = notified \cup {cur}
  /\ spc' = "sweep" /\ cur' = cur + 1
  /\ UNCHANGED <<uip_ifstate, prev_ifstate, phase, wait, job, activity, cliVars>>

\* The client took it; notify again if an event of a connection waits too.
PendingDelivered ==
  /\ spc = "pend"
  /\ SrvGet(cur, "END")
  /\ pending_event' = [pending_event EXCEPT ![cur] = "none"]
  /\ IF cur = wait
       THEN SrvPut(cur, <<"END">>) /\ notified' = notified \cup {cur}
       ELSE UNCHANGED <<s2c, notified>>
  /\ spc' = "sweep" /\ cur' = cur + 1
  /\ UNCHANGED <<uip_ifstate, prev_ifstate, phase, wait, job, activity, cliVars>>

\* Slip: two ENDs without regard to the notification under way.
ServiceCmdTwoEnds ==
  /\ spc = "sweep" /\ cur \in Links
  /\ SrvGet(cur, "CMD")
  /\ SrvPut(cur, <<"END", "END">>)
  /\ spc' = "cmd" /\ activity' = IF wait = NoLink THEN 1 ELSE activity
  /\ UNCHANGED <<notified, pending_event, uip_ifstate, prev_ifstate, phase, cur, wait, job, cliVars>>

\* A command token.  The client swallows two ENDs, one of which may be the
\* notification that is already under way.
ServiceCmd ==
  /\ spc = "sweep" /\ cur \in Links
  /\ SrvGet(cur, "CMD")
  /\ SrvPut(cur, IF cur \in notified THEN <<"END">> ELSE <<"END", "END">>)
  /\ spc' = "cmd" /\ activity' = IF wait = NoLink THEN 1 ELSE activity
  /\ UNCHANGED <<notified, pending_event, uip_ifstate, prev_ifstate, phase, cur, wait, job, cliVars>>

\* Slip: a swallowed notification is not renewed.
RenewalLost == <<>>

\* The ENDs that close a command whose last server output is msgs: a
\* notification swallowed by send_cmd is renewed.
Renewal == IF cur \in notified THEN <<"END">> ELSE <<>>
FinishCmd(msgs) ==
  /\ SrvPut(cur, msgs \o Renewal)
  /\ spc' = "sweep" /\ cur' = cur + 1

\* The command words, and the part of handle_xtcp_cmd up to its first input.
HandleCmd(k) ==
  /\ spc = "cmd"
  /\ SrvGet(cur, k)
  /\ \/ k = "plain" /\ FinishCmd(<<"END">>)
     \/ k = "push" /\ SrvPut(cur, <<"END">>) /\ spc' = "push1" /\ cur' = cur
     \/ k = "pull" /\ SrvPut(cur, <<"END", "END">>) /\ spc' = "pull1" /\ cur' = cur
  /\ UNCHANGED <<notified, pending_event, uip_ifstate, prev_ifstate, phase, wait, job, activity, cliVars>>

\* slave { c :> ... } of the commands with a payload.
PushStart ==
  /\ spc = "push1" /\ SrvGet(cur, "END") /\ SrvPut(cur, <<"END">>) /\ spc' = "push2"
  /\ UNCHANGED <<notified, pending_event, uip_ifstate, prev_ifstate, phase, cur, wait, job, activity, cliVars>>
PushData ==
  /\ spc = "push2" /\ SrvGet(cur, "data") /\ FinishCmd(<<"END">>)
  /\ UNCHANGED <<notified, pending_event, uip_ifstate, prev_ifstate, phase, wait, job, activity, cliVars>>

\* master { c <: ... } of XTCP_CMD_GET_IPCONFIG.
PullStart ==
  /\ spc = "pull1" /\ SrvGet(cur, "END") /\ SrvPut(cur, <<"data">>) /\ spc' = "pull2"
  /\ UNCHANGED <<notified, pending_event, uip_ifstate, prev_ifstate, phase, cur, wait, job, activity, cliVars>>
PullEnd ==
  /\ spc = "pull2" /\ SrvGet(cur, "END") /\ FinishCmd(<<>>)
  /\ UNCHANGED <<notified, pending_event, uip_ifstate, prev_ifstate, phase, wait, job, activity, cliVars>>

SweepDoneEarly ==
  /\ spc = "sweep" /\ cur >= NumClients - 1
  /\ wait = NoLink /\ activity = 0
  /\ spc' = "main" /\ cur' = 0
  /\ UNCHANGED <<notified, pending_event, uip_ifstate, prev_ifstate, phase, wait, job, activity, cliVars, s2c, c2s>>

\* The end of the for loop over the links.
SweepAgain ==
  /\ spc = "sweep" /\ cur = NumClients
  /\ IF wait = NoLink THEN activity = 1 ELSE wait \in notified
  /\ cur' = 0 /\ activity' = 0
  /\ UNCHANGED <<notified, pending_event, uip_ifstate, prev_ifstate, phase, spc, wait, job, cliVars, s2c, c2s>>
SweepDone ==
  /\ spc = "sweep" /\ cur = NumClients
  /\ wait = NoLink /\ activity = 0
  /\ spc' = "main" /\ cur' = 0
  /\ UNCHANGED <<notified, pending_event, uip_ifstate, prev_ifstate, phase, wait, job, activity, cliVars, s2c, c2s>>

-----------------------------------------------------------------------------
(* xtcpd_send_event, xtcpd_recv and xtcpd_send on waiting_link.            *)

\* send_conn_and_complete
SendConn ==
  /\ spc = "sweep" /\ cur = NumClients
  /\ wait # NoLink /\ wait \notin notified
  /\ SrvPut(wait, <<job>>)
  /\ spc' = "conn" /\ cur' = wait
  /\ UNCHANGED <<notified, pending_event, uip_ifstate, prev_ifstate, phase, wait, job, activity, cliVars, c2s>>

ReturnToMain == spc' = "main" /\ wait' = NoLink /\ job' = "event" /\ cur' = 0

ConnTaken ==
  /\ spc = "conn" /\ SrvGet(cur, "END")
  /\ IF job = "event"
       THEN ReturnToMain /\ UNCHANGED s2c
       ELSE SrvPut(cur, <<"END">>) /\ spc' = job /\ UNCHANGED <<wait, job, cur>>
  /\ UNCHANGED <<notified, pending_event, uip_ifstate, prev_ifstate, phase, activity, cliVars>>

\* master do_recv: the slave opens, says whether it is ready, takes the data.
RecvOpen ==
  /\ spc = "recv" /\ SrvGet(cur, "END") /\ spc' = "ready"
  /\ UNCHANGED <<notified, pending_event, uip_ifstate, prev_ifstate, phase, cur, wait, job, activity, cliVars, s2c>>
RecvReady ==
  /\ spc = "ready" /\ SrvGet(cur, "ready") /\ SrvPut(cur, <<"data">>) /\ spc' = "taken"
  /\ UNCHANGED <<notified, pending_event, uip_ifstate, prev_ifstate, phase, cur, wait, job, activity, cliVars>>
RecvRefused ==
  /\ spc = "ready" /\ SrvGet(cur, "refuse") /\ SrvPut(cur, <<"END">>) /\ spc' = "refused"
  /\ UNCHANGED <<notified, pending_event, uip_ifstate, prev_ifstate, phase, cur, wait, job, activity, cliVars>>
\* The data were taken: the END after the loop.
RecvDone ==
  /\ spc = "taken" /\ SrvGet(cur, "END") /\ SrvPut(cur, <<"END">>) /\ ReturnToMain
  /\ UNCHANGED <<notified, pending_event, uip_ifstate, prev_ifstate, phase, activity, cliVars>>
\* The data were refused: wait for the client and offer them again.
RecvRetry ==
  /\ spc = "refused" /\ SrvGet(cur, "END") /\ AwaitReady(cur)
  /\ UNCHANGED <<pending_event, uip_ifstate, prev_ifstate, phase, wait, job, activity, cliVars>>

\* xtcpd_send: the slave opens and writes its data, the master closes.
SendOpen ==
  /\ spc = "send" /\ SrvGet(cur, "END") /\ spc' = "bytes"
  /\ UNCHANGED <<notified, pending_event, uip_ifstate, prev_ifstate, phase, cur, wait, job, activity, cliVars, s2c>>
SendBytes ==
  /\ spc = "bytes" /\ SrvGet(cur, "bytes") /\ SrvPut(cur, <<"END">>) /\ spc' = "sent"
  /\ UNCHANGED <<notified, pending_event, uip_ifstate, prev_ifstate, phase, cur, wait, job, activity, cliVars>>
SendDone ==
  /\ spc = "sent" /\ SrvGet(cur, "END") /\ ReturnToMain
  /\ UNCHANGED <<notified, pending_event, uip_ifstate, prev_ifstate, phase, activity, cliVars, s2c>>

ServerStep ==
  \/ SkipLink \/ ServiceReply \/ PendingDelivered \/ ServiceCmd
  \/ \E k \in CmdKinds : HandleCmd(k)
  \/ PushStart \/ PushData \/ PullStart \/ PullEnd
  \/ SweepAgain \/ SweepDone \/ SendConn \/ ConnTaken
  \/ RecvOpen \/ RecvReady \/ RecvRefused \/ RecvDone \/ RecvRetry
  \/ SendOpen \/ SendBytes \/ SendDone

-----------------------------------------------------------------------------
(* The client library. *)

\* The first outputs of send_cmd; any client, at any time it is not in a call.
SendCmd(l) ==
  /\ cpc[l] = "idle"
  /\ CliPut(l, <<"CMD">>)
  /\ cpc' = [cpc EXCEPT ![l] = "cmd1"]
  /\ UNCHANGED <<srvVars, seen, s2c>>

\* A client input of END, the outputs that follow it, and the next input.
CliStep(l, from, msgs, to) ==
  /\ cpc[l] = from
  /\ CliGet(l, "END")
  /\ CliPut(l, msgs)
  /\ cpc' = [cpc EXCEPT ![l] = to]
  /\ UNCHANGED <<srvVars, seen>>

\* The rest of send_cmd: two ENDs, the command words, an END.
CmdFirstEnd(l) == CliStep(l, "cmd1", <<>>, "cmd2")
CmdSecondEnd(l) == \E k \in Cmds : CliStep(l, "cmd2", <<k>>, k)
CmdAccepted(l) ==
  \/ CliStep(l, "plain", <<>>, "idle")
  \/ CliStep(l, "push", <<"END">>, "push1")
  \/ CliStep(l, "pull", <<>>, "pull1")
\* master { c <: ... } and slave { c :> ... } of the commands that have one.
PushOpened(l) == CliStep(l, "push1", <<"data">>, "push2")
PushClosed(l) == CliStep(l, "push2", <<>>, "idle")
PullOpened(l) == CliStep(l, "pull1", <<"END">>, "pull2")
PullTaken(l) ==
  /\ cpc[l] = "pull2" /\ CliGet(l, "data") /\ CliPut(l, <<"END">>)
  /\ cpc' = [cpc EXCEPT ![l] = "idle"]
  /\ UNCHANGED <<srvVars, seen>>

\* slave xtcp_event(c, conn): answer the notification, take the record.
TakeNotification(l) == CliStep(l, "idle", <<"END">>, "event")
\* What the application does with the record depends on the event: it must
\* call xtcp_recv or xtcp_send for the two kinds that carry data.
EventTaken(l, e) ==
  /\ cpc[l] = "event" /\ CliGet(l, e) /\ CliPut(l, <<"END">>)
  /\ cpc' = [cpc EXCEPT ![l] = IF e \in {"recv", "send"} THEN e ELSE "idle"]
  /\ seen' = [seen EXCEPT ![l] = IF e \in IfEvents THEN e ELSE @]
  /\ UNCHANGED srvVars

\* xtcp_recvi, xtcp_recv_count
RecvAccept(l) == CliStep(l, "recv", <<"END", "ready">>, "take")
RecvTake(l) ==
  /\ cpc[l] = "take" /\ CliGet(l, "data") /\ CliPut(l, <<"END">>)
  /\ cpc' = [cpc EXCEPT ![l] = "last"]
  /\ UNCHANGED <<srvVars, seen>>
RecvLast(l) == CliStep(l, "last", <<>>, "idle")
\* xtcp_write delays a packet: slave { tcp_svr <: 0; }
RecvRefuse(l) == CliStep(l, "recv", <<"END", "refuse">>, "close")
\* xtcp_sendi
SendData(l) == CliStep(l, "send", <<"END", "bytes">>, "close")
SlaveClose(l) == CliStep(l, "close", <<"END">>, "idle")

ClientStep(l) ==
  \/ CmdFirstEnd(l) \/ CmdSecondEnd(l) \/ CmdAccepted(l)
  \/ PushOpened(l) \/ PushClosed(l) \/ PullOpened(l) \/ PullTaken(l)
  \/ \E e \in JobKinds \cup IfEvents : EventTaken(l, e)
  \/ RecvAccept(l) \/ RecvTake(l) \/ RecvLast(l) \/ RecvRefuse(l)
  \/ SendData(l) \/ SlaveClose(l)

Next ==
  \/ IfChange \/ CheckState \/ BeginService
  \/ \E l \in Links, j \in Jobs : RaiseEvent(l, j)
  \/ ServerStep
  \/ \E l \in Links : SendCmd(l) \/ TakeNotification(l) \/ ClientStep(l)

(***************************************************************************)
(* Fairness.  Both sides run on, and the main loop comes round: a pass     *)
(* raises finitely many events.  Of the application it is assumed that it  *)
(* returns to its select, where it takes a notification, rather than issue *)
(* commands for ever, and that it does not refuse data for ever.           *)
(***************************************************************************)
EventLoop(l) == <>[][~SendCmd(l)]_vars \/ []<><<TakeNotification(l)>>_vars

Fairness ==
  /\ WF_vars(ServerStep) /\ SF_vars(CheckState \/ BeginService)
  /\ \A l \in Links :
       /\ WF_vars(ClientStep(l)) /\ WF_vars(TakeNotification(l))
       /\ SF_vars(RecvAccept(l))
       /\ EventLoop(l)

Spec == Init /\ [][Next]_vars
FairSpec == Spec /\ Fairness

-----------------------------------------------------------------------------
ClientPCs == {"idle", "cmd1", "cmd2", "plain", "push", "push1", "push2",
              "pull", "pull1", "pull2", "event", "recv", "send", "take", "last", "close"}
ServerPCs == {"main", "sweep", "pend", "cmd", "push1", "push2", "pull1", "pull2",
              "conn", "recv", "ready", "taken", "refused", "send", "bytes", "sent"}

ServerOK ==
  /\ notified \in SUBSET Links
  /\ pending_event \in [Links -> IfEvents \cup {"none"}]
  /\ uip_ifstate \in IfEvents
  /\ prev_ifstate \in [Links -> IfEvents \cup {"none"}]
  /\ phase \in {"poll", "input"}
  /\ spc \in ServerPCs
  /\ cur \in Links \cup {NumClients} /\ (cur = NumClients => spc = "sweep")
  /\ wait \in Links \cup {NoLink}
  /\ job \in JobKinds
  /\ activity \in {0, 1}

ClientOK ==
  /\ cpc \in [Links -> ClientPCs]
  /\ seen \in [Links -> IfEvents \cup {"none"}]

ChannelsOK ==
  /\ s2c \in [Links -> Seq(Tokens)]
  /\ c2s \in [Links -> Seq(Tokens)]

\* The variables of both sides of every link keep their types; the server is
\* past the last link only in a sweep.
TypeOK == ServerOK /\ ClientOK /\ ChannelsOK

\* The messages the input a client stands at accepts: chkct traps on data,
\* a data input on a control token.
ClientAccepts(pc) ==
  CASE pc = "event" -> JobKinds \cup IfEvents
    [] pc \in {"take", "pull2"} -> {"data"}
    [] OTHER -> {"END"}

\* The same for the input the server stands at; between transactions it reads
\* a control token from any link.
ServerAccepts(l) ==
  IF spc \in {"main", "sweep"} \/ l # cur THEN {"END", "CMD"}
  ELSE CASE spc = "cmd" -> CmdKinds
         [] spc = "push2" -> {"data"}
         [] spc = "ready" -> {"ready", "refuse"}
         [] spc = "bytes" -> {"bytes"}
         [] OTHER -> {"END"}

\* No thread ever traps: whatever the interleaving of notifications, commands
\* and events, the message at the head of a channel is one that the input
\* its reader stands at (chkct, inuint, :>) can take.
TokensMatch ==
  \A l \in Links :
    /\ s2c[l] # <<>> => Head(s2c[l]) \in ClientAccepts(cpc[l])
    /\ c2s[l] # <<>> => Head(c2s[l]) \in ServerAccepts(l)

\* A channel never holds more than two messages, so that the outputs which the
\* server and the client make without waiting (outct of a notification, of a
\* renewal, of a command token) fit a channel end's buffer and cannot block.
ChannelsShort == \A l \in Links : Len(s2c[l]) <= 2 /\ Len(c2s[l]) <= 2

\* Both: the two ends of a link are in step, in every interleaving of commands,
\* notifications, events and transfers.
InStep == TokensMatch /\ ChannelsShort

\* notified holds a link exactly while the server owes client l an event: the one
\* of waiting_link or a queued one.  A client that has answered is therefore
\* never left inside xtcp_event with nothing to read, and no queued event
\* sits unannounced.
NotifiedMeansOwed ==
  \A l \in Links :
    /\ l \in notified => pending_event[l] # "none" \/ wait = l
    /\ pending_event[l] # "none" => l \in notified \/ (spc = "pend" /\ cur = l)
    /\ cpc[l] = "event" => l \in notified \/ s2c[l] # <<>> \/ wait = l

\* Overwriting pending_event merges interface events but never loses the last:
\* a client with nothing queued has seen the state last checked for it.
LastIfStateSeen ==
  \A l \in Links : pending_event[l] = "none" => seen[l] = prev_ifstate[l]

\* xtcpd_service_clients_until_ready returns: an event the stack raises for a
\* link is taken by its client, whatever commands the clients issue meanwhile.
EventsAreTaken == wait # NoLink ~> wait = NoLink

\* send_cmd returns: a client that issues a command gets back to its loop.
CommandsReturn == \A l \in Links : cpc[l] = "cmd1" ~> cpc[l] = "idle"

\* If the interface settles in a state, every client ends up knowing it.
IfStateReachesAll ==
  \A e \in IfEvents : <>[](uip_ifstate = e) => \A l \in Links : <>[](seen[l] = e)
=============================================================================
