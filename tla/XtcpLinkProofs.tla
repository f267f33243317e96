--------------------------- MODULE XtcpLinkProofs ---------------------------
(***************************************************************************)
(* The inductive invariant of XtcpLink, and the proofs that the link       *)
(* protocol keeps its properties for every number of clients.              *)
(***************************************************************************)
EXTENDS XtcpLink, TLAPS

\* Client l stands at pc, out is on its way to it, in on its way from it.
At(l, pc, out, in) == cpc[l] = pc /\ s2c[l] = out /\ c2s[l] = in

\* The client is done with the transaction the server still has to close, and
\* may already have sent the token of its next command.
Closing(l) ==
  \/ At(l, "idle", <<>>, <<"END">>)
  \/ At(l, "cmd1", <<>>, <<"END", "CMD">>)

\* The server is in a transaction with l.
Serving(l) == spc \notin {"main", "sweep"} /\ cur = l

\* It is not, and l has no notification (or has answered the one of an event).
Quiet(l) ==
  \/ At(l, "idle", <<>>, <<>>) /\ wait # l
  \/ At(l, "cmd1", <<>>, <<"CMD">>) /\ wait # l
  \/ At(l, "event", <<>>, <<>>) /\ wait = l
  \/ \E pc \in {"plain", "push2", "last"} : At(l, pc, <<"END">>, <<>>) /\ wait # l

\* It is not, and l has a notification to answer or has just answered it.
Notified(l) ==
  \/ At(l, "idle", <<"END">>, <<>>)
  \/ At(l, "event", <<>>, <<"END">>)
  \/ At(l, "cmd1", <<"END">>, <<"CMD">>)
  \/ At(l, "cmd2", <<>>, <<"CMD">>)
  \/ \E pc \in {"plain", "push2", "last"} : At(l, pc, <<"END", "END">>, <<>>)

\* Where the two sides can be while a command of l is served.
InCommand(l) ==
  \/ /\ spc = "cmd"
     /\ \/ At(l, "cmd1", <<"END", "END">>, <<>>)
        \/ At(l, "cmd2", <<"END">>, <<>>)
        \/ \E k \in CmdKinds : At(l, k, <<>>, <<k>>)
  \/ spc = "push1" /\ (At(l, "push", <<"END">>, <<>>) \/ At(l, "push1", <<>>, <<"END">>))
  \/ spc = "push2" /\ (At(l, "push1", <<"END">>, <<>>) \/ At(l, "push2", <<>>, <<"data">>))
  \/ /\ spc = "pull1"
     /\ \/ At(l, "pull", <<"END", "END">>, <<>>)
        \/ At(l, "pull1", <<"END">>, <<>>)
        \/ At(l, "pull2", <<>>, <<"END">>)
  \/ spc = "pull2" /\ (At(l, "pull2", <<"data">>, <<>>) \/ Closing(l))

\* Where they can be while an event of waiting_link is handed over.
InEvent(l) ==
  \/ /\ spc = "conn"
     /\ \/ At(l, "event", <<job>>, <<>>)
        \/ job = "event" /\ Closing(l)
        \/ job \in {"recv", "send"} /\ At(l, job, <<>>, <<"END">>)
  \/ /\ spc = "recv"
     /\ \/ At(l, "recv", <<"END">>, <<>>)
        \/ At(l, "take", <<>>, <<"END", "ready">>)
        \/ At(l, "close", <<>>, <<"END", "refuse">>)
  \/ spc = "ready" /\ (At(l, "take", <<>>, <<"ready">>) \/ At(l, "close", <<>>, <<"refuse">>))
  \/ spc = "taken" /\ (At(l, "take", <<"data">>, <<>>) \/ At(l, "last", <<>>, <<"END">>))
  \/ spc = "send" /\ (At(l, "send", <<"END">>, <<>>) \/ At(l, "close", <<>>, <<"END", "bytes">>))
  \/ spc = "bytes" /\ At(l, "close", <<>>, <<"bytes">>)
  \/ spc \in {"refused", "sent"} /\ (At(l, "close", <<"END">>, <<>>) \/ Closing(l))

\* ... and while a queued interface event is.
InPending(l) ==
  /\ spc = "pend"
  /\ pending_event[l] # "none"
  /\ \/ At(l, "event", <<pending_event[l]>>, <<>>)
     \/ Closing(l) /\ seen[l] = pending_event[l]

\* The joint state of the two sides of link l.
LinkInv(l) ==
  /\ ~Serving(l) => IF l \in notified THEN Notified(l) ELSE Quiet(l)
  /\ Serving(l) => \/ InCommand(l) /\ (wait = l => l \in notified)
                   \/ InEvent(l) /\ l \notin notified /\ wait = l
                   \/ InPending(l) /\ l \notin notified
  /\ l \in notified => pending_event[l] # "none" \/ wait = l
  /\ pending_event[l] # "none" => l \in notified \/ (spc = "pend" /\ cur = l)
  /\ pending_event[l] = "none" => seen[l] = prev_ifstate[l]
  /\ pending_event[l] # "none" => pending_event[l] = prev_ifstate[l]

\* The inductive invariant: the table of joint states that the interleaving of
\* notifications, commands and events can reach, on every link.
IInv == TypeOK /\ (spc = "main" => wait = NoLink) /\ \A l \in Links : LinkInv(l)

-----------------------------------------------------------------------------
\* What the provers have to know of short sequences: two messages put into an
\* empty channel one after the other lie there in that order.
LEMMA TwoMessages ==
  ASSUME NEW a \in Tokens, NEW b \in Tokens
  PROVE  <<a>> \o <<b>> = <<a, b>>
<1> DEFINE x == <<a>>  y == <<b>>  z == <<a, b>>
           f == [i \in 1 .. 2 |-> IF i <= 1 THEN x[i] ELSE y[i - 1]]
<1>1. x \in Seq(Tokens) /\ y \in Seq(Tokens) /\ Len(x) = 1 /\ Len(y) = 1
  OBVIOUS
<1>2. x \o y = f
  BY <1>1
<1>3. z = f
  OBVIOUS
<1> QED
  BY <1>2, <1>3

\* Every message either side puts into a channel is a token of the protocol.
LEMMA TokenKinds ==
  /\ {"END", "CMD", "data", "bytes", "ready", "refuse"} \subseteq Tokens
  /\ CmdKinds \subseteq Tokens /\ JobKinds \subseteq Tokens /\ IfEvents \subseteq Tokens
  BY DEF Tokens, Words

\* The loop over the links starts at a link and ends one past the last.
LEMMA LinkBounds ==
  /\ 0 \in Links /\ NumClients \notin Links /\ NoLink \notin Links
  /\ \A l \in Links : l + 1 \in Links \cup {NumClients}
  BY ClientsAssumption DEF Links, NoLink

\* Sequences of tokens that the two sides send.
LEMMA Messages ==
  /\ <<>> \in Seq(Tokens)
  /\ \A a \in Tokens : <<a>> \in Seq(Tokens)
  /\ \A a, b \in Tokens : <<a, b>> \in Seq(Tokens)
  /\ \A m, n \in Seq(Tokens) : m \o n \in Seq(Tokens)
  OBVIOUS

\* The four channel operations keep the types of the channels.
LEMMA ChannelTypes ==
  ASSUME ChannelsOK, NEW l \in Links
  PROVE  /\ \A tok : SrvGet(l, tok) => c2s' \in [Links -> Seq(Tokens)]
         /\ \A tok : CliGet(l, tok) => s2c' \in [Links -> Seq(Tokens)]
         /\ \A m \in Seq(Tokens) : SrvPut(l, m) => s2c' \in [Links -> Seq(Tokens)]
         /\ \A m \in Seq(Tokens) : CliPut(l, m) => c2s' \in [Links -> Seq(Tokens)]
<1>1. \A tok : SrvGet(l, tok) => c2s' \in [Links -> Seq(Tokens)]
  BY DEF SrvGet, ChannelsOK
<1>2. \A tok : CliGet(l, tok) => s2c' \in [Links -> Seq(Tokens)]
  BY DEF CliGet, ChannelsOK
<1>3. \A m \in Seq(Tokens) : SrvPut(l, m) => s2c' \in [Links -> Seq(Tokens)]
  BY DEF SrvPut, ChannelsOK
<1>4. \A m \in Seq(Tokens) : CliPut(l, m) => c2s' \in [Links -> Seq(Tokens)]
  BY DEF CliPut, ChannelsOK
<1> QED
  BY <1>1, <1>2, <1>3, <1>4

\* The server's own variables keep their types.
LEMMA ServerTypes == ServerOK /\ [Next]_vars => ServerOK'
<1> SUFFICES ASSUME ServerOK, [Next]_vars PROVE ServerOK'
  OBVIOUS
<1> USE LinkBounds, KindsAssumption DEF ServerOK, ServerPCs
<1>1. CASE IfChange
  BY <1>1 DEF IfChange, IfEvents
<1>2. CASE CheckState
  BY <1>2 DEF CheckState, Stale
<1>3. CASE BeginService
  BY <1>3 DEF BeginService
<1>4. ASSUME NEW l \in Links, NEW j \in Jobs, RaiseEvent(l, j) PROVE ServerOK'
  BY <1>4 DEF RaiseEvent, AwaitReady
<1>5. CASE ServerStep
  <2>1. CASE SkipLink
    BY <2>1 DEF SkipLink
  <2>2. CASE ServiceReply
    BY <2>2 DEF ServiceReply
  <2>3. CASE PendingDelivered
    BY <2>3 DEF PendingDelivered
  <2>4. CASE ServiceCmd
    BY <2>4 DEF ServiceCmd
  <2>5. ASSUME NEW k \in CmdKinds, HandleCmd(k) PROVE ServerOK'
    BY <2>5 DEF HandleCmd, FinishCmd
  <2>6. CASE PushStart \/ PushData \/ PullStart \/ PullEnd
    <3>1. CASE PushStart
      BY <3>1 DEF PushStart
    <3>2. CASE PushData
      BY <3>2 DEF PushData, FinishCmd
    <3>3. CASE PullStart
      BY <3>3 DEF PullStart
    <3>4. CASE PullEnd
      BY <3>4 DEF PullEnd, FinishCmd
    <3> QED
      BY <2>6, <3>1, <3>2, <3>3, <3>4
  <2>7. CASE SweepAgain \/ SweepDone
    BY <2>7 DEF SweepAgain, SweepDone
  <2>8. CASE SendConn
    BY <2>8 DEF SendConn
  <2>9. CASE ConnTaken
    BY <2>9 DEF ConnTaken, ReturnToMain, JobKinds
  <2>10. CASE RecvOpen \/ RecvReady \/ RecvRefused \/ RecvDone
    BY <2>10 DEF RecvOpen, RecvReady, RecvRefused, RecvDone, ReturnToMain, JobKinds
  <2>11. CASE RecvRetry
    BY <2>11 DEF RecvRetry, AwaitReady
  <2>12. CASE SendOpen \/ SendBytes \/ SendDone
    BY <2>12 DEF SendOpen, SendBytes, SendDone, ReturnToMain, JobKinds
  <2> QED
    BY <1>5, <2>1, <2>2, <2>3, <2>4, <2>5, <2>6, <2>7, <2>8, <2>9, <2>10, <2>11, <2>12 DEF ServerStep
<1>6. ASSUME NEW l \in Links, SendCmd(l) \/ TakeNotification(l) \/ ClientStep(l) PROVE UNCHANGED srvVars
  BY <1>6 DEF SendCmd, TakeNotification, ClientStep, CliStep, CmdFirstEnd, CmdSecondEnd, CmdAccepted,
              PushOpened, PushClosed, PullOpened, PullTaken, EventTaken, RecvAccept, RecvTake,
              RecvLast, RecvRefuse, SendData, SlaveClose
<1>7. CASE UNCHANGED srvVars
  BY <1>7 DEF srvVars
<1> QED
  BY <1>1, <1>2, <1>3, <1>4, <1>5, <1>6, <1>7 DEF Next, vars

\* The clients' variables keep their types.
LEMMA ClientTypes == ClientOK /\ [Next]_vars => ClientOK'
<1> SUFFICES ASSUME ClientOK, [Next]_vars PROVE ClientOK'
  OBVIOUS
<1> USE KindsAssumption DEF ClientOK, ClientPCs
<1>1. CASE IfChange \/ CheckState \/ BeginService \/ \E l \in Links, j \in Jobs : RaiseEvent(l, j)
  BY <1>1 DEF IfChange, CheckState, BeginService, RaiseEvent, cliVars
<1>2. CASE ServerStep
  BY <1>2 DEF ServerStep, cliVars, SkipLink, ServiceReply, PendingDelivered, ServiceCmd, HandleCmd,
              PushStart, PushData, PullStart, PullEnd, SweepAgain, SweepDone, SendConn, ConnTaken,
              RecvOpen, RecvReady, RecvRefused, RecvDone, RecvRetry, SendOpen, SendBytes, SendDone
<1>3. ASSUME NEW l \in Links, NEW from, NEW msgs, NEW to \in ClientPCs, CliStep(l, from, msgs, to)
      PROVE  ClientOK'
  BY <1>3 DEF CliStep
<1>4. ASSUME NEW l \in Links, SendCmd(l) \/ PullTaken(l) \/ RecvTake(l) PROVE ClientOK'
  BY <1>4 DEF SendCmd, PullTaken, RecvTake
<1>5. ASSUME NEW l \in Links, NEW e \in JobKinds \cup IfEvents, EventTaken(l, e) PROVE ClientOK'
  BY <1>5 DEF EventTaken
<1>6. ASSUME NEW l \in Links, TakeNotification(l) \/ ClientStep(l) PROVE ClientOK'
  <2>1. Cmds \subseteq ClientPCs
    BY DEF CmdKinds
  <2> HIDE DEF ClientOK
  <2> QED
    BY <1>3, <1>4, <1>5, <1>6, <2>1
    DEF TakeNotification, ClientStep, CmdFirstEnd, CmdSecondEnd, CmdAccepted, PushOpened, PushClosed,
        PullOpened, RecvAccept, RecvLast, RecvRefuse, SendData, SlaveClose
<1>7. CASE UNCHANGED vars
  BY <1>7 DEF vars, cliVars
<1> QED
  BY <1>1, <1>2, <1>4, <1>6, <1>7 DEF Next

\* The channels keep their types.
LEMMA ChannelsTypes == TypeOK /\ [Next]_vars => ChannelsOK'
<1> SUFFICES ASSUME TypeOK, [Next]_vars PROVE ChannelsOK'
  OBVIOUS
<1> USE TokenKinds, Messages, LinkBounds, KindsAssumption DEF ChannelsOK
<1>0. ChannelsOK /\ ServerOK /\ (spc # "sweep" => cur \in Links)
  BY DEF TypeOK, ServerOK
<1>1. CASE IfChange \/ BeginService \/ SkipLink \/ SweepAgain \/ SweepDone
  BY <1>0, <1>1 DEF IfChange, BeginService, SkipLink, SweepAgain, SweepDone
<1>2. CASE CheckState
  BY <1>0, <1>2 DEF CheckState
<1>3. ASSUME NEW l \in Links, NEW j \in Jobs, RaiseEvent(l, j) PROVE ChannelsOK'
  BY <1>0, <1>3, ChannelTypes DEF RaiseEvent, AwaitReady
<1>4. CASE ServiceReply
  BY <1>0, <1>4, ChannelTypes DEF ServiceReply, ServerOK
<1>5. CASE PendingDelivered
  BY <1>0, <1>5, ChannelTypes DEF PendingDelivered
<1>6. CASE ServiceCmd
  BY <1>0, <1>6, ChannelTypes DEF ServiceCmd
<1>7. ASSUME NEW k \in CmdKinds, HandleCmd(k) PROVE ChannelsOK'
  BY <1>0, <1>7, ChannelTypes DEF HandleCmd, FinishCmd, Renewal
<1>8. CASE PushStart \/ PullStart
  BY <1>0, <1>8, ChannelTypes DEF PushStart, PullStart
<1>9. CASE PushData \/ PullEnd
  BY <1>0, <1>9, ChannelTypes DEF PushData, PullEnd, FinishCmd, Renewal
<1>10. CASE SendConn
  BY <1>0, <1>10, ChannelTypes DEF SendConn, ServerOK
<1>11. CASE ConnTaken
  BY <1>0, <1>11, ChannelTypes DEF ConnTaken
<1>12. CASE RecvOpen \/ SendOpen \/ SendDone
  BY <1>0, <1>12, ChannelTypes DEF RecvOpen, SendOpen, SendDone
<1>13. CASE RecvReady \/ RecvRefused \/ RecvDone \/ SendBytes
  BY <1>0, <1>13, ChannelTypes DEF RecvReady, RecvRefused, RecvDone, SendBytes
<1>14. CASE RecvRetry
  BY <1>0, <1>14, ChannelTypes DEF RecvRetry, AwaitReady
<1>15. ASSUME NEW l \in Links, SendCmd(l) \/ PullTaken(l) \/ RecvTake(l) PROVE ChannelsOK'
  BY <1>0, <1>15, ChannelTypes DEF SendCmd, PullTaken, RecvTake
<1>16. ASSUME NEW l \in Links, NEW e, EventTaken(l, e) PROVE ChannelsOK'
  BY <1>0, <1>16, ChannelTypes DEF EventTaken
<1>17. ASSUME NEW l \in Links, NEW from, NEW msgs \in Seq(Tokens), NEW to, CliStep(l, from, msgs, to)
       PROVE  ChannelsOK'
  BY <1>0, <1>17, ChannelTypes DEF CliStep
<1>18. ASSUME NEW l \in Links, TakeNotification(l) \/ ClientStep(l) PROVE ChannelsOK'
  <2> HIDE DEF ChannelsOK
  <2> QED
    BY <1>15, <1>16, <1>17, <1>18
    DEF TakeNotification, ClientStep, CmdFirstEnd, CmdSecondEnd, CmdAccepted, PushOpened, PushClosed,
        PullOpened, RecvAccept, RecvLast, RecvRefuse, SendData, SlaveClose
<1>19. CASE UNCHANGED vars
  BY <1>0, <1>19 DEF vars
<1> QED
  BY <1>1, <1>2, <1>3, <1>4, <1>5, <1>6, <1>7, <1>8, <1>9, <1>10, <1>11, <1>12, <1>13, <1>14, <1>15,
     <1>18, <1>19 DEF Next, ServerStep

\* Type correctness, for every number of clients: in particular the sweep's
\* index never leaves the array of links while the server is in a transaction.
THEOREM TypeCorrect == Spec => []TypeOK
<1>1. Init => TypeOK
  BY LinkBounds, Messages
  DEF Init, TypeOK, ServerOK, ClientOK, ChannelsOK, IfEvents, JobKinds, ServerPCs, ClientPCs
<1>2. TypeOK /\ [Next]_vars => TypeOK'
  BY ServerTypes, ClientTypes, ChannelsTypes DEF TypeOK
<1> QED
  BY <1>1, <1>2, PTL DEF Spec

-----------------------------------------------------------------------------
\* A step that touches neither the two sides of link k nor the server's
\* business with it leaves its joint state alone.
LEMMA Frame ==
  ASSUME NEW k \in Links, LinkInv(k), ~Serving(k), ~Serving(k)',
         cpc'[k] = cpc[k], s2c'[k] = s2c[k], c2s'[k] = c2s[k], seen'[k] = seen[k],
         pending_event'[k] = pending_event[k], prev_ifstate'[k] = prev_ifstate[k],
         k \in notified' <=> k \in notified, wait' = k <=> wait = k
  PROVE  LinkInv(k)'
  BY DEF LinkInv, Notified, Quiet, At, Serving

\* What the channel operations do to channels that hold one or two messages.
LEMMA Received ==
  ASSUME ChannelsOK, NEW l \in Links, NEW tok, SrvGet(l, tok)
  PROVE  /\ \A a : c2s[l] = <<a>> => a = tok /\ c2s'[l] = <<>>
         /\ \A a, b : c2s[l] = <<a, b>> => a = tok /\ c2s'[l] = <<b>>
         /\ \A k \in Links \ {l} : c2s'[k] = c2s[k]
<1>1. Head(c2s[l]) = tok /\ c2s'[l] = Tail(c2s[l]) /\ \A k \in Links \ {l} : c2s'[k] = c2s[k]
  BY DEF SrvGet, ChannelsOK
<1>2. ASSUME NEW a, c2s[l] = <<a>> PROVE a = tok /\ c2s'[l] = <<>>
  BY <1>1, <1>2
<1>3. ASSUME NEW a, NEW b, c2s[l] = <<a, b>> PROVE a = tok /\ c2s'[l] = <<b>>
  BY <1>1, <1>3
<1> QED
  BY <1>1, <1>2, <1>3

LEMMA Sent ==
  ASSUME ChannelsOK, NEW l \in Links, NEW m \in Seq(Tokens), SrvPut(l, m)
  PROVE  /\ s2c[l] = <<>> => s2c'[l] = m
         /\ \A a, b \in Tokens : s2c[l] = <<a>> /\ m = <<b>> => s2c'[l] = <<a, b>>
         /\ \A k \in Links \ {l} : s2c'[k] = s2c[k]
<1>1. s2c'[l] = s2c[l] \o m /\ \A k \in Links \ {l} : s2c'[k] = s2c[k]
  BY DEF SrvPut, ChannelsOK
<1>2. ASSUME s2c[l] = <<>> PROVE s2c'[l] = m
  BY <1>1, <1>2
<1>3. ASSUME NEW a \in Tokens, NEW b \in Tokens, s2c[l] = <<a>>, m = <<b>> PROVE s2c'[l] = <<a, b>>
  BY <1>1, <1>3, TwoMessages
<1> QED
  BY <1>1, <1>2, <1>3

\* The messages that end a command.
LEMMA Renewals ==
  /\ cur \in notified => <<"END">> \o Renewal = <<"END", "END">> /\ <<>> \o Renewal = <<"END">>
  /\ cur \notin notified => <<"END">> \o Renewal = <<"END">> /\ <<>> \o Renewal = <<>>
<1>1. <<"END">> \o <<"END">> = <<"END", "END">> /\ <<>> \o <<"END">> = <<"END">>
  BY TwoMessages, TokenKinds
<1>2. <<"END">> \o <<>> = <<"END">> /\ <<>> \o <<>> = <<>>
  OBVIOUS
<1>3. CASE cur \in notified
  BY <1>1, <1>3 DEF Renewal
<1>4. CASE cur \notin notified
  BY <1>2, <1>4 DEF Renewal
<1> QED
  BY <1>3, <1>4

\* The client of a closing transaction, once the server has closed it.
Released(l) ==
  \/ cpc[l] = "idle" /\ c2s[l] = <<>>
  \/ cpc[l] = "cmd1" /\ c2s[l] = <<"CMD">>

LEMMA Closed ==
  ASSUME ChannelsOK, NEW l \in Links, Closing(l), SrvGet(l, "END"), cpc' = cpc
  PROVE  Released(l)' /\ s2c[l] = <<>>
<1>1. CASE At(l, "idle", <<>>, <<"END">>)
  BY <1>1, Received DEF Released, At
<1>2. CASE At(l, "cmd1", <<>>, <<"END", "CMD">>)
  BY <1>2, Received DEF Released, At
<1> QED
  BY <1>1, <1>2 DEF Closing

\* The server opens the transaction of a command with a payload.
LEMMA PushStartKeeps ==
  ASSUME IInv, TypeOK', NEW l \in Links, cur = l, PushStart
  PROVE  IInv'
<1>1. LinkInv(l) /\ Serving(l) /\ TypeOK
  BY DEF IInv, PushStart, Serving
<1>2. At(l, "push1", <<>>, <<"END">>) /\ (wait = l => l \in notified)
  BY <1>1 DEF LinkInv, PushStart, SrvGet, InCommand, InEvent, InPending, At, Closing
<1>3. At(l, "push1", <<"END">>, <<>>)'
  BY <1>1, <1>2, Received, Sent, Messages, TokenKinds DEF PushStart, TypeOK, cliVars, At
<1>4. LinkInv(l)'
  BY <1>1, <1>2, <1>3, LinkBounds
  DEF LinkInv, PushStart, InCommand, Serving, At, cliVars
<1>5. ASSUME NEW k \in Links, k # l PROVE LinkInv(k)'
  BY <1>1, <1>2, <1>5, Frame, LinkBounds
  DEF PushStart, SrvGet, SrvPut, IInv, TypeOK, ServerOK, ChannelsOK, ClientOK, cliVars, Serving
<1> QED
  BY <1>1, <1>2, <1>4, <1>5 DEF IInv, PushStart

\* The server takes the payload and renews a swallowed notification.
LEMMA PushDataKeeps ==
  ASSUME IInv, TypeOK', NEW l \in Links, cur = l, PushData
  PROVE  IInv'
<1>1. LinkInv(l) /\ Serving(l) /\ TypeOK
  BY DEF IInv, PushData, FinishCmd, Serving
<1>2. At(l, "push2", <<>>, <<"data">>) /\ (wait = l => l \in notified)
  BY <1>1 DEF LinkInv, PushData, FinishCmd, SrvGet, InCommand, InEvent, InPending, At, Closing
<1>3. /\ cpc'[l] = "push2" /\ c2s'[l] = <<>>
      /\ s2c'[l] = IF l \in notified THEN <<"END", "END">> ELSE <<"END">>
  <2>1. <<"END">> \o Renewal = IF l \in notified THEN <<"END", "END">> ELSE <<"END">>
    BY Renewals
  <2>2. <<"END">> \o Renewal \in Seq(Tokens)
    BY <2>1, Messages, TokenKinds
  <2>3. s2c'[l] = <<"END">> \o Renewal
    BY <1>1, <1>2, <2>2, Sent DEF PushData, FinishCmd, TypeOK, At
  <2> QED
    BY <1>1, <1>2, <2>1, <2>3, Received DEF PushData, TypeOK, cliVars, At
<1>4. LinkInv(l)'
  BY <1>1, <1>2, <1>3, LinkBounds
  DEF LinkInv, PushData, FinishCmd, Notified, Quiet, Serving, At, cliVars
<1>5. ASSUME NEW k \in Links, k # l PROVE LinkInv(k)'
  BY <1>1, <1>2, <1>5, Frame, LinkBounds
  DEF PushData, FinishCmd, SrvGet, SrvPut, IInv, TypeOK, ServerOK, ChannelsOK, ClientOK, cliVars, Serving
<1> QED
  BY <1>1, <1>2, <1>4, <1>5 DEF IInv, PushData, FinishCmd

\* The server writes the answer of xtcp_get_ipconfig.
LEMMA PullStartKeeps ==
  ASSUME IInv, TypeOK', NEW l \in Links, cur = l, PullStart
  PROVE  IInv'
<1>1. LinkInv(l) /\ Serving(l) /\ TypeOK
  BY DEF IInv, PullStart, Serving
<1>2. At(l, "pull2", <<>>, <<"END">>) /\ (wait = l => l \in notified)
  BY <1>1 DEF LinkInv, PullStart, SrvGet, InCommand, InEvent, InPending, At, Closing
<1>3. At(l, "pull2", <<"data">>, <<>>)'
  BY <1>1, <1>2, Received, Sent, Messages, TokenKinds DEF PullStart, TypeOK, cliVars, At
<1>4. LinkInv(l)'
  BY <1>1, <1>2, <1>3, LinkBounds
  DEF LinkInv, PullStart, InCommand, Serving, At, cliVars
<1>5. ASSUME NEW k \in Links, k # l PROVE LinkInv(k)'
  BY <1>1, <1>2, <1>5, Frame, LinkBounds
  DEF PullStart, SrvGet, SrvPut, IInv, TypeOK, ServerOK, ChannelsOK, ClientOK, cliVars, Serving
<1> QED
  BY <1>1, <1>2, <1>4, <1>5 DEF IInv, PullStart

\* The server closes it and renews a swallowed notification.
LEMMA PullEndKeeps ==
  ASSUME IInv, TypeOK', NEW l \in Links, cur = l, PullEnd
  PROVE  IInv'
<1>1. LinkInv(l) /\ Serving(l) /\ TypeOK
  BY DEF IInv, PullEnd, FinishCmd, Serving
<1>2. Closing(l) /\ (wait = l => l \in notified)
  BY <1>1 DEF LinkInv, PullEnd, FinishCmd, SrvGet, InCommand, InEvent, InPending, At, Closing
<1>3. Released(l)' /\ s2c'[l] = IF l \in notified THEN <<"END">> ELSE <<>>
  BY <1>1, <1>2, Closed, Renewals, Sent, Messages, TokenKinds DEF PullEnd, FinishCmd, TypeOK, cliVars
<1>4. LinkInv(l)'
  BY <1>1, <1>2, <1>3, LinkBounds
  DEF LinkInv, PullEnd, FinishCmd, Notified, Quiet, Released, Serving, At, cliVars
<1>5. ASSUME NEW k \in Links, k # l PROVE LinkInv(k)'
  BY <1>1, <1>2, <1>5, Frame, LinkBounds
  DEF PullEnd, FinishCmd, SrvGet, SrvPut, IInv, TypeOK, ServerOK, ChannelsOK, ClientOK, cliVars, Serving
<1> QED
  BY <1>1, <1>2, <1>4, <1>5 DEF IInv, PullEnd, FinishCmd

\* The server takes the command words.
LEMMA HandleCmdKeeps ==
  ASSUME IInv, TypeOK', NEW l \in Links, cur = l, NEW c \in CmdKinds, HandleCmd(c)
  PROVE  IInv'
<1>1. LinkInv(l) /\ Serving(l) /\ TypeOK
  BY DEF IInv, HandleCmd, FinishCmd, Serving
<1>2. At(l, c, <<>>, <<c>>) /\ (wait = l => l \in notified)
  BY <1>1 DEF LinkInv, HandleCmd, FinishCmd, SrvGet, InCommand, InEvent, InPending, At, Closing
<1>3. /\ cpc'[l] = c /\ c2s'[l] = <<>>
      /\ s2c'[l] = IF c = "pull" \/ (c = "plain" /\ l \in notified) THEN <<"END", "END">> ELSE <<"END">>
  <2>1. <<"END">> \o Renewal = IF l \in notified THEN <<"END", "END">> ELSE <<"END">>
    BY Renewals
  <2>2. <<"END">> \o Renewal \in Seq(Tokens)
    BY <2>1, Messages, TokenKinds
  <2>3. \A m \in Seq(Tokens) : SrvPut(l, m) => s2c'[l] = m
    BY <1>1, <1>2, Sent DEF TypeOK, At
  <2>4. s2c'[l] = IF c = "plain" THEN <<"END">> \o Renewal
                  ELSE IF c = "push" THEN <<"END">> ELSE <<"END", "END">>
    BY <2>2, <2>3, Messages, TokenKinds DEF HandleCmd, FinishCmd, CmdKinds
  <2>5. cpc'[l] = c /\ c2s'[l] = <<>>
    BY <1>1, <1>2, Received DEF HandleCmd, TypeOK, cliVars, At
  <2> QED
    BY <2>1, <2>4, <2>5 DEF CmdKinds
<1>4. LinkInv(l)'
  BY <1>1, <1>2, <1>3, LinkBounds
  DEF LinkInv, HandleCmd, FinishCmd, CmdKinds, InCommand, Notified, Quiet, Serving, At, cliVars
<1>5. ASSUME NEW k \in Links, k # l PROVE LinkInv(k)'
  BY <1>1, <1>2, <1>5, Frame, LinkBounds
  DEF HandleCmd, FinishCmd, SrvGet, SrvPut, IInv, TypeOK, ServerOK, ChannelsOK, ClientOK, cliVars, Serving
<1> QED
  BY <1>1, <1>2, <1>4, <1>5 DEF IInv, HandleCmd, FinishCmd

\* The client has taken the queued interface event.
LEMMA PendingDeliveredKeeps ==
  ASSUME IInv, TypeOK', NEW l \in Links, cur = l, PendingDelivered
  PROVE  IInv'
<1>1. LinkInv(l) /\ Serving(l) /\ TypeOK
  BY DEF IInv, PendingDelivered, Serving
<1>2. Closing(l) /\ seen[l] = pending_event[l] /\ l \notin notified /\ pending_event[l] # "none"
  BY <1>1 DEF LinkInv, PendingDelivered, SrvGet, InCommand, InEvent, InPending, At, Closing
<1>3. Released(l)' /\ s2c'[l] = IF l = wait THEN <<"END">> ELSE <<>>
  BY <1>1, <1>2, Closed, Received, Sent, Messages, TokenKinds DEF PendingDelivered, TypeOK, cliVars, At
<1>4. LinkInv(l)'
  BY <1>1, <1>2, <1>3, LinkBounds
  DEF LinkInv, PendingDelivered, Notified, Quiet, Released, TypeOK, ServerOK, ChannelsOK, ClientOK, Serving, At, cliVars
<1>5. ASSUME NEW k \in Links, k # l PROVE LinkInv(k)'
  BY <1>1, <1>2, <1>5, Frame, LinkBounds
  DEF PendingDelivered, SrvGet, SrvPut, IInv, TypeOK, ServerOK, ChannelsOK, ClientOK, cliVars, Serving
<1> QED
  BY <1>1, <1>2, <1>4, <1>5 DEF IInv, PendingDelivered

\* The client has taken the record of a connection's event.
LEMMA ConnTakenKeeps ==
  ASSUME IInv, TypeOK', NEW l \in Links, cur = l, ConnTaken
  PROVE  IInv'
<1>1. LinkInv(l) /\ Serving(l) /\ TypeOK
  BY DEF IInv, ConnTaken, ReturnToMain, Serving
<1>2. /\ (job = "event" /\ Closing(l)) \/ (job # "event" /\ At(l, job, <<>>, <<"END">>))
      /\ l \notin notified /\ wait = l
  BY <1>1 DEF LinkInv, ConnTaken, ReturnToMain, SrvGet, InCommand, InEvent, InPending, At, Closing
<1>3. \/ job = "event" /\ s2c'[l] = <<>> /\ Released(l)'
      \/ job # "event" /\ At(l, job, <<"END">>, <<>>)'
  BY <1>1, <1>2, Closed, Received, Sent, Messages, TokenKinds DEF ConnTaken, ReturnToMain, TypeOK, cliVars, At
<1>4. LinkInv(l)'
  BY <1>1, <1>2, <1>3, LinkBounds
  DEF LinkInv, ConnTaken, ReturnToMain, Notified, Quiet, InEvent, Released, TypeOK, ServerOK, JobKinds, Serving, At, cliVars
<1>5. ASSUME NEW k \in Links, k # l PROVE LinkInv(k)'
  BY <1>1, <1>2, <1>5, Frame, LinkBounds
  DEF ConnTaken, ReturnToMain, SrvGet, SrvPut, IInv, TypeOK, ServerOK, ChannelsOK, ClientOK, cliVars, Serving
<1> QED
  BY <1>1, <1>2, <1>4, <1>5 DEF IInv, ConnTaken, ReturnToMain, TypeOK, ServerOK, JobKinds

\* The client has opened the transaction that takes the data.
LEMMA RecvOpenKeeps ==
  ASSUME IInv, TypeOK', NEW l \in Links, cur = l, RecvOpen
  PROVE  IInv'
<1>1. LinkInv(l) /\ Serving(l) /\ TypeOK
  BY DEF IInv, RecvOpen, Serving
<1>2. /\ At(l, "take", <<>>, <<"END", "ready">>) \/ At(l, "close", <<>>, <<"END", "refuse">>)
      /\ l \notin notified /\ wait = l
  BY <1>1 DEF LinkInv, RecvOpen, SrvGet, InCommand, InEvent, InPending, At, Closing
<1>3. At(l, "take", <<>>, <<"ready">>)' \/ At(l, "close", <<>>, <<"refuse">>)'
  BY <1>1, <1>2, Received, Messages, TokenKinds DEF RecvOpen, TypeOK, cliVars, At
<1>4. LinkInv(l)'
  BY <1>1, <1>2, <1>3, LinkBounds
  DEF LinkInv, RecvOpen, InEvent, Serving, At, cliVars
<1>5. ASSUME NEW k \in Links, k # l PROVE LinkInv(k)'
  BY <1>1, <1>2, <1>5, Frame, LinkBounds
  DEF RecvOpen, SrvGet, IInv, TypeOK, ServerOK, ChannelsOK, ClientOK, cliVars, Serving
<1> QED
  BY <1>1, <1>2, <1>4, <1>5 DEF IInv, RecvOpen

\* The client is ready for the data.
LEMMA RecvReadyKeeps ==
  ASSUME IInv, TypeOK', NEW l \in Links, cur = l, RecvReady
  PROVE  IInv'
<1>1. LinkInv(l) /\ Serving(l) /\ TypeOK
  BY DEF IInv, RecvReady, Serving
<1>2. At(l, "take", <<>>, <<"ready">>) /\ l \notin notified /\ wait = l
  BY <1>1 DEF LinkInv, RecvReady, SrvGet, InCommand, InEvent, InPending, At, Closing
<1>3. At(l, "take", <<"data">>, <<>>)'
  BY <1>1, <1>2, Received, Sent, Messages, TokenKinds DEF RecvReady, TypeOK, cliVars, At
<1>4. LinkInv(l)'
  BY <1>1, <1>2, <1>3, LinkBounds
  DEF LinkInv, RecvReady, InEvent, Serving, At, cliVars
<1>5. ASSUME NEW k \in Links, k # l PROVE LinkInv(k)'
  BY <1>1, <1>2, <1>5, Frame, LinkBounds
  DEF RecvReady, SrvGet, SrvPut, IInv, TypeOK, ServerOK, ChannelsOK, ClientOK, cliVars, Serving
<1> QED
  BY <1>1, <1>2, <1>4, <1>5 DEF IInv, RecvReady

\* The client refuses the data.
LEMMA RecvRefusedKeeps ==
  ASSUME IInv, TypeOK', NEW l \in Links, cur = l, RecvRefused
  PROVE  IInv'
<1>1. LinkInv(l) /\ Serving(l) /\ TypeOK
  BY DEF IInv, RecvRefused, Serving
<1>2. At(l, "close", <<>>, <<"refuse">>) /\ l \notin notified /\ wait = l
  BY <1>1 DEF LinkInv, RecvRefused, SrvGet, InCommand, InEvent, InPending, At, Closing
<1>3. At(l, "close", <<"END">>, <<>>)'
  BY <1>1, <1>2, Received, Sent, Messages, TokenKinds DEF RecvRefused, TypeOK, cliVars, At
<1>4. LinkInv(l)'
  BY <1>1, <1>2, <1>3, LinkBounds
  DEF LinkInv, RecvRefused, InEvent, Serving, At, cliVars
<1>5. ASSUME NEW k \in Links, k # l PROVE LinkInv(k)'
  BY <1>1, <1>2, <1>5, Frame, LinkBounds
  DEF RecvRefused, SrvGet, SrvPut, IInv, TypeOK, ServerOK, ChannelsOK, ClientOK, cliVars, Serving
<1> QED
  BY <1>1, <1>2, <1>4, <1>5 DEF IInv, RecvRefused

\* The client has the data.
LEMMA RecvDoneKeeps ==
  ASSUME IInv, TypeOK', NEW l \in Links, cur = l, RecvDone
  PROVE  IInv'
<1>1. LinkInv(l) /\ Serving(l) /\ TypeOK
  BY DEF IInv, RecvDone, ReturnToMain, Serving
<1>2. At(l, "last", <<>>, <<"END">>) /\ l \notin notified /\ wait = l
  BY <1>1 DEF LinkInv, RecvDone, ReturnToMain, SrvGet, InCommand, InEvent, InPending, At, Closing
<1>3. At(l, "last", <<"END">>, <<>>)'
  BY <1>1, <1>2, Received, Sent, Messages, TokenKinds DEF RecvDone, ReturnToMain, TypeOK, cliVars, At
<1>4. LinkInv(l)'
  BY <1>1, <1>2, <1>3, LinkBounds
  DEF LinkInv, RecvDone, ReturnToMain, Notified, Quiet, Serving, At, cliVars
<1>5. ASSUME NEW k \in Links, k # l PROVE LinkInv(k)'
  BY <1>1, <1>2, <1>5, Frame, LinkBounds
  DEF RecvDone, ReturnToMain, SrvGet, SrvPut, IInv, TypeOK, ServerOK, ChannelsOK, ClientOK, cliVars, Serving
<1> QED
  BY <1>1, <1>2, <1>4, <1>5 DEF IInv, RecvDone, ReturnToMain

\* After a refusal the server waits for the client again.
LEMMA RecvRetryKeeps ==
  ASSUME IInv, TypeOK', NEW l \in Links, cur = l, RecvRetry
  PROVE  IInv'
<1>1. LinkInv(l) /\ Serving(l) /\ TypeOK
  BY DEF IInv, RecvRetry, AwaitReady, Serving
<1>2. Closing(l) /\ l \notin notified /\ wait = l
  BY <1>1 DEF LinkInv, RecvRetry, AwaitReady, SrvGet, InCommand, InEvent, InPending, At, Closing
<1>3. Released(l)' /\ s2c'[l] = <<"END">>
  BY <1>1, <1>2, Closed, Received, Sent, Messages, TokenKinds DEF RecvRetry, AwaitReady, TypeOK, cliVars, At
<1>4. LinkInv(l)'
  BY <1>1, <1>2, <1>3, LinkBounds
  DEF LinkInv, RecvRetry, AwaitReady, Notified, Quiet, Released, Serving, At, cliVars
<1>5. ASSUME NEW k \in Links, k # l PROVE LinkInv(k)'
  BY <1>1, <1>2, <1>5, Frame, LinkBounds
  DEF RecvRetry, AwaitReady, SrvGet, SrvPut, IInv, TypeOK, ServerOK, ChannelsOK, ClientOK, cliVars, Serving
<1> QED
  BY <1>1, <1>2, <1>4, <1>5 DEF IInv, RecvRetry, AwaitReady

\* The client has opened the transaction that gives data.
LEMMA SendOpenKeeps ==
  ASSUME IInv, TypeOK', NEW l \in Links, cur = l, SendOpen
  PROVE  IInv'
<1>1. LinkInv(l) /\ Serving(l) /\ TypeOK
  BY DEF IInv, SendOpen, Serving
<1>2. At(l, "close", <<>>, <<"END", "bytes">>) /\ l \notin notified /\ wait = l
  BY <1>1 DEF LinkInv, SendOpen, SrvGet, InCommand, InEvent, InPending, At, Closing
<1>3. At(l, "close", <<>>, <<"bytes">>)'
  BY <1>1, <1>2, Received, Messages, TokenKinds DEF SendOpen, TypeOK, cliVars, At
<1>4. LinkInv(l)'
  BY <1>1, <1>2, <1>3, LinkBounds
  DEF LinkInv, SendOpen, InEvent, Serving, At, cliVars
<1>5. ASSUME NEW k \in Links, k # l PROVE LinkInv(k)'
  BY <1>1, <1>2, <1>5, Frame, LinkBounds
  DEF SendOpen, SrvGet, IInv, TypeOK, ServerOK, ChannelsOK, ClientOK, cliVars, Serving
<1> QED
  BY <1>1, <1>2, <1>4, <1>5 DEF IInv, SendOpen

\* The client has given its data.
LEMMA SendBytesKeeps ==
  ASSUME IInv, TypeOK', NEW l \in Links, cur = l, SendBytes
  PROVE  IInv'
<1>1. LinkInv(l) /\ Serving(l) /\ TypeOK
  BY DEF IInv, SendBytes, Serving
<1>2. At(l, "close", <<>>, <<"bytes">>) /\ l \notin notified /\ wait = l
  BY <1>1 DEF LinkInv, SendBytes, SrvGet, InCommand, InEvent, InPending, At, Closing
<1>3. At(l, "close", <<"END">>, <<>>)'
  BY <1>1, <1>2, Received, Sent, Messages, TokenKinds DEF SendBytes, TypeOK, cliVars, At
<1>4. LinkInv(l)'
  BY <1>1, <1>2, <1>3, LinkBounds
  DEF LinkInv, SendBytes, InEvent, Serving, At, cliVars
<1>5. ASSUME NEW k \in Links, k # l PROVE LinkInv(k)'
  BY <1>1, <1>2, <1>5, Frame, LinkBounds
  DEF SendBytes, SrvGet, SrvPut, IInv, TypeOK, ServerOK, ChannelsOK, ClientOK, cliVars, Serving
<1> QED
  BY <1>1, <1>2, <1>4, <1>5 DEF IInv, SendBytes

\* The client has closed that transaction.
LEMMA SendDoneKeeps ==
  ASSUME IInv, TypeOK', NEW l \in Links, cur = l, SendDone
  PROVE  IInv'
<1>1. LinkInv(l) /\ Serving(l) /\ TypeOK
  BY DEF IInv, SendDone, ReturnToMain, Serving
<1>2. Closing(l) /\ l \notin notified /\ wait = l
  BY <1>1 DEF LinkInv, SendDone, ReturnToMain, SrvGet, InCommand, InEvent, InPending, At, Closing
<1>3. Released(l)' /\ s2c'[l] = <<>>
  BY <1>1, <1>2, Closed, Received, Messages, TokenKinds DEF SendDone, ReturnToMain, TypeOK, cliVars, At
<1>4. LinkInv(l)'
  BY <1>1, <1>2, <1>3, LinkBounds
  DEF LinkInv, SendDone, ReturnToMain, Notified, Quiet, Released, Serving, At, cliVars
<1>5. ASSUME NEW k \in Links, k # l PROVE LinkInv(k)'
  BY <1>1, <1>2, <1>5, Frame, LinkBounds
  DEF SendDone, ReturnToMain, SrvGet, IInv, TypeOK, ServerOK, ChannelsOK, ClientOK, cliVars, Serving
<1> QED
  BY <1>1, <1>2, <1>4, <1>5 DEF IInv, SendDone, ReturnToMain

\* Steps of the loops around the transactions touch no link.
LEMMA LoopsKeep ==
  ASSUME IInv, TypeOK', IfChange \/ BeginService \/ SkipLink \/ SweepAgain \/ SweepDone
  PROVE  IInv'
<1>1. ASSUME NEW k \in Links PROVE LinkInv(k)'
  BY <1>1, Frame DEF IInv, IfChange, BeginService, SkipLink, SweepAgain, SweepDone, cliVars, Serving
<1> QED
  BY <1>1 DEF IInv, IfChange, BeginService, SkipLink, SweepAgain, SweepDone

\* A link without a notification gets one: from Quiet to Notified.
LEMMA Notify ==
  ASSUME TypeOK, NEW l \in Links, Quiet(l), wait # l,
         s2c'[l] = s2c[l] \o <<"END">>, c2s'[l] = c2s[l], cpc'[l] = cpc[l]
  PROVE  Notified(l)'
<1>1. <<>> \o <<"END">> = <<"END">> /\ <<"END">> \o <<"END">> = <<"END", "END">>
  BY TwoMessages, TokenKinds
<1> QED
  BY <1>1 DEF Quiet, Notified, At

\* The interface check notifies the links it has news for.
LEMMA CheckStateKeeps ==
  ASSUME IInv, TypeOK', CheckState
  PROVE  IInv'
<1>1. TypeOK /\ wait = NoLink /\ \A k \in Links : ~Serving(k) /\ ~Serving(k)' /\ wait # k
  BY LinkBounds DEF IInv, CheckState, Serving
<1>2. ASSUME NEW k \in Links, k \notin Stale PROVE LinkInv(k)'
  BY <1>1, <1>2, Frame DEF IInv, CheckState, Stale, cliVars, TypeOK, ServerOK, ChannelsOK
<1>3. ASSUME NEW k \in Stale, k \in notified PROVE LinkInv(k)'
  BY <1>1, <1>3 DEF IInv, LinkInv, Notified, At, CheckState, Stale, cliVars, TypeOK, ServerOK, IfEvents
<1>4. ASSUME NEW k \in Stale, k \notin notified PROVE LinkInv(k)'
  <2>1. k \in Links /\ Quiet(k)
    BY <1>1, <1>4 DEF IInv, LinkInv, Stale
  <2>2. Notified(k)'
    BY <1>1, <1>4, <2>1, Notify DEF CheckState, cliVars
  <2>3. k \in notified' /\ pending_event'[k] = uip_ifstate /\ prev_ifstate'[k] = uip_ifstate /\ uip_ifstate # "none"
    BY <1>1, <1>4, <2>1 DEF CheckState, TypeOK, ServerOK, IfEvents
  <2> QED
    BY <1>1, <2>1, <2>2, <2>3 DEF LinkInv
<1> QED
  BY <1>1, <1>2, <1>3, <1>4 DEF IInv, CheckState, Stale

\* The stack raises an event: link l is notified, unless it is already.
LEMMA RaiseEventKeeps ==
  ASSUME IInv, TypeOK', NEW l \in Links, NEW j \in Jobs, RaiseEvent(l, j)
  PROVE  IInv'
<1>1. TypeOK /\ wait = NoLink /\ \A k \in Links : ~Serving(k) /\ ~Serving(k)' /\ wait # k
  BY LinkBounds DEF IInv, RaiseEvent, AwaitReady, Serving
<1>2. LinkInv(l)'
  <2>1. Notified(l)'
    <3>1. CASE l \in notified
      BY <1>1, <3>1 DEF IInv, LinkInv, Notified, At, RaiseEvent, AwaitReady, cliVars
    <3>2. CASE l \notin notified
      <4>1. Quiet(l)
        BY <1>1, <3>2 DEF IInv, LinkInv
      <4> QED
        BY <1>1, <3>2, <4>1, Notify DEF RaiseEvent, AwaitReady, SrvPut, cliVars, TypeOK, ChannelsOK
    <3> QED
      BY <3>1, <3>2
  <2> QED
    BY <1>1, <2>1 DEF IInv, LinkInv, RaiseEvent, AwaitReady, cliVars
<1>3. ASSUME NEW k \in Links, k # l PROVE LinkInv(k)'
  BY <1>1, <1>3, Frame DEF IInv, RaiseEvent, AwaitReady, SrvPut, cliVars, TypeOK, ChannelsOK
<1> QED
  BY <1>2, <1>3 DEF IInv, RaiseEvent, AwaitReady

\* A client answers a notification.
LEMMA ServiceReplyKeeps ==
  ASSUME IInv, TypeOK', NEW l \in Links, cur = l, ServiceReply
  PROVE  IInv'
<1>1. TypeOK /\ LinkInv(l) /\ \A k \in Links : ~Serving(k)
  BY DEF IInv, ServiceReply, Serving
<1>2. At(l, "event", <<>>, <<"END">>) /\ l \in notified
  BY <1>1 DEF LinkInv, Notified, Quiet, At, ServiceReply, SrvGet
<1>3. cpc'[l] = "event" /\ c2s'[l] = <<>>
  BY <1>1, <1>2, Received DEF ServiceReply, TypeOK, At, cliVars
<1>4. s2c'[l] = IF pending_event[l] # "none" THEN <<pending_event[l]>> ELSE <<>>
  <2>1. pending_event[l] # "none" => <<pending_event[l]>> \in Seq(Tokens)
    BY <1>1, Messages, TokenKinds DEF TypeOK, ServerOK
  <2> QED
    BY <1>1, <1>2, <2>1, Sent DEF ServiceReply, TypeOK, At
<1>5. LinkInv(l)'
  BY <1>1, <1>2, <1>3, <1>4 DEF LinkInv, ServiceReply, InPending, Quiet, Serving, At, cliVars, TypeOK, ServerOK
<1>6. ASSUME NEW k \in Links, k # l PROVE LinkInv(k)'
  <2>1. c2s'[k] = c2s[k] /\ s2c'[k] = s2c[k]
    BY <1>1, <1>6 DEF ServiceReply, SrvGet, SrvPut, TypeOK, ChannelsOK
  <2>2. ~Serving(k)' /\ (k \in notified' <=> k \in notified)
    BY <1>6 DEF ServiceReply, Serving
  <2> QED
    BY <1>1, <1>6, <2>1, <2>2, Frame DEF IInv, ServiceReply, cliVars
<1> QED
  BY <1>5, <1>6 DEF IInv, ServiceReply

\* A client's command token is answered.
LEMMA ServiceCmdKeeps ==
  ASSUME IInv, TypeOK', NEW l \in Links, cur = l, ServiceCmd
  PROVE  IInv'
<1>1. TypeOK /\ LinkInv(l) /\ \A k \in Links : ~Serving(k)
  BY DEF IInv, ServiceCmd, Serving
<1>2. \/ At(l, "cmd1", <<>>, <<"CMD">>) /\ l \notin notified /\ wait # l
      \/ At(l, "cmd1", <<"END">>, <<"CMD">>) /\ l \in notified
      \/ At(l, "cmd2", <<>>, <<"CMD">>) /\ l \in notified
  BY <1>1 DEF LinkInv, Notified, Quiet, At, ServiceCmd, SrvGet
<1>3. At(l, "cmd1", <<"END", "END">>, <<>>)' \/ At(l, "cmd2", <<"END">>, <<>>)'
  <2>1. cpc'[l] = cpc[l] /\ c2s'[l] = <<>>
    BY <1>1, <1>2, Received DEF ServiceCmd, TypeOK, At, cliVars
  <2>2. CASE At(l, "cmd1", <<>>, <<"CMD">>) /\ l \notin notified
    BY <1>1, <2>1, <2>2, Sent, Messages, TokenKinds DEF ServiceCmd, TypeOK, At
  <2>3. CASE At(l, "cmd1", <<"END">>, <<"CMD">>) /\ l \in notified
    <3>1. SrvPut(l, <<"END">>)
      BY <2>3 DEF ServiceCmd
    <3>2. "END" \in Tokens /\ <<"END">> \in Seq(Tokens) /\ s2c[l] = <<"END">>
      BY <2>3, Messages, TokenKinds DEF At
    <3>3. s2c'[l] = <<"END", "END">>
      BY <1>1, <3>1, <3>2, Sent DEF TypeOK
    <3> QED
      BY <2>1, <2>3, <3>3 DEF At
  <2>4. CASE At(l, "cmd2", <<>>, <<"CMD">>) /\ l \in notified
    BY <1>1, <2>1, <2>4, Sent, Messages, TokenKinds DEF ServiceCmd, TypeOK, At
  <2> QED
    BY <1>2, <2>2, <2>3, <2>4
<1>4. LinkInv(l)'
  BY <1>1, <1>2, <1>3 DEF LinkInv, ServiceCmd, InCommand, Serving, cliVars
<1>5. ASSUME NEW k \in Links, k # l PROVE LinkInv(k)'
  BY <1>1, <1>5, Frame DEF IInv, ServiceCmd, SrvGet, SrvPut, Serving, cliVars, TypeOK, ChannelsOK
<1> QED
  BY <1>4, <1>5 DEF IInv, ServiceCmd

\* waiting_link has answered: its event's record is sent.
LEMMA SendConnKeeps ==
  ASSUME IInv, TypeOK', NEW l \in Links, wait = l, SendConn
  PROVE  IInv'
<1>1. TypeOK /\ LinkInv(l) /\ \A k \in Links : ~Serving(k)
  BY DEF IInv, SendConn, Serving
<1>2. At(l, "event", <<>>, <<>>) /\ l \notin notified
  BY <1>1 DEF LinkInv, Quiet, At, SendConn
<1>3. At(l, "event", <<job>>, <<>>)'
  BY <1>1, <1>2, Sent, Messages, TokenKinds DEF SendConn, TypeOK, ServerOK, At, cliVars
<1>4. LinkInv(l)'
  BY <1>1, <1>2, <1>3 DEF LinkInv, SendConn, InEvent, Serving, cliVars
<1>5. ASSUME NEW k \in Links, k # l PROVE LinkInv(k)'
  BY <1>1, <1>5, Frame DEF IInv, SendConn, SrvPut, Serving, cliVars, TypeOK, ChannelsOK
<1> QED
  BY <1>4, <1>5 DEF IInv, SendConn

\* What the channel operations do to the client's side.
LEMMA CliReceived ==
  ASSUME ChannelsOK, NEW l \in Links, NEW tok, CliGet(l, tok)
  PROVE  /\ \A a : s2c[l] = <<a>> => a = tok /\ s2c'[l] = <<>>
         /\ \A a, b : s2c[l] = <<a, b>> => a = tok /\ s2c'[l] = <<b>>
         /\ \A k \in Links \ {l} : s2c'[k] = s2c[k]
<1>1. Head(s2c[l]) = tok /\ s2c'[l] = Tail(s2c[l]) /\ \A k \in Links \ {l} : s2c'[k] = s2c[k]
  BY DEF CliGet, ChannelsOK
<1>2. ASSUME NEW a, s2c[l] = <<a>> PROVE a = tok /\ s2c'[l] = <<>>
  BY <1>1, <1>2
<1>3. ASSUME NEW a, NEW b, s2c[l] = <<a, b>> PROVE a = tok /\ s2c'[l] = <<b>>
  BY <1>1, <1>3
<1> QED
  BY <1>1, <1>2, <1>3

LEMMA CliSent ==
  ASSUME ChannelsOK, NEW l \in Links, NEW m \in Seq(Tokens), CliPut(l, m)
  PROVE  /\ c2s[l] = <<>> => c2s'[l] = m
         /\ \A a, b \in Tokens : c2s[l] = <<a>> /\ m = <<b>> => c2s'[l] = <<a, b>>
         /\ \A k \in Links \ {l} : c2s'[k] = c2s[k]
<1>1. c2s'[l] = c2s[l] \o m /\ \A k \in Links \ {l} : c2s'[k] = c2s[k]
  BY DEF CliPut, ChannelsOK
<1>2. ASSUME c2s[l] = <<>> PROVE c2s'[l] = m
  BY <1>1, <1>2
<1>3. ASSUME NEW a \in Tokens, NEW b \in Tokens, c2s[l] = <<a>>, m = <<b>> PROVE c2s'[l] = <<a, b>>
  BY <1>1, <1>3, TwoMessages
<1> QED
  BY <1>1, <1>2, <1>3

\* A client's step leaves the other links alone.
LEMMA ClientFrame ==
  ASSUME IInv, TypeOK', NEW l \in Links, UNCHANGED srvVars, LinkInv(l)',
         \A k \in Links \ {l} : /\ cpc'[k] = cpc[k] /\ seen'[k] = seen[k]
                                /\ s2c'[k] = s2c[k] /\ c2s'[k] = c2s[k]
  PROVE  IInv'
<1>1. ASSUME NEW k \in Links, k # l PROVE LinkInv(k)'
  <2>1. LinkInv(k)
    BY DEF IInv
  <2>2. /\ Notified(k)' <=> Notified(k)
        /\ Quiet(k)' <=> Quiet(k)
        /\ Closing(k)' <=> Closing(k)
        /\ Serving(k)' <=> Serving(k)
    BY <1>1 DEF Notified, Quiet, Closing, Serving, At, srvVars
  <2>3. InCommand(k)' <=> InCommand(k)
    BY <1>1, <2>2 DEF InCommand, At, srvVars
  <2>4. InEvent(k)' <=> InEvent(k)
    BY <1>1, <2>2 DEF InEvent, At, srvVars
  <2>5. InPending(k)' <=> InPending(k)
    BY <1>1, <2>2 DEF InPending, At, srvVars
  <2> QED
    BY <1>1, <2>1, <2>2, <2>3, <2>4, <2>5 DEF LinkInv, srvVars
<1> QED
  BY <1>1 DEF IInv, srvVars

\* A client in its event loop answers a notification.
LEMMA TakeNotificationKeeps ==
  ASSUME IInv, TypeOK', NEW l \in Links, TakeNotification(l)
  PROVE  IInv'
<1>1. LinkInv(l) /\ TypeOK /\ UNCHANGED srvVars
  BY DEF IInv, TakeNotification, CliStep
<1>2. At(l, "idle", <<"END">>, <<>>) /\ ~Serving(l) /\ l \in notified
  BY <1>1 DEF LinkInv, TakeNotification, CliStep, CliGet, Notified, Quiet, InCommand, InEvent, InPending, Closing, At
<1>3. At(l, "event", <<>>, <<"END">>)'
  BY <1>1, <1>2, CliReceived, CliSent, Messages, TokenKinds DEF TakeNotification, CliStep, TypeOK, ClientOK, At
<1>4. LinkInv(l)'
  BY <1>1, <1>2, <1>3 DEF LinkInv, TakeNotification, CliStep, Notified, Serving, At, srvVars
<1> QED
  BY <1>1, <1>4, ClientFrame DEF TakeNotification, CliStep, CliGet, CliPut, TypeOK, ClientOK, ChannelsOK

\* send_cmd takes an END: the notification or the first answer.
LEMMA CmdFirstEndKeeps ==
  ASSUME IInv, TypeOK', NEW l \in Links, CmdFirstEnd(l)
  PROVE  IInv'
<1>1. LinkInv(l) /\ TypeOK /\ UNCHANGED srvVars
  BY DEF IInv, CmdFirstEnd, CliStep
<1>2. \/ At(l, "cmd1", <<"END">>, <<"CMD">>) /\ ~Serving(l) /\ l \in notified
      \/ At(l, "cmd1", <<"END", "END">>, <<>>) /\ Serving(l) /\ spc = "cmd" /\ (wait = l => l \in notified)
  BY <1>1 DEF LinkInv, CmdFirstEnd, CliStep, CliGet, Notified, Quiet, InCommand, InEvent, InPending, Closing, At
<1>3. \/ At(l, "cmd2", <<>>, <<"CMD">>)' /\ ~Serving(l) /\ l \in notified
      \/ At(l, "cmd2", <<"END">>, <<>>)' /\ Serving(l) /\ spc = "cmd" /\ (wait = l => l \in notified)
  <2>1. cpc'[l] = "cmd2" /\ c2s'[l] = c2s[l]
    BY <1>1 DEF CmdFirstEnd, CliStep, CliPut, TypeOK, ClientOK, ChannelsOK
  <2> QED
    BY <1>1, <1>2, <2>1, CliReceived DEF CmdFirstEnd, CliStep, TypeOK, At
<1>4. LinkInv(l)'
  BY <1>1, <1>2, <1>3 DEF LinkInv, CmdFirstEnd, CliStep, Notified, InCommand, Serving, At, srvVars
<1> QED
  BY <1>1, <1>4, ClientFrame DEF CmdFirstEnd, CliStep, CliGet, CliPut, TypeOK, ClientOK, ChannelsOK

\* send_cmd takes the other END and writes the command words.
LEMMA CmdSecondEndKeeps ==
  ASSUME IInv, TypeOK', NEW l \in Links, CmdSecondEnd(l)
  PROVE  IInv'
<1>1. LinkInv(l) /\ TypeOK /\ UNCHANGED srvVars
  BY DEF IInv, CmdSecondEnd, CliStep
<1>2. At(l, "cmd2", <<"END">>, <<>>) /\ Serving(l) /\ spc = "cmd" /\ (wait = l => l \in notified)
  BY <1>1 DEF LinkInv, CmdSecondEnd, CliStep, CliGet, Notified, Quiet, InCommand, InEvent, InPending, Closing, At
<1>3. \E k \in CmdKinds : cpc'[l] = k /\ s2c'[l] = <<>> /\ c2s'[l] = <<k>>
  <2>1. PICK k \in Cmds : CliStep(l, "cmd2", <<k>>, k)
    BY DEF CmdSecondEnd
  <2>2. k \in CmdKinds /\ <<k>> \in Seq(Tokens)
    BY KindsAssumption, Messages, TokenKinds
  <2>3. cpc'[l] = k /\ s2c'[l] = <<>> /\ c2s'[l] = <<k>>
    BY <1>1, <1>2, <2>1, <2>2, CliReceived, CliSent DEF CliStep, TypeOK, ClientOK, At
  <2> QED
    BY <2>2, <2>3
<1>4. LinkInv(l)'
  BY <1>1, <1>2, <1>3 DEF LinkInv, CmdSecondEnd, CliStep, InCommand, Serving, At, srvVars
<1> QED
  BY <1>1, <1>4, ClientFrame DEF CmdSecondEnd, CliStep, CliGet, CliPut, TypeOK, ClientOK, ChannelsOK

\* send_cmd returns, or the payload's transaction begins.
LEMMA CmdAcceptedKeeps ==
  ASSUME IInv, TypeOK', NEW l \in Links, CmdAccepted(l)
  PROVE  IInv'
<1>1. LinkInv(l) /\ TypeOK /\ UNCHANGED srvVars
  BY DEF IInv, CmdAccepted, CliStep
<1>2. \/ At(l, "plain", <<"END">>, <<>>) /\ ~Serving(l) /\ l \notin notified /\ wait # l
      \/ At(l, "plain", <<"END", "END">>, <<>>) /\ ~Serving(l) /\ l \in notified
      \/ At(l, "push", <<"END">>, <<>>) /\ Serving(l) /\ spc = "push1" /\ (wait = l => l \in notified)
      \/ At(l, "pull", <<"END", "END">>, <<>>) /\ Serving(l) /\ spc = "pull1" /\ (wait = l => l \in notified)
  BY <1>1 DEF LinkInv, CmdAccepted, CliStep, CliGet, Notified, Quiet, InCommand, InEvent, InPending, Closing, At
<1>3. \/ At(l, "idle", <<>>, <<>>)' /\ ~Serving(l) /\ l \notin notified /\ wait # l
      \/ At(l, "idle", <<"END">>, <<>>)' /\ ~Serving(l) /\ l \in notified
      \/ At(l, "push1", <<>>, <<"END">>)' /\ Serving(l) /\ spc = "push1" /\ (wait = l => l \in notified)
      \/ At(l, "pull1", <<"END">>, <<>>)' /\ Serving(l) /\ spc = "pull1" /\ (wait = l => l \in notified)
  <2>1. CASE CliStep(l, "plain", <<>>, "idle")
    <3>1. cpc[l] = "plain" /\ cpc'[l] = "idle" /\ c2s'[l] = c2s[l]
      BY <1>1, <2>1 DEF CliStep, CliPut, TypeOK, ClientOK, ChannelsOK
    <3> QED
      BY <1>1, <1>2, <2>1, <3>1, CliReceived DEF CliStep, TypeOK, At
  <2>2. CASE CliStep(l, "push", <<"END">>, "push1")
    BY <1>1, <1>2, <2>2, CliReceived, CliSent, Messages, TokenKinds DEF CliStep, TypeOK, ClientOK, At
  <2>3. CASE CliStep(l, "pull", <<>>, "pull1")
    <3>1. cpc[l] = "pull" /\ cpc'[l] = "pull1" /\ c2s'[l] = c2s[l]
      BY <1>1, <2>3 DEF CliStep, CliPut, TypeOK, ClientOK, ChannelsOK
    <3> QED
      BY <1>1, <1>2, <2>3, <3>1, CliReceived DEF CliStep, TypeOK, At
  <2> QED
    BY <2>1, <2>2, <2>3 DEF CmdAccepted
<1>4. LinkInv(l)'
  BY <1>1, <1>2, <1>3 DEF LinkInv, CmdAccepted, CliStep, Notified, Quiet, InCommand, Serving, At, srvVars
<1> QED
  BY <1>1, <1>4, ClientFrame DEF CmdAccepted, CliStep, CliGet, CliPut, TypeOK, ClientOK, ChannelsOK

\* The client writes the payload.
LEMMA PushOpenedKeeps ==
  ASSUME IInv, TypeOK', NEW l \in Links, PushOpened(l)
  PROVE  IInv'
<1>1. LinkInv(l) /\ TypeOK /\ UNCHANGED srvVars
  BY DEF IInv, PushOpened, CliStep
<1>2. At(l, "push1", <<"END">>, <<>>) /\ spc = "push2" /\ Serving(l) /\ (wait = l => l \in notified)
  BY <1>1 DEF LinkInv, PushOpened, CliStep, CliGet, Notified, Quiet, InCommand, InEvent, InPending, Closing, At
<1>3. At(l, "push2", <<>>, <<"data">>)'
  BY <1>1, <1>2, CliReceived, CliSent, Messages, TokenKinds DEF PushOpened, CliStep, TypeOK, ClientOK, At
<1>4. LinkInv(l)'
  BY <1>1, <1>2, <1>3 DEF LinkInv, PushOpened, CliStep, InCommand, Serving, At, srvVars
<1> QED
  BY <1>1, <1>4, ClientFrame DEF PushOpened, CliStep, CliGet, CliPut, TypeOK, ClientOK, ChannelsOK

\* The call with a payload returns.
LEMMA PushClosedKeeps ==
  ASSUME IInv, TypeOK', NEW l \in Links, PushClosed(l)
  PROVE  IInv'
<1>1. LinkInv(l) /\ TypeOK /\ UNCHANGED srvVars
  BY DEF IInv, PushClosed, CliStep
<1>2. \/ At(l, "push2", <<"END">>, <<>>) /\ ~Serving(l) /\ l \notin notified /\ wait # l
      \/ At(l, "push2", <<"END", "END">>, <<>>) /\ ~Serving(l) /\ l \in notified
  BY <1>1 DEF LinkInv, PushClosed, CliStep, CliGet, Notified, Quiet, InCommand, InEvent, InPending, Closing, At
<1>3. \/ At(l, "idle", <<>>, <<>>)' /\ ~Serving(l) /\ l \notin notified /\ wait # l
      \/ At(l, "idle", <<"END">>, <<>>)' /\ ~Serving(l) /\ l \in notified
  <2>1. cpc'[l] = "idle" /\ c2s'[l] = c2s[l]
    BY <1>1 DEF PushClosed, CliStep, CliPut, TypeOK, ClientOK, ChannelsOK
  <2> QED
    BY <1>1, <1>2, <2>1, CliReceived DEF PushClosed, CliStep, TypeOK, At
<1>4. LinkInv(l)'
  BY <1>1, <1>2, <1>3 DEF LinkInv, PushClosed, CliStep, Notified, Quiet, Serving, At, srvVars
<1> QED
  BY <1>1, <1>4, ClientFrame DEF PushClosed, CliStep, CliGet, CliPut, TypeOK, ClientOK, ChannelsOK

\* The client opens the transaction of the answer.
LEMMA PullOpenedKeeps ==
  ASSUME IInv, TypeOK', NEW l \in Links, PullOpened(l)
  PROVE  IInv'
<1>1. LinkInv(l) /\ TypeOK /\ UNCHANGED srvVars
  BY DEF IInv, PullOpened, CliStep
<1>2. At(l, "pull1", <<"END">>, <<>>) /\ spc = "pull1" /\ Serving(l) /\ (wait = l => l \in notified)
  BY <1>1 DEF LinkInv, PullOpened, CliStep, CliGet, Notified, Quiet, InCommand, InEvent, InPending, Closing, At
<1>3. At(l, "pull2", <<>>, <<"END">>)'
  BY <1>1, <1>2, CliReceived, CliSent, Messages, TokenKinds DEF PullOpened, CliStep, TypeOK, ClientOK, At
<1>4. LinkInv(l)'
  BY <1>1, <1>2, <1>3 DEF LinkInv, PullOpened, CliStep, InCommand, Serving, At, srvVars
<1> QED
  BY <1>1, <1>4, ClientFrame DEF PullOpened, CliStep, CliGet, CliPut, TypeOK, ClientOK, ChannelsOK

\* The client has the answer.
LEMMA PullTakenKeeps ==
  ASSUME IInv, TypeOK', NEW l \in Links, PullTaken(l)
  PROVE  IInv'
<1>1. LinkInv(l) /\ TypeOK /\ UNCHANGED srvVars
  BY DEF IInv, PullTaken
<1>2. At(l, "pull2", <<"data">>, <<>>) /\ spc = "pull2" /\ Serving(l) /\ (wait = l => l \in notified)
  BY <1>1 DEF LinkInv, PullTaken, CliGet, Notified, Quiet, InCommand, InEvent, InPending, Closing, At
<1>3. At(l, "idle", <<>>, <<"END">>)'
  BY <1>1, <1>2, CliReceived, CliSent, Messages, TokenKinds DEF PullTaken, TypeOK, ClientOK, At
<1>4. LinkInv(l)'
  BY <1>1, <1>2, <1>3 DEF LinkInv, PullTaken, InCommand, Closing, Serving, At, srvVars
<1> QED
  BY <1>1, <1>4, ClientFrame DEF PullTaken, CliGet, CliPut, TypeOK, ClientOK, ChannelsOK

\* xtcp_recv opens the transaction and is ready.
LEMMA RecvAcceptKeeps ==
  ASSUME IInv, TypeOK', NEW l \in Links, RecvAccept(l)
  PROVE  IInv'
<1>1. LinkInv(l) /\ TypeOK /\ UNCHANGED srvVars
  BY DEF IInv, RecvAccept, CliStep
<1>2. At(l, "recv", <<"END">>, <<>>) /\ spc = "recv" /\ Serving(l) /\ l \notin notified /\ wait = l
  BY <1>1 DEF LinkInv, RecvAccept, CliStep, CliGet, Notified, Quiet, InCommand, InEvent, InPending, Closing, At
<1>3. At(l, "take", <<>>, <<"END", "ready">>)'
  BY <1>1, <1>2, CliReceived, CliSent, Messages, TokenKinds DEF RecvAccept, CliStep, TypeOK, ClientOK, At
<1>4. LinkInv(l)'
  BY <1>1, <1>2, <1>3 DEF LinkInv, RecvAccept, CliStep, InEvent, Serving, At, srvVars
<1> QED
  BY <1>1, <1>4, ClientFrame DEF RecvAccept, CliStep, CliGet, CliPut, TypeOK, ClientOK, ChannelsOK

\* xtcp_write opens the transaction and is not.
LEMMA RecvRefuseKeeps ==
  ASSUME IInv, TypeOK', NEW l \in Links, RecvRefuse(l)
  PROVE  IInv'
<1>1. LinkInv(l) /\ TypeOK /\ UNCHANGED srvVars
  BY DEF IInv, RecvRefuse, CliStep
<1>2. At(l, "recv", <<"END">>, <<>>) /\ spc = "recv" /\ Serving(l) /\ l \notin notified /\ wait = l
  BY <1>1 DEF LinkInv, RecvRefuse, CliStep, CliGet, Notified, Quiet, InCommand, InEvent, InPending, Closing, At
<1>3. At(l, "close", <<>>, <<"END", "refuse">>)'
  BY <1>1, <1>2, CliReceived, CliSent, Messages, TokenKinds DEF RecvRefuse, CliStep, TypeOK, ClientOK, At
<1>4. LinkInv(l)'
  BY <1>1, <1>2, <1>3 DEF LinkInv, RecvRefuse, CliStep, InEvent, Serving, At, srvVars
<1> QED
  BY <1>1, <1>4, ClientFrame DEF RecvRefuse, CliStep, CliGet, CliPut, TypeOK, ClientOK, ChannelsOK

\* xtcp_recv has the data.
LEMMA RecvTakeKeeps ==
  ASSUME IInv, TypeOK', NEW l \in Links, RecvTake(l)
  PROVE  IInv'
<1>1. LinkInv(l) /\ TypeOK /\ UNCHANGED srvVars
  BY DEF IInv, RecvTake
<1>2. At(l, "take", <<"data">>, <<>>) /\ spc = "taken" /\ Serving(l) /\ l \notin notified /\ wait = l
  BY <1>1 DEF LinkInv, RecvTake, CliGet, Notified, Quiet, InCommand, InEvent, InPending, Closing, At
<1>3. At(l, "last", <<>>, <<"END">>)'
  BY <1>1, <1>2, CliReceived, CliSent, Messages, TokenKinds DEF RecvTake, TypeOK, ClientOK, At
<1>4. LinkInv(l)'
  BY <1>1, <1>2, <1>3 DEF LinkInv, RecvTake, InEvent, Serving, At, srvVars
<1> QED
  BY <1>1, <1>4, ClientFrame DEF RecvTake, CliGet, CliPut, TypeOK, ClientOK, ChannelsOK

\* xtcp_recv takes the last END and returns.
LEMMA RecvLastKeeps ==
  ASSUME IInv, TypeOK', NEW l \in Links, RecvLast(l)
  PROVE  IInv'
<1>1. LinkInv(l) /\ TypeOK /\ UNCHANGED srvVars
  BY DEF IInv, RecvLast, CliStep
<1>2. \/ At(l, "last", <<"END">>, <<>>) /\ ~Serving(l) /\ l \notin notified /\ wait # l
      \/ At(l, "last", <<"END", "END">>, <<>>) /\ ~Serving(l) /\ l \in notified
  BY <1>1 DEF LinkInv, RecvLast, CliStep, CliGet, Notified, Quiet, InCommand, InEvent, InPending, Closing, At
<1>3. \/ At(l, "idle", <<>>, <<>>)' /\ ~Serving(l) /\ l \notin notified /\ wait # l
      \/ At(l, "idle", <<"END">>, <<>>)' /\ ~Serving(l) /\ l \in notified
  <2>1. cpc'[l] = "idle" /\ c2s'[l] = c2s[l]
    BY <1>1 DEF RecvLast, CliStep, CliPut, TypeOK, ClientOK, ChannelsOK
  <2> QED
    BY <1>1, <1>2, <2>1, CliReceived DEF RecvLast, CliStep, TypeOK, At
<1>4. LinkInv(l)'
  BY <1>1, <1>2, <1>3 DEF LinkInv, RecvLast, CliStep, Notified, Quiet, Serving, At, srvVars
<1> QED
  BY <1>1, <1>4, ClientFrame DEF RecvLast, CliStep, CliGet, CliPut, TypeOK, ClientOK, ChannelsOK

\* xtcp_send opens the transaction and writes its data.
LEMMA SendDataKeeps ==
  ASSUME IInv, TypeOK', NEW l \in Links, SendData(l)
  PROVE  IInv'
<1>1. LinkInv(l) /\ TypeOK /\ UNCHANGED srvVars
  BY DEF IInv, SendData, CliStep
<1>2. At(l, "send", <<"END">>, <<>>) /\ spc = "send" /\ Serving(l) /\ l \notin notified /\ wait = l
  BY <1>1 DEF LinkInv, SendData, CliStep, CliGet, Notified, Quiet, InCommand, InEvent, InPending, Closing, At
<1>3. At(l, "close", <<>>, <<"END", "bytes">>)'
  BY <1>1, <1>2, CliReceived, CliSent, Messages, TokenKinds DEF SendData, CliStep, TypeOK, ClientOK, At
<1>4. LinkInv(l)'
  BY <1>1, <1>2, <1>3 DEF LinkInv, SendData, CliStep, InEvent, Serving, At, srvVars
<1> QED
  BY <1>1, <1>4, ClientFrame DEF SendData, CliStep, CliGet, CliPut, TypeOK, ClientOK, ChannelsOK

\* xtcp_send or a refusal returns.
LEMMA SlaveCloseKeeps ==
  ASSUME IInv, TypeOK', NEW l \in Links, SlaveClose(l)
  PROVE  IInv'
<1>1. LinkInv(l) /\ TypeOK /\ UNCHANGED srvVars
  BY DEF IInv, SlaveClose, CliStep
<1>2. At(l, "close", <<"END">>, <<>>) /\ spc \in {"refused", "sent"} /\ Serving(l) /\ l \notin notified /\ wait = l
  BY <1>1 DEF LinkInv, SlaveClose, CliStep, CliGet, Notified, Quiet, InCommand, InEvent, InPending, Closing, At
<1>3. At(l, "idle", <<>>, <<"END">>)'
  BY <1>1, <1>2, CliReceived, CliSent, Messages, TokenKinds DEF SlaveClose, CliStep, TypeOK, ClientOK, At
<1>4. LinkInv(l)'
  BY <1>1, <1>2, <1>3 DEF LinkInv, SlaveClose, CliStep, InEvent, Closing, Serving, At, srvVars
<1> QED
  BY <1>1, <1>4, ClientFrame DEF SlaveClose, CliStep, CliGet, CliPut, TypeOK, ClientOK, ChannelsOK

\* The client takes the record of an event.
LEMMA EventTakenKeeps ==
  ASSUME IInv, TypeOK', NEW l \in Links, NEW e, EventTaken(l, e)
  PROVE  IInv'
<1>1. LinkInv(l) /\ TypeOK /\ UNCHANGED srvVars
  BY DEF IInv, EventTaken
<1>2. \/ At(l, "event", <<job>>, <<>>) /\ e = job /\ spc = "conn" /\ Serving(l) /\ l \notin notified /\ wait = l
      \/ /\ At(l, "event", <<pending_event[l]>>, <<>>) /\ e = pending_event[l] /\ spc = "pend"
         /\ Serving(l) /\ l \notin notified /\ pending_event[l] # "none"
  BY <1>1 DEF LinkInv, EventTaken, CliGet, Notified, Quiet, InCommand, InEvent, InPending, Closing, At
<1>3. /\ cpc'[l] = (IF e \in {"recv", "send"} THEN e ELSE "idle")
      /\ seen'[l] = (IF e \in IfEvents THEN e ELSE seen[l])
      /\ s2c'[l] = <<>> /\ c2s'[l] = <<"END">>
  BY <1>1, <1>2, CliReceived, CliSent, Messages, TokenKinds DEF EventTaken, TypeOK, ClientOK, At
<1>4. LinkInv(l)'
  BY <1>1, <1>2, <1>3 DEF LinkInv, EventTaken, InEvent, InPending, Closing, TypeOK, ServerOK, JobKinds, IfEvents, Serving, At, srvVars
<1> QED
  BY <1>1, <1>4, ClientFrame DEF EventTaken, CliGet, CliPut, TypeOK, ClientOK, ChannelsOK

\* A client begins a command, at any time between its calls.
LEMMA SendCmdKeeps ==
  ASSUME IInv, TypeOK', NEW l \in Links, SendCmd(l)
  PROVE  IInv'
<1>1. LinkInv(l) /\ TypeOK /\ UNCHANGED srvVars
  BY DEF IInv, SendCmd
<1>2. \/ At(l, "idle", <<>>, <<>>) /\ ~Serving(l) /\ l \notin notified /\ wait # l
      \/ At(l, "idle", <<"END">>, <<>>) /\ ~Serving(l) /\ l \in notified
      \/ At(l, "idle", <<>>, <<"END">>) /\ Serving(l)
  <2>1. cpc[l] = "idle"
    BY DEF SendCmd
  <2>2. CASE ~Serving(l)
    BY <1>1, <2>1, <2>2 DEF LinkInv, Notified, Quiet, At
  <2>3. CASE Serving(l)
    BY <1>1, <2>1, <2>3 DEF LinkInv, InCommand, InEvent, InPending, Closing, At, TypeOK, ServerOK, JobKinds, CmdKinds
  <2> QED
    BY <2>2, <2>3
<1>3. \/ At(l, "cmd1", <<>>, <<"CMD">>)' /\ ~Serving(l) /\ l \notin notified /\ wait # l
      \/ At(l, "cmd1", <<"END">>, <<"CMD">>)' /\ ~Serving(l) /\ l \in notified
      \/ At(l, "idle", <<>>, <<"END">>) /\ At(l, "cmd1", <<>>, <<"END", "CMD">>)' /\ Serving(l)
  <2>1. "CMD" \in Tokens /\ "END" \in Tokens /\ <<"CMD">> \in Seq(Tokens) /\ CliPut(l, <<"CMD">>)
    BY Messages, TokenKinds DEF SendCmd
  <2>2. cpc'[l] = "cmd1" /\ s2c'[l] = s2c[l]
    BY <1>1 DEF SendCmd, TypeOK, ClientOK
  <2>3. /\ c2s[l] = <<>> => c2s'[l] = <<"CMD">>
        /\ c2s[l] = <<"END">> => c2s'[l] = <<"END", "CMD">>
    BY <1>1, <2>1, CliSent DEF TypeOK
  <2> QED
    BY <1>2, <2>2, <2>3 DEF At
<1>4. LinkInv(l)'
  BY <1>1, <1>2, <1>3 DEF LinkInv, SendCmd, Notified, Quiet, InCommand, InEvent, InPending, Closing, Serving, At, srvVars
<1> QED
  BY <1>1, <1>4, ClientFrame DEF SendCmd, CliPut, TypeOK, ClientOK, ChannelsOK

-----------------------------------------------------------------------------
\* The invariant holds at the start: no notification, no message, no event.
LEMMA InitEstablishes == Init => IInv
<1> SUFFICES ASSUME Init PROVE IInv
  OBVIOUS
<1>1. TypeOK
  BY LinkBounds, Messages
  DEF Init, TypeOK, ServerOK, ClientOK, ChannelsOK, IfEvents, JobKinds, ServerPCs, ClientPCs
<1>2. ASSUME NEW l \in Links PROVE LinkInv(l)
  BY <1>2, LinkBounds DEF Init, LinkInv, Serving, Quiet, At
<1> QED
  BY <1>1, <1>2 DEF IInv, Init

\* The server's steps inside and between transactions keep it.
LEMMA ServerKeeps ==
  ASSUME IInv, TypeOK', ServerStep
  PROVE  IInv'
<1>1. (spc # "sweep" => cur \in Links) /\ wait \in Links \cup {NoLink}
  BY DEF IInv, TypeOK, ServerOK
<1>2. CASE SkipLink \/ SweepAgain \/ SweepDone
  BY <1>2, LoopsKeep
<1>3. CASE ServiceReply
  BY <1>3, ServiceReplyKeeps DEF ServiceReply
<1>4. CASE PendingDelivered
  BY <1>1, <1>4, PendingDeliveredKeeps DEF PendingDelivered
<1>5. CASE ServiceCmd
  BY <1>5, ServiceCmdKeeps DEF ServiceCmd
<1>6. ASSUME NEW k \in CmdKinds, HandleCmd(k) PROVE IInv'
  BY <1>1, <1>6, HandleCmdKeeps DEF HandleCmd
<1>7. CASE PushStart
  BY <1>1, <1>7, PushStartKeeps DEF PushStart
<1>8. CASE PushData
  BY <1>1, <1>8, PushDataKeeps DEF PushData
<1>9. CASE PullStart
  BY <1>1, <1>9, PullStartKeeps DEF PullStart
<1>10. CASE PullEnd
  BY <1>1, <1>10, PullEndKeeps DEF PullEnd
<1>11. CASE SendConn
  BY <1>1, <1>11, SendConnKeeps DEF SendConn
<1>12. CASE ConnTaken
  BY <1>1, <1>12, ConnTakenKeeps DEF ConnTaken
<1>13. CASE RecvOpen
  BY <1>1, <1>13, RecvOpenKeeps DEF RecvOpen
<1>14. CASE RecvReady
  BY <1>1, <1>14, RecvReadyKeeps DEF RecvReady
<1>15. CASE RecvRefused
  BY <1>1, <1>15, RecvRefusedKeeps DEF RecvRefused
<1>16. CASE RecvDone
  BY <1>1, <1>16, RecvDoneKeeps DEF RecvDone
<1>17. CASE RecvRetry
  BY <1>1, <1>17, RecvRetryKeeps DEF RecvRetry
<1>18. CASE SendOpen
  BY <1>1, <1>18, SendOpenKeeps DEF SendOpen
<1>19. CASE SendBytes
  BY <1>1, <1>19, SendBytesKeeps DEF SendBytes
<1>20. CASE SendDone
  BY <1>1, <1>20, SendDoneKeeps DEF SendDone
<1> QED
  BY <1>2, <1>3, <1>4, <1>5, <1>6, <1>7, <1>8, <1>9, <1>10, <1>11, <1>12, <1>13, <1>14, <1>15, <1>16,
     <1>17, <1>18, <1>19, <1>20 DEF ServerStep

\* A step of a client keeps it.
LEMMA ClientKeeps ==
  ASSUME IInv, TypeOK', NEW l \in Links, SendCmd(l) \/ TakeNotification(l) \/ ClientStep(l)
  PROVE  IInv'
  BY SendCmdKeeps, TakeNotificationKeeps, CmdFirstEndKeeps, CmdSecondEndKeeps, CmdAcceptedKeeps,
     PushOpenedKeeps, PushClosedKeeps, PullOpenedKeeps, PullTakenKeeps, RecvAcceptKeeps, RecvRefuseKeeps,
     RecvTakeKeeps, RecvLastKeeps, SendDataKeeps, SlaveCloseKeeps, EventTakenKeeps DEF ClientStep

\* Every step keeps it.
LEMMA NextKeeps == IInv /\ [Next]_vars => IInv'
<1> SUFFICES ASSUME IInv, [Next]_vars PROVE IInv'
  OBVIOUS
<1>1. TypeOK'
  BY ServerTypes, ClientTypes, ChannelsTypes DEF IInv, TypeOK
<1>2. CASE IfChange \/ BeginService
  BY <1>1, <1>2, LoopsKeep
<1>3. CASE CheckState
  BY <1>1, <1>3, CheckStateKeeps
<1>4. ASSUME NEW l \in Links, NEW j \in Jobs, RaiseEvent(l, j) PROVE IInv'
  BY <1>1, <1>4, RaiseEventKeeps
<1>5. CASE ServerStep
  BY <1>1, <1>5, ServerKeeps
<1>6. ASSUME NEW l \in Links, SendCmd(l) \/ TakeNotification(l) \/ ClientStep(l) PROVE IInv'
  BY <1>1, <1>6, ClientKeeps
<1>7. CASE UNCHANGED vars
  <2>1. ASSUME NEW l \in Links PROVE LinkInv(l)'
    BY <1>7, <2>1 DEF IInv, LinkInv, Notified, Quiet, InCommand, InEvent, InPending, Closing, Serving, At,
                      vars, srvVars, cliVars
  <2> QED
    BY <1>1, <1>7, <2>1 DEF IInv, vars, srvVars
<1> QED
  BY <1>2, <1>3, <1>4, <1>5, <1>6, <1>7 DEF Next

\* For every number of clients, the two sides of every link are always in one
\* of the joint states of the table LinkInv.
THEOREM JointStates == Spec => []IInv
<1>1. Init => IInv
  BY InitEstablishes
<1>2. IInv /\ [Next]_vars => IInv'
  BY NextKeeps
<1> QED
  BY <1>1, <1>2, PTL DEF Spec

\* In every joint state the message at the head of a channel is one its reader
\* can take.
LEMMA Matching ==
  ASSUME IInv, NEW l \in Links
  PROVE  /\ s2c[l] # <<>> => Head(s2c[l]) \in ClientAccepts(cpc[l])
         /\ c2s[l] # <<>> => Head(c2s[l]) \in ServerAccepts(l)
<1>1. LinkInv(l) /\ TypeOK
  BY DEF IInv
<1>2. CASE ~Serving(l) /\ l \in notified
  <2>1. Notified(l)
    BY <1>1, <1>2 DEF LinkInv
  <2> QED
    BY <1>2, <2>1 DEF Notified, At, ClientAccepts, ServerAccepts, Serving
<1>3. CASE ~Serving(l) /\ l \notin notified
  <2>1. Quiet(l)
    BY <1>1, <1>3 DEF LinkInv
  <2> QED
    BY <1>3, <2>1 DEF Quiet, At, ClientAccepts, ServerAccepts, Serving
<1>4. CASE Serving(l) /\ InCommand(l)
  BY <1>4 DEF InCommand, Closing, At, ClientAccepts, ServerAccepts, Serving, CmdKinds
<1>5. CASE Serving(l) /\ InEvent(l)
  BY <1>1, <1>5 DEF InEvent, Closing, At, ClientAccepts, ServerAccepts, Serving, TypeOK, ServerOK, JobKinds
<1>6. CASE Serving(l) /\ InPending(l)
  <2>1. pending_event[l] \in IfEvents
    BY <1>1, <1>6 DEF InPending, TypeOK, ServerOK
  <2> QED
    BY <1>6, <2>1 DEF InPending, Closing, At, ClientAccepts, ServerAccepts, Serving
<1> QED
  BY <1>1, <1>2, <1>3, <1>4, <1>5, <1>6 DEF LinkInv

\* For every number of clients, no thread ever traps on a message of the wrong
\* kind, however notifications, commands and events interleave on a link.
THEOREM NoTrap == Spec => []TokensMatch
<1>1. IInv => TokensMatch
  BY Matching DEF TokensMatch
<1> QED
  BY <1>1, JointStates, PTL

\* How many messages the channels of a joint state hold.
Short(m) == m = <<>> \/ (\E a : m = <<a>>) \/ (\E a, b : m = <<a, b>>)

LEMMA Lengths ==
  /\ \A m : Short(m) => Len(m) <= 2
  /\ \A a : <<a>> # <<>>
  /\ Short(<<>>) /\ (\A a : Short(<<a>>)) /\ (\A a, b : Short(<<a, b>>))
<1>1. Len(<<>>) = 0 /\ (\A a : Len(<<a>>) = 1) /\ (\A a, b : Len(<<a, b>>) = 2)
  OBVIOUS
<1>2. \A m : Short(m) => Len(m) <= 2
  BY <1>1 DEF Short
<1>3. \A a : <<a>> # <<>>
  BY <1>1
<1>4. Short(<<>>) /\ (\A a : Short(<<a>>)) /\ (\A a, b : Short(<<a, b>>))
  BY DEF Short
<1> QED
  BY <1>2, <1>3, <1>4

\* For every number of clients, no channel holds more than two messages.
THEOREM BoundedChannels == Spec => []ChannelsShort
<1>1. IInv => ChannelsShort
  <2> SUFFICES ASSUME IInv, NEW l \in Links PROVE Short(s2c[l]) /\ Short(c2s[l])
    BY Lengths DEF ChannelsShort
  <2>1. LinkInv(l)
    BY DEF IInv
  <2>2. CASE ~Serving(l)
    BY <2>1, <2>2, Lengths DEF LinkInv, Notified, Quiet, At
  <2>3. CASE InCommand(l)
    BY <2>3, Lengths DEF InCommand, Closing, At
  <2>4. CASE InEvent(l)
    BY <2>4, Lengths DEF InEvent, Closing, At
  <2>5. CASE InPending(l)
    BY <2>5, Lengths DEF InPending, Closing, At
  <2> QED
    BY <2>1, <2>2, <2>3, <2>4, <2>5 DEF LinkInv
<1> QED
  BY <1>1, JointStates, PTL

\* For every number of clients, a link is notified exactly while an event is
\* owed to it, so that no client waits in xtcp_event for an event that never
\* comes and no queued event is left unannounced.
THEOREM Owed == Spec => []NotifiedMeansOwed
<1>1. IInv => NotifiedMeansOwed
  <2> SUFFICES ASSUME IInv, NEW l \in Links
               PROVE  /\ l \in notified => pending_event[l] # "none" \/ wait = l
                      /\ pending_event[l] # "none" => l \in notified \/ (spc = "pend" /\ cur = l)
                      /\ cpc[l] = "event" => l \in notified \/ s2c[l] # <<>> \/ wait = l
    BY DEF NotifiedMeansOwed
  <2>1. LinkInv(l)
    BY DEF IInv
  <2>2. ASSUME cpc[l] = "event", l \notin notified, wait # l PROVE s2c[l] # <<>>
    <3>1. CASE ~Serving(l)
      BY <2>1, <2>2, <3>1 DEF LinkInv, Quiet, At
    <3>2. CASE InCommand(l)
      BY <2>2, <3>2 DEF InCommand, Closing, At, CmdKinds
    <3>3. CASE InPending(l)
      BY <2>2, <3>3, Lengths DEF InPending, Closing, At
    <3> QED
      BY <2>1, <2>2, <3>1, <3>2, <3>3 DEF LinkInv
  <2> QED
    BY <2>1, <2>2 DEF LinkInv
<1> QED
  BY <1>1, JointStates, PTL

\* For every number of clients, merging queued interface events never loses the
\* last one.
THEOREM LastStateKept == Spec => []LastIfStateSeen
<1>1. IInv => LastIfStateSeen
  BY DEF IInv, LinkInv, LastIfStateSeen
<1> QED
  BY <1>1, JointStates, PTL
\* Every token is one its reader can take, and none waits for room in a channel.
THEOREM LinksInStep == Spec => []InStep
<1>1. TokensMatch /\ ChannelsShort => InStep
  BY DEF InStep
<1> QED
  BY <1>1, NoTrap, BoundedChannels, PTL

=============================================================================
