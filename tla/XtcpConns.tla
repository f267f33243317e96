----------------------------- MODULE XtcpConns ------------------------------
(***************************************************************************)
(* The TCP connections of the XTCP server: the connection table of uip.c   *)
(* with its state machine, the xtcpd_state_t that uip_xtcp.c keeps with    *)
(* every connection, and the handles (conn.id) that the clients hold.      *)
(*                                                                         *)
(* One server thread runs it all.  It is between two calls of uip_process, *)
(* or inside xtcpd_appcall, where it may stand in                          *)
(* xtcpd_service_clients_until_ready; in both places it executes commands  *)
(* of any client.  A command, and the hand-over of an event once its       *)
(* client is ready, are single steps here: XtcpLink has their protocol.    *)
(* The peers are arbitrary: a segment is described by what uip_process     *)
(* tests of it, and the retransmission and TIME_WAIT timers may expire at  *)
(* any tick.  The build is the default one (no sliding window).            *)
(***************************************************************************)
EXTENDS Integers, FiniteSets, FiniteSetsExt

CONSTANTS NumClients,     \* num_xtcp
          NumConns,       \* UIP_CONNS
          NumListeners,   \* NUM_TCP_LISTENERS, and UIP_LISTENPORTS
          MaxGuid,        \* MAX_GUID
          Ports,          \* the ports the clients listen to
          PortUsers,      \* PortUsers[p]: the clients that listen to p
          Connectors,     \* the clients that open connections
          Cmds,           \* the commands that clients issue on a connection
          MaxRtx,         \* UIP_MAXRTX
          MaxSynRtx,      \* UIP_MAXSYNRTX
          MaxSend         \* bound: send requests outstanding on a connection

Links == 0 .. NumClients - 1
Slots == 0 .. NumConns - 1
Entries == 1 .. NumListeners
Guids == 1 .. MaxGuid
NoLink == -1
NoSlot == -1
NoPort == 0

ConnCmds == {"init_send", "abort", "close", "ack_recv_mode", "ack_recv", "pause", "unpause"}

ASSUME SizesAssumption ==
  /\ NumClients \in Nat \ {0} /\ NumConns \in Nat \ {0} /\ NumListeners \in Nat \ {0}
  /\ MaxGuid \in Nat /\ MaxGuid > NumConns   \* the #error of uip_xtcp.c, with the UDP connections
  /\ MaxRtx \in Nat /\ MaxSynRtx \in Nat /\ MaxSend \in Nat
ASSUME UsersAssumption ==
  /\ NoPort \notin Ports
  /\ PortUsers \in [Ports -> SUBSET Links] /\ Connectors \subseteq Links
  /\ Cmds \subseteq ConnCmds

VARIABLES
  conns,          \* uip_conns
  app,            \* their appstate, the xtcpd_state_t
  guid,           \* the last conn.id given
  tcp_listeners,  \* tcp_listeners[i]: [port, link], link NoLink when not active
  listenports,    \* uip_listenports
  uip_conn,       \* the connection of the uip_process under way, or NoSlot
  uip_flags,      \* its flags, as the stages of xtcpd_appcall they select
  uip_slen,       \* 1 if the client gave data to send
  stage,          \* the test of xtcpd_appcall reached, "none" outside it
  waiting,        \* waiting_link of xtcpd_service_clients_until_ready
  after,          \* where uip_process continues after UIP_APPCALL
  listening,      \* the client's side: {<<l, p>>: l listens to p}
  handles         \* handles[l]: the conn.ids of open connections client l has

tables == <<guid, tcp_listeners, listenports>>
callVars == <<uip_conn, uip_flags, uip_slen, stage, waiting, after>>
clients == <<listening, handles>>
vars == <<conns, app, tables, callVars, clients>>

Init ==
  /\ conns = [c \in Slots |-> [state |-> "CLOSED", stopped |-> 0, len |-> 0, nrtx |-> 0, lport |-> NoPort]]
  /\ app = [c \in Slots |-> [id |-> 0, link |-> 0, type |-> "client", req |-> {}, send |-> 0, mode |-> {}]]
  /\ guid = 1
  /\ tcp_listeners = [i \in Entries |-> [port |-> NoPort, link |-> NoLink]]
  /\ listenports = [i \in Entries |-> NoPort]
  /\ uip_conn = NoSlot /\ uip_flags = {} /\ uip_slen = 0
  /\ stage = "none" /\ waiting = NoLink /\ after = "drop"
  /\ listening = {}
  /\ handles = [l \in Links |-> {}]

Idle == stage = "none"
\* xtcpd_service_clients, or xtcpd_service_clients_until_ready.
Serving == Idle \/ waiting # NoLink

\* tcpstateflags as a whole: equal to a state only without UIP_STOPPED.
Flags(c, st) == conns[c].state = st /\ conns[c].stopped = 0
Used(c) == ~Flags(c, "CLOSED")

\* An assignment to tcpstateflags drops UIP_STOPPED.
Enter(conn, st) == [conn EXCEPT !.state = st, !.stopped = 0]

-----------------------------------------------------------------------------
(* The commands.  A client names only connections that it has a handle of; *)
(* its handle may be stale, when the event that ends it is on its way.     *)

lookup_xtcpd_state(i) ==
  IF \E c \in Slots : app[c].id = i THEN Min({c \in Slots : app[c].id = i}) ELSE NoSlot

\* uip_listen and uip_unlisten: the first entry that is free, and the first one of the port.
uip_listen(p) ==
  LET free == {i \in Entries : listenports[i] = NoPort}
  IN  [i \in Entries |-> IF free # {} /\ i = Min(free) THEN p ELSE listenports[i]]
uip_unlisten(p) ==
  LET held == {i \in Entries : listenports[i] = p}
  IN  [i \in Entries |-> IF held # {} /\ i = Min(held) THEN NoPort ELSE listenports[i]]

\* register_listener takes the first free entry, if any, too.
Listen(l, p) ==
  /\ Serving /\ l \in PortUsers[p] /\ <<l, p>> \notin listening
  /\ LET free == {i \in Entries : tcp_listeners[i].link = NoLink}
     IN  tcp_listeners' = [i \in Entries |-> IF free # {} /\ i = Min(free)
                                             THEN [port |-> p, link |-> l] ELSE tcp_listeners[i]]
  /\ listenports' = uip_listen(p)
  /\ listening' = listening \cup {<<l, p>>}
  /\ UNCHANGED <<conns, app, guid, callVars, handles>>

\* Slip: the stack keeps the port.
UnlistenNotStack(l, p) ==
  /\ Serving /\ <<l, p>> \in listening
  /\ tcp_listeners' = [i \in Entries |-> IF tcp_listeners[i].port = p
                                         THEN [tcp_listeners[i] EXCEPT !.link = NoLink] ELSE tcp_listeners[i]]
  /\ listening' = listening \ {<<l, p>>}
  /\ UNCHANGED <<conns, app, guid, listenports, callVars, handles>>

\* unregister_listener ends every entry of the port, uip_unlisten one.
Unlisten(l, p) ==
  /\ Serving /\ <<l, p>> \in listening
  /\ tcp_listeners' = [i \in Entries |-> IF tcp_listeners[i].port = p
                                         THEN [tcp_listeners[i] EXCEPT !.link = NoLink] ELSE tcp_listeners[i]]
  /\ listenports' = uip_unlisten(p)
  /\ listening' = listening \ {<<l, p>>}
  /\ UNCHANGED <<conns, app, guid, callVars, handles>>

\* The slot of a new connection: the first one closed, else one in TIME_WAIT
\* (the one that has been there longest, which no state here tells).
FreeSlots ==
  LET closed == {c \in Slots : Flags(c, "CLOSED")}
  IN  IF closed # {} THEN {Min(closed)} ELSE {c \in Slots : Flags(c, "TIME_WAIT")}

Opening(conn, st, port) == [Enter(conn, st) EXCEPT !.len = 1, !.nrtx = 0, !.lport = port]

\* uip_connect in slot c; the local port is none that clients listen to.
uip_connect(c) == [conns EXCEPT ![c] = Opening(@, "SYN_SENT", NoPort)]

Connect(l) ==
  /\ Serving /\ l \in Connectors
  /\ \E c \in FreeSlots :
       /\ conns' = uip_connect(c)
       /\ app' = [app EXCEPT ![c].link = l, ![c].req = @ \cup {"connect"}, ![c].type = "client"]
  /\ UNCHANGED <<tables, callVars, clients>>

\* The commands on connection i of client l.
Request(i, r) == LET c == lookup_xtcpd_state(i)
                 IN  app' = [s \in Slots |-> IF s = c THEN [app[s] EXCEPT !.req = @ \cup {r}] ELSE app[s]]
Stopped(i, f) == LET c == lookup_xtcpd_state(i)
                 IN  conns' = [s \in Slots |-> IF s = c THEN [conns[s] EXCEPT !.stopped = f] ELSE conns[s]]

InitSend(i) ==
  LET c == lookup_xtcpd_state(i)
  IN  /\ c # NoSlot => app[c].send < MaxSend
      /\ app' = [s \in Slots |-> IF s = c THEN [app[s] EXCEPT !.send = @ + 1] ELSE app[s]]
      /\ UNCHANGED conns
Abort(i) == Request(i, "abort") /\ UNCHANGED conns
Close(i) == Request(i, "close") /\ UNCHANGED conns
AckRecvMode(i) ==
  LET c == lookup_xtcpd_state(i)
  IN  /\ app' = [s \in Slots |-> IF s = c THEN [app[s] EXCEPT !.mode = @ \cup {"ack_recv"}] ELSE app[s]]
      /\ UNCHANGED conns
AckRecv(i) == Request(i, "ack") /\ Stopped(i, 0)
Pause(i) == Stopped(i, 1) /\ UNCHANGED app
Unpause(i) == Request(i, "ack") /\ Stopped(i, 0)

Command(l, i) ==
  /\ Serving /\ i \in handles[l]
  /\ \/ "init_send" \in Cmds /\ InitSend(i)
     \/ "abort" \in Cmds /\ Abort(i)
     \/ "close" \in Cmds /\ Close(i)
     \/ "ack_recv_mode" \in Cmds /\ AckRecvMode(i)
     \/ "ack_recv" \in Cmds /\ AckRecv(i)
     \/ "pause" \in Cmds /\ Pause(i)
     \/ "unpause" \in Cmds /\ Unpause(i)
  /\ UNCHANGED <<tables, callVars, clients>>

-----------------------------------------------------------------------------
(* xtcpd_appcall: a sequence of tests of uip_flags, each a stage.          *)

Order == [none |-> 0, connected |-> 1, data |-> 2, abort |-> 3, timedout |-> 4,
          acked |-> 5, rexmit |-> 6, poll |-> 7, closed |-> 8]
NextStage(fl, st) ==
  LET later == {s \in fl : Order[s] > Order[st]}
  IN  IF later = {} THEN "return" ELSE CHOOSE s \in later : \A t \in later : Order[s] <= Order[t]

\* UIP_APPCALL for connection c, from the place in uip_process that goes on to k.
AppCall(c, fl, k) ==
  /\ uip_conn' = c /\ uip_flags' = fl /\ uip_slen' = 0
  /\ stage' = NextStage(fl, "none") /\ waiting' = NoLink /\ after' = k
Drop == UNCHANGED callVars

\* xtcpd_event and its like: wait for the connection's client, if it has one.
Raise(link) ==
  IF link # NoLink THEN waiting' = link /\ stage' = stage
                   ELSE waiting' = NoLink /\ stage' = NextStage(uip_flags, stage)

At(st) == stage = st /\ waiting = NoLink

\* Slip: the first active listener, whatever its port.
get_listener_any(p) ==
  LET match == {i \in Entries : tcp_listeners[i].link # NoLink}
  IN  IF match = {} THEN NoLink ELSE tcp_listeners[Min(match)].link

get_listener_linknum(p) ==
  LET match == {i \in Entries : tcp_listeners[i].link # NoLink /\ tcp_listeners[i].port = p}
  IN  IF match = {} THEN NoLink ELSE tcp_listeners[Min(match)].link

\* Slip: the next one, in use or not.
FreeGuidNext(c) == (guid % MaxGuid) + 1

\* The search for a GUID that no connection has, from the last one given.
FreeGuid(c) ==
  LET used == {app[d].id : d \in Slots \ {c}}
      nth(k) == ((guid - 1 + k) % MaxGuid) + 1
  IN  nth(Min({k \in 0 .. MaxGuid - 1 : nth(k) \notin used}))

xtcpd_init_state(c) ==
  LET active == "connect" \in app[c].req
  IN  [id |-> FreeGuid(c),
       link |-> IF active THEN app[c].link ELSE get_listener_linknum(conns[c].lport),
       type |-> IF active THEN app[c].type ELSE "server",
       req |-> {}, send |-> 0, mode |-> {}]

Connected ==
  /\ At("connected")
  /\ app' = [app EXCEPT ![uip_conn] = xtcpd_init_state(uip_conn)]
  /\ guid' = FreeGuid(uip_conn)
  /\ Raise(app'[uip_conn].link)
  /\ UNCHANGED <<conns, tcp_listeners, listenports, uip_conn, uip_flags, uip_slen, after, clients>>

\* RECV_DATA, ABORTED, TIMED_OUT, SENT_DATA and RESEND_DATA.
Event ==
  /\ \E st \in {"data", "abort", "timedout", "acked", "rexmit"} : At(st)
  /\ Raise(app[uip_conn].link)
  /\ UNCHANGED <<conns, app, tables, uip_conn, uip_flags, uip_slen, after, clients>>

\* uip_xtcpd_handle_poll
PollAbort ==
  /\ At("poll") /\ "abort" \in app[uip_conn].req
  /\ app' = [app EXCEPT ![uip_conn].req = @ \ {"ack", "abort"}]
  /\ uip_flags' = {"abort"} /\ stage' = NextStage({"abort"}, stage)
  /\ UNCHANGED <<conns, tables, uip_conn, uip_slen, waiting, after, clients>>
PollClose ==
  /\ At("poll") /\ "abort" \notin app[uip_conn].req /\ "close" \in app[uip_conn].req
  /\ app' = [app EXCEPT ![uip_conn].req = @ \ {"ack", "close"}]
  /\ uip_flags' = {"closed"} /\ stage' = NextStage({"closed"}, stage)
  /\ UNCHANGED <<conns, tables, uip_conn, uip_slen, waiting, after, clients>>
PollSend ==
  /\ At("poll") /\ app[uip_conn].req \cap {"abort", "close", "connect"} = {}
  /\ app[uip_conn].send > 0
  /\ app' = [app EXCEPT ![uip_conn].req = @ \ {"ack"},
                        ![uip_conn].send = IF app[uip_conn].link = NoLink THEN @ - 1 ELSE @]
  /\ Raise(app[uip_conn].link)
  /\ UNCHANGED <<conns, tables, uip_conn, uip_flags, uip_slen, after, clients>>
PollNone ==
  /\ At("poll") /\ app[uip_conn].req \cap {"abort", "close"} = {}
  /\ "connect" \in app[uip_conn].req \/ app[uip_conn].send = 0
  /\ app' = [app EXCEPT ![uip_conn].req = @ \ {"ack"}]
  /\ stage' = NextStage(uip_flags, stage)
  /\ UNCHANGED <<conns, tables, uip_conn, uip_flags, uip_slen, waiting, after, clients>>

\* Slip: s.closed is not tested.
ClosedAgain ==
  /\ At("closed")
  /\ app' = [app EXCEPT ![uip_conn].mode = @ \cup {"closed"}]
  /\ Raise(app[uip_conn].link)
  /\ UNCHANGED <<conns, tables, uip_conn, uip_flags, uip_slen, after, clients>>

Closed ==
  /\ At("closed")
  /\ IF "closed" \in app[uip_conn].mode
       THEN stage' = "return" /\ UNCHANGED <<app, waiting>>
       ELSE /\ app' = [app EXCEPT ![uip_conn].mode = @ \cup {"closed"}]
            /\ Raise(app[uip_conn].link)
  /\ UNCHANGED <<conns, tables, uip_conn, uip_flags, uip_slen, after, clients>>

\* The client is ready and takes the event, on the link that the server then
\* uses: do_xtcpd_send was given it before the wait, the others look it up
\* again.  For the send events the client answers with data or with none.
Final == {"abort", "timedout", "closed"}
DeliveryLink == IF stage \in {"acked", "poll"} THEN waiting ELSE app[uip_conn].link
Deliver(n) ==
  /\ waiting # NoLink
  /\ n = 1 => stage \in {"acked", "rexmit", "poll"}
  /\ handles' = [handles EXCEPT ![DeliveryLink] =
                   IF stage = "connected" THEN @ \cup {app[uip_conn].id}
                   ELSE IF stage \in Final THEN @ \ {app[uip_conn].id} ELSE @]
  /\ uip_slen' = IF n = 1 THEN 1 ELSE uip_slen
  /\ conns' = [conns EXCEPT ![uip_conn].stopped = IF stage = "data" /\ "ack_recv" \in app[uip_conn].mode THEN 1 ELSE @]
  /\ app' = [app EXCEPT ![uip_conn].send = IF stage = "poll" THEN @ - 1 ELSE @]
  /\ waiting' = NoLink /\ stage' = NextStage(uip_flags, stage)
  /\ UNCHANGED <<tables, uip_conn, uip_flags, after, listening>>

\* What uip_process does with the connection when UIP_APPCALL has returned.
Sent(conn) ==
  IF uip_slen = 0 THEN [conn EXCEPT !.nrtx = 0] ELSE [conn EXCEPT !.nrtx = 0, !.len = 1]

\* Slip: the connection stays open after the FIN.
AfterCallOpen(conn) ==
  CASE after = "appsend" /\ "abort" \in uip_flags -> Enter(conn, "CLOSED")
    [] after = "appsend" /\ "closed" \in uip_flags -> [Enter(conn, "FIN_WAIT_1") EXCEPT !.len = 1, !.nrtx = 0]
    [] after = "appsend" /\ uip_flags \cap {"abort", "closed"} = {} -> Sent(conn)
    [] after = "close" -> Enter(conn, "CLOSED")
    [] OTHER -> conn

AfterCall(conn) ==
  CASE after = "appsend" /\ "abort" \in uip_flags -> Enter(conn, "CLOSED")
    [] after = "appsend" /\ "closed" \in uip_flags -> [Enter(conn, "FIN_WAIT_1") EXCEPT !.len = 1, !.nrtx = 0]
    [] after = "appsend" /\ uip_flags \cap {"abort", "closed"} = {} -> Sent(conn)
    [] after = "close" -> Enter(conn, "CLOSED")
    [] after = "finack" -> [Enter(conn, "LAST_ACK") EXCEPT !.len = 1, !.nrtx = 0]
    [] OTHER -> conn
Return ==
  /\ stage = "return"
  /\ conns' = [conns EXCEPT ![uip_conn] = AfterCall(@)]
  /\ stage' = "none" /\ uip_conn' = NoSlot /\ uip_flags' = {} /\ uip_slen' = 0 /\ after' = "drop"
  /\ UNCHANGED <<app, tables, waiting, clients>>

-----------------------------------------------------------------------------
(* uip_process *)

\* Slips: a request left out.
needs_poll_not_close(c) == app[c].req \ {"close"} # {} \/ app[c].send > 0
needs_poll_not_send(c) == app[c].req # {}

\* The application is polled on an open connection that has nothing outstanding.
Poll(c) ==
  /\ conns[c].state = "ESTABLISHED" /\ conns[c].len = 0
  /\ AppCall(c, {"poll"}, "appsend")

\* xtcpd_check_connection_poll for connection c: UIP_POLL_REQUEST
needs_poll(c) == app[c].req # {} \/ app[c].send > 0
PollRequest(c) ==
  /\ Idle /\ needs_poll(c) /\ Poll(c)
  /\ UNCHANGED <<conns, app, tables, clients>>

\* UIP_TIMER: the tick at which a waiting connection is removed ...
TimeWaitExpires(c) ==
  /\ Idle /\ (Flags(c, "TIME_WAIT") \/ Flags(c, "FIN_WAIT_2"))
  /\ conns' = [conns EXCEPT ![c] = Enter(@, "CLOSED")]
  /\ UNCHANGED <<app, tables, callVars, clients>>

\* ... at which the retransmission timer of one expires ...
GivesUp(c) ==
  \/ conns[c].nrtx = MaxRtx
  \/ (Flags(c, "SYN_SENT") \/ Flags(c, "SYN_RCVD")) /\ conns[c].nrtx = MaxSynRtx
TimerExpires(c) ==
  /\ Idle /\ Used(c) /\ ~Flags(c, "TIME_WAIT") /\ ~Flags(c, "FIN_WAIT_2") /\ conns[c].len = 1
  /\ IF GivesUp(c)
       THEN conns' = [conns EXCEPT ![c] = Enter(@, "CLOSED")] /\ AppCall(c, {"timedout"}, "drop")
       ELSE /\ conns' = [conns EXCEPT ![c].nrtx = @ + 1]
            /\ IF conns[c].state = "ESTABLISHED" THEN AppCall(c, {"rexmit"}, "drop") ELSE Drop
  /\ UNCHANGED <<app, tables, clients>>

\* ... or at which an idle connection is polled.
TimerPolls(c) ==
  /\ Idle /\ Poll(c)
  /\ UNCHANGED <<conns, app, tables, clients>>

\* A SYN for a port of uip_listenports, from a peer that has no connection.
SynArrives(p) ==
  /\ Idle /\ \E i \in Entries : listenports[i] = p
  /\ \E c \in FreeSlots : conns' = [conns EXCEPT ![c] = Opening(@, "SYN_RCVD", p)]
  /\ UNCHANGED <<app, tables, callVars, clients>>

\* Slip: the application is not told.
RstArrivesSilent(c) ==
  /\ Idle /\ Used(c)
  /\ conns' = [conns EXCEPT ![c] = Enter(@, "CLOSED")]
  /\ UNCHANGED <<app, tables, callVars, clients>>

\* A segment for connection c with RST.
RstArrives(c) ==
  /\ Idle /\ Used(c)
  /\ conns' = [conns EXCEPT ![c] = Enter(@, "CLOSED")]
  /\ AppCall(c, {"abort"}, "drop")
  /\ UNCHANGED <<app, tables, clients>>

(***************************************************************************)
(* Any other segment whose sequence number is the expected one (the rest   *)
(* is answered with an ACK and changes nothing): sg is the set of what it  *)
(* has, "ack" standing for the acknowledgement of all outstanding data.    *)
(***************************************************************************)
Segments == SUBSET {"syn", "ack", "fin", "data"}

\* The acknowledgement, done before the state is looked at.
Acks(c, sg) == "ack" \in sg /\ conns[c].len = 1
AckTaken(c, sg) == IF Acks(c, sg) THEN [conns[c] EXCEPT !.len = 0] ELSE conns[c]
Update(c, conn) == conns' = [conns EXCEPT ![c] = conn]
Data(sg) == sg \cap {"data"}

InSynRcvd(c, sg) ==
  /\ conns[c].state = "SYN_RCVD"
  /\ IF Acks(c, sg)
       THEN /\ Update(c, Enter(AckTaken(c, sg), "ESTABLISHED"))
            /\ AppCall(c, {"connected"} \cup Data(sg), "appsend")
       ELSE UNCHANGED conns /\ Drop

\* Anything but a SYNACK aborts the attempt.
InSynSent(c, sg) ==
  /\ conns[c].state = "SYN_SENT"
  /\ IF Acks(c, sg) /\ "syn" \in sg
       THEN Update(c, Enter(AckTaken(c, sg), "ESTABLISHED")) /\ AppCall(c, {"connected"}, "appsend")
       ELSE Update(c, AckTaken(c, sg)) /\ AppCall(c, {"abort"}, "close")

\* A FIN is dropped while data are outstanding; neither it nor data are taken
\* while the dataflow is stopped.
InEstablished(c, sg) ==
  /\ conns[c].state = "ESTABLISHED"
  /\ Update(c, AckTaken(c, sg))
  /\ LET open == conns[c].stopped = 0
         flags == (IF Acks(c, sg) THEN {"acked"} ELSE {}) \cup (IF open THEN Data(sg) ELSE {})
     IN  IF "fin" \in sg /\ open
           THEN IF AckTaken(c, sg).len = 1 THEN Drop ELSE AppCall(c, flags \cup {"closed"}, "finack")
           ELSE IF flags = {} THEN Drop ELSE AppCall(c, flags, "appsend")

InLastAck(c, sg) ==
  /\ conns[c].state = "LAST_ACK"
  /\ IF Acks(c, sg)
       THEN Update(c, Enter(AckTaken(c, sg), "CLOSED")) /\ AppCall(c, {"closed"}, "drop")
       ELSE UNCHANGED conns /\ Drop

InFinWait1(c, sg) ==
  /\ conns[c].state = "FIN_WAIT_1"
  /\ IF "fin" \in sg
       THEN /\ Update(c, Enter(AckTaken(c, sg), IF Acks(c, sg) THEN "TIME_WAIT" ELSE "CLOSING"))
            /\ AppCall(c, {"closed"}, "drop")
       ELSE Update(c, IF Acks(c, sg) THEN Enter(AckTaken(c, sg), "FIN_WAIT_2") ELSE conns[c]) /\ Drop

InFinWait2(c, sg) ==
  /\ conns[c].state = "FIN_WAIT_2"
  /\ IF "fin" \in sg
       THEN Update(c, Enter(AckTaken(c, sg), "TIME_WAIT")) /\ AppCall(c, {"closed"}, "drop")
       ELSE Update(c, AckTaken(c, sg)) /\ Drop

\* CLOSING, and the states in which a segment is only answered.
InOther(c, sg) ==
  /\ conns[c].state \in {"CLOSING", "TIME_WAIT", "CLOSED"}
  /\ Update(c, IF conns[c].state = "CLOSING" /\ Acks(c, sg)
               THEN Enter(AckTaken(c, sg), "TIME_WAIT") ELSE AckTaken(c, sg))
  /\ Drop

SegmentArrives(c, sg) ==
  /\ Idle /\ Used(c)
  /\ \/ InSynRcvd(c, sg) \/ InSynSent(c, sg) \/ InEstablished(c, sg) \/ InLastAck(c, sg)
     \/ InFinWait1(c, sg) \/ InFinWait2(c, sg) \/ InOther(c, sg)
  /\ UNCHANGED <<app, tables, clients>>

ServerStep ==
  \/ Connected \/ Event \/ PollAbort \/ PollClose \/ PollSend \/ PollNone \/ Closed
  \/ \E n \in 0 .. 1 : Deliver(n)
  \/ Return

Next ==
  \/ \E l \in Links, p \in Ports : Listen(l, p) \/ Unlisten(l, p)
  \/ \E l \in Links : Connect(l)
  \/ \E l \in Links, i \in Guids : Command(l, i)
  \/ ServerStep
  \/ \E c \in Slots : PollRequest(c) \/ TimeWaitExpires(c) \/ TimerExpires(c) \/ TimerPolls(c) \/ RstArrives(c)
  \/ \E p \in Ports : SynArrives(p)
  \/ \E c \in Slots, sg \in Segments : SegmentArrives(c, sg)

Spec == Init /\ [][Next]_vars

-----------------------------------------------------------------------------
\* lookup_xtcpd_state finds the connection that is meant: no two connections,
\* open, waiting or closed, have the same conn.id.
UniqueIds == \A c, d \in Slots : c # d /\ app[c].id # 0 => app[c].id # app[d].id

\* The connection of the appcall under way, while its last event is due.
Ending(c) == uip_conn = c /\ stage \in Final
\* ... and until NEW_CONNECTION has been taken.
Starting(c) == uip_conn = c /\ stage = "connected"

\* A client holds a handle of every connection that is open on its link: all
\* data that the stack acknowledges belongs to a connection its client knows.
OpenIsHeld ==
  \A c \in Slots :
    conns[c].state = "ESTABLISHED" /\ app[c].link # NoLink /\ ~Starting(c)
      => app[c].id \in handles[app[c].link] \/ (uip_conn = c /\ "closed" \in app[c].mode)

\* No handle outlives its connection: what a client holds is an open connection
\* on its own link, or one whose last event is on its way to it.
HeldIsOpen ==
  \A l \in Links : \A i \in handles[l] : \E c \in Slots :
    app[c].id = i /\ app[c].link = l /\ (conns[c].state = "ESTABLISHED" \/ Ending(c))

\* No event but the end of a connection follows its end, and it is closed only
\* once: RECV_DATA, SENT_DATA, RESEND_DATA, REQUEST_DATA and CLOSED come for
\* handles that the client holds, NEW_CONNECTION for one that nobody holds.
EventsInOrder ==
  waiting # NoLink =>
    /\ stage \in {"data", "acked", "rexmit", "poll", "closed"} => app[uip_conn].id \in handles[waiting]
    /\ stage = "connected" => \A l \in Links : app[uip_conn].id \notin handles[l]

\* What the clients hold and what the tables have agree: the handles and the
\* connections of each link are the same, and no id means two of them.
HandlesAgree == UniqueIds /\ OpenIsHeld /\ HeldIsOpen

\* NEW_CONNECTION of a connection made by a peer goes to a client that listens
\* to its port, as a server connection.
NewToListener ==
  waiting # NoLink /\ stage = "connected" /\ conns[uip_conn].lport # NoPort =>
    waiting \in PortUsers[conns[uip_conn].lport] /\ app[uip_conn].type = "server"

\* The two listener tables agree: the stack accepts connections to exactly the
\* ports for which uip_xtcp.c knows a client, and each to its own listener.
ListenersAgree ==
  \A p \in Ports :
    (\E i \in Entries : listenports[i] = p) <=> get_listener_linknum(p) # NoLink

\* Both: whoever listens gets the connections to its port, and nobody else does.
ListenersServed == NewToListener /\ ListenersAgree

-----------------------------------------------------------------------------
(* What the comments of the API and of the stack say beyond that.          *)

\* The event for which the server waited is handed to the client it waited for:
\* xtcpd_service_clients_until_ready made that client, and no other, ready.
EventToReadyClient == waiting # NoLink => DeliveryLink = waiting

-----------------------------------------------------------------------------
(***************************************************************************)
(* Fairness.  The server runs on, and every pass of its main loop calls    *)
(* xtcpd_check_connection_poll.  The peer acknowledges, in the end, what   *)
(* is sent to it, and a client that is asked for data does not always have *)
(* some more.                                                              *)
(***************************************************************************)
PeerAcks(c) == \E sg \in Segments : "ack" \in sg /\ SegmentArrives(c, sg)
ClientIsDone == stage \in {"acked", "poll"} /\ Deliver(0)
Fairness ==
  /\ WF_vars(ServerStep) /\ SF_vars(ClientIsDone)
  /\ \A c \in Slots : SF_vars(PollRequest(c)) /\ SF_vars(conns[c].len = 1 /\ PeerAcks(c))
FairSpec == Spec /\ Fairness

\* Past xtcpd_init_state, which drops the requests of the slot's last connection,
\* and with a client (its listener may have gone before the handshake ended).
Open(c) == conns[c].state = "ESTABLISHED" /\ ~Starting(c) /\ app[c].link # NoLink

\* xtcp_close takes effect: a connection whose client asked to close it is left,
\* however many send requests and events its client and its peer keep raising.
CloseHappens ==
  \A c \in Slots : Open(c) /\ "close" \in app[c].req ~> conns[c].state # "ESTABLISHED"

\* xtcp_init_send: "the server will respond with a XTCP_REQUEST_DATA event when
\* it is ready to accept data", unless the connection is left before.
Requested(c) == uip_conn = c /\ stage = "poll" /\ waiting # NoLink
SendsHappen ==
  \A c \in Slots : Open(c) /\ app[c].send > 0 ~> Requested(c) \/ conns[c].state # "ESTABLISHED"
=============================================================================
