--------------------------- MODULE XtcpConnsProofs ---------------------------
(***************************************************************************)
(* Proofs about the connections of the XTCP server: what the clients hold, *)
(* what the events say and who is told of a connection, for every number   *)
(* of clients, connections, listeners and ids.                             *)
(***************************************************************************)
EXTENDS XtcpConns, FiniteSetTheorems, WellFoundedInduction, TLAPS

-----------------------------------------------------------------------------
(* The types of the variables.                                             *)

States == {"CLOSED", "SYN_SENT", "SYN_RCVD", "ESTABLISHED", "FIN_WAIT_1", "FIN_WAIT_2", "CLOSING",
           "TIME_WAIT", "LAST_ACK"}
Stages == {"connected", "data", "abort", "timedout", "acked", "rexmit", "poll", "closed"}
ConnRec == [state : States, stopped : {0, 1}, len : {0, 1}, nrtx : Nat, lport : Ports \cup {NoPort}]
AppRec == [id : 0 .. MaxGuid, link : Links \cup {NoLink}, type : {"client", "server"},
           req : SUBSET {"close", "ack", "connect", "abort"}, send : Int,
           mode : SUBSET {"closed", "ack_recv"}]
ListenerRec == [port : Ports \cup {NoPort}, link : Links \cup {NoLink}]

CallTypes ==
  /\ uip_conn \in Slots \cup {NoSlot} /\ (stage # "none" => uip_conn \in Slots) /\ uip_slen \in {0, 1}
  /\ stage \in Stages \cup {"none", "return"} /\ waiting \in Links \cup {NoLink}
  /\ uip_flags \subseteq Stages /\ ("abort" \in uip_flags => "closed" \notin uip_flags)
  /\ (waiting # NoLink => stage \in Stages)

Types ==
  /\ conns \in [Slots -> ConnRec] /\ app \in [Slots -> AppRec] /\ guid \in Guids
  /\ tcp_listeners \in [Entries -> ListenerRec] /\ listenports \in [Entries -> Ports \cup {NoPort}]
  /\ CallTypes

LEMMA NoneOut == NoLink \notin Links /\ NoSlot \notin Slots
  BY SizesAssumption DEF NoLink, Links, NoSlot, Slots

LEMMA LeastOf ==
  ASSUME NEW T, T \subseteq Nat, T # {}
  PROVE  Min(T) \in T /\ \A y \in T : Min(T) <= y
<1>1. PICK x \in T : \A y \in T : <<y, x>> \notin OpToRel(<, Nat)
  BY NatLessThanWellFounded, WFMin
<1>2. \A y \in T : ~(y < x)
  BY <1>1 DEF OpToRel
<1>3. \E z \in T : \A y \in T : z <= y
  BY <1>2
<1> QED BY <1>3 DEF Min

-----------------------------------------------------------------------------
(* The records that the steps make of a connection.                        *)

Conn(st, f, n, r, p) == [state |-> st, stopped |-> f, len |-> n, nrtx |-> r, lport |-> p]

LEMMA ConnRecord ==
  ASSUME NEW st \in States, NEW f \in {0, 1}, NEW n \in {0, 1}, NEW r \in Nat, NEW p \in Ports \cup {NoPort}
  PROVE  /\ Conn(st, f, n, r, p) \in ConnRec
         /\ Conn(st, f, n, r, p).state = st /\ Conn(st, f, n, r, p).lport = p
         /\ Conn(st, f, n, r, p).len = n
  BY DEF Conn, ConnRec

LEMMA EnterRecord ==
  ASSUME NEW conn \in ConnRec, NEW st \in States
  PROVE  /\ Enter(conn, st) = Conn(st, 0, conn.len, conn.nrtx, conn.lport)
         /\ Enter(conn, st) \in ConnRec
         /\ Enter(conn, st).state = st /\ Enter(conn, st).lport = conn.lport
         /\ Enter(conn, st).len = conn.len
<1>1. ASSUME NEW x, x = [conn EXCEPT !.state = st, !.stopped = 0]
      PROVE  x = Conn(st, 0, conn.len, conn.nrtx, conn.lport)
  BY <1>1 DEF Conn, ConnRec
<1>2. Enter(conn, st) = Conn(st, 0, conn.len, conn.nrtx, conn.lport)
  BY <1>1 DEF Enter
<1>3. conn.len \in {0, 1} /\ conn.nrtx \in Nat /\ conn.lport \in Ports \cup {NoPort}
  BY DEF ConnRec
<1> QED BY <1>2, <1>3, ConnRecord

LEMMA LeavingRecord ==
  ASSUME NEW conn \in ConnRec, NEW st \in States
  PROVE  /\ [Enter(conn, st) EXCEPT !.len = 1, !.nrtx = 0] \in ConnRec
         /\ [Enter(conn, st) EXCEPT !.len = 1, !.nrtx = 0].state = st
<1>1. Enter(conn, st) \in ConnRec /\ Enter(conn, st).state = st
  BY EnterRecord
<1>2. ASSUME NEW e \in ConnRec, NEW x, x = [e EXCEPT !.len = 1, !.nrtx = 0]
      PROVE  x = Conn(e.state, e.stopped, 1, 0, e.lport)
  BY <1>2 DEF Conn, ConnRec
<1>3. ASSUME NEW e \in ConnRec
      PROVE  Conn(e.state, e.stopped, 1, 0, e.lport) \in ConnRec
             /\ Conn(e.state, e.stopped, 1, 0, e.lport).state = e.state
  BY DEF Conn, ConnRec
<1> HIDE DEF Enter
<1> QED BY <1>1, <1>2, <1>3, Zenon

LEMMA OpeningRecord ==
  ASSUME NEW conn \in ConnRec, NEW st \in States, NEW p \in Ports \cup {NoPort}
  PROVE  Opening(conn, st, p) \in ConnRec /\ Opening(conn, st, p).state = st
<1>1. Enter(conn, st) \in ConnRec /\ Enter(conn, st).state = st
  BY EnterRecord
<1>2. ASSUME NEW e \in ConnRec, NEW x, x = [e EXCEPT !.len = 1, !.nrtx = 0, !.lport = p]
      PROVE  x = Conn(e.state, e.stopped, 1, 0, p)
  BY <1>2 DEF Conn, ConnRec
<1>3. ASSUME NEW e \in ConnRec
      PROVE  Conn(e.state, e.stopped, 1, 0, p) \in ConnRec
             /\ Conn(e.state, e.stopped, 1, 0, p).state = e.state
  BY DEF Conn, ConnRec
<1>4. Opening(conn, st, p) = [Enter(conn, st) EXCEPT !.len = 1, !.nrtx = 0, !.lport = p]
  BY DEF Opening
<1> HIDE DEF Enter
<1> QED BY <1>1, <1>2, <1>3, <1>4, Zenon

LEMMA SentRecord ==
  ASSUME NEW conn \in ConnRec
  PROVE  Sent(conn) \in ConnRec /\ Sent(conn).state = conn.state
<1>1. ASSUME NEW x, x = [conn EXCEPT !.nrtx = 0, !.len = 1]
      PROVE  x = Conn(conn.state, conn.stopped, 1, 0, conn.lport)
  BY <1>1 DEF Conn, ConnRec
<1>2. Conn(conn.state, conn.stopped, 1, 0, conn.lport) \in ConnRec
      /\ Conn(conn.state, conn.stopped, 1, 0, conn.lport).state = conn.state
  BY DEF Conn, ConnRec
<1>3. [conn EXCEPT !.nrtx = 0, !.len = 1] = Conn(conn.state, conn.stopped, 1, 0, conn.lport)
  BY <1>1
<1>4. [conn EXCEPT !.nrtx = 0] \in ConnRec /\ [conn EXCEPT !.nrtx = 0].state = conn.state
  BY DEF ConnRec
<1>5. CASE uip_slen = 0
  <2>1. Sent(conn) = [conn EXCEPT !.nrtx = 0]
    BY <1>5 DEF Sent
  <2> QED BY <1>4, <2>1
<1>6. CASE uip_slen # 0
  <2>1. Sent(conn) = Conn(conn.state, conn.stopped, 1, 0, conn.lport)
    BY <1>3, <1>6 DEF Sent
  <2> QED BY <1>2, <2>1
<1> QED BY <1>5, <1>6

LEMMA AckTakenRecord ==
  ASSUME NEW c \in Slots, NEW sg, conns[c] \in ConnRec
  PROVE  AckTaken(c, sg) \in ConnRec /\ AckTaken(c, sg).state = conns[c].state
         /\ AckTaken(c, sg).lport = conns[c].lport
  BY DEF AckTaken, ConnRec

LEMMA AfterCallRecord ==
  ASSUME NEW conn \in ConnRec, "abort" \in uip_flags => "closed" \notin uip_flags
  PROVE  /\ AfterCall(conn) \in ConnRec
         /\ \/ after = "appsend" /\ "abort" \in uip_flags /\ AfterCall(conn).state = "CLOSED"
            \/ after = "appsend" /\ "closed" \in uip_flags /\ AfterCall(conn).state = "FIN_WAIT_1"
            \/ after = "appsend" /\ uip_flags \cap {"abort", "closed"} = {} /\ AfterCall(conn).state = conn.state
            \/ after = "close" /\ AfterCall(conn).state = "CLOSED"
            \/ after = "finack" /\ AfterCall(conn).state = "LAST_ACK"
            \/ after \notin {"appsend", "close", "finack"} /\ AfterCall(conn) = conn
<1>1. ASSUME NEW st \in {"CLOSED", "FIN_WAIT_1", "LAST_ACK"}
      PROVE  /\ Enter(conn, st) \in ConnRec /\ Enter(conn, st).state = st
             /\ [Enter(conn, st) EXCEPT !.len = 1, !.nrtx = 0] \in ConnRec
             /\ [Enter(conn, st) EXCEPT !.len = 1, !.nrtx = 0].state = st
  <2>1. st \in States
    BY DEF States
  <2> QED BY <2>1, EnterRecord, LeavingRecord, Zenon
<1>2. Sent(conn) \in ConnRec /\ Sent(conn).state = conn.state
  BY SentRecord
<1>3. CASE after = "appsend" /\ "abort" \in uip_flags
  <2>1. AfterCall(conn) = Enter(conn, "CLOSED")
    BY <1>3, Zenon DEF AfterCall
  <2> QED BY <1>1, <1>3, <2>1
<1>4. CASE after = "appsend" /\ "abort" \notin uip_flags /\ "closed" \in uip_flags
  <2>1. AfterCall(conn) = [Enter(conn, "FIN_WAIT_1") EXCEPT !.len = 1, !.nrtx = 0]
    BY <1>4, Zenon DEF AfterCall
  <2> QED BY <1>1, <1>4, <2>1, Zenon
<1>5. CASE after = "appsend" /\ uip_flags \cap {"abort", "closed"} = {}
  <2>1. AfterCall(conn) = Sent(conn)
    BY <1>5 DEF AfterCall
  <2> QED BY <1>2, <1>5, <2>1
<1>6. CASE after = "close"
  <2>1. AfterCall(conn) = Enter(conn, "CLOSED")
    BY <1>6 DEF AfterCall
  <2> QED BY <1>1, <1>6, <2>1
<1>7. CASE after = "finack"
  <2>1. AfterCall(conn) = [Enter(conn, "LAST_ACK") EXCEPT !.len = 1, !.nrtx = 0]
    BY <1>7, Zenon DEF AfterCall
  <2> QED BY <1>1, <1>7, <2>1, Zenon
<1>8. CASE after \notin {"appsend", "close", "finack"}
  <2>1. AfterCall(conn) = conn
    BY <1>8 DEF AfterCall
  <2> QED BY <1>8, <2>1
<1> QED BY <1>3, <1>4, <1>5, <1>6, <1>7, <1>8

-----------------------------------------------------------------------------
(* The helpers of the steps.                                               *)

LEMMA OrderOf ==
  /\ Order["none"] = 0 /\ Order["connected"] = 1 /\ Order["data"] = 2 /\ Order["abort"] = 3
  /\ Order["timedout"] = 4 /\ Order["acked"] = 5 /\ Order["rexmit"] = 6 /\ Order["poll"] = 7
  /\ Order["closed"] = 8
  BY DEF Order

\* The next stage is the first one selected after the present one.
LEMMA NextStageIs ==
  ASSUME NEW fl, fl \subseteq Stages, NEW st \in Stages \cup {"none"}
  PROVE  /\ NextStage(fl, st) = "return" => \A s \in fl : Order[s] <= Order[st]
         /\ NextStage(fl, st) # "return" =>
              /\ NextStage(fl, st) \in fl /\ Order[NextStage(fl, st)] > Order[st]
              /\ \A s \in fl : Order[s] > Order[st] => Order[NextStage(fl, st)] <= Order[s]
<1> DEFINE later == {s \in fl : Order[s] > Order[st]}
<1>1. \A s \in Stages \cup {"none"} : Order[s] \in Nat
  BY OrderOf DEF Stages
<1>2. "return" \notin Stages
  BY DEF Stages
<1>3. CASE later = {}
  <2>1. NextStage(fl, st) = "return"
    BY <1>3 DEF NextStage
  <2> QED BY <1>1, <1>3, <2>1
<1>4. CASE later # {}
  <2> DEFINE first == CHOOSE s \in later : \A t \in later : Order[s] <= Order[t]
  <2>1. NextStage(fl, st) = first
    BY <1>4, Zenon DEF NextStage
  <2>2. \E s \in later : \A t \in later : Order[s] <= Order[t]
    <3> DEFINE T == {Order[s] : s \in later}
    <3>1. T \subseteq Nat /\ T # {}
      BY <1>1, <1>4
    <3> HIDE DEF T
    <3>2. Min(T) \in T /\ \A y \in T : Min(T) <= y
      BY <3>1, LeastOf
    <3> USE DEF T
    <3>3. PICK s \in later : Min(T) = Order[s]
      BY <3>2
    <3> QED BY <3>2, <3>3
  <2> HIDE DEF later
  <2>3. first \in later /\ \A t \in later : Order[first] <= Order[t]
    BY <2>2, Zenon
  <2> HIDE DEF first
  <2> USE DEF later
  <2> QED BY <1>2, <2>1, <2>3
<1> QED BY <1>3, <1>4

\* Where an application call begins, and where its stages lead.
LEMMA FirstStage ==
  ASSUME NEW fl, fl \subseteq Stages, fl # {}
  PROVE  /\ NextStage(fl, "none") \in fl
         /\ "connected" \in fl => NextStage(fl, "none") = "connected"
<1>1. \A s \in Stages : Order[s] > 0 /\ Order[s] \in Nat /\ (Order[s] <= 1 => s = "connected")
  BY OrderOf DEF Stages
<1>2. NextStage(fl, "none") # "return"
  BY <1>1, NextStageIs, OrderOf
<1>3. /\ NextStage(fl, "none") \in fl
      /\ \A s \in fl : Order[s] > Order["none"] => Order[NextStage(fl, "none")] <= Order[s]
  BY <1>2, NextStageIs
<1> QED BY <1>1, <1>3, OrderOf

LEMMA LookupIs ==
  ASSUME Types, NEW i
  PROVE  \/ lookup_xtcpd_state(i) = NoSlot
         \/ lookup_xtcpd_state(i) \in Slots /\ app[lookup_xtcpd_state(i)].id = i
<1> DEFINE T == {c \in Slots : app[c].id = i}
<1>1. CASE T = {}
  BY <1>1 DEF lookup_xtcpd_state
<1>2. CASE T # {}
  <2>1. T \subseteq Nat
    BY SizesAssumption DEF Slots
  <2>2. lookup_xtcpd_state(i) = Min(T)
    BY <1>2, Zenon DEF lookup_xtcpd_state
  <2> HIDE DEF T
  <2>3. Min(T) \in T
    BY <1>2, <2>1, LeastOf
  <2> USE DEF T
  <2> QED BY <2>2, <2>3
<1> QED BY <1>1, <1>2

LEMMA GetListenerIs ==
  ASSUME Types, NEW p
  PROVE  \/ get_listener_linknum(p) = NoLink /\ \A i \in Entries : tcp_listeners[i].port = p => tcp_listeners[i].link = NoLink
         \/ \E i \in Entries : /\ tcp_listeners[i].port = p /\ tcp_listeners[i].link # NoLink
                               /\ get_listener_linknum(p) = tcp_listeners[i].link
<1> DEFINE T == {i \in Entries : tcp_listeners[i].link # NoLink /\ tcp_listeners[i].port = p}
<1>1. CASE T = {}
  BY <1>1 DEF get_listener_linknum
<1>2. CASE T # {}
  <2>1. T \subseteq Nat
    BY SizesAssumption DEF Entries
  <2>2. get_listener_linknum(p) = tcp_listeners[Min(T)].link
    BY <1>2, Zenon DEF get_listener_linknum
  <2> HIDE DEF T
  <2>3. Min(T) \in T
    BY <1>2, <2>1, LeastOf
  <2> USE DEF T
  <2> QED BY <2>2, <2>3
<1> QED BY <1>1, <1>2

\* The search for a GUID goes once around, and there are more than connections:
\* it finds one that no other connection has.
LEMMA FreeGuidIs ==
  ASSUME Types, NEW c \in Slots
  PROVE  FreeGuid(c) \in Guids /\ \A d \in Slots : d # c => app[d].id # FreeGuid(c)
<1> DEFINE used == {app[d].id : d \in Slots \ {c}}
           nth(k) == ((guid - 1 + k) % MaxGuid) + 1
           free == {k \in 0 .. MaxGuid - 1 : nth(k) \notin used}
<1>1. guid \in Nat /\ 1 <= guid /\ guid <= MaxGuid /\ MaxGuid \in Nat /\ MaxGuid > 0
  BY SizesAssumption DEF Types, Guids
<1>2. FreeGuid(c) = nth(Min(free))
  BY DEF FreeGuid
<1>3. \A k \in 0 .. MaxGuid - 1 : nth(k) \in Guids
  BY <1>1 DEF Guids
<1>4. free # {}
  <2> SUFFICES ASSUME \A k \in 0 .. MaxGuid - 1 : nth(k) \in used
               PROVE  FALSE
    OBVIOUS
  <2>1. \A g \in Guids : \E k \in 0 .. MaxGuid - 1 : nth(k) = g
    <3> SUFFICES ASSUME NEW g \in Guids
                 PROVE  \E k \in 0 .. MaxGuid - 1 : nth(k) = g
      OBVIOUS
    <3>1. g \in Nat /\ 1 <= g /\ g <= MaxGuid
      BY DEF Guids
    <3>2. CASE g >= guid
      <4>1. g - guid \in 0 .. MaxGuid - 1 /\ guid - 1 + (g - guid) = g - 1
        BY <1>1, <3>1, <3>2
      <4>2. (g - 1) % MaxGuid = g - 1
        BY <1>1, <3>1
      <4> QED BY <3>1, <4>1, <4>2
    <3>3. CASE g < guid
      <4>1. g - guid + MaxGuid \in 0 .. MaxGuid - 1 /\ guid - 1 + (g - guid + MaxGuid) = g - 1 + MaxGuid
        BY <1>1, <3>1, <3>3
      <4>2. (g - 1 + MaxGuid) % MaxGuid = g - 1
        BY <1>1, <3>1
      <4> QED BY <3>1, <4>1, <4>2
    <3> QED BY <1>1, <3>1, <3>2, <3>3
  <2>2. Guids \subseteq used
    BY <2>1
  <2>3. IsFiniteSet(Guids) /\ Cardinality(Guids) = MaxGuid
    BY <1>1, FS_Interval DEF Guids
  <2>4. IsFiniteSet(Slots) /\ Cardinality(Slots) = NumConns
    <3>1. 0 \in Int /\ NumConns - 1 \in Int /\ NumConns \in Nat /\ NumConns > 0
      BY SizesAssumption
    <3>2. IsFiniteSet(0 .. NumConns - 1) /\ Cardinality(0 .. NumConns - 1) = IF 0 > NumConns - 1 THEN 0 ELSE (NumConns - 1) - 0 + 1
      BY <3>1, FS_Interval
    <3> QED BY <3>1, <3>2 DEF Slots
  <2>5. IsFiniteSet(Slots \ {c}) /\ Cardinality(Slots \ {c}) = NumConns - 1
    BY <2>4, FS_RemoveElement
  <2>6. IsFiniteSet(used) /\ Cardinality(used) <= Cardinality(Slots \ {c})
    <3> DEFINE f == [d \in Slots \ {c} |-> app[d].id]
    <3>1. f \in Surjection(Slots \ {c}, used)
      BY DEF Surjection
    <3> HIDE DEF f
    <3> QED BY <2>5, <3>1, FS_Surjection
  <2>7. Cardinality(Guids) <= Cardinality(used)
    BY <2>2, <2>6, FS_Subset
  <2>8. Cardinality(used) \in Nat
    BY <2>6, FS_CardinalityType
  <2> HIDE DEF used
  <2> QED BY <2>3, <2>5, <2>6, <2>7, <2>8, SizesAssumption
<1>5. free \subseteq Nat
  BY <1>1
<1> HIDE DEF free
<1>6. Min(free) \in free
  BY <1>4, <1>5, LeastOf
<1>7. Min(free) \in 0 .. MaxGuid - 1 /\ nth(Min(free)) \notin used
  BY <1>6 DEF free
<1>8. nth(Min(free)) \in Guids
  BY <1>3, <1>7
<1> QED BY <1>2, <1>7, <1>8

-----------------------------------------------------------------------------
(* What the steps do to the connections, as far as the invariants go.      *)

\* The connections keep their states and ports, ...
ConnsStay ==
  /\ conns' \in [Slots -> ConnRec]
  /\ \A s \in Slots : conns'[s].state = conns[s].state /\ conns'[s].lport = conns[s].lport
\* ... and their ids, links, kinds and ends.
AppsStay ==
  /\ app' \in [Slots -> AppRec]
  /\ \A s \in Slots : /\ app'[s].id = app[s].id /\ app'[s].link = app[s].link /\ app'[s].type = app[s].type
                      /\ ("closed" \in app'[s].mode <=> "closed" \in app[s].mode)
\* The requests grow by close, ack and abort, where a client issues them.
Asked == {"close", "ack"} \cup (Cmds \cap {"abort"})

LEMMA RequestStep ==
  ASSUME Types, NEW i, NEW r \in {"close", "ack", "abort"}, r = "abort" => "abort" \in Cmds, Request(i, r)
  PROVE  AppsStay /\ \A s \in Slots : app'[s].req \subseteq app[s].req \cup Asked
<1> DEFINE c == lookup_xtcpd_state(i)
<1>1. app' = [s \in Slots |-> IF s = c THEN [app[s] EXCEPT !.req = @ \cup {r}] ELSE app[s]]
  BY DEF Request
<1> HIDE DEF c
<1>2. ASSUME NEW s \in Slots
      PROVE  /\ app'[s] \in AppRec
             /\ app'[s].id = app[s].id /\ app'[s].link = app[s].link /\ app'[s].type = app[s].type
             /\ app'[s].mode = app[s].mode /\ app'[s].req \subseteq app[s].req \cup {r}
  <2>1. app[s] \in AppRec
    BY DEF Types
  <2>2. [app[s] EXCEPT !.req = @ \cup {r}] \in AppRec
    BY <2>1 DEF AppRec
  <2>3. app'[s] = IF s = c THEN [app[s] EXCEPT !.req = @ \cup {r}] ELSE app[s]
    BY <1>1
  <2> QED BY <2>1, <2>2, <2>3 DEF AppRec
<1>3. app' \in [Slots -> AppRec]
  BY <1>1, <1>2
<1>4. r \in Asked
  BY DEF Asked
<1> QED BY <1>2, <1>3, <1>4 DEF AppsStay

LEMMA StoppedStep ==
  ASSUME Types, NEW i, NEW f \in {0, 1}, Stopped(i, f)
  PROVE  ConnsStay
<1> DEFINE c == lookup_xtcpd_state(i)
<1>1. conns' = [s \in Slots |-> IF s = c THEN [conns[s] EXCEPT !.stopped = f] ELSE conns[s]]
  BY DEF Stopped
<1> HIDE DEF c
<1>2. ASSUME NEW s \in Slots
      PROVE  conns'[s] \in ConnRec /\ conns'[s].state = conns[s].state /\ conns'[s].lport = conns[s].lport
  <2>1. conns[s] \in ConnRec
    BY DEF Types
  <2>2. [conns[s] EXCEPT !.stopped = f] \in ConnRec
    BY <2>1 DEF ConnRec
  <2>3. conns'[s] = IF s = c THEN [conns[s] EXCEPT !.stopped = f] ELSE conns[s]
    BY <1>1
  <2> QED BY <2>1, <2>2, <2>3 DEF ConnRec
<1> QED BY <1>1, <1>2 DEF ConnsStay

LEMMA CommandStep ==
  ASSUME Types, NEW l, NEW i, Command(l, i)
  PROVE  /\ ConnsStay /\ AppsStay /\ UNCHANGED <<tables, callVars, clients>>
         /\ \A s \in Slots : app'[s].req \subseteq app[s].req \cup Asked
<1> DEFINE c == lookup_xtcpd_state(i)
           Goal == ConnsStay /\ AppsStay /\ \A s \in Slots : app'[s].req \subseteq app[s].req \cup Asked
<1>1. UNCHANGED conns => ConnsStay
  BY DEF ConnsStay, Types
<1>2. ASSUME UNCHANGED app
      PROVE  AppsStay /\ \A s \in Slots : app'[s].req \subseteq app[s].req \cup Asked
  BY <1>2 DEF AppsStay, Types
<1>3. ASSUME InitSend(i)
      PROVE  Goal
  <2>1. app' = [s \in Slots |-> IF s = c THEN [app[s] EXCEPT !.send = @ + 1] ELSE app[s]]
    BY <1>3 DEF InitSend
  <2> HIDE DEF c
  <2>2. ASSUME NEW s \in Slots
        PROVE  /\ app'[s] \in AppRec
               /\ app'[s].id = app[s].id /\ app'[s].link = app[s].link /\ app'[s].type = app[s].type
               /\ app'[s].mode = app[s].mode /\ app'[s].req = app[s].req
    <3>1. app[s] \in AppRec /\ app[s].send + 1 \in Int
      BY DEF Types, AppRec
    <3>2. [app[s] EXCEPT !.send = @ + 1] \in AppRec
      BY <3>1 DEF AppRec
    <3>3. app'[s] = IF s = c THEN [app[s] EXCEPT !.send = @ + 1] ELSE app[s]
      BY <2>1
    <3> QED BY <3>1, <3>2, <3>3 DEF AppRec
  <2>3. app' \in [Slots -> AppRec]
    BY <2>1, <2>2
  <2>4. UNCHANGED conns
    BY <1>3 DEF InitSend
  <2> QED BY <1>1, <2>2, <2>3, <2>4 DEF AppsStay
<1>4. ASSUME AckRecvMode(i)
      PROVE  Goal
  <2>1. app' = [s \in Slots |-> IF s = c THEN [app[s] EXCEPT !.mode = @ \cup {"ack_recv"}] ELSE app[s]]
    BY <1>4 DEF AckRecvMode
  <2> HIDE DEF c
  <2>2. ASSUME NEW s \in Slots
        PROVE  /\ app'[s] \in AppRec
               /\ app'[s].id = app[s].id /\ app'[s].link = app[s].link /\ app'[s].type = app[s].type
               /\ ("closed" \in app'[s].mode <=> "closed" \in app[s].mode) /\ app'[s].req = app[s].req
    <3>1. app[s] \in AppRec
      BY DEF Types
    <3>2. [app[s] EXCEPT !.mode = @ \cup {"ack_recv"}] \in AppRec
      BY <3>1 DEF AppRec
    <3>3. app'[s] = IF s = c THEN [app[s] EXCEPT !.mode = @ \cup {"ack_recv"}] ELSE app[s]
      BY <2>1
    <3> QED BY <3>1, <3>2, <3>3 DEF AppRec
  <2>3. app' \in [Slots -> AppRec]
    BY <2>1, <2>2
  <2>4. UNCHANGED conns
    BY <1>4 DEF AckRecvMode
  <2> QED BY <1>1, <2>2, <2>3, <2>4 DEF AppsStay
<1>5. ASSUME "abort" \in Cmds, Abort(i)
      PROVE  Goal
  BY <1>1, <1>5, RequestStep DEF Abort
<1>6. ASSUME Close(i)
      PROVE  Goal
  BY <1>1, <1>6, RequestStep DEF Close
<1>7. ASSUME AckRecv(i) \/ Unpause(i)
      PROVE  Goal
  BY <1>7, RequestStep, StoppedStep DEF AckRecv, Unpause
<1>8. ASSUME Pause(i)
      PROVE  Goal
  BY <1>2, <1>8, StoppedStep DEF Pause
<1> HIDE DEF Goal
<1>9. Goal
  BY <1>3, <1>4, <1>5, <1>6, <1>7, <1>8 DEF Command
<1> QED BY <1>9 DEF Goal, Command

\* Connection c becomes k, which has its port.
Becomes(c, k) == k \in ConnRec /\ k.lport = conns[c].lport /\ conns' = [conns EXCEPT ![c] = k]

\* A segment is taken without a call of the application, ...
SegQuiet(c, k) ==
  /\ UNCHANGED callVars
  /\ \/ k.state = conns[c].state
     \/ conns[c].state = "FIN_WAIT_1" /\ k.state = "FIN_WAIT_2"
     \/ conns[c].state = "CLOSING" /\ k.state = "TIME_WAIT"
\* ... it opens the connection, ...
SegOpens(c, k) ==
  /\ conns[c].state \in {"SYN_RCVD", "SYN_SENT"} /\ k.state = "ESTABLISHED"
  /\ \E fl : fl \subseteq {"connected", "data"} /\ "connected" \in fl /\ AppCall(c, fl, "appsend")
\* ... refuses the one that was asked for, ...
SegRefuses(c, k) == conns[c].state = "SYN_SENT" /\ k.state = "SYN_SENT" /\ AppCall(c, {"abort"}, "close")
\* ... is one for an open connection, ...
SegEvents(c, k) ==
  /\ conns[c].state = "ESTABLISHED" /\ k.state = "ESTABLISHED"
  /\ \E fl : \/ fl \subseteq {"acked", "data"} /\ fl # {} /\ AppCall(c, fl, "appsend")
             \/ fl \subseteq {"acked", "data", "closed"} /\ "closed" \in fl /\ AppCall(c, fl, "finack")
\* ... or ends one that was left.
SegEnds(c, k) ==
  /\ conns[c].state \in {"LAST_ACK", "FIN_WAIT_1", "FIN_WAIT_2"} /\ k.state \in {"CLOSED", "CLOSING", "TIME_WAIT"}
  /\ AppCall(c, {"closed"}, "drop")

LEMMA SegmentStep ==
  ASSUME Types, NEW c \in Slots, NEW sg \in Segments, SegmentArrives(c, sg)
  PROVE  /\ UNCHANGED <<app, tables, clients>> /\ stage = "none"
         /\ \E k : /\ Becomes(c, k)
                   /\ SegQuiet(c, k) \/ SegOpens(c, k) \/ SegRefuses(c, k) \/ SegEvents(c, k) \/ SegEnds(c, k)
<1> DEFINE a == AckTaken(c, sg)
           e(st) == Enter(a, st)
<1>1. UNCHANGED <<app, tables, clients>> /\ stage = "none"
  BY DEF SegmentArrives, Idle
<1>2. conns[c] \in ConnRec /\ conns \in [Slots -> ConnRec]
  BY DEF Types
<1>3. a \in ConnRec /\ a.state = conns[c].state /\ a.lport = conns[c].lport
  BY <1>2, AckTakenRecord
<1>4. ASSUME NEW st \in {"ESTABLISHED", "CLOSED", "TIME_WAIT", "CLOSING", "FIN_WAIT_2"}
      PROVE  e(st) \in ConnRec /\ e(st).state = st /\ e(st).lport = conns[c].lport
  <2>1. st \in States
    BY DEF States
  <2> HIDE DEF a
  <2> QED BY <1>3, <2>1, EnterRecord, Zenon
<1>5. ASSUME UNCHANGED conns
      PROVE  Becomes(c, conns[c])
  BY <1>2, <1>5 DEF Becomes
<1>6. ASSUME Update(c, a)
      PROVE  Becomes(c, a)
  BY <1>3, <1>6 DEF Becomes, Update
<1>7. ASSUME NEW st \in {"ESTABLISHED", "CLOSED", "TIME_WAIT", "CLOSING", "FIN_WAIT_2"}, Update(c, e(st))
      PROVE  Becomes(c, e(st))
  BY <1>4, <1>7 DEF Becomes, Update
<1> DEFINE Goal == \E k : /\ Becomes(c, k)
                          /\ SegQuiet(c, k) \/ SegOpens(c, k) \/ SegRefuses(c, k) \/ SegEvents(c, k) \/ SegEnds(c, k)
<1> HIDE DEF a, e
<1> SUFFICES Goal
  BY <1>1
<1>11. CASE InSynRcvd(c, sg)
  <2>1. CASE Acks(c, sg)
    <3>1. Update(c, e("ESTABLISHED")) /\ AppCall(c, {"connected"} \cup Data(sg), "appsend")
      BY <1>11, <2>1 DEF InSynRcvd, a, e
    <3>2. {"connected"} \cup Data(sg) \subseteq {"connected", "data"} /\ "connected" \in {"connected"} \cup Data(sg)
      BY DEF Data
    <3>3. SegOpens(c, e("ESTABLISHED"))
      BY <1>4, <1>11, <3>1, <3>2 DEF SegOpens, InSynRcvd
    <3> QED BY <1>7, <3>1, <3>3
  <2>2. CASE ~Acks(c, sg)
    <3>1. UNCHANGED conns /\ UNCHANGED callVars
      BY <1>11, <2>2 DEF InSynRcvd, Drop
    <3> QED BY <1>5, <3>1 DEF SegQuiet
  <2> QED BY <2>1, <2>2
<1>12. CASE InSynSent(c, sg)
  <2>1. CASE Acks(c, sg) /\ "syn" \in sg
    <3>1. Update(c, e("ESTABLISHED")) /\ AppCall(c, {"connected"}, "appsend")
      BY <1>12, <2>1 DEF InSynSent, a, e
    <3>2. SegOpens(c, e("ESTABLISHED"))
      BY <1>4, <1>12, <3>1 DEF SegOpens, InSynSent
    <3> QED BY <1>7, <3>1, <3>2
  <2>2. CASE ~(Acks(c, sg) /\ "syn" \in sg)
    <3>1. Update(c, a) /\ AppCall(c, {"abort"}, "close") /\ conns[c].state = "SYN_SENT"
      BY <1>12, <2>2 DEF InSynSent, a
    <3> QED BY <1>3, <1>6, <3>1 DEF SegRefuses
  <2> QED BY <2>1, <2>2
<1>13. CASE InEstablished(c, sg)
  <2> DEFINE open == conns[c].stopped = 0
             flags == (IF Acks(c, sg) THEN {"acked"} ELSE {}) \cup (IF open THEN Data(sg) ELSE {})
  <2>1. Update(c, a) /\ conns[c].state = "ESTABLISHED"
    BY <1>13 DEF InEstablished, a
  <2>2. IF "fin" \in sg /\ open
          THEN IF a.len = 1 THEN Drop ELSE AppCall(c, flags \cup {"closed"}, "finack")
          ELSE IF flags = {} THEN Drop ELSE AppCall(c, flags, "appsend")
    BY <1>13, Zenon DEF InEstablished, a
  <2>3. flags \subseteq {"acked", "data"}
    BY DEF Data
  <2> HIDE DEF flags, open
  <2>4. CASE UNCHANGED callVars
    BY <1>3, <1>6, <2>1, <2>4 DEF SegQuiet
  <2>5. CASE AppCall(c, flags \cup {"closed"}, "finack")
    <3>1. flags \cup {"closed"} \subseteq {"acked", "data", "closed"} /\ "closed" \in flags \cup {"closed"}
      BY <2>3
    <3>2. SegEvents(c, a)
      BY <1>3, <2>1, <2>5, <3>1 DEF SegEvents
    <3> QED BY <1>6, <2>1, <3>2
  <2>6. CASE flags # {} /\ AppCall(c, flags, "appsend")
    <3>1. SegEvents(c, a)
      BY <1>3, <2>1, <2>3, <2>6 DEF SegEvents
    <3> QED BY <1>6, <2>1, <3>1
  <2> QED BY <2>2, <2>4, <2>5, <2>6 DEF Drop
<1>14. CASE InLastAck(c, sg)
  <2>1. CASE Acks(c, sg)
    <3>1. Update(c, e("CLOSED")) /\ AppCall(c, {"closed"}, "drop") /\ conns[c].state = "LAST_ACK"
      BY <1>14, <2>1 DEF InLastAck, a, e
    <3> QED BY <1>4, <1>7, <3>1 DEF SegEnds
  <2>2. CASE ~Acks(c, sg)
    <3>1. UNCHANGED conns /\ UNCHANGED callVars
      BY <1>14, <2>2 DEF InLastAck, Drop
    <3> QED BY <1>5, <3>1 DEF SegQuiet
  <2> QED BY <2>1, <2>2
<1>15. CASE InFinWait1(c, sg)
  <2>1. CASE "fin" \in sg /\ Acks(c, sg)
    <3>1. Update(c, e("TIME_WAIT")) /\ AppCall(c, {"closed"}, "drop") /\ conns[c].state = "FIN_WAIT_1"
      BY <1>15, <2>1 DEF InFinWait1, a, e
    <3> QED BY <1>4, <1>7, <3>1 DEF SegEnds
  <2>2. CASE "fin" \in sg /\ ~Acks(c, sg)
    <3>1. Update(c, e("CLOSING")) /\ AppCall(c, {"closed"}, "drop") /\ conns[c].state = "FIN_WAIT_1"
      BY <1>15, <2>2 DEF InFinWait1, a, e
    <3> QED BY <1>4, <1>7, <3>1 DEF SegEnds
  <2>3. CASE "fin" \notin sg /\ Acks(c, sg)
    <3>1. Update(c, e("FIN_WAIT_2")) /\ UNCHANGED callVars /\ conns[c].state = "FIN_WAIT_1"
      BY <1>15, <2>3 DEF InFinWait1, Drop, a, e
    <3> QED BY <1>4, <1>7, <3>1 DEF SegQuiet
  <2>4. CASE "fin" \notin sg /\ ~Acks(c, sg)
    <3>1. Update(c, conns[c]) /\ UNCHANGED callVars
      BY <1>15, <2>4 DEF InFinWait1, Drop
    <3>2. Becomes(c, conns[c])
      BY <1>2, <3>1 DEF Becomes, Update
    <3> QED BY <3>1, <3>2 DEF SegQuiet
  <2> QED BY <2>1, <2>2, <2>3, <2>4
<1>16. CASE InFinWait2(c, sg)
  <2>1. CASE "fin" \in sg
    <3>1. Update(c, e("TIME_WAIT")) /\ AppCall(c, {"closed"}, "drop") /\ conns[c].state = "FIN_WAIT_2"
      BY <1>16, <2>1 DEF InFinWait2, a, e
    <3> QED BY <1>4, <1>7, <3>1 DEF SegEnds
  <2>2. CASE "fin" \notin sg
    <3>1. Update(c, a) /\ UNCHANGED callVars
      BY <1>16, <2>2 DEF InFinWait2, Drop, a
    <3> QED BY <1>3, <1>6, <3>1 DEF SegQuiet
  <2> QED BY <2>1, <2>2
<1>17. CASE InOther(c, sg)
  <2>1. CASE conns[c].state = "CLOSING" /\ Acks(c, sg)
    <3>1. Update(c, e("TIME_WAIT")) /\ UNCHANGED callVars
      BY <1>17, <2>1 DEF InOther, Drop, a, e
    <3> QED BY <1>4, <1>7, <2>1, <3>1 DEF SegQuiet
  <2>2. CASE ~(conns[c].state = "CLOSING" /\ Acks(c, sg))
    <3>1. Update(c, a) /\ UNCHANGED callVars
      BY <1>17, <2>2 DEF InOther, Drop, a
    <3> QED BY <1>3, <1>6, <3>1 DEF SegQuiet
  <2> QED BY <2>1, <2>2
<1> QED BY <1>11, <1>12, <1>13, <1>14, <1>15, <1>16, <1>17 DEF SegmentArrives

LEMMA FreeSlotsAre ==
  ASSUME Types, NEW c \in FreeSlots
  PROVE  c \in Slots /\ conns[c].state \in {"CLOSED", "TIME_WAIT"}
<1> DEFINE closed == {d \in Slots : Flags(d, "CLOSED")}
<1>1. CASE closed = {}
  <2>1. FreeSlots = {d \in Slots : Flags(d, "TIME_WAIT")}
    BY <1>1, Zenon DEF FreeSlots
  <2> QED BY <2>1 DEF Flags
<1>2. CASE closed # {}
  <2>1. FreeSlots = {Min(closed)}
    BY <1>2, Zenon DEF FreeSlots
  <2>2. closed \subseteq Nat
    BY SizesAssumption DEF Slots
  <2> HIDE DEF closed
  <2>3. Min(closed) \in closed
    BY <1>2, <2>2, LeastOf
  <2>4. c \in closed
    BY <2>1, <2>3
  <2> QED BY <2>4 DEF closed, Flags
<1> QED BY <1>1, <1>2

\* An application call begins with one of its flags.
LEMMA AppCallStep ==
  ASSUME NEW c \in Slots, NEW fl, fl \subseteq Stages, fl # {}, NEW k, AppCall(c, fl, k)
  PROVE  /\ uip_conn' = c /\ uip_flags' = fl /\ after' = k /\ waiting' = NoLink /\ uip_slen' = 0
         /\ stage' \in fl /\ ("connected" \in fl => stage' = "connected")
  BY FirstStage DEF AppCall

LEMMA AppCallTypes ==
  ASSUME NEW c \in Slots, NEW fl, fl \subseteq Stages, fl # {}, NEW k, AppCall(c, fl, k),
         "abort" \in fl => "closed" \notin fl
  PROVE  CallTypes'
<1>1. /\ uip_conn' = c /\ uip_flags' = fl /\ waiting' = NoLink /\ uip_slen' = 0 /\ stage' \in fl
  BY FirstStage DEF AppCall
<1> QED BY <1>1 DEF CallTypes

\* The next stage is of the flags, and a later one.
LEMMA NextStageTyped ==
  ASSUME NEW fl, fl \subseteq Stages, NEW st \in Stages
  PROVE  NextStage(fl, st) \in fl \cup {"return"} /\ NextStage(fl, st) # st
<1>1. st \in Stages \cup {"none"} /\ Order[st] \in Nat
  BY OrderOf DEF Stages
<1>2. "return" \notin Stages
  BY DEF Stages
<1> QED BY <1>1, <1>2, NextStageIs

LEMMA RaiseStep ==
  ASSUME Types, NEW link \in Links \cup {NoLink}, stage \in Stages, Raise(link),
         UNCHANGED <<uip_conn, uip_flags, uip_slen>>
  PROVE  CallTypes'
<1>1. stage \in Stages /\ uip_flags \subseteq Stages
  BY DEF Types, CallTypes
<1>2. NextStage(uip_flags, stage) \in Stages \cup {"return"}
  BY <1>1, NextStageTyped
<1>3. "none" \notin Stages
  BY DEF Stages
<1>4. stage' \in Stages \cup {"return"} /\ waiting' \in Links \cup {NoLink} /\ (waiting' # NoLink => stage' \in Stages)
  BY <1>1, <1>2 DEF Raise
<1> QED BY <1>1, <1>3, <1>4 DEF Types, CallTypes

\* A request, a count or a mark of one connection changes.
Alike(x, a) ==
  /\ x \in [Slots -> AppRec]
  /\ \A s \in Slots : x[s].id = a[s].id /\ x[s].link = a[s].link /\ x[s].type = a[s].type

WithReq(a, u, R) == [a EXCEPT ![u].req = R]
WithSend(a, u, n) == [a EXCEPT ![u].send = n]
WithMode(a, u, M) == [a EXCEPT ![u].mode = M]

LEMMA ReqChange ==
  ASSUME NEW a \in [Slots -> AppRec], NEW u \in Slots, NEW R \in SUBSET {"close", "ack", "connect", "abort"}
  PROVE  LET x == WithReq(a, u, R)
         IN  /\ Alike(x, a) /\ x[u].req = R
             /\ \A s \in Slots : x[s].mode = a[s].mode /\ x[s].send = a[s].send /\ (s # u => x[s].req = a[s].req)
<1>1. a[u] \in AppRec
  OBVIOUS
<1>2. [a[u] EXCEPT !.req = R] \in AppRec
  BY <1>1 DEF AppRec
<1> QED BY <1>1, <1>2 DEF AppRec, Alike, WithReq

LEMMA SendChange ==
  ASSUME NEW a \in [Slots -> AppRec], NEW u \in Slots, NEW n \in Int
  PROVE  LET x == WithSend(a, u, n)
         IN  Alike(x, a) /\ \A s \in Slots : x[s].mode = a[s].mode /\ x[s].req = a[s].req
<1>1. a[u] \in AppRec
  OBVIOUS
<1>2. [a[u] EXCEPT !.send = n] \in AppRec
  BY <1>1 DEF AppRec
<1> QED BY <1>1, <1>2 DEF AppRec, Alike, WithSend

LEMMA ModeChange ==
  ASSUME NEW a \in [Slots -> AppRec], NEW u \in Slots, NEW M \in SUBSET {"closed", "ack_recv"}
  PROVE  LET x == WithMode(a, u, M)
         IN  /\ Alike(x, a) /\ x[u].mode = M
             /\ \A s \in Slots : x[s].req = a[s].req /\ (s # u => x[s].mode = a[s].mode)
<1>1. a[u] \in AppRec
  OBVIOUS
<1>2. [a[u] EXCEPT !.mode = M] \in AppRec
  BY <1>1 DEF AppRec
<1> QED BY <1>1, <1>2 DEF AppRec, Alike, WithMode

\* The polls keep the connections and drop requests.
LEMMA PollStep ==
  ASSUME Types, PollAbort \/ PollClose \/ PollSend \/ PollNone
  PROVE  /\ ConnsStay /\ AppsStay /\ UNCHANGED <<conns, tables, clients, uip_conn, uip_slen, after>>
         /\ \A s \in Slots : app'[s].req \subseteq app[s].req
         /\ stage = "poll" /\ waiting = NoLink /\ uip_conn \in Slots
<1>1. stage = "poll" /\ waiting = NoLink /\ uip_conn \in Slots
  BY DEF PollAbort, PollClose, PollSend, PollNone, At, Types, CallTypes
<1>2. UNCHANGED <<conns, tables, clients, uip_conn, uip_slen, after>>
  BY DEF PollAbort, PollClose, PollSend, PollNone
<1>3. ConnsStay
  BY <1>2 DEF ConnsStay, Types
<1> DEFINE u == uip_conn
<1>4. /\ app[u].req \in SUBSET {"close", "ack", "connect", "abort"} /\ app[u].send \in Int
      /\ app \in [Slots -> AppRec] /\ u \in Slots
  BY <1>1 DEF Types, AppRec
<1> HIDE DEF u
<1>5. ASSUME NEW R \in SUBSET app[u].req
      PROVE  LET x == WithReq(app, u, R)
             IN  /\ Alike(x, app)
                 /\ \A s \in Slots : x[s].mode = app[s].mode /\ x[s].send = app[s].send /\ x[s].req \subseteq app[s].req
  <2>1. R \in SUBSET {"close", "ack", "connect", "abort"}
    BY <1>4
  <2> DEFINE x == WithReq(app, u, R)
  <2>2. /\ Alike(x, app) /\ x[u].req = R
        /\ \A s \in Slots : x[s].mode = app[s].mode /\ x[s].send = app[s].send /\ (s # u => x[s].req = app[s].req)
    BY <1>4, <2>1, ReqChange
  <2> HIDE DEF x
  <2>3. \A s \in Slots : x[s].req \subseteq app[s].req
    BY <2>2
  <2> QED BY <2>2, <2>3 DEF x
<1>6. ASSUME NEW R \in SUBSET app[u].req, app' = WithReq(app, u, R)
      PROVE  AppsStay /\ \A s \in Slots : app'[s].req \subseteq app[s].req
  <2>1. /\ Alike(app', app)
        /\ \A s \in Slots : app'[s].mode = app[s].mode /\ app'[s].send = app[s].send /\ app'[s].req \subseteq app[s].req
    BY <1>5, <1>6
  <2> QED BY <2>1 DEF AppsStay, Alike
<1>7. CASE PollAbort
  <2>1. app' = WithReq(app, u, app[u].req \ {"ack", "abort"})
    BY <1>7 DEF PollAbort, u, WithReq
  <2> QED BY <1>1, <1>2, <1>3, <1>6, <2>1
<1>8. CASE PollClose
  <2>1. app' = WithReq(app, u, app[u].req \ {"ack", "close"})
    BY <1>8 DEF PollClose, u, WithReq
  <2> QED BY <1>1, <1>2, <1>3, <1>6, <2>1
<1>9. CASE PollNone
  <2>1. app' = WithReq(app, u, app[u].req \ {"ack"})
    BY <1>9 DEF PollNone, u, WithReq
  <2> QED BY <1>1, <1>2, <1>3, <1>6, <2>1
<1>10. CASE PollSend
  <2> DEFINE b == WithReq(app, u, app[u].req \ {"ack"})
             n == IF app[u].link = NoLink THEN b[u].send - 1 ELSE b[u].send
  <2>1. app' = WithSend(b, u, n)
    BY <1>10, Zenon DEF PollSend, u, WithReq, WithSend
  <2>2. /\ Alike(b, app)
        /\ \A s \in Slots : b[s].mode = app[s].mode /\ b[s].send = app[s].send /\ b[s].req \subseteq app[s].req
    BY <1>5
  <2> HIDE DEF b
  <2>3. n \in Int /\ b \in [Slots -> AppRec]
    <3>1. b[u].send \in Int
      BY <1>4, <2>2
    <3> QED BY <2>2, <3>1 DEF Alike
  <2> HIDE DEF n
  <2>4. Alike(app', b) /\ \A s \in Slots : app'[s].mode = b[s].mode /\ app'[s].req = b[s].req
    BY <1>4, <2>1, <2>3, SendChange
  <2>5. AppsStay /\ \A s \in Slots : app'[s].req \subseteq app[s].req
    BY <2>2, <2>4 DEF AppsStay, Alike
  <2> QED BY <1>1, <1>2, <1>3, <2>5
<1> QED BY <1>7, <1>8, <1>9, <1>10

LEMMA DeliverStep ==
  ASSUME Types, NEW n, Deliver(n)
  PROVE  /\ ConnsStay /\ AppsStay /\ UNCHANGED <<tables, uip_conn, uip_flags, after, listening>>
         /\ \A s \in Slots : app'[s].req = app[s].req
         /\ waiting # NoLink /\ waiting' = NoLink /\ stage \in Stages /\ stage' = NextStage(uip_flags, stage)
         /\ uip_slen' \in {0, 1} /\ uip_conn \in Slots
<1>1. waiting # NoLink /\ waiting' = NoLink /\ stage \in Stages /\ stage' = NextStage(uip_flags, stage)
  BY DEF Deliver, Types, CallTypes
<1>2. uip_conn \in Slots
  BY <1>1 DEF Types, CallTypes, Stages
<1>3. uip_slen' \in {0, 1} /\ UNCHANGED <<tables, uip_conn, uip_flags, after, listening>>
  BY DEF Deliver, Types, CallTypes
<1>4. ConnsStay
  <2> DEFINE f == IF stage = "data" /\ "ack_recv" \in app[uip_conn].mode THEN 1 ELSE conns[uip_conn].stopped
  <2>1. conns' = [conns EXCEPT ![uip_conn].stopped = f]
    BY DEF Deliver
  <2>2. conns[uip_conn] \in ConnRec /\ conns \in [Slots -> ConnRec]
    BY <1>2 DEF Types
  <2>3. f \in {0, 1}
    BY <2>2 DEF ConnRec
  <2> HIDE DEF f
  <2>4. [conns[uip_conn] EXCEPT !.stopped = f] \in ConnRec
    BY <2>2, <2>3 DEF ConnRec
  <2> QED BY <1>2, <2>1, <2>2, <2>4 DEF ConnsStay, ConnRec
<1>5. AppsStay /\ \A s \in Slots : app'[s].req = app[s].req
  <2> DEFINE m == IF stage = "poll" THEN app[uip_conn].send - 1 ELSE app[uip_conn].send
  <2>1. app' = WithSend(app, uip_conn, m)
    BY DEF Deliver, WithSend
  <2>2. m \in Int
    BY <1>2 DEF Types, AppRec
  <2> HIDE DEF m
  <2>3. app \in [Slots -> AppRec]
    BY DEF Types
  <2>4. Alike(app', app) /\ \A s \in Slots : app'[s].mode = app[s].mode /\ app'[s].req = app[s].req
    BY <1>2, <2>1, <2>2, <2>3, SendChange
  <2> QED BY <2>4 DEF AppsStay, Alike
<1> QED BY <1>1, <1>2, <1>3, <1>4, <1>5

LEMMA ConnectedStep ==
  ASSUME Types, Connected
  PROVE  /\ stage = "connected" /\ waiting = NoLink /\ uip_conn \in Slots
         /\ UNCHANGED <<conns, tcp_listeners, listenports, uip_conn, uip_flags, uip_slen, after, clients>>
         /\ app' \in [Slots -> AppRec] /\ guid' \in Guids
         /\ \A s \in Slots : s # uip_conn => app'[s] = app[s]
         /\ app'[uip_conn].id = FreeGuid(uip_conn) /\ app'[uip_conn].req = {} /\ app'[uip_conn].mode = {}
         /\ app'[uip_conn].link = IF "connect" \in app[uip_conn].req THEN app[uip_conn].link
                                  ELSE get_listener_linknum(conns[uip_conn].lport)
         /\ "connect" \notin app[uip_conn].req => app'[uip_conn].type = "server"
         /\ Raise(app'[uip_conn].link)
<1>1. stage = "connected" /\ waiting = NoLink /\ uip_conn \in Slots
  BY DEF Connected, At, Types, CallTypes
<1> DEFINE u == uip_conn
           ln == IF "connect" \in app[u].req THEN app[u].link ELSE get_listener_linknum(conns[u].lport)
           ty == IF "connect" \in app[u].req THEN app[u].type ELSE "server"
<1>2. FreeGuid(u) \in Guids
  BY <1>1, FreeGuidIs
<1>3. ln \in Links \cup {NoLink}
  <2>1. app[u].link \in Links \cup {NoLink}
    BY <1>1 DEF Types, AppRec
  <2>2. \A i \in Entries : tcp_listeners[i].link \in Links \cup {NoLink}
    BY DEF Types, ListenerRec
  <2> QED BY <2>1, <2>2, GetListenerIs
<1>4. ty \in {"client", "server"}
  BY <1>1 DEF Types, AppRec
<1>5. xtcpd_init_state(u) = [id |-> FreeGuid(u), link |-> ln, type |-> ty, req |-> {}, send |-> 0, mode |-> {}]
  BY Zenon DEF xtcpd_init_state
<1>6. app' = [app EXCEPT ![u] = xtcpd_init_state(u)] /\ guid' = FreeGuid(u) /\ Raise(app'[u].link)
  BY DEF Connected
<1>7. UNCHANGED <<conns, tcp_listeners, listenports, uip_conn, uip_flags, uip_slen, after, clients>>
  BY DEF Connected
<1>8. ln = (IF "connect" \in app[u].req THEN app[u].link ELSE get_listener_linknum(conns[u].lport))
      /\ ("connect" \notin app[u].req => ty = "server") /\ FreeGuid(u) \in 0 .. MaxGuid
  BY <1>2, SizesAssumption DEF Guids
<1> DEFINE g == FreeGuid(u)
<1> HIDE DEF g, ln, ty
<1>9. xtcpd_init_state(u) = [id |-> g, link |-> ln, type |-> ty, req |-> {}, send |-> 0, mode |-> {}]
      /\ g \in 0 .. MaxGuid
  BY <1>5, <1>8 DEF g
<1>10. xtcpd_init_state(u) \in AppRec
  BY <1>3, <1>4, <1>9 DEF AppRec
<1>11. app \in [Slots -> AppRec]
  BY DEF Types
<1>12. app' \in [Slots -> AppRec] /\ (\A s \in Slots : s # u => app'[s] = app[s]) /\ app'[u] = xtcpd_init_state(u)
  BY <1>1, <1>6, <1>10, <1>11
<1>13. app'[u].id = g /\ app'[u].req = {} /\ app'[u].mode = {} /\ app'[u].link = ln /\ app'[u].type = ty
  BY <1>9, <1>12
<1> QED BY <1>1, <1>2, <1>6, <1>7, <1>8, <1>12, <1>13 DEF g

LEMMA ClosedStep ==
  ASSUME Types, Closed
  PROVE  /\ stage = "closed" /\ waiting = NoLink /\ uip_conn \in Slots
         /\ UNCHANGED <<conns, tables, uip_conn, uip_flags, uip_slen, after, clients>>
         /\ \/ "closed" \in app[uip_conn].mode /\ stage' = "return" /\ UNCHANGED <<app, waiting>>
            \/ /\ "closed" \notin app[uip_conn].mode /\ Raise(app[uip_conn].link)
               /\ Alike(app', app) /\ "closed" \in app'[uip_conn].mode
               /\ \A s \in Slots : app'[s].req = app[s].req /\ (s # uip_conn => app'[s].mode = app[s].mode)
<1>1. stage = "closed" /\ waiting = NoLink /\ uip_conn \in Slots
  BY DEF Closed, At, Types, CallTypes
<1>2. UNCHANGED <<conns, tables, uip_conn, uip_flags, uip_slen, after, clients>>
  BY DEF Closed
<1>3. CASE "closed" \in app[uip_conn].mode
  BY <1>1, <1>2, <1>3 DEF Closed
<1>4. CASE "closed" \notin app[uip_conn].mode
  <2> DEFINE M == app[uip_conn].mode \cup {"closed"}
  <2>1. app' = WithMode(app, uip_conn, M) /\ Raise(app[uip_conn].link)
    BY <1>4 DEF Closed, WithMode
  <2>2. M \in SUBSET {"closed", "ack_recv"} /\ app \in [Slots -> AppRec] /\ "closed" \in M
    BY <1>1 DEF Types, AppRec
  <2> HIDE DEF M
  <2>3. /\ Alike(app', app) /\ app'[uip_conn].mode = M
        /\ \A s \in Slots : app'[s].req = app[s].req /\ (s # uip_conn => app'[s].mode = app[s].mode)
    BY <1>1, <2>1, <2>2, ModeChange
  <2> QED BY <1>1, <1>2, <1>4, <2>1, <2>2, <2>3
<1> QED BY <1>3, <1>4

LEMMA ReturnStep ==
  ASSUME Types, Return
  PROVE  /\ stage = "return" /\ uip_conn \in Slots /\ UNCHANGED <<app, tables, waiting, clients>>
         /\ stage' = "none" /\ uip_conn' = NoSlot /\ uip_flags' = {} /\ uip_slen' = 0 /\ after' = "drop"
         /\ AfterCall(conns[uip_conn]) \in ConnRec
         /\ conns' = [conns EXCEPT ![uip_conn] = AfterCall(conns[uip_conn])]
<1>1. stage = "return" /\ uip_conn \in Slots
  BY DEF Return, Types, CallTypes
<1>2. conns[uip_conn] \in ConnRec /\ ("abort" \in uip_flags => "closed" \notin uip_flags)
  BY <1>1 DEF Types, CallTypes
<1>3. AfterCall(conns[uip_conn]) \in ConnRec
  BY <1>2, AfterCallRecord
<1>4. conns' = [conns EXCEPT ![uip_conn] = AfterCall(conns[uip_conn])]
  BY DEF Return
<1> QED BY <1>1, <1>3, <1>4 DEF Return

\* A connection asked for takes a free slot, ...
LEMMA ConnectStep ==
  ASSUME Types, NEW l \in Links, Connect(l)
  PROVE  /\ l \in Connectors /\ UNCHANGED <<tables, callVars, clients>> /\ Serving
         /\ \E c \in FreeSlots :
              /\ Opening(conns[c], "SYN_SENT", NoPort) \in ConnRec
              /\ conns' = [conns EXCEPT ![c] = Opening(conns[c], "SYN_SENT", NoPort)]
              /\ app' \in [Slots -> AppRec] /\ (\A s \in Slots : s # c => app'[s] = app[s])
              /\ app'[c].id = app[c].id /\ app'[c].mode = app[c].mode /\ app'[c].link = l
              /\ app'[c].req = app[c].req \cup {"connect"}
<1>1. PICK c \in FreeSlots :
        /\ conns' = uip_connect(c)
        /\ app' = [app EXCEPT ![c].link = l, ![c].req = @ \cup {"connect"}, ![c].type = "client"]
  BY Zenon DEF Connect
<1>2. c \in Slots
  BY FreeSlotsAre
<1>3. conns[c] \in ConnRec /\ app \in [Slots -> AppRec] /\ app[c] \in AppRec
  BY <1>2 DEF Types
<1>4. NoPort \in Ports \cup {NoPort} /\ "SYN_SENT" \in States
  BY DEF States
<1>5. Opening(conns[c], "SYN_SENT", NoPort) \in ConnRec
  BY <1>3, <1>4, OpeningRecord
<1>6. conns' = [conns EXCEPT ![c] = Opening(conns[c], "SYN_SENT", NoPort)]
  BY <1>1 DEF uip_connect
<1> DEFINE R == app[c].req \cup {"connect"}
           r == [id |-> app[c].id, link |-> l, type |-> "client", req |-> R, send |-> app[c].send, mode |-> app[c].mode]
<1>7. R \subseteq {"close", "ack", "connect", "abort"}
  BY <1>3 DEF AppRec
<1>8. r \in AppRec
  BY <1>3, <1>7 DEF AppRec
<1>9. app'[c] = r
  BY <1>1, <1>2, <1>3 DEF AppRec
<1>10. \A s \in Slots : s # c => app'[s] = app[s]
  BY <1>1, <1>2, <1>3
<1>11. app' \in [Slots -> AppRec]
  <2>1. DOMAIN app' = Slots /\ app' = [s \in DOMAIN app' |-> app'[s]]
    BY <1>1, <1>3
  <2> HIDE DEF r
  <2>2. \A s \in Slots : app'[s] \in AppRec
    BY <1>3, <1>8, <1>9, <1>10
  <2> QED BY <2>1, <2>2
<1>12. r.id = app[c].id /\ r.mode = app[c].mode /\ r.link = l /\ r.req = R
  OBVIOUS
<1> HIDE DEF r
<1>13. l \in Connectors /\ UNCHANGED <<tables, callVars, clients>> /\ Serving
  BY DEF Connect
<1> QED BY <1>5, <1>6, <1>9, <1>10, <1>11, <1>12, <1>13

\* ... and so does one that a peer asks for.
LEMMA SynStep ==
  ASSUME Types, NEW p \in Ports, SynArrives(p)
  PROVE  /\ UNCHANGED <<app, tables, callVars, clients>> /\ stage = "none"
         /\ \E c \in FreeSlots : /\ Opening(conns[c], "SYN_RCVD", p) \in ConnRec
                                 /\ conns' = [conns EXCEPT ![c] = Opening(conns[c], "SYN_RCVD", p)]
<1>1. PICK c \in FreeSlots : conns' = [conns EXCEPT ![c] = Opening(conns[c], "SYN_RCVD", p)]
  BY Zenon DEF SynArrives
<1>2. conns[c] \in ConnRec
  BY FreeSlotsAre DEF Types
<1>3. p \in Ports \cup {NoPort} /\ "SYN_RCVD" \in States
  BY DEF States
<1>4. Opening(conns[c], "SYN_RCVD", p) \in ConnRec
  BY <1>2, <1>3, OpeningRecord
<1> QED BY <1>1, <1>4 DEF SynArrives, Idle

\* The steps of the timers and of a reset.
LEMMA TimerStep ==
  ASSUME Types, NEW c \in Slots, TimeWaitExpires(c) \/ TimerExpires(c) \/ RstArrives(c)
  PROVE  /\ UNCHANGED <<app, tables, clients>> /\ stage = "none"
         /\ \E k : /\ Becomes(c, k)
                   /\ \/ UNCHANGED callVars /\ k.state = conns[c].state
                      \/ UNCHANGED callVars /\ conns[c].state \in {"TIME_WAIT", "FIN_WAIT_2"} /\ k.state = "CLOSED"
                      \/ k.state = "CLOSED" /\ \E fl \in {{"abort"}, {"timedout"}} : AppCall(c, fl, "drop")
                      \/ /\ conns[c].state = "ESTABLISHED" /\ k.state = "ESTABLISHED"
                         /\ AppCall(c, {"rexmit"}, "drop")
<1> DEFINE e == Enter(conns[c], "CLOSED")
           r == [conns[c] EXCEPT !.nrtx = conns[c].nrtx + 1]
<1>1. conns[c] \in ConnRec /\ conns \in [Slots -> ConnRec] /\ "CLOSED" \in States
  BY DEF Types, States
<1>2. e \in ConnRec /\ e.state = "CLOSED" /\ e.lport = conns[c].lport
  BY <1>1, EnterRecord
<1>3. r \in ConnRec /\ r.state = conns[c].state /\ r.lport = conns[c].lport
  <2>1. conns[c].nrtx + 1 \in Nat
    BY <1>1 DEF ConnRec
  <2> QED BY <1>1, <2>1 DEF ConnRec
<1>4. UNCHANGED <<app, tables, clients>> /\ stage = "none"
  BY DEF TimeWaitExpires, TimerExpires, RstArrives, Idle
<1>5. ASSUME conns' = [conns EXCEPT ![c] = e]
      PROVE  Becomes(c, e)
  BY <1>2, <1>5 DEF Becomes
<1>6. ASSUME conns' = [conns EXCEPT ![c] = r]
      PROVE  Becomes(c, r)
  BY <1>3, <1>6 DEF Becomes
<1>7. CASE TimeWaitExpires(c)
  <2>1. conns' = [conns EXCEPT ![c] = e] /\ UNCHANGED callVars /\ conns[c].state \in {"TIME_WAIT", "FIN_WAIT_2"}
    BY <1>7 DEF TimeWaitExpires, Flags
  <2> HIDE DEF e, r
  <2> QED BY <1>2, <1>4, <1>5, <2>1
<1>8. CASE RstArrives(c)
  <2>1. conns' = [conns EXCEPT ![c] = e] /\ AppCall(c, {"abort"}, "drop")
    BY <1>8 DEF RstArrives
  <2> HIDE DEF e, r
  <2> QED BY <1>2, <1>4, <1>5, <2>1
<1>9. CASE TimerExpires(c) /\ GivesUp(c)
  <2>1. conns' = [conns EXCEPT ![c] = e] /\ AppCall(c, {"timedout"}, "drop")
    BY <1>9 DEF TimerExpires
  <2> HIDE DEF e, r
  <2> QED BY <1>2, <1>4, <1>5, <2>1
<1>10. CASE TimerExpires(c) /\ ~GivesUp(c)
  <2>1. conns' = [conns EXCEPT ![c] = r]
    BY <1>10 DEF TimerExpires
  <2>2. IF conns[c].state = "ESTABLISHED" THEN AppCall(c, {"rexmit"}, "drop") ELSE UNCHANGED callVars
    BY <1>10 DEF TimerExpires, Drop
  <2> HIDE DEF e, r
  <2> QED BY <1>3, <1>4, <1>6, <2>1, <2>2
<1> QED BY <1>7, <1>8, <1>9, <1>10

LEMMA PollsStep ==
  ASSUME NEW c \in Slots, PollRequest(c) \/ TimerPolls(c)
  PROVE  /\ UNCHANGED <<conns, app, tables, clients>> /\ stage = "none"
         /\ conns[c].state = "ESTABLISHED" /\ AppCall(c, {"poll"}, "appsend")
  BY DEF PollRequest, TimerPolls, Poll, Idle

LEMMA EventStep ==
  ASSUME Types, Event
  PROVE  /\ stage \in {"data", "abort", "timedout", "acked", "rexmit"} /\ waiting = NoLink /\ uip_conn \in Slots
         /\ Raise(app[uip_conn].link)
         /\ UNCHANGED <<conns, app, tables, uip_conn, uip_flags, uip_slen, after, clients>>
  BY DEF Event, At, Types, CallTypes

LEMMA ListenStep ==
  ASSUME Types, NEW l \in Links, NEW p \in Ports, Listen(l, p)
  PROVE  /\ UNCHANGED <<conns, app, guid, callVars, handles>>
         /\ tcp_listeners' \in [Entries -> ListenerRec] /\ listenports' \in [Entries -> Ports \cup {NoPort}]
<1>1. ASSUME NEW i \in Entries
      PROVE  tcp_listeners[i] \in ListenerRec /\ listenports[i] \in Ports \cup {NoPort}
  BY DEF Types
<1>2. [port |-> p, link |-> l] \in ListenerRec
  BY DEF ListenerRec
<1> DEFINE free == {i \in Entries : tcp_listeners[i].link = NoLink}
           held == {i \in Entries : listenports[i] = NoPort}
<1>3. tcp_listeners' = [i \in Entries |-> IF free # {} /\ i = Min(free)
                                          THEN [port |-> p, link |-> l] ELSE tcp_listeners[i]]
  BY Zenon DEF Listen
<1>4. listenports' = [i \in Entries |-> IF held # {} /\ i = Min(held) THEN p ELSE listenports[i]]
  BY Zenon DEF Listen, uip_listen
<1> HIDE DEF free, held
<1>5. tcp_listeners' \in [Entries -> ListenerRec]
  BY <1>1, <1>2, <1>3
<1>6. listenports' \in [Entries -> Ports \cup {NoPort}]
  BY <1>1, <1>4
<1> QED BY <1>5, <1>6 DEF Listen

LEMMA UnlistenStep ==
  ASSUME Types, NEW l \in Links, NEW p \in Ports, Unlisten(l, p)
  PROVE  /\ UNCHANGED <<conns, app, guid, callVars, handles>>
         /\ tcp_listeners' \in [Entries -> ListenerRec] /\ listenports' \in [Entries -> Ports \cup {NoPort}]
<1>1. ASSUME NEW i \in Entries
      PROVE  /\ tcp_listeners[i] \in ListenerRec /\ listenports[i] \in Ports \cup {NoPort}
             /\ [tcp_listeners[i] EXCEPT !.link = NoLink] \in ListenerRec
  BY DEF Types, ListenerRec
<1> DEFINE held == {i \in Entries : listenports[i] = p}
<1>2. tcp_listeners' = [i \in Entries |-> IF tcp_listeners[i].port = p
                                         THEN [tcp_listeners[i] EXCEPT !.link = NoLink] ELSE tcp_listeners[i]]
  BY DEF Unlisten
<1>3. listenports' = [i \in Entries |-> IF held # {} /\ i = Min(held) THEN NoPort ELSE listenports[i]]
  BY Zenon DEF Unlisten, uip_unlisten
<1> HIDE DEF held
<1>4. tcp_listeners' \in [Entries -> ListenerRec]
  BY <1>1, <1>2
<1>5. listenports' \in [Entries -> Ports \cup {NoPort}]
  BY <1>1, <1>3
<1> QED BY <1>4, <1>5 DEF Unlisten

-----------------------------------------------------------------------------
(* Type correctness.                                                       *)

LEMMA TypesInit == Init => Types
<1> SUFFICES ASSUME Init PROVE Types
  OBVIOUS
<1>1. conns \in [Slots -> ConnRec]
  BY DEF Init, ConnRec, States
<1>2. app \in [Slots -> AppRec]
  BY SizesAssumption DEF Init, AppRec, Links
<1>3. guid \in Guids
  BY SizesAssumption DEF Init, Guids
<1>4. tcp_listeners \in [Entries -> ListenerRec] /\ listenports \in [Entries -> Ports \cup {NoPort}]
  BY DEF Init, ListenerRec
<1>5. CallTypes
  BY DEF Init, CallTypes
<1> QED BY <1>1, <1>2, <1>3, <1>4, <1>5 DEF Types

LEMMA BecomesTyped ==
  ASSUME Types, NEW c \in Slots, NEW k, Becomes(c, k)
  PROVE  conns' \in [Slots -> ConnRec] /\ conns'[c] = k /\ \A s \in Slots : s # c => conns'[s] = conns[s]
  BY DEF Types, Becomes

LEMMA TypesStep ==
  ASSUME Types, [Next]_vars
  PROVE  Types'
<1>1. ASSUME UNCHANGED callVars
      PROVE  CallTypes'
  BY <1>1 DEF Types, CallTypes, callVars
<1>2. ASSUME UNCHANGED tables
      PROVE  /\ guid' \in Guids
             /\ tcp_listeners' \in [Entries -> ListenerRec] /\ listenports' \in [Entries -> Ports \cup {NoPort}]
  BY <1>2 DEF Types, tables
<1>4. CASE UNCHANGED vars
  BY <1>1, <1>2, <1>4 DEF vars, Types
<1>5. ASSUME NEW l \in Links, NEW p \in Ports, Listen(l, p)
      PROVE  Types'
  BY <1>1, <1>5, ListenStep DEF Types
<1>6. ASSUME NEW l \in Links, NEW p \in Ports, Unlisten(l, p)
      PROVE  Types'
  BY <1>1, <1>6, UnlistenStep DEF Types
<1>7. ASSUME NEW l \in Links, Connect(l)
      PROVE  Types'
  <2>1. PICK c \in FreeSlots : /\ Opening(conns[c], "SYN_SENT", NoPort) \in ConnRec
                               /\ conns' = [conns EXCEPT ![c] = Opening(conns[c], "SYN_SENT", NoPort)]
                               /\ app' \in [Slots -> AppRec]
    BY <1>7, ConnectStep
  <2>2. conns' \in [Slots -> ConnRec]
    BY <2>1 DEF Types
  <2>3. UNCHANGED <<tables, callVars, clients>>
    BY <1>7, ConnectStep
  <2> QED BY <1>1, <1>2, <2>1, <2>2, <2>3 DEF Types
<1>8. ASSUME NEW l \in Links, NEW i \in Guids, Command(l, i)
      PROVE  Types'
  <2>1. ConnsStay /\ AppsStay /\ UNCHANGED <<tables, callVars, clients>>
    BY <1>8, CommandStep
  <2> QED BY <1>1, <1>2, <2>1 DEF Types, ConnsStay, AppsStay
<1>9. CASE Connected
  <2>1. /\ UNCHANGED <<conns, tcp_listeners, listenports, uip_conn, uip_flags, uip_slen, after, clients>>
        /\ stage = "connected" /\ app' \in [Slots -> AppRec] /\ guid' \in Guids
        /\ Raise(app'[uip_conn].link) /\ uip_conn \in Slots
    BY <1>9, ConnectedStep
  <2>2. app'[uip_conn].link \in Links \cup {NoLink} /\ stage \in Stages
    BY <2>1 DEF AppRec, Stages
  <2>3. CallTypes'
    BY <2>1, <2>2, RaiseStep
  <2> QED BY <2>1, <2>3 DEF Types
<1>10. CASE Event
  <2>1. /\ UNCHANGED <<conns, app, tables, uip_conn, uip_flags, uip_slen, after, clients>>
        /\ Raise(app[uip_conn].link) /\ uip_conn \in Slots
        /\ stage \in {"data", "abort", "timedout", "acked", "rexmit"}
    BY <1>10, EventStep
  <2>2. app[uip_conn].link \in Links \cup {NoLink} /\ stage \in Stages
    BY <2>1 DEF Types, AppRec, Stages
  <2>3. CallTypes'
    BY <2>1, <2>2, RaiseStep
  <2> QED BY <1>2, <2>1, <2>3 DEF Types
<1>11. CASE PollAbort \/ PollClose \/ PollSend \/ PollNone
  <2>1. /\ UNCHANGED <<conns, tables, clients, uip_conn, uip_slen, after>> /\ AppsStay
        /\ stage = "poll" /\ waiting = NoLink /\ uip_conn \in Slots
    BY <1>11, PollStep
  <2>2. app[uip_conn].link \in Links \cup {NoLink} /\ "poll" \in Stages
    BY <2>1 DEF Types, AppRec, Stages
  <2>3. ASSUME NEW fl, fl \subseteq Stages, "abort" \in fl => "closed" \notin fl, uip_flags' = fl,
               stage' = NextStage(fl, stage), waiting' = NoLink
        PROVE  CallTypes'
    <3>1. stage' \in fl \cup {"return"}
      BY <2>1, <2>2, <2>3, NextStageTyped
    <3> QED BY <2>1, <2>3, <3>1 DEF CallTypes, Types
  <2>4. uip_flags \subseteq Stages /\ ("abort" \in uip_flags => "closed" \notin uip_flags)
    BY DEF Types, CallTypes
  <2>5. CASE PollAbort
    <3>1. {"abort"} \subseteq Stages
      BY DEF Stages
    <3>2. uip_flags' = {"abort"} /\ stage' = NextStage({"abort"}, stage) /\ waiting' = NoLink
      BY <2>1, <2>5 DEF PollAbort
    <3> QED BY <1>2, <2>1, <2>3, <3>1, <3>2 DEF Types, AppsStay
  <2>6. CASE PollClose
    <3>1. {"closed"} \subseteq Stages
      BY DEF Stages
    <3>2. uip_flags' = {"closed"} /\ stage' = NextStage({"closed"}, stage) /\ waiting' = NoLink
      BY <2>1, <2>6 DEF PollClose
    <3> QED BY <1>2, <2>1, <2>3, <3>1, <3>2 DEF Types, AppsStay
  <2>7. CASE PollNone
    <3>1. uip_flags' = uip_flags /\ stage' = NextStage(uip_flags, stage) /\ waiting' = NoLink
      BY <2>1, <2>7 DEF PollNone
    <3>2. CallTypes'
      BY <2>3, <2>4, <3>1
    <3> QED BY <1>2, <2>1, <3>2 DEF Types, AppsStay
  <2>8. CASE PollSend
    <3>1. UNCHANGED <<uip_conn, uip_flags, uip_slen>> /\ Raise(app[uip_conn].link)
      BY <2>8 DEF PollSend
    <3>2. CallTypes'
      BY <2>1, <2>2, <3>1, RaiseStep
    <3> QED BY <1>2, <2>1, <3>2 DEF Types, AppsStay
  <2> QED BY <1>11, <2>5, <2>6, <2>7, <2>8
<1>12. CASE Closed
  <2>1. /\ stage = "closed" /\ waiting = NoLink /\ uip_conn \in Slots
        /\ UNCHANGED <<conns, tables, uip_conn, uip_flags, uip_slen, after, clients>>
        /\ \/ stage' = "return" /\ UNCHANGED <<app, waiting>>
           \/ Raise(app[uip_conn].link) /\ Alike(app', app)
    BY <1>12, ClosedStep
  <2>2. app[uip_conn].link \in Links \cup {NoLink} /\ stage \in Stages
    BY <2>1 DEF Types, AppRec, Stages
  <2>3. app' \in [Slots -> AppRec]
    BY <2>1 DEF Types, Alike
  <2>4. CallTypes'
    <3>1. CASE stage' = "return" /\ UNCHANGED waiting
      BY <2>1, <3>1 DEF Types, CallTypes
    <3>2. CASE Raise(app[uip_conn].link)
      BY <2>1, <2>2, <3>2, RaiseStep
    <3> QED BY <2>1, <3>1, <3>2
  <2> QED BY <1>2, <2>1, <2>3, <2>4 DEF Types
<1>13. ASSUME NEW n \in 0 .. 1, Deliver(n)
       PROVE  Types'
  <2>1. /\ ConnsStay /\ AppsStay /\ UNCHANGED <<tables, uip_conn, uip_flags, after, listening>>
        /\ waiting # NoLink /\ waiting' = NoLink /\ stage \in Stages /\ stage' = NextStage(uip_flags, stage)
        /\ uip_slen' \in {0, 1} /\ uip_conn \in Slots
    BY <1>13, DeliverStep
  <2>2. uip_flags \subseteq Stages
    BY DEF Types, CallTypes
  <2>3. stage' \in uip_flags \cup {"return"}
    BY <2>1, <2>2, NextStageTyped
  <2>4. CallTypes'
    BY <2>1, <2>3 DEF Types, CallTypes
  <2> QED BY <1>2, <2>1, <2>4 DEF Types, ConnsStay, AppsStay
<1>14. CASE Return
  <2>1. /\ stage = "return" /\ uip_conn \in Slots /\ UNCHANGED <<app, tables, waiting, clients>>
        /\ stage' = "none" /\ uip_conn' = NoSlot /\ uip_flags' = {} /\ uip_slen' = 0
        /\ AfterCall(conns[uip_conn]) \in ConnRec
        /\ conns' = [conns EXCEPT ![uip_conn] = AfterCall(conns[uip_conn])]
    BY <1>14, ReturnStep
  <2>2. conns' \in [Slots -> ConnRec]
    BY <2>1 DEF Types
  <2>3. waiting' = NoLink
    BY <2>1 DEF Types, CallTypes, Stages
  <2>4. CallTypes'
    BY <2>1, <2>3 DEF CallTypes
  <2> QED BY <1>2, <2>1, <2>2, <2>4 DEF Types
<1>15. ASSUME NEW c \in Slots, PollRequest(c) \/ TimerPolls(c)
       PROVE  Types'
  <2>1. {"poll"} \subseteq Stages /\ AppCall(c, {"poll"}, "appsend")
    BY <1>15, PollsStep DEF Stages
  <2>2. CallTypes'
    BY <2>1, AppCallTypes
  <2> QED BY <1>2, <1>15, <2>2, PollsStep DEF Types
<1>16. ASSUME NEW c \in Slots, TimeWaitExpires(c) \/ TimerExpires(c) \/ RstArrives(c)
       PROVE  Types'
  <2>1. PICK k : /\ Becomes(c, k)
                 /\ \/ UNCHANGED callVars
                    \/ \E fl \in {{"abort"}, {"timedout"}, {"rexmit"}} : AppCall(c, fl, "drop")
    BY <1>16, TimerStep
  <2>2. conns' \in [Slots -> ConnRec]
    BY <2>1, BecomesTyped
  <2>3. CallTypes'
    <3>1. ASSUME NEW fl \in {{"abort"}, {"timedout"}, {"rexmit"}}, AppCall(c, fl, "drop")
          PROVE  CallTypes'
      <4>1. fl \subseteq Stages /\ fl # {} /\ "closed" \notin fl
        BY DEF Stages
      <4> QED BY <3>1, <4>1, AppCallTypes
    <3> QED BY <1>1, <2>1, <3>1
  <2>4. UNCHANGED <<app, tables>>
    BY <1>16, TimerStep
  <2> QED BY <1>2, <2>2, <2>3, <2>4 DEF Types
<1>17. ASSUME NEW p \in Ports, SynArrives(p)
       PROVE  Types'
  <2>1. PICK c \in FreeSlots : /\ Opening(conns[c], "SYN_RCVD", p) \in ConnRec
                               /\ conns' = [conns EXCEPT ![c] = Opening(conns[c], "SYN_RCVD", p)]
    BY <1>17, SynStep
  <2>2. conns' \in [Slots -> ConnRec]
    BY <2>1 DEF Types
  <2>3. UNCHANGED <<app, tables, callVars>>
    BY <1>17, SynStep
  <2> QED BY <1>1, <1>2, <2>2, <2>3 DEF Types
<1>18. ASSUME NEW c \in Slots, NEW sg \in Segments, SegmentArrives(c, sg)
       PROVE  Types'
  <2>1. PICK k : /\ Becomes(c, k)
                 /\ SegQuiet(c, k) \/ SegOpens(c, k) \/ SegRefuses(c, k) \/ SegEvents(c, k) \/ SegEnds(c, k)
    BY <1>18, SegmentStep
  <2>2. conns' \in [Slots -> ConnRec]
    BY <2>1, BecomesTyped
  <2>3. CASE UNCHANGED callVars
    BY <1>1, <1>2, <1>18, <2>2, <2>3, SegmentStep DEF Types
  <2>4. CASE \E fl, a : AppCall(c, fl, a) /\ fl \subseteq Stages /\ fl # {} /\ ("abort" \in fl => "closed" \notin fl)
    <3>1. CallTypes'
      BY <2>4, AppCallTypes
    <3> QED BY <1>2, <1>18, <2>2, <3>1, SegmentStep DEF Types
  <2>5. SegQuiet(c, k) => UNCHANGED callVars
    BY DEF SegQuiet
  <2> DEFINE G == \E fl, a : AppCall(c, fl, a) /\ fl \subseteq Stages /\ fl # {} /\ ("abort" \in fl => "closed" \notin fl)
  <2>6. ASSUME NEW fl, NEW a, AppCall(c, fl, a), fl \subseteq Stages, fl # {}, "abort" \in fl => "closed" \notin fl
        PROVE  G
    BY <2>6, Zenon
  <2> HIDE DEF G
  <2>7. CASE SegOpens(c, k)
    <3>1. PICK fl : fl \subseteq {"connected", "data"} /\ "connected" \in fl /\ AppCall(c, fl, "appsend")
      BY <2>7 DEF SegOpens
    <3>2. fl \subseteq Stages /\ fl # {} /\ "abort" \notin fl
      BY <3>1 DEF Stages
    <3> QED BY <2>4, <2>6, <3>1, <3>2 DEF G
  <2>8. CASE SegEvents(c, k)
    <3>1. PICK fl : \/ fl \subseteq {"acked", "data"} /\ fl # {} /\ AppCall(c, fl, "appsend")
                    \/ fl \subseteq {"acked", "data", "closed"} /\ "closed" \in fl /\ AppCall(c, fl, "finack")
      BY <2>8 DEF SegEvents
    <3>2. fl \subseteq Stages /\ fl # {} /\ "abort" \notin fl
      BY <3>1 DEF Stages
    <3> QED BY <2>4, <2>6, <3>1, <3>2 DEF G
  <2>9. CASE SegRefuses(c, k)
    <3>1. AppCall(c, {"abort"}, "close") /\ {"abort"} \subseteq Stages
      BY <2>9 DEF SegRefuses, Stages
    <3> QED BY <2>4, <2>6, <3>1 DEF G
  <2>10. CASE SegEnds(c, k)
    <3>1. AppCall(c, {"closed"}, "drop") /\ {"closed"} \subseteq Stages
      BY <2>10 DEF SegEnds, Stages
    <3> QED BY <2>4, <2>6, <3>1 DEF G
  <2> QED BY <2>1, <2>3, <2>5, <2>7, <2>8, <2>9, <2>10
<1> QED BY <1>4, <1>5, <1>6, <1>7, <1>8, <1>9, <1>10, <1>11, <1>12, <1>13, <1>14, <1>15, <1>16, <1>17, <1>18
        DEF Next, ServerStep

LEMMA TypesStay == Spec => []Types
<1>1. Types /\ [Next]_vars => Types'
  BY TypesStep
<1> QED BY <1>1, TypesInit, PTL DEF Spec

-----------------------------------------------------------------------------
(* The listeners.                                                          *)

\* At most one client listens to a port, and the two tables have the same
\* entries: the ports that the stack accepts are those of the active listeners.
OneUser == \A p \in Ports : \A l, m \in PortUsers[p] : l = m
TablesMatch ==
  /\ \A i \in Entries : listenports[i] = IF tcp_listeners[i].link = NoLink THEN NoPort ELSE tcp_listeners[i].port
  /\ \A i \in Entries : tcp_listeners[i].link # NoLink =>
       /\ tcp_listeners[i].port \in Ports /\ tcp_listeners[i].link \in PortUsers[tcp_listeners[i].port]
       /\ <<tcp_listeners[i].link, tcp_listeners[i].port>> \in listening
  /\ \A i, j \in Entries :
       /\ tcp_listeners[i].link # NoLink /\ tcp_listeners[j].link # NoLink
       /\ tcp_listeners[i].port = tcp_listeners[j].port
       => i = j
\* No connection is asked for: all are made by peers.
NobodyConnects == \A c \in Slots : "connect" \notin app[c].req

ListenersInv == Types /\ TablesMatch /\ NobodyConnects /\ NewToListener

LEMMA MatchAgrees ==
  ASSUME Types, TablesMatch
  PROVE  ListenersAgree
<1> SUFFICES ASSUME NEW p \in Ports
             PROVE  (\E i \in Entries : listenports[i] = p) <=> get_listener_linknum(p) # NoLink
  BY DEF ListenersAgree
<1>1. p # NoPort
  BY UsersAssumption
<1>2. ASSUME NEW i \in Entries
      PROVE  listenports[i] = p <=> tcp_listeners[i].link # NoLink /\ tcp_listeners[i].port = p
  BY <1>1 DEF TablesMatch
<1>3. \/ get_listener_linknum(p) = NoLink /\ \A i \in Entries : tcp_listeners[i].port = p => tcp_listeners[i].link = NoLink
      \/ \E i \in Entries : /\ tcp_listeners[i].port = p /\ tcp_listeners[i].link # NoLink
                            /\ get_listener_linknum(p) = tcp_listeners[i].link
  BY GetListenerIs
<1> QED BY <1>2, <1>3

LEMMA ListenMatches ==
  ASSUME OneUser, Types, TablesMatch, NEW l \in Links, NEW p \in Ports, Listen(l, p)
  PROVE  TablesMatch'
<1> DEFINE free == {i \in Entries : tcp_listeners[i].link = NoLink}
           held == {i \in Entries : listenports[i] = NoPort}
           new == [port |-> p, link |-> l]
<1>1. /\ l \in PortUsers[p] /\ <<l, p>> \notin listening /\ listening' = listening \cup {<<l, p>>}
      /\ l # NoLink /\ p # NoPort
  BY NoneOut, UsersAssumption DEF Listen
<1>2. tcp_listeners' = [i \in Entries |-> IF free # {} /\ i = Min(free) THEN new ELSE tcp_listeners[i]]
  BY Zenon DEF Listen
<1>3. listenports' = [i \in Entries |-> IF held # {} /\ i = Min(held) THEN p ELSE listenports[i]]
  BY Zenon DEF Listen, uip_listen
<1>4. held = free
  <2>1. ASSUME NEW i \in Entries
        PROVE  listenports[i] = NoPort <=> tcp_listeners[i].link = NoLink
    BY UsersAssumption DEF TablesMatch
  <2> QED BY <2>1
<1>5. new.port = p /\ new.link = l
  OBVIOUS
<1>6. ASSUME NEW i \in Entries, tcp_listeners[i].link # NoLink
      PROVE  tcp_listeners[i].port # p
  BY <1>1, <1>6 DEF TablesMatch, OneUser
<1>7. CASE free = {}
  <2>1. \A i \in Entries : tcp_listeners'[i] = tcp_listeners[i] /\ listenports'[i] = listenports[i]
    BY <1>2, <1>3, <1>4, <1>7
  <2> HIDE DEF free, held, new
  <2> QED BY <1>1, <2>1 DEF TablesMatch
<1>8. CASE free # {}
  <2>1. free \subseteq Nat
    BY SizesAssumption DEF Entries
  <2> HIDE DEF free, held, new
  <2>2. Min(free) \in free
    BY <1>8, <2>1, LeastOf
  <2> DEFINE k == Min(free)
  <2>3. k \in Entries
    BY <2>2 DEF free
  <2>4. tcp_listeners'[k] = new /\ listenports'[k] = p
    BY <1>2, <1>3, <1>4, <1>8, <2>3
  <2>5. \A i \in Entries : i # k => tcp_listeners'[i] = tcp_listeners[i] /\ listenports'[i] = listenports[i]
    BY <1>2, <1>3, <1>4
  <2> HIDE DEF k
  <2>6. ASSUME NEW i \in Entries
        PROVE  /\ listenports'[i] = IF tcp_listeners'[i].link = NoLink THEN NoPort ELSE tcp_listeners'[i].port
               /\ tcp_listeners'[i].link # NoLink =>
                    /\ tcp_listeners'[i].port \in Ports /\ tcp_listeners'[i].link \in PortUsers[tcp_listeners'[i].port]
                    /\ <<tcp_listeners'[i].link, tcp_listeners'[i].port>> \in listening'
    <3>1. CASE i = k
      BY <1>1, <1>5, <2>4, <3>1
    <3>2. CASE i # k
      BY <1>1, <2>5, <3>2 DEF TablesMatch
    <3> QED BY <3>1, <3>2
  <2>7. ASSUME NEW i \in Entries, NEW j \in Entries, tcp_listeners'[i].link # NoLink, tcp_listeners'[j].link # NoLink,
               tcp_listeners'[i].port = tcp_listeners'[j].port
        PROVE  i = j
    <3>1. CASE i # k /\ j # k
      BY <2>5, <2>7, <3>1 DEF TablesMatch
    <3>2. CASE i = k /\ j # k
      BY <1>5, <1>6, <2>4, <2>5, <2>7, <3>2
    <3>3. CASE i # k /\ j = k
      BY <1>5, <1>6, <2>4, <2>5, <2>7, <3>3
    <3> QED BY <3>1, <3>2, <3>3
  <2> QED BY <2>6, <2>7 DEF TablesMatch
<1> QED BY <1>7, <1>8

LEMMA UnlistenMatches ==
  ASSUME OneUser, Types, TablesMatch, NEW l \in Links, NEW p \in Ports, Unlisten(l, p)
  PROVE  TablesMatch'
<1> DEFINE held == {i \in Entries : listenports[i] = p}
<1>1. p # NoPort /\ listening' = listening \ {<<l, p>>}
  BY UsersAssumption DEF Unlisten
<1>2. tcp_listeners' = [i \in Entries |-> IF tcp_listeners[i].port = p
                                         THEN [tcp_listeners[i] EXCEPT !.link = NoLink] ELSE tcp_listeners[i]]
  BY DEF Unlisten
<1>3. listenports' = [i \in Entries |-> IF held # {} /\ i = Min(held) THEN NoPort ELSE listenports[i]]
  BY Zenon DEF Unlisten, uip_unlisten
<1>4. \A i \in Entries : i \in held <=> tcp_listeners[i].link # NoLink /\ tcp_listeners[i].port = p
  BY <1>1 DEF TablesMatch
<1>5. \A i, j \in held : i = j
  BY <1>4 DEF TablesMatch
<1>6. held \subseteq Nat
  BY SizesAssumption DEF Entries
<1>7. held \subseteq Entries
  OBVIOUS
<1> HIDE DEF held
<1>8. ASSUME held # {}
      PROVE  Min(held) \in held
  BY <1>6, <1>8, LeastOf
<1>9. \A i \in Entries : listenports'[i] = IF i \in held THEN NoPort ELSE listenports[i]
  BY <1>3, <1>5, <1>8
<1>10. ASSUME NEW i \in Entries, tcp_listeners[i].port = p
       PROVE  tcp_listeners'[i].link = NoLink
  <2>1. tcp_listeners[i] \in ListenerRec
    BY DEF Types
  <2>2. [tcp_listeners[i] EXCEPT !.link = NoLink].link = NoLink
    BY <2>1 DEF ListenerRec
  <2>3. tcp_listeners'[i] = [tcp_listeners[i] EXCEPT !.link = NoLink]
    BY <1>2, <1>10
  <2> QED BY <2>2, <2>3
<1>11. ASSUME NEW i \in Entries, tcp_listeners[i].port # p
       PROVE  tcp_listeners'[i] = tcp_listeners[i]
  BY <1>2, <1>11
<1>12. ASSUME NEW i \in Entries
       PROVE  /\ listenports'[i] = IF tcp_listeners'[i].link = NoLink THEN NoPort ELSE tcp_listeners'[i].port
              /\ tcp_listeners'[i].link # NoLink =>
                   /\ tcp_listeners'[i].port \in Ports /\ tcp_listeners'[i].link \in PortUsers[tcp_listeners'[i].port]
                   /\ <<tcp_listeners'[i].link, tcp_listeners'[i].port>> \in listening'
  <2>1. CASE tcp_listeners[i].port = p
    BY <1>4, <1>9, <1>10, <2>1 DEF TablesMatch
  <2>2. CASE tcp_listeners[i].port # p
    BY <1>1, <1>4, <1>9, <1>11, <2>2 DEF TablesMatch
  <2> QED BY <2>1, <2>2
<1>13. ASSUME NEW i \in Entries, NEW j \in Entries, tcp_listeners'[i].link # NoLink, tcp_listeners'[j].link # NoLink,
              tcp_listeners'[i].port = tcp_listeners'[j].port
       PROVE  i = j
  BY <1>10, <1>11, <1>13 DEF TablesMatch
<1> QED BY <1>12, <1>13 DEF TablesMatch

LEMMA ListenersInit == Init => ListenersInv
<1> SUFFICES ASSUME Init PROVE ListenersInv
  OBVIOUS
<1>1. TablesMatch
  <2>1. \A i \in Entries : tcp_listeners[i].link = NoLink /\ listenports[i] = NoPort
    BY DEF Init
  <2> QED BY <2>1 DEF TablesMatch
<1>2. NobodyConnects /\ NewToListener
  BY DEF Init, NobodyConnects, NewToListener
<1> QED BY <1>1, <1>2, TypesInit DEF ListenersInv

LEMMA ListenersStep ==
  ASSUME Connectors = {}, OneUser, ListenersInv, [Next]_vars
  PROVE  ListenersInv'
<1> USE DEF ListenersInv
<1>1. Types'
  BY TypesStep
<1>2. ASSUME UNCHANGED <<tcp_listeners, listenports, listening>>
      PROVE  TablesMatch'
  BY <1>2 DEF TablesMatch
<1>3. ASSUME NEW c \in Slots, app'[c].req \subseteq app[c].req \cup Asked
      PROVE  "connect" \notin app'[c].req
  BY <1>3 DEF NobodyConnects, Asked
<1>4. ASSUME UNCHANGED app
      PROVE  NobodyConnects'
  BY <1>4 DEF NobodyConnects
<1>5. ASSUME waiting' = NoLink \/ stage' # "connected"
      PROVE  NewToListener'
  BY <1>5 DEF NewToListener
<1>6. ASSUME ConnsStay, AppsStay, UNCHANGED callVars
      PROVE  NewToListener'
  <2> SUFFICES ASSUME waiting' # NoLink, stage' = "connected", conns'[uip_conn'].lport # NoPort
               PROVE  waiting' \in PortUsers[conns'[uip_conn'].lport] /\ app'[uip_conn'].type = "server"
    BY DEF NewToListener
  <2>1. uip_conn \in Slots /\ uip_conn' = uip_conn /\ waiting' = waiting /\ stage' = stage
    BY <1>6 DEF callVars, Types, CallTypes
  <2>2. conns'[uip_conn].lport = conns[uip_conn].lport /\ app'[uip_conn].type = app[uip_conn].type
    BY <1>6, <2>1 DEF ConnsStay, AppsStay
  <2> QED BY <2>1, <2>2 DEF NewToListener
<1>7. CASE UNCHANGED vars
  <2>1. ConnsStay /\ AppsStay /\ UNCHANGED callVars
    BY <1>7 DEF vars, ConnsStay, AppsStay, Types
  <2> QED BY <1>1, <1>2, <1>4, <1>6, <1>7, <2>1 DEF vars, tables, clients
<1>8. ASSUME NEW l \in Links, NEW p \in Ports, Listen(l, p) \/ Unlisten(l, p)
      PROVE  ListenersInv'
  <2>1. UNCHANGED <<conns, app, callVars>>
    BY <1>8 DEF Listen, Unlisten
  <2>2. ConnsStay /\ AppsStay
    BY <2>1 DEF ConnsStay, AppsStay, Types
  <2>3. TablesMatch'
    BY <1>8, ListenMatches, UnlistenMatches
  <2> QED BY <1>1, <1>4, <1>6, <2>1, <2>2, <2>3
<1>9. ASSUME NEW l \in Links, Connect(l)
      PROVE  ListenersInv'
  BY <1>9 DEF Connect
<1>10. ASSUME NEW l \in Links, NEW i \in Guids, Command(l, i)
       PROVE  ListenersInv'
  <2>1. /\ ConnsStay /\ AppsStay /\ UNCHANGED <<tables, callVars, clients>>
        /\ \A s \in Slots : app'[s].req \subseteq app[s].req \cup Asked
    BY <1>10, CommandStep
  <2>2. NobodyConnects'
    BY <1>3, <2>1 DEF NobodyConnects
  <2> QED BY <1>1, <1>2, <1>6, <2>1, <2>2 DEF tables, clients
<1>11. CASE Connected
  <2> DEFINE u == uip_conn
  <2>1. /\ u \in Slots /\ UNCHANGED <<conns, tcp_listeners, listenports, uip_conn, uip_flags, uip_slen, after, clients>>
        /\ \A s \in Slots : s # u => app'[s] = app[s]
        /\ app'[u].req = {} /\ Raise(app'[u].link)
        /\ app'[u].link = IF "connect" \in app[u].req THEN app[u].link ELSE get_listener_linknum(conns[u].lport)
        /\ "connect" \notin app[u].req => app'[u].type = "server"
    BY <1>11, ConnectedStep
  <2>2. app'[u].link = get_listener_linknum(conns[u].lport) /\ app'[u].type = "server"
    BY <2>1 DEF NobodyConnects
  <2>3. NobodyConnects'
    BY <2>1 DEF NobodyConnects
  <2>4. TablesMatch'
    BY <1>2, <2>1 DEF clients
  <2>5. NewToListener'
    <3> SUFFICES ASSUME waiting' # NoLink
                 PROVE  waiting' \in PortUsers[conns[u].lport] /\ app'[u].type = "server"
      BY <2>1 DEF NewToListener
    <3>1. waiting' = get_listener_linknum(conns[u].lport)
      BY <2>1, <2>2 DEF Raise
    <3>2. PICK i \in Entries : /\ tcp_listeners[i].port = conns[u].lport /\ tcp_listeners[i].link # NoLink
                               /\ get_listener_linknum(conns[u].lport) = tcp_listeners[i].link
      BY <3>1, GetListenerIs
    <3> QED BY <2>2, <3>1, <3>2 DEF TablesMatch
  <2> QED BY <1>1, <2>3, <2>4, <2>5
<1>12. CASE Event
  <2>1. /\ stage \in {"data", "abort", "timedout", "acked", "rexmit"} /\ Raise(app[uip_conn].link)
        /\ UNCHANGED <<conns, app, tables, uip_conn, uip_flags, uip_slen, after, clients>>
    BY <1>12, EventStep
  <2>2. waiting' = NoLink \/ stage' # "connected"
    BY <2>1 DEF Raise
  <2> QED BY <1>1, <1>2, <1>4, <1>5, <2>1, <2>2 DEF tables, clients
<1>13. CASE PollAbort \/ PollClose \/ PollSend \/ PollNone
  <2>1. /\ UNCHANGED <<conns, tables, clients, uip_conn, uip_slen, after>>
        /\ \A s \in Slots : app'[s].req \subseteq app[s].req
        /\ stage = "poll" /\ waiting = NoLink
    BY <1>13, PollStep
  <2>2. waiting' = NoLink \/ stage' # "connected"
    BY <1>13, <2>1 DEF Raise, PollAbort, PollClose, PollSend, PollNone
  <2>3. NobodyConnects'
    BY <2>1 DEF NobodyConnects
  <2> QED BY <1>1, <1>2, <1>5, <2>1, <2>2, <2>3 DEF tables, clients
<1>14. CASE Closed
  <2>1. /\ stage = "closed" /\ waiting = NoLink /\ UNCHANGED <<tables, clients>>
        /\ \/ stage' = "return" /\ UNCHANGED <<app, waiting>>
           \/ Raise(app[uip_conn].link) /\ \A s \in Slots : app'[s].req = app[s].req
    BY <1>14, ClosedStep
  <2>2. waiting' = NoLink \/ stage' # "connected"
    BY <2>1 DEF Raise
  <2>3. NobodyConnects'
    BY <2>1 DEF NobodyConnects
  <2> QED BY <1>1, <1>2, <1>5, <2>1, <2>2, <2>3 DEF tables, clients
<1>15. ASSUME NEW n \in 0 .. 1, Deliver(n)
       PROVE  ListenersInv'
  <2>1. UNCHANGED <<tables, listening>> /\ waiting' = NoLink /\ \A s \in Slots : app'[s].req = app[s].req
    BY <1>15, DeliverStep
  <2>2. NobodyConnects'
    BY <2>1 DEF NobodyConnects
  <2> QED BY <1>1, <1>2, <1>5, <2>1, <2>2 DEF tables
<1>16. CASE Return
  <2>1. stage' = "none" /\ UNCHANGED <<app, tables, clients>>
    BY <1>16, ReturnStep
  <2> QED BY <1>1, <1>2, <1>4, <1>5, <2>1 DEF tables, clients
<1>17. ASSUME stage = "none", UNCHANGED <<app, tables, clients>>,
              UNCHANGED callVars \/ \E c, fl, k : AppCall(c, fl, k)
       PROVE  ListenersInv'
  <2>1. waiting' = NoLink \/ stage' # "connected"
    BY <1>17 DEF callVars, AppCall
  <2> QED BY <1>1, <1>2, <1>4, <1>5, <1>17, <2>1 DEF tables, clients
<1>18. ASSUME NEW c \in Slots, PollRequest(c) \/ TimerPolls(c)
       PROVE  ListenersInv'
  BY <1>17, <1>18, PollsStep
<1>19. ASSUME NEW c \in Slots, TimeWaitExpires(c) \/ TimerExpires(c) \/ RstArrives(c)
       PROVE  ListenersInv'
  <2>1. UNCHANGED <<app, tables, clients>> /\ stage = "none"
    BY <1>19, TimerStep
  <2>2. UNCHANGED callVars \/ \E fl, k : AppCall(c, fl, k)
    BY <1>19 DEF TimeWaitExpires, TimerExpires, RstArrives, Drop
  <2> QED BY <1>17, <2>1, <2>2
<1>20. ASSUME NEW p \in Ports, SynArrives(p)
       PROVE  ListenersInv'
  BY <1>17, <1>20, SynStep
<1>21. ASSUME NEW c \in Slots, NEW sg \in Segments, SegmentArrives(c, sg)
       PROVE  ListenersInv'
  <2>1. UNCHANGED <<app, tables, clients>> /\ stage = "none"
    BY <1>21, SegmentStep
  <2>2. PICK k : SegQuiet(c, k) \/ SegOpens(c, k) \/ SegRefuses(c, k) \/ SegEvents(c, k) \/ SegEnds(c, k)
    BY <1>21, SegmentStep
  <2>3. UNCHANGED callVars \/ \E fl, a : AppCall(c, fl, a)
    BY <2>2 DEF SegQuiet, SegOpens, SegRefuses, SegEvents, SegEnds
  <2> QED BY <1>17, <2>1, <2>3
<1> QED BY <1>7, <1>8, <1>9, <1>10, <1>11, <1>12, <1>13, <1>14, <1>15, <1>16, <1>18, <1>19, <1>20, <1>21
        DEF Next, ServerStep

(***************************************************************************)
(* Whoever listens gets the connections to its port, and nobody else does: *)
(* the stack accepts connections to exactly the ports for which uip_xtcp.c *)
(* knows a client, and NEW_CONNECTION goes to that client.  It needs that  *)
(* no two clients share a port (uip_unlisten ends one entry of the stack,  *)
(* unregister_listener all of uip_xtcp.c) and that no client connects out  *)
(* (connect_request outlives an attempt that failed).                      *)
(***************************************************************************)
THEOREM ListenersStayServed ==
  ASSUME Connectors = {}, OneUser
  PROVE  Spec => []ListenersServed
<1>1. ListenersInv /\ [Next]_vars => ListenersInv'
  BY ListenersStep
<1>2. ListenersInv => ListenersServed
  BY MatchAgrees DEF ListenersInv, ListenersServed
<1> QED BY <1>1, <1>2, ListenersInit, PTL DEF Spec

-----------------------------------------------------------------------------
(* The handles of the clients and the events.                              *)

\* The states in which a connection is after its end.
Left == {"FIN_WAIT_1", "FIN_WAIT_2", "CLOSING", "TIME_WAIT", "LAST_ACK"}
Held(i) == \E l \in Links : i \in handles[l]
IsOpen(c) == conns[c].state = "ESTABLISHED"

\* An application call is about an open connection that stays open, ...
Steady ==
  /\ IsOpen(uip_conn)
  /\ \/ uip_flags \subseteq {"connected", "data", "acked", "poll"} /\ after = "appsend"
     \/ uip_flags = {"rexmit"} /\ after = "drop"
\* ... one that is to be closed, ...
Closing ==
  /\ IsOpen(uip_conn) /\ after \in {"appsend", "finack"}
  /\ "closed" \in uip_flags /\ uip_flags \subseteq {"data", "acked", "closed"}
\* ... one whose client knows of its end, ...
Gone ==
  /\ ~IsOpen(uip_conn) /\ uip_flags = {"closed"} /\ after = "drop" /\ waiting = NoLink
  /\ "closed" \in app[uip_conn].mode /\ ~Held(app[uip_conn].id)
\* ... or one that has just been lost.
Broken == ~IsOpen(uip_conn) /\ uip_flags \in {{"abort"}, {"timedout"}} /\ after \in {"drop", "close"}

CallShape ==
  /\ stage = "none" => uip_conn = NoSlot /\ waiting = NoLink
  /\ stage \in uip_flags \cup {"none", "return"}
  /\ waiting # NoLink => waiting = app[uip_conn].link
  /\ stage # "none" => Steady \/ Closing \/ Gone \/ Broken

\* s.closed is set from the CLOSED event on, and the handle is gone when the
\* call that raised it returns.
EndsKept ==
  /\ \A c \in Slots : conns[c].state \in Left => "closed" \in app[c].mode
  /\ \A c \in Slots : IsOpen(c) /\ "closed" \in app[c].mode =>
       /\ uip_conn = c
       /\ \/ stage = "connected" /\ waiting = NoLink
          \/ stage = "closed" /\ waiting # NoLink
          \/ stage = "return" /\ "closed" \in uip_flags
  /\ stage = "closed" /\ waiting # NoLink => "closed" \in app[uip_conn].mode
  /\ stage = "return" /\ "closed" \in uip_flags => "closed" \in app[uip_conn].mode /\ ~Held(app[uip_conn].id)

StartsNew == stage = "connected" => ~Held(app[uip_conn].id) /\ (waiting # NoLink => app[uip_conn].id \in Guids)
NoAborts == \A c \in Slots : "abort" \notin app[c].req

HandlesInv ==
  /\ Types /\ handles \in [Links -> SUBSET Guids] /\ NoAborts
  /\ CallShape /\ EndsKept /\ StartsNew /\ HandlesAgree /\ EventsInOrder

LEMMA HandlesInit == Init => HandlesInv
<1> SUFFICES ASSUME Init PROVE HandlesInv
  OBVIOUS
<1>1. Types
  BY TypesInit
<1>2. handles \in [Links -> SUBSET Guids] /\ NoAborts /\ CallShape /\ StartsNew /\ EventsInOrder
  BY DEF Init, NoAborts, CallShape, StartsNew, EventsInOrder
<1>3. \A c \in Slots : conns[c].state = "CLOSED" /\ app[c].id = 0
  BY DEF Init
<1>4. stage = "none" /\ \A l \in Links : handles[l] = {}
  BY DEF Init
<1>5. EndsKept
  BY <1>3, <1>4 DEF EndsKept, Left, IsOpen
<1>6. HandlesAgree
  BY <1>3, <1>4 DEF HandlesAgree, UniqueIds, OpenIsHeld, HeldIsOpen
<1> QED BY <1>1, <1>2, <1>5, <1>6 DEF HandlesInv

\* A step that keeps the connections and the call, such as a command.
LEMMA HandlesStay ==
  ASSUME HandlesInv, Types', NoAborts', ConnsStay, AppsStay, UNCHANGED <<callVars, handles>>
  PROVE  HandlesInv'
<1> USE DEF HandlesInv
<1>1. /\ uip_conn' = uip_conn /\ uip_flags' = uip_flags /\ stage' = stage /\ waiting' = waiting /\ after' = after
      /\ handles' = handles
  BY DEF callVars
<1>2. \A s \in Slots : /\ conns'[s].state = conns[s].state /\ app'[s].id = app[s].id /\ app'[s].link = app[s].link
                       /\ ("closed" \in app'[s].mode <=> "closed" \in app[s].mode)
  BY DEF ConnsStay, AppsStay
<1>3. stage # "none" => uip_conn \in Slots
  BY DEF Types, CallTypes
<1>4. waiting # NoLink => stage # "none"
  BY DEF CallShape
<1>5. CallShape'
  BY <1>1, <1>2, <1>3, <1>4 DEF CallShape, Steady, Closing, Gone, Broken, IsOpen, Held
<1>6. EndsKept'
  BY <1>1, <1>2, <1>3 DEF EndsKept, IsOpen, Held
<1>7. StartsNew' /\ EventsInOrder'
  BY <1>1, <1>2, <1>3, <1>4 DEF StartsNew, EventsInOrder, Held
<1>8. UniqueIds'
  BY <1>2 DEF HandlesAgree, UniqueIds
<1>9. OpenIsHeld'
  BY <1>1, <1>2 DEF HandlesAgree, OpenIsHeld, Starting
<1>10. HeldIsOpen'
  BY <1>1, <1>2 DEF HandlesAgree, HeldIsOpen, Ending
<1> QED BY <1>1, <1>5, <1>6, <1>7, <1>8, <1>9, <1>10 DEF HandlesAgree

\* Between two calls, the handles are those of the open connections.
LEMMA IdleFacts ==
  ASSUME HandlesInv, stage = "none"
  PROVE  /\ uip_conn = NoSlot /\ waiting = NoLink
         /\ \A c \in Slots : IsOpen(c) => "closed" \notin app[c].mode
         /\ \A c \in Slots : IsOpen(c) /\ app[c].link # NoLink => app[c].id \in handles[app[c].link]
         /\ \A l \in Links : \A i \in handles[l] : \E c \in Slots : app[c].id = i /\ app[c].link = l /\ IsOpen(c)
         /\ \A c \in Slots : ~IsOpen(c) => ~Held(app[c].id)
<1> USE DEF HandlesInv
<1>1. uip_conn = NoSlot /\ waiting = NoLink
  BY DEF CallShape
<1>2. \A c \in Slots : c # NoSlot
  BY NoneOut
<1>3. \A c \in Slots : IsOpen(c) => "closed" \notin app[c].mode
  BY <1>1, <1>2 DEF EndsKept
<1>4. \A c \in Slots : IsOpen(c) /\ app[c].link # NoLink => app[c].id \in handles[app[c].link]
  BY <1>1, <1>2 DEF HandlesAgree, OpenIsHeld, IsOpen, Starting
<1>5. \A l \in Links : \A i \in handles[l] : \E c \in Slots : app[c].id = i /\ app[c].link = l /\ IsOpen(c)
  BY <1>1, <1>2 DEF HandlesAgree, HeldIsOpen, IsOpen, Ending
<1>6. ASSUME NEW c \in Slots, ~IsOpen(c), NEW l \in Links, app[c].id \in handles[l]
      PROVE  FALSE
  <2>1. PICK d \in Slots : app[d].id = app[c].id /\ IsOpen(d)
    BY <1>5, <1>6
  <2>2. app[c].id # 0
    BY <1>6 DEF Guids
  <2> QED BY <1>6, <2>1, <2>2 DEF HandlesAgree, UniqueIds
<1> QED BY <1>1, <1>3, <1>4, <1>5, <1>6 DEF Held

\* A step between two calls that neither opens nor ends a connection.
LEMMA HandlesQuiet ==
  ASSUME HandlesInv, Types', stage = "none", UNCHANGED <<app, callVars, handles>>,
         \A s \in Slots : /\ conns'[s].state = "ESTABLISHED" <=> conns[s].state = "ESTABLISHED"
                          /\ conns'[s].state \in Left => conns[s].state \in Left
  PROVE  HandlesInv'
<1> USE DEF HandlesInv
<1>1. uip_conn' = NoSlot /\ waiting' = NoLink /\ stage' = "none" /\ handles' = handles /\ app' = app
  BY IdleFacts DEF callVars
<1>2. NoAborts' /\ CallShape' /\ StartsNew' /\ EventsInOrder'
  BY <1>1 DEF NoAborts, CallShape, StartsNew, EventsInOrder
<1>3. EndsKept'
  BY <1>1, IdleFacts DEF EndsKept, IsOpen
<1>4. UniqueIds'
  BY <1>1 DEF HandlesAgree, UniqueIds
<1>5. OpenIsHeld'
  BY <1>1, IdleFacts DEF OpenIsHeld, IsOpen
<1>6. HeldIsOpen'
  BY <1>1, IdleFacts DEF HeldIsOpen, IsOpen
<1> QED BY <1>1, <1>2, <1>3, <1>4, <1>5, <1>6 DEF HandlesAgree

\* A call for connection c begins: which one it may be.
BeginsOpen(c, k, fl, a) ==
  ~IsOpen(c) /\ k.state = "ESTABLISHED" /\ "connected" \in fl /\ fl \subseteq {"connected", "data"} /\ a = "appsend"
BeginsSteady(c, k, fl, a) ==
  /\ IsOpen(c) /\ k.state = "ESTABLISHED"
  /\ \/ fl \subseteq {"data", "acked", "poll"} /\ fl # {} /\ a = "appsend"
     \/ fl = {"rexmit"} /\ a = "drop"
BeginsClosing(c, k, fl, a) ==
  IsOpen(c) /\ k.state = "ESTABLISHED" /\ "closed" \in fl /\ fl \subseteq {"data", "acked", "closed"} /\ a = "finack"
BeginsGone(c, k, fl, a) ==
  conns[c].state \in Left /\ k.state # "ESTABLISHED" /\ fl = {"closed"} /\ a = "drop"
BeginsBroken(c, k, fl, a) ==
  /\ k.state # "ESTABLISHED" /\ k.state \notin Left /\ fl \in {{"abort"}, {"timedout"}} /\ a \in {"drop", "close"}
Begins(c, k, fl, a) ==
  \/ BeginsOpen(c, k, fl, a) \/ BeginsSteady(c, k, fl, a) \/ BeginsClosing(c, k, fl, a)
  \/ BeginsGone(c, k, fl, a) \/ BeginsBroken(c, k, fl, a)

LEMMA HandlesBegin ==
  ASSUME HandlesInv, Types', stage = "none", UNCHANGED <<app, handles>>, NEW c \in Slots, NEW k, Becomes(c, k),
         NEW fl, NEW a, AppCall(c, fl, a), Begins(c, k, fl, a)
  PROVE  HandlesInv'
<1> USE DEF HandlesInv
<1>1. fl \subseteq Stages /\ fl # {}
  BY DEF Begins, BeginsOpen, BeginsSteady, BeginsClosing, BeginsGone, BeginsBroken, Stages
<1>2. /\ uip_conn' = c /\ uip_flags' = fl /\ after' = a /\ waiting' = NoLink
      /\ stage' \in fl /\ ("connected" \in fl => stage' = "connected")
  BY <1>1, AppCallStep
<1>3. app' = app /\ handles' = handles
  OBVIOUS
<1>4. conns'[c] = k /\ \A s \in Slots : s # c => conns'[s] = conns[s]
  BY BecomesTyped
<1>5. "none" \notin fl /\ "return" \notin fl
  BY <1>1 DEF Stages
<1>6. NoAborts' /\ EventsInOrder' /\ UniqueIds'
  BY <1>2, <1>3 DEF NoAborts, EventsInOrder, HandlesAgree, UniqueIds
<1>7. \A d \in Slots : IsOpen(d) => "closed" \notin app[d].mode
  BY IdleFacts
<1>8. \A d \in Slots : IsOpen(d) /\ app[d].link # NoLink => app[d].id \in handles[app[d].link]
  BY IdleFacts
<1>9. \A l \in Links : \A i \in handles[l] : \E d \in Slots : app[d].id = i /\ app[d].link = l /\ IsOpen(d)
  BY IdleFacts
<1>10. ~IsOpen(c) => ~Held(app[c].id)
  BY IdleFacts
<1>11. \A d \in Slots : conns[d].state \in Left => "closed" \in app[d].mode
  BY DEF EndsKept
<1>12. Held(app[c].id)' <=> Held(app[c].id)
  BY <1>3 DEF Held
<1>13. "ESTABLISHED" \notin Left
  BY DEF Left
<1>14. CASE BeginsOpen(c, k, fl, a)
  <2>1. /\ ~IsOpen(c) /\ k.state = "ESTABLISHED" /\ fl \subseteq {"connected", "data"} /\ a = "appsend"
        /\ stage' = "connected"
    BY <1>2, <1>14 DEF BeginsOpen
  <2>2. CallShape'
    BY <1>2, <1>4, <1>5, <2>1 DEF CallShape, Steady, IsOpen
  <2>3. EndsKept'
    BY <1>2, <1>3, <1>4, <1>7, <1>11, <1>13, <2>1 DEF EndsKept, IsOpen
  <2>4. StartsNew'
    BY <1>2, <1>3, <1>10, <2>1 DEF StartsNew, Held
  <2>5. OpenIsHeld'
    BY <1>2, <1>3, <1>4, <1>8, <2>1 DEF OpenIsHeld, Starting, IsOpen
  <2>6. HeldIsOpen'
    BY <1>2, <1>3, <1>4, <1>9, <2>1 DEF HeldIsOpen, IsOpen
  <2> QED BY <1>3, <1>6, <2>2, <2>3, <2>4, <2>5, <2>6 DEF HandlesAgree
<1>15. CASE BeginsSteady(c, k, fl, a) \/ BeginsClosing(c, k, fl, a)
  <2>1. /\ IsOpen(c) /\ k.state = "ESTABLISHED" /\ stage' # "connected"
        /\ \/ fl \subseteq {"data", "acked", "poll"} /\ a = "appsend"
           \/ fl = {"rexmit"} /\ a = "drop"
           \/ "closed" \in fl /\ fl \subseteq {"data", "acked", "closed"} /\ a = "finack"
    BY <1>2, <1>15 DEF BeginsSteady, BeginsClosing
  <2>2. CallShape'
    BY <1>2, <1>4, <1>5, <2>1 DEF CallShape, Steady, Closing, IsOpen
  <2>3. EndsKept'
    BY <1>2, <1>3, <1>4, <1>5, <1>7, <1>11, <1>13, <2>1 DEF EndsKept, IsOpen
  <2>4. StartsNew'
    BY <2>1 DEF StartsNew
  <2>5. OpenIsHeld'
    BY <1>2, <1>3, <1>4, <1>8, <2>1 DEF OpenIsHeld, IsOpen
  <2>6. HeldIsOpen'
    BY <1>2, <1>3, <1>4, <1>9, <2>1 DEF HeldIsOpen, IsOpen
  <2> QED BY <1>3, <1>6, <2>2, <2>3, <2>4, <2>5, <2>6 DEF HandlesAgree
<1>16. CASE BeginsGone(c, k, fl, a)
  <2>1. /\ conns[c].state \in Left /\ k.state # "ESTABLISHED" /\ fl = {"closed"} /\ a = "drop"
        /\ stage' = "closed" /\ ~IsOpen(c)
    BY <1>2, <1>16, <1>13 DEF BeginsGone, IsOpen
  <2>2. "closed" \in app[c].mode
    BY <1>11, <2>1
  <2>3. CallShape'
    BY <1>2, <1>3, <1>4, <1>10, <2>1, <2>2 DEF CallShape, Gone, IsOpen, Held
  <2>4. EndsKept'
    BY <1>2, <1>3, <1>4, <1>7, <1>11, <2>1, <2>2 DEF EndsKept, IsOpen
  <2>5. StartsNew'
    BY <2>1 DEF StartsNew
  <2>6. OpenIsHeld'
    BY <1>2, <1>3, <1>4, <1>8, <2>1 DEF OpenIsHeld, IsOpen
  <2>7. HeldIsOpen'
    BY <1>2, <1>3, <1>4, <1>9, <2>1 DEF HeldIsOpen, IsOpen
  <2> QED BY <1>3, <1>6, <2>3, <2>4, <2>5, <2>6, <2>7 DEF HandlesAgree
<1>17. CASE BeginsBroken(c, k, fl, a)
  <2>1. /\ k.state # "ESTABLISHED" /\ k.state \notin Left /\ fl \in {{"abort"}, {"timedout"}} /\ a \in {"drop", "close"}
        /\ stage' \in {"abort", "timedout"}
    BY <1>2, <1>17 DEF BeginsBroken
  <2>2. CallShape'
    BY <1>2, <1>4, <1>5, <2>1 DEF CallShape, Broken, IsOpen
  <2>3. EndsKept'
    BY <1>2, <1>3, <1>4, <1>7, <1>11, <2>1 DEF EndsKept, IsOpen
  <2>4. StartsNew'
    BY <2>1 DEF StartsNew
  <2>5. OpenIsHeld'
    BY <1>2, <1>3, <1>4, <1>8, <2>1 DEF OpenIsHeld, IsOpen
  <2>6. HeldIsOpen'
    <3> SUFFICES ASSUME NEW l \in Links, NEW i \in handles[l]
                 PROVE  \E d \in Slots : app'[d].id = i /\ app'[d].link = l /\ (IsOpen(d)' \/ Ending(d)')
      BY <1>3 DEF HeldIsOpen, IsOpen
    <3>1. PICK d \in Slots : app[d].id = i /\ app[d].link = l /\ IsOpen(d)
      BY <1>9
    <3>2. IsOpen(d)' \/ Ending(d)'
      BY <1>2, <1>4, <2>1, <3>1 DEF IsOpen, Ending, Final
    <3> QED BY <1>3, <3>1, <3>2
  <2> QED BY <1>3, <1>6, <2>2, <2>3, <2>4, <2>5, <2>6 DEF HandlesAgree
<1> QED BY <1>14, <1>15, <1>16, <1>17 DEF Begins

\* Where the stages of a call lead: CONNECTED comes first and CLOSED last.
LEMMA LaterStage ==
  ASSUME NEW fl, fl \subseteq Stages, NEW st \in Stages
  PROVE  /\ NextStage(fl, st) \in fl \cup {"return"} /\ NextStage(fl, st) # "connected"
         /\ "closed" \in fl /\ st # "closed" => NextStage(fl, st) # "return"
         /\ st = "closed" => NextStage(fl, st) = "return"
         /\ fl = {st} => NextStage(fl, st) = "return"
<1>1. \A s \in Stages : Order[s] \in 1 .. 8 /\ (Order[s] = 1 <=> s = "connected") /\ (Order[s] = 8 <=> s = "closed")
  BY OrderOf DEF Stages
<1>2. st \in Stages \cup {"none"} /\ "connected" \in Stages /\ "closed" \in Stages /\ "return" \notin Stages
  BY DEF Stages
<1>3. NextStage(fl, st) = "return" => \A s \in fl : Order[s] <= Order[st]
  BY <1>2, NextStageIs
<1>4. NextStage(fl, st) # "return" => NextStage(fl, st) \in fl /\ Order[NextStage(fl, st)] > Order[st]
  BY <1>2, NextStageIs
<1>5. ASSUME "closed" \in fl, st # "closed", NextStage(fl, st) = "return"
      PROVE  FALSE
  <2>1. Order["closed"] <= Order[st] /\ Order["closed"] = 8 /\ Order[st] \in 1 .. 8 /\ Order[st] # 8
    BY <1>1, <1>2, <1>3, <1>5
  <2> QED BY <2>1
<1>6. ASSUME NextStage(fl, st) # "return"
      PROVE  NextStage(fl, st) # "connected" /\ st # "closed" /\ fl # {st}
  <2>1. NextStage(fl, st) \in Stages /\ NextStage(fl, st) \in fl /\ Order[NextStage(fl, st)] > Order[st]
    BY <1>4, <1>6
  <2>2. Order[NextStage(fl, st)] \in 1 .. 8 /\ Order[st] \in 1 .. 8
    BY <1>1, <2>1
  <2>3. Order[NextStage(fl, st)] # 1 /\ Order[st] # 8
    BY <2>1, <2>2
  <2>4. NextStage(fl, st) # st
    BY <2>1, <2>2
  <2> QED BY <1>1, <2>1, <2>3, <2>4
<1> QED BY <1>2, <1>4, <1>5, <1>6

\* The steps of uip_process that may call the application.
LEMMA HandlesProcess ==
  ASSUME HandlesInv, Types', NEW c \in Slots,
         \/ PollRequest(c) \/ TimeWaitExpires(c) \/ TimerExpires(c) \/ TimerPolls(c) \/ RstArrives(c)
         \/ \E sg \in Segments : SegmentArrives(c, sg)
  PROVE  HandlesInv'
<1>1. Types
  BY DEF HandlesInv
<1>2. ASSUME stage = "none", UNCHANGED <<app, clients, callVars>>, NEW k, Becomes(c, k),
             k.state = "ESTABLISHED" <=> conns[c].state = "ESTABLISHED", k.state \in Left => conns[c].state \in Left
      PROVE  HandlesInv'
  <2>1. conns'[c] = k /\ \A s \in Slots : s # c => conns'[s] = conns[s]
    BY <1>1, <1>2, BecomesTyped
  <2>2. \A s \in Slots : /\ conns'[s].state = "ESTABLISHED" <=> conns[s].state = "ESTABLISHED"
                         /\ conns'[s].state \in Left => conns[s].state \in Left
    BY <1>2, <2>1
  <2> QED BY <1>2, <2>2, HandlesQuiet DEF clients
<1>3. ASSUME stage = "none", UNCHANGED <<app, clients>>, NEW k, Becomes(c, k), NEW fl, NEW a,
             AppCall(c, fl, a), Begins(c, k, fl, a)
      PROVE  HandlesInv'
  <2>1. UNCHANGED <<app, handles>>
    BY <1>3 DEF clients
  <2> QED BY <1>3, <2>1, HandlesBegin
<1>4. CASE PollRequest(c) \/ TimerPolls(c)
  <2>1. /\ UNCHANGED <<conns, app, tables, clients>> /\ stage = "none"
        /\ conns[c].state = "ESTABLISHED" /\ AppCall(c, {"poll"}, "appsend")
    BY <1>4, PollsStep
  <2>2. Becomes(c, conns[c])
    BY <1>1, <2>1 DEF Becomes, Types
  <2>3. Begins(c, conns[c], {"poll"}, "appsend")
    BY <2>1 DEF Begins, BeginsSteady, IsOpen
  <2> QED BY <1>3, <2>1, <2>2, <2>3
<1>5. CASE TimeWaitExpires(c) \/ TimerExpires(c) \/ RstArrives(c)
  <2>1. UNCHANGED <<app, tables, clients>> /\ stage = "none"
    BY <1>1, <1>5, TimerStep
  <2>2. PICK k : /\ Becomes(c, k)
                 /\ \/ UNCHANGED callVars /\ k.state = conns[c].state
                    \/ UNCHANGED callVars /\ conns[c].state \in {"TIME_WAIT", "FIN_WAIT_2"} /\ k.state = "CLOSED"
                    \/ k.state = "CLOSED" /\ \E fl \in {{"abort"}, {"timedout"}} : AppCall(c, fl, "drop")
                    \/ /\ conns[c].state = "ESTABLISHED" /\ k.state = "ESTABLISHED"
                       /\ AppCall(c, {"rexmit"}, "drop")
    BY <1>1, <1>5, TimerStep
  <2>3. CASE UNCHANGED callVars /\ k.state = conns[c].state
    BY <1>2, <2>1, <2>2, <2>3
  <2>4. CASE UNCHANGED callVars /\ conns[c].state \in {"TIME_WAIT", "FIN_WAIT_2"} /\ k.state = "CLOSED"
    BY <1>2, <2>1, <2>2, <2>4 DEF Left
  <2>5. ASSUME NEW fl \in {{"abort"}, {"timedout"}}, k.state = "CLOSED", AppCall(c, fl, "drop")
        PROVE  HandlesInv'
    <3>1. Begins(c, k, fl, "drop")
      BY <2>5 DEF Begins, BeginsBroken, Left
    <3> QED BY <1>3, <2>1, <2>2, <2>5, <3>1
  <2>6. CASE conns[c].state = "ESTABLISHED" /\ k.state = "ESTABLISHED" /\ AppCall(c, {"rexmit"}, "drop")
    <3>1. Begins(c, k, {"rexmit"}, "drop")
      BY <2>6 DEF Begins, BeginsSteady, IsOpen
    <3> QED BY <1>3, <2>1, <2>2, <2>6, <3>1
  <2> QED BY <2>2, <2>3, <2>4, <2>5, <2>6
<1>6. ASSUME NEW sg \in Segments, SegmentArrives(c, sg)
      PROVE  HandlesInv'
  <2>1. UNCHANGED <<app, tables, clients>> /\ stage = "none"
    BY <1>1, <1>6, SegmentStep
  <2>2. PICK k : /\ Becomes(c, k)
                 /\ SegQuiet(c, k) \/ SegOpens(c, k) \/ SegRefuses(c, k) \/ SegEvents(c, k) \/ SegEnds(c, k)
    BY <1>1, <1>6, SegmentStep
  <2>3. CASE SegQuiet(c, k)
    BY <1>2, <2>1, <2>2, <2>3 DEF SegQuiet, Left
  <2>4. CASE SegOpens(c, k)
    <3>1. PICK fl : fl \subseteq {"connected", "data"} /\ "connected" \in fl /\ AppCall(c, fl, "appsend")
      BY <2>4 DEF SegOpens
    <3>2. Begins(c, k, fl, "appsend")
      BY <2>4, <3>1 DEF SegOpens, Begins, BeginsOpen, IsOpen
    <3> QED BY <1>3, <2>1, <2>2, <3>1, <3>2
  <2>5. CASE SegRefuses(c, k)
    <3>1. Begins(c, k, {"abort"}, "close") /\ AppCall(c, {"abort"}, "close")
      BY <2>5 DEF SegRefuses, Begins, BeginsBroken, Left
    <3> QED BY <1>3, <2>1, <2>2, <3>1
  <2>6. CASE SegEvents(c, k)
    <3>1. PICK fl : \/ fl \subseteq {"acked", "data"} /\ fl # {} /\ AppCall(c, fl, "appsend")
                    \/ fl \subseteq {"acked", "data", "closed"} /\ "closed" \in fl /\ AppCall(c, fl, "finack")
      BY <2>6 DEF SegEvents
    <3>2. IsOpen(c) /\ k.state = "ESTABLISHED"
      BY <2>6 DEF SegEvents, IsOpen
    <3>3. CASE fl \subseteq {"acked", "data"} /\ fl # {} /\ AppCall(c, fl, "appsend")
      <4>1. Begins(c, k, fl, "appsend")
        BY <3>2, <3>3 DEF Begins, BeginsSteady
      <4> QED BY <1>3, <2>1, <2>2, <3>3, <4>1
    <3>4. CASE fl \subseteq {"acked", "data", "closed"} /\ "closed" \in fl /\ AppCall(c, fl, "finack")
      <4>1. Begins(c, k, fl, "finack")
        BY <3>2, <3>4 DEF Begins, BeginsClosing
      <4> QED BY <1>3, <2>1, <2>2, <3>4, <4>1
    <3> QED BY <3>1, <3>3, <3>4
  <2>7. CASE SegEnds(c, k)
    <3>1. Begins(c, k, {"closed"}, "drop") /\ AppCall(c, {"closed"}, "drop")
      BY <2>7 DEF SegEnds, Begins, BeginsGone, Left
    <3> QED BY <1>3, <2>1, <2>2, <3>1
  <2> QED BY <2>2, <2>3, <2>4, <2>5, <2>6, <2>7
<1> QED BY <1>4, <1>5, <1>6

LEMMA HandlesSyn ==
  ASSUME HandlesInv, Types', NEW p \in Ports, SynArrives(p)
  PROVE  HandlesInv'
<1>1. Types
  BY DEF HandlesInv
<1>2. UNCHANGED <<app, handles, callVars>> /\ stage = "none"
  BY <1>1, SynStep DEF clients
<1>3. PICK c \in FreeSlots : conns' = [conns EXCEPT ![c] = Opening(conns[c], "SYN_RCVD", p)]
  BY <1>1, SynStep
<1>4. c \in Slots /\ conns[c].state \in {"CLOSED", "TIME_WAIT"}
  BY <1>1, FreeSlotsAre
<1>5. Opening(conns[c], "SYN_RCVD", p).state = "SYN_RCVD"
  <2>1. conns[c] \in ConnRec /\ "SYN_RCVD" \in States /\ p \in Ports \cup {NoPort}
    BY <1>1, <1>4 DEF Types, States
  <2> QED BY <2>1, OpeningRecord
<1>6. conns'[c].state = "SYN_RCVD" /\ \A s \in Slots : s # c => conns'[s] = conns[s]
  BY <1>1, <1>3, <1>4, <1>5 DEF Types
<1>7. \A s \in Slots : /\ conns'[s].state = "ESTABLISHED" <=> conns[s].state = "ESTABLISHED"
                       /\ conns'[s].state \in Left => conns[s].state \in Left
  BY <1>4, <1>6 DEF Left
<1> QED BY <1>2, <1>7, HandlesQuiet

\* With one client at most that connects, its connections are its own.
LEMMA HandlesConnect ==
  ASSUME Connectors = {} \/ NumClients = 1, HandlesInv, Types', NEW l \in Links, Connect(l)
  PROVE  HandlesInv'
<1> USE DEF HandlesInv
<1>1. \A m \in Links : m = l
  <2>1. NumClients = 1
    BY DEF Connect
  <2> QED BY <2>1 DEF Links
<1>2. PICK c \in FreeSlots :
        /\ conns' = [conns EXCEPT ![c] = Opening(conns[c], "SYN_SENT", NoPort)]
        /\ app' \in [Slots -> AppRec] /\ (\A s \in Slots : s # c => app'[s] = app[s])
        /\ app'[c].id = app[c].id /\ app'[c].mode = app[c].mode /\ app'[c].link = l
        /\ app'[c].req = app[c].req \cup {"connect"}
  BY ConnectStep, ZenonT(30)
<1>3. c \in Slots /\ conns[c].state \in {"CLOSED", "TIME_WAIT"}
  BY FreeSlotsAre
<1>4. Opening(conns[c], "SYN_SENT", NoPort).state = "SYN_SENT"
  <2>1. conns[c] \in ConnRec /\ "SYN_SENT" \in States /\ NoPort \in Ports \cup {NoPort}
    BY <1>3 DEF Types, States
  <2> QED BY <2>1, OpeningRecord
<1>5. conns'[c].state = "SYN_SENT" /\ \A s \in Slots : s # c => conns'[s] = conns[s]
  BY <1>2, <1>3, <1>4 DEF Types
<1>6. /\ uip_conn' = uip_conn /\ uip_flags' = uip_flags /\ stage' = stage /\ waiting' = waiting /\ after' = after
      /\ handles' = handles
  BY ConnectStep DEF callVars, clients
<1>7. \A s \in Slots : /\ IsOpen(s)' <=> IsOpen(s)
                       /\ app'[s].id = app[s].id /\ app'[s].mode = app[s].mode
                       /\ (app[s].link \in Links => app'[s].link = app[s].link)
                       /\ (IsOpen(s) => app'[s].link = app[s].link)
                       /\ (conns'[s].state \in Left => conns[s].state \in Left)
  BY <1>1, <1>2, <1>3, <1>5 DEF IsOpen, Left
<1>8. stage # "none" => uip_conn \in Slots
  BY DEF Types, CallTypes
<1>9. waiting # NoLink => stage # "none" /\ waiting \in Links
  BY DEF CallShape, Types, CallTypes
<1>10. NoAborts'
  BY <1>2 DEF NoAborts
<1>11. CallShape'
  <2>1. waiting # NoLink => waiting = app'[uip_conn].link
    BY <1>7, <1>8, <1>9 DEF CallShape
  <2>2. stage # "none" => (Steady \/ Closing \/ Gone \/ Broken)'
    BY <1>6, <1>7, <1>8 DEF CallShape, Steady, Closing, Gone, Broken, Held
  <2> QED BY <1>6, <2>1, <2>2 DEF CallShape
<1>12. EndsKept'
  BY <1>6, <1>7, <1>8 DEF EndsKept, Held
<1>13. StartsNew' /\ EventsInOrder'
  BY <1>6, <1>7, <1>8, <1>9 DEF StartsNew, EventsInOrder, Held
<1>14. UniqueIds'
  BY <1>7 DEF HandlesAgree, UniqueIds
<1>15. OpenIsHeld'
  BY <1>6, <1>7 DEF HandlesAgree, OpenIsHeld, Starting, IsOpen
<1>16. HeldIsOpen'
  BY <1>6, <1>7 DEF HandlesAgree, HeldIsOpen, Ending, IsOpen
<1> QED BY <1>6, <1>10, <1>11, <1>12, <1>13, <1>14, <1>15, <1>16 DEF HandlesAgree

\* In the stages between NEW_CONNECTION and CLOSED, the connection is open and
\* its client, if it has one, has its handle.
LEMMA BetweenFacts ==
  ASSUME HandlesInv, stage \in {"data", "acked", "rexmit", "poll"}
  PROVE  /\ uip_conn \in Slots /\ IsOpen(uip_conn) /\ "closed" \notin app[uip_conn].mode /\ stage \in uip_flags
         /\ app[uip_conn].link # NoLink => app[uip_conn].id \in handles[app[uip_conn].link]
         /\ \A c \in Slots : IsOpen(c) => "closed" \notin app[c].mode
<1> USE DEF HandlesInv
<1>1. uip_conn \in Slots /\ stage \in uip_flags
  BY DEF Types, CallTypes, CallShape
<1>2. IsOpen(uip_conn)
  BY <1>1 DEF CallShape, Steady, Closing, Gone, Broken
<1>3. \A c \in Slots : IsOpen(c) => "closed" \notin app[c].mode
  BY DEF EndsKept
<1>4. app[uip_conn].link # NoLink => app[uip_conn].id \in handles[app[uip_conn].link]
  BY <1>1, <1>2, <1>3 DEF HandlesAgree, OpenIsHeld, Starting, IsOpen
<1> QED BY <1>1, <1>2, <1>3, <1>4

\* Such a stage is passed, its event taken or not raised at all.
LEMMA HandlesPass ==
  ASSUME HandlesInv, Types', NoAborts', ConnsStay, AppsStay, UNCHANGED <<uip_conn, uip_flags, after, handles>>,
         stage \in {"data", "acked", "rexmit", "poll"}, waiting' = NoLink, stage' = NextStage(uip_flags, stage)
  PROVE  HandlesInv'
<1> USE DEF HandlesInv
<1>1. /\ uip_conn \in Slots /\ IsOpen(uip_conn) /\ stage \in uip_flags
      /\ \A c \in Slots : IsOpen(c) => "closed" \notin app[c].mode
  BY BetweenFacts
<1>2. uip_flags \subseteq Stages /\ stage \in Stages /\ "none" \notin Stages
  BY DEF Types, CallTypes, Stages
<1>3. /\ stage' \in uip_flags \cup {"return"} /\ stage' # "connected" /\ stage' # "none"
      /\ ("closed" \in uip_flags => stage' # "return")
  <2>1. /\ stage' \in uip_flags \cup {"return"} /\ stage' # "connected"
        /\ "closed" \in uip_flags /\ stage # "closed" => stage' # "return"
    BY <1>2, LaterStage
  <2> QED BY <1>2, <2>1
<1>4. \A s \in Slots : /\ conns'[s].state = conns[s].state /\ app'[s].id = app[s].id /\ app'[s].link = app[s].link
                       /\ ("closed" \in app'[s].mode <=> "closed" \in app[s].mode)
  BY DEF ConnsStay, AppsStay
<1>5. Steady \/ Closing
  BY <1>1 DEF CallShape, Gone, Broken, Types, CallTypes
<1>6. CallShape'
  BY <1>1, <1>3, <1>4, <1>5 DEF CallShape, Steady, Closing, IsOpen
<1>7. EndsKept'
  BY <1>1, <1>3, <1>4 DEF EndsKept, IsOpen
<1>8. StartsNew' /\ EventsInOrder'
  BY <1>3 DEF StartsNew, EventsInOrder
<1>9. UniqueIds'
  BY <1>4 DEF HandlesAgree, UniqueIds
<1>10. OpenIsHeld'
  BY <1>1, <1>4 DEF HandlesAgree, OpenIsHeld, Starting, IsOpen
<1>11. HeldIsOpen'
  BY <1>1, <1>4 DEF HandlesAgree, HeldIsOpen, Ending, Final, IsOpen
<1> QED BY <1>6, <1>7, <1>8, <1>9, <1>10, <1>11 DEF HandlesAgree

\* An event is raised for the client of the connection.
LEMMA HandlesWait ==
  ASSUME HandlesInv, Types', NoAborts', ConnsStay, AppsStay, UNCHANGED <<uip_conn, uip_flags, after, handles, stage>>,
         stage \in {"data", "acked", "rexmit", "poll", "abort", "timedout"}, waiting = NoLink,
         waiting' = app[uip_conn].link, waiting' # NoLink
  PROVE  HandlesInv'
<1> USE DEF HandlesInv
<1>1. uip_conn \in Slots /\ stage \in uip_flags
  BY DEF Types, CallTypes, CallShape
<1>2. \A s \in Slots : /\ conns'[s].state = conns[s].state /\ app'[s].id = app[s].id /\ app'[s].link = app[s].link
                       /\ ("closed" \in app'[s].mode <=> "closed" \in app[s].mode)
  BY DEF ConnsStay, AppsStay
<1>3. Steady \/ Closing \/ Broken
  BY <1>1 DEF CallShape, Gone
<1>4. CallShape'
  BY <1>1, <1>2, <1>3 DEF CallShape, Steady, Closing, Broken, IsOpen
<1>5. EndsKept'
  BY <1>1, <1>2 DEF EndsKept, IsOpen, Held
<1>6. StartsNew'
  BY DEF StartsNew
<1>7. EventsInOrder'
  BY <1>1, <1>2, BetweenFacts DEF EventsInOrder
<1>8. UniqueIds'
  BY <1>2 DEF HandlesAgree, UniqueIds
<1>9. OpenIsHeld'
  BY <1>1, <1>2 DEF HandlesAgree, OpenIsHeld, Starting
<1>10. HeldIsOpen'
  BY <1>1, <1>2 DEF HandlesAgree, HeldIsOpen, Ending
<1> QED BY <1>4, <1>5, <1>6, <1>7, <1>8, <1>9, <1>10 DEF HandlesAgree

\* The end of a lost connection: its handle is taken from its client, if it has one.
LEMMA HandlesLost ==
  ASSUME HandlesInv, Types', NoAborts', ConnsStay, AppsStay, UNCHANGED <<uip_conn, uip_flags, after>>,
         stage \in {"abort", "timedout"}, waiting' = NoLink, stage' = NextStage(uip_flags, stage),
         \/ app[uip_conn].link = NoLink /\ UNCHANGED handles
         \/ /\ app[uip_conn].link \in Links
            /\ handles' = [handles EXCEPT ![app[uip_conn].link] = @ \ {app[uip_conn].id}]
  PROVE  HandlesInv'
<1> USE DEF HandlesInv
<1> DEFINE u == uip_conn
           w == app[u].link
<1>1. u \in Slots /\ stage \in uip_flags
  BY DEF Types, CallTypes, CallShape
<1>2. Broken
  BY <1>1 DEF CallShape, Steady, Closing, Gone
<1>3. uip_flags = {stage} /\ stage \in Stages
  BY <1>1, <1>2 DEF Broken, Stages
<1>4. stage' = "return"
  BY <1>3, LaterStage DEF Types, CallTypes
<1>5. \A s \in Slots : /\ conns'[s].state = conns[s].state /\ app'[s].id = app[s].id /\ app'[s].link = app[s].link
                       /\ ("closed" \in app'[s].mode <=> "closed" \in app[s].mode)
  BY DEF ConnsStay, AppsStay
<1>6. ~IsOpen(u)
  BY <1>2 DEF Broken
<1>7. /\ handles' \in [Links -> SUBSET Guids]
      /\ \A l \in Links : handles'[l] \subseteq handles[l] /\ (l # w => handles'[l] = handles[l])
      /\ w \in Links => handles'[w] = handles[w] \ {app[u].id}
  <2> HIDE DEF u, w
  <2>1. CASE w = NoLink /\ handles' = handles
    BY <2>1, NoneOut
  <2>2. CASE w \in Links /\ handles' = [handles EXCEPT ![w] = @ \ {app[u].id}]
    BY <2>2
  <2> QED BY <2>1, <2>2 DEF u, w
<1> HIDE DEF w
<1>8. CallShape'
  BY <1>1, <1>2, <1>4, <1>5 DEF CallShape, Broken, IsOpen
<1>9. EndsKept'
  BY <1>1, <1>2, <1>4, <1>5 DEF EndsKept, IsOpen, Broken
<1>10. StartsNew' /\ EventsInOrder' /\ UniqueIds'
  BY <1>4, <1>5 DEF StartsNew, EventsInOrder, HandlesAgree, UniqueIds
<1>11. OpenIsHeld'
  <2> SUFFICES ASSUME NEW c \in Slots, IsOpen(c), app[c].link # NoLink
               PROVE  app[c].id \in handles'[app[c].link]
    BY <1>5 DEF OpenIsHeld, IsOpen
  <2>1. c # u /\ app[c].link \in Links
    BY <1>6 DEF Types, AppRec
  <2>2. app[c].id \in handles[app[c].link]
    BY <2>1 DEF HandlesAgree, OpenIsHeld, Starting, IsOpen
  <2>3. app[c].id # 0
    BY <2>1, <2>2 DEF Guids
  <2>4. app[c].id # app[u].id
    BY <1>1, <2>1, <2>3 DEF HandlesAgree, UniqueIds
  <2> QED BY <1>7, <2>1, <2>2, <2>4
<1>12. HeldIsOpen'
  <2> SUFFICES ASSUME NEW l \in Links, NEW i \in handles'[l]
               PROVE  \E c \in Slots : app[c].id = i /\ app[c].link = l /\ conns[c].state = "ESTABLISHED"
    BY <1>5 DEF HeldIsOpen
  <2>1. PICK c \in Slots : app[c].id = i /\ app[c].link = l /\ (conns[c].state = "ESTABLISHED" \/ Ending(c))
    BY <1>7 DEF HandlesAgree, HeldIsOpen
  <2>2. c # u
    BY <1>7, <2>1 DEF w
  <2> QED BY <2>1, <2>2 DEF Ending
<1> QED BY <1>7, <1>8, <1>9, <1>10, <1>11, <1>12 DEF HandlesAgree

LEMMA HandlesConnected ==
  ASSUME HandlesInv, Types', Connected
  PROVE  HandlesInv'
<1> USE DEF HandlesInv
<1> DEFINE u == uip_conn
<1>1. /\ stage = "connected" /\ waiting = NoLink /\ u \in Slots
      /\ uip_conn' = u /\ uip_flags' = uip_flags /\ after' = after /\ conns' = conns /\ handles' = handles
      /\ \A s \in Slots : s # u => app'[s] = app[s]
      /\ app'[u].id = FreeGuid(u) /\ app'[u].req = {} /\ app'[u].mode = {} /\ Raise(app'[u].link)
  BY ConnectedStep DEF clients
<1>2. FreeGuid(u) \in Guids /\ \A d \in Slots : d # u => app[d].id # FreeGuid(u)
  BY <1>1, FreeGuidIs
<1>3. \A l \in Links : \A i \in handles[l] : \E c \in Slots :
        c # u /\ app[c].id = i /\ app[c].link = l /\ IsOpen(c)
  <2> SUFFICES ASSUME NEW l \in Links, NEW i \in handles[l]
               PROVE  \E c \in Slots : c # u /\ app[c].id = i /\ app[c].link = l /\ IsOpen(c)
    OBVIOUS
  <2>1. PICK c \in Slots : app[c].id = i /\ app[c].link = l /\ (IsOpen(c) \/ Ending(c))
    BY DEF HandlesAgree, HeldIsOpen, IsOpen
  <2>2. i # app[u].id
    BY <1>1 DEF StartsNew, Held
  <2> QED BY <1>1, <2>1, <2>2 DEF Ending, Final
<1>4. ~Held(FreeGuid(u))
  BY <1>2, <1>3 DEF Held
<1>5. Steady /\ stage \in uip_flags
  BY <1>1 DEF CallShape, Closing, Gone, Broken
<1>6. "closed" \notin uip_flags
  BY <1>5 DEF Steady
<1>7. /\ stage' \in uip_flags \cup {"return"} /\ stage' # "none"
      /\ waiting' = app'[u].link
      /\ waiting' # NoLink => stage' = "connected"
      /\ waiting' = NoLink => stage' # "connected"
  <2>1. uip_flags \subseteq Stages /\ stage \in Stages /\ "none" \notin Stages
    BY <1>1 DEF Types, CallTypes, Stages
  <2>2. NextStage(uip_flags, stage) \in uip_flags \cup {"return"} /\ NextStage(uip_flags, stage) # "connected"
    BY <2>1, LaterStage
  <2> QED BY <1>1, <1>5, <2>1, <2>2 DEF Raise
<1>8. NoAborts'
  BY <1>1 DEF NoAborts
<1>9. CallShape'
  BY <1>1, <1>5, <1>7 DEF CallShape, Steady, IsOpen
<1>10. EndsKept'
  <2>1. \A c \in Slots : conns'[c].state \in Left => "closed" \in app'[c].mode
    BY <1>1, <1>5 DEF EndsKept, Steady, IsOpen, Left
  <2>2. \A c \in Slots : IsOpen(c)' => "closed" \notin app'[c].mode
    BY <1>1 DEF EndsKept, IsOpen
  <2>3. stage' # "closed" \/ waiting' = NoLink
    BY <1>7
  <2> QED BY <1>1, <1>6, <2>1, <2>2, <2>3 DEF EndsKept
<1>11. Held(app[uip_conn].id)' <=> Held(FreeGuid(u))
  BY <1>1 DEF Held
<1>12. StartsNew'
  BY <1>1, <1>2, <1>4, <1>11 DEF StartsNew, Held
<1>13. EventsInOrder'
  BY <1>1, <1>4, <1>7 DEF EventsInOrder, Held
<1>14. UniqueIds'
  BY <1>1, <1>2 DEF HandlesAgree, UniqueIds
<1>15. OpenIsHeld'
  <2> SUFFICES ASSUME NEW c \in Slots, IsOpen(c), app'[c].link # NoLink, ~(u = c /\ stage' = "connected")
               PROVE  app'[c].id \in handles[app'[c].link]
    BY <1>1 DEF OpenIsHeld, IsOpen, Starting
  <2>1. c # u
    BY <1>7
  <2> QED BY <1>1, <2>1 DEF HandlesAgree, OpenIsHeld, Starting, IsOpen
<1>16. HeldIsOpen'
  BY <1>1, <1>3 DEF HeldIsOpen, IsOpen
<1> QED BY <1>1, <1>8, <1>9, <1>10, <1>12, <1>13, <1>14, <1>15, <1>16 DEF HandlesAgree

LEMMA HandlesClosed ==
  ASSUME HandlesInv, Types', Closed
  PROVE  HandlesInv'
<1> USE DEF HandlesInv
<1> DEFINE u == uip_conn
<1>1. /\ stage = "closed" /\ waiting = NoLink /\ u \in Slots
      /\ uip_conn' = u /\ uip_flags' = uip_flags /\ after' = after /\ conns' = conns /\ handles' = handles
  BY ClosedStep DEF clients
<1>2. "closed" \in uip_flags
  BY <1>1 DEF CallShape
<1>3. Closing \/ Gone
  BY <1>1, <1>2 DEF CallShape, Steady, Broken
<1>4. \A c \in Slots : IsOpen(c) => "closed" \notin app[c].mode
  BY <1>1 DEF EndsKept
<1>5. CASE "closed" \in app[u].mode
  <2>1. stage' = "return" /\ app' = app /\ waiting' = NoLink
    BY <1>1, <1>5, ClosedStep
  <2>2. Gone
    BY <1>1, <1>3, <1>4, <1>5 DEF Closing
  <2>3. NoAborts' /\ StartsNew' /\ EventsInOrder' /\ UniqueIds'
    BY <2>1 DEF NoAborts, StartsNew, EventsInOrder, HandlesAgree, UniqueIds
  <2>4. CallShape'
    BY <1>1, <2>1, <2>2 DEF CallShape, Gone, IsOpen, Held
  <2>5. EndsKept'
    BY <1>1, <1>4, <2>1, <2>2 DEF EndsKept, Gone, IsOpen, Held
  <2>6. OpenIsHeld'
    BY <1>1, <1>4, <2>1 DEF HandlesAgree, OpenIsHeld, Starting, IsOpen
  <2>7. HeldIsOpen'
    BY <1>1, <2>1, <2>2 DEF HandlesAgree, HeldIsOpen, Ending, Gone, Held
  <2> QED BY <1>1, <2>3, <2>4, <2>5, <2>6, <2>7 DEF HandlesAgree
<1>6. CASE "closed" \notin app[u].mode
  <2>1. /\ Raise(app[u].link) /\ Alike(app', app) /\ "closed" \in app'[u].mode
        /\ \A s \in Slots : app'[s].req = app[s].req /\ (s # u => app'[s].mode = app[s].mode)
    BY <1>6, ClosedStep
  <2>2. \A s \in Slots : app'[s].id = app[s].id /\ app'[s].link = app[s].link
    BY <2>1 DEF Alike
  <2>3. Closing
    BY <1>3, <1>6 DEF Gone
  <2>4. uip_flags \subseteq Stages /\ stage \in Stages
    BY <1>1 DEF Types, CallTypes, Stages
  <2>5. NextStage(uip_flags, stage) = "return"
    BY <1>1, <2>4, LaterStage
  <2>6. /\ waiting' = app[u].link
        /\ waiting' # NoLink => stage' = "closed"
        /\ waiting' = NoLink => stage' = "return"
    BY <1>1, <2>1, <2>5 DEF Raise
  <2>7. app[u].link # NoLink => app[u].id \in handles[app[u].link]
    BY <1>1, <1>6, <2>3 DEF HandlesAgree, OpenIsHeld, Starting, Closing, IsOpen
  <2>8. ASSUME app[u].link = NoLink
        PROVE  ~Held(app[u].id)
    <3> SUFFICES ASSUME NEW l \in Links, app[u].id \in handles[l]
                 PROVE  FALSE
      BY DEF Held
    <3>1. PICK c \in Slots : app[c].id = app[u].id /\ app[c].link = l
      BY DEF HandlesAgree, HeldIsOpen
    <3>2. app[u].id # 0
      BY DEF Guids
    <3>3. c = u
      BY <1>1, <3>1, <3>2 DEF HandlesAgree, UniqueIds
    <3> QED BY <2>8, <3>1, <3>3, NoneOut
  <2>9. NoAborts' /\ StartsNew' /\ UniqueIds'
    BY <2>1, <2>2, <2>6 DEF NoAborts, StartsNew, HandlesAgree, UniqueIds
  <2>10. EventsInOrder'
    BY <1>1, <2>2, <2>6, <2>7 DEF EventsInOrder
  <2>11. CallShape'
    BY <1>1, <1>2, <2>2, <2>3, <2>6 DEF CallShape, Closing, IsOpen
  <2>12. EndsKept'
    <3>1. \A c \in Slots : conns'[c].state \in Left => "closed" \in app'[c].mode
      BY <1>1, <2>1 DEF EndsKept
    <3>2. ASSUME NEW c \in Slots, IsOpen(c)', "closed" \in app'[c].mode
          PROVE  c = u
      BY <1>1, <1>4, <2>1, <3>2 DEF IsOpen
    <3>3. stage' = "return" => ~Held(app[uip_conn].id)'
      <4>1. Held(app[uip_conn].id)' <=> Held(app[u].id)
        BY <1>1, <2>2 DEF Held
      <4> QED BY <2>6, <2>8, <4>1
    <3> QED BY <1>1, <1>2, <2>1, <2>6, <3>1, <3>2, <3>3 DEF EndsKept, Held
  <2>13. OpenIsHeld'
    BY <1>1, <1>4, <2>1, <2>2 DEF HandlesAgree, OpenIsHeld, Starting, IsOpen
  <2>14. HeldIsOpen'
    BY <1>1, <2>2, <2>3 DEF HandlesAgree, HeldIsOpen, Ending, Closing, IsOpen
  <2> QED BY <1>1, <2>9, <2>10, <2>11, <2>12, <2>13, <2>14 DEF HandlesAgree
<1> QED BY <1>5, <1>6

LEMMA HandlesDeliver ==
  ASSUME HandlesInv, Types', NEW n, Deliver(n)
  PROVE  HandlesInv'
<1> USE DEF HandlesInv
<1> DEFINE u == uip_conn
           w == app[u].link
<1>1. /\ ConnsStay /\ AppsStay /\ UNCHANGED <<uip_conn, uip_flags, after>> /\ u \in Slots
      /\ waiting # NoLink /\ waiting' = NoLink /\ stage \in Stages /\ stage' = NextStage(uip_flags, stage)
      /\ \A s \in Slots : app'[s].req = app[s].req
  BY DeliverStep
<1>2. NoAborts'
  BY <1>1 DEF NoAborts
<1>3. waiting = w /\ w \in Links
  BY <1>1 DEF CallShape, Types, CallTypes
<1>4. DeliveryLink = w
  BY <1>3 DEF DeliveryLink
<1>5. handles' = [handles EXCEPT ![w] = IF stage = "connected" THEN @ \cup {app[u].id}
                                        ELSE IF stage \in Final THEN @ \ {app[u].id} ELSE @]
  BY <1>4 DEF Deliver
<1>6. stage \in uip_flags /\ uip_flags \subseteq Stages /\ stage # "none" /\ stage # "return" /\ "none" \notin Stages
  BY <1>1 DEF CallShape, Types, CallTypes, Stages
<1>7. \A s \in Slots : /\ conns'[s].state = conns[s].state /\ app'[s].id = app[s].id /\ app'[s].link = app[s].link
                       /\ ("closed" \in app'[s].mode <=> "closed" \in app[s].mode)
  BY <1>1 DEF ConnsStay, AppsStay
<1>8. CASE stage \in {"data", "acked", "rexmit", "poll"}
  <2>1. stage # "connected" /\ stage \notin Final
    BY <1>8 DEF Final
  <2>2. handles' = handles
    BY <1>3, <1>5, <2>1
  <2> QED BY <1>1, <1>2, <1>8, <2>2, HandlesPass
<1>9. CASE stage \in {"abort", "timedout"}
  <2>1. stage # "connected" /\ stage \in Final
    BY <1>9 DEF Final
  <2>2. handles' = [handles EXCEPT ![w] = @ \ {app[u].id}]
    BY <1>5, <2>1
  <2> QED BY <1>1, <1>2, <1>3, <1>9, <2>2, HandlesLost
<1>10. CASE stage = "connected"
  <2>1. handles' = [handles EXCEPT ![w] = @ \cup {app[u].id}]
    BY <1>5, <1>10
  <2>2. app[u].id \in Guids
    BY <1>1, <1>10 DEF StartsNew
  <2> HIDE DEF w, u
  <2>3. /\ handles' \in [Links -> SUBSET Guids] /\ handles'[w] = handles[w] \cup {app[u].id}
        /\ \A l \in Links : handles[l] \subseteq handles'[l] /\ (l # w => handles'[l] = handles[l])
    BY <1>3, <2>1, <2>2
  <2> USE DEF u
  <2>4. Steady
    BY <1>6, <1>10 DEF CallShape, Closing, Gone, Broken
  <2>5. stage' \in uip_flags \cup {"return"} /\ stage' # "connected"
    BY <1>1, <1>6, LaterStage
  <2>6. "closed" \notin uip_flags /\ stage' # "none" /\ stage' # "closed"
    BY <1>6, <2>4, <2>5 DEF Steady
  <2>7. CallShape'
    BY <1>1, <1>7, <2>4, <2>5, <2>6 DEF CallShape, Steady, IsOpen
  <2>8. \A c \in Slots : IsOpen(c) => "closed" \notin app[c].mode
    BY <1>1, <1>10 DEF EndsKept
  <2>9. EndsKept'
    BY <1>1, <1>7, <2>6, <2>8 DEF EndsKept, IsOpen
  <2>10. StartsNew' /\ EventsInOrder' /\ UniqueIds'
    BY <1>1, <1>7, <2>5 DEF StartsNew, EventsInOrder, HandlesAgree, UniqueIds
  <2>11. OpenIsHeld'
    <3> SUFFICES ASSUME NEW c \in Slots, IsOpen(c), app[c].link # NoLink
                 PROVE  app[c].id \in handles'[app[c].link]
      BY <1>7 DEF OpenIsHeld, IsOpen
    <3>1. CASE c = u
      BY <2>3, <3>1 DEF w
    <3>2. CASE c # u
      <4>1. app[c].link \in Links
        BY DEF Types, AppRec
      <4>2. app[c].id \in handles[app[c].link]
        BY <3>2 DEF HandlesAgree, OpenIsHeld, Starting, IsOpen
      <4> QED BY <2>3, <4>1, <4>2
    <3> QED BY <3>1, <3>2
  <2>12. HeldIsOpen'
    <3> SUFFICES ASSUME NEW l \in Links, NEW i \in handles'[l]
                 PROVE  \E c \in Slots : app[c].id = i /\ app[c].link = l /\ IsOpen(c)
      BY <1>7 DEF HeldIsOpen, IsOpen
    <3>1. CASE i \in handles[l]
      <4>1. PICK c \in Slots : app[c].id = i /\ app[c].link = l /\ (IsOpen(c) \/ Ending(c))
        BY <3>1 DEF HandlesAgree, HeldIsOpen, IsOpen
      <4> QED BY <1>10, <4>1 DEF Ending, Final
    <3>2. CASE i \notin handles[l]
      <4>1. l = w /\ i = app[u].id
        BY <2>3, <3>2
      <4> QED BY <1>1, <2>4, <4>1 DEF w, Steady
    <3> QED BY <3>1, <3>2
  <2> QED BY <1>2, <2>3, <2>7, <2>9, <2>10, <2>11, <2>12 DEF HandlesAgree
<1>11. CASE stage = "closed"
  <2>1. stage # "connected" /\ stage \in Final
    BY <1>11 DEF Final
  <2>2. handles' = [handles EXCEPT ![w] = @ \ {app[u].id}]
    BY <1>5, <2>1
  <2> HIDE DEF w, u
  <2>3. /\ handles' \in [Links -> SUBSET Guids] /\ handles'[w] = handles[w] \ {app[u].id}
        /\ \A l \in Links : handles'[l] \subseteq handles[l] /\ (l # w => handles'[l] = handles[l])
    BY <1>3, <2>2
  <2> USE DEF u
  <2>4. Closing
    BY <1>1, <1>6, <1>11 DEF CallShape, Steady, Gone, Broken
  <2>5. stage' = "return"
    BY <1>1, <1>6, <1>11, LaterStage
  <2>6. "closed" \in app[u].mode
    BY <1>1, <1>11 DEF EndsKept
  <2>7. CallShape'
    BY <1>1, <1>7, <2>4, <2>5 DEF CallShape, Closing, IsOpen
  <2>8. ASSUME NEW l \in Links, app[u].id \in handles'[l]
        PROVE  FALSE
    <3>1. app[u].id \in handles[l] /\ l # w
      BY <2>3, <2>8
    <3>2. PICK c \in Slots : app[c].id = app[u].id /\ app[c].link = l
      BY <3>1 DEF HandlesAgree, HeldIsOpen
    <3>3. app[u].id # 0
      BY <3>1 DEF Guids
    <3>4. c = u
      BY <1>1, <3>2, <3>3 DEF HandlesAgree, UniqueIds
    <3> QED BY <3>1, <3>2, <3>4 DEF w
  <2>9. EndsKept'
    <3>1. \A c \in Slots : conns'[c].state \in Left => "closed" \in app'[c].mode
      BY <1>7 DEF EndsKept
    <3>2. ASSUME NEW c \in Slots, IsOpen(c)', "closed" \in app'[c].mode
          PROVE  c = u
      BY <1>7, <3>2 DEF EndsKept, IsOpen
    <3>3. ~Held(app[uip_conn].id)'
      BY <1>1, <1>7, <2>8 DEF Held
    <3> QED BY <1>1, <1>6, <1>7, <1>11, <2>5, <2>6, <3>1, <3>2, <3>3 DEF EndsKept
  <2>10. StartsNew' /\ EventsInOrder' /\ UniqueIds'
    BY <1>1, <1>7, <2>5 DEF StartsNew, EventsInOrder, HandlesAgree, UniqueIds
  <2>11. OpenIsHeld'
    <3> SUFFICES ASSUME NEW c \in Slots, IsOpen(c), app[c].link # NoLink, c # u
                 PROVE  app[c].id \in handles'[app[c].link]
      BY <1>1, <1>7, <2>6 DEF OpenIsHeld, IsOpen
    <3>1. app[c].link \in Links
      BY DEF Types, AppRec
    <3>2. app[c].id \in handles[app[c].link]
      BY DEF HandlesAgree, OpenIsHeld, Starting, IsOpen
    <3>3. app[c].id # 0
      BY <3>1, <3>2 DEF Guids
    <3>4. app[c].id # app[u].id
      BY <1>1, <3>3 DEF HandlesAgree, UniqueIds
    <3> QED BY <2>3, <3>1, <3>2, <3>4
  <2>12. HeldIsOpen'
    <3> SUFFICES ASSUME NEW l \in Links, NEW i \in handles'[l]
                 PROVE  \E c \in Slots : app[c].id = i /\ app[c].link = l /\ IsOpen(c)
      BY <1>7 DEF HeldIsOpen, IsOpen
    <3>1. i \in handles[l]
      BY <2>3
    <3>2. PICK c \in Slots : app[c].id = i /\ app[c].link = l /\ (IsOpen(c) \/ Ending(c))
      BY <3>1 DEF HandlesAgree, HeldIsOpen, IsOpen
    <3> QED BY <2>4, <3>2 DEF Ending, Closing
  <2> QED BY <1>2, <2>3, <2>7, <2>9, <2>10, <2>11, <2>12 DEF HandlesAgree
<1> QED BY <1>1, <1>8, <1>9, <1>10, <1>11 DEF Stages

LEMMA HandlesReturn ==
  ASSUME HandlesInv, Types', Return
  PROVE  HandlesInv'
<1> USE DEF HandlesInv
<1> DEFINE u == uip_conn
           k == AfterCall(conns[u])
<1>1. /\ stage = "return" /\ u \in Slots /\ app' = app /\ handles' = handles /\ waiting' = waiting
      /\ stage' = "none" /\ uip_conn' = NoSlot /\ k \in ConnRec /\ conns' = [conns EXCEPT ![u] = k]
  BY ReturnStep DEF clients
<1>2. waiting = NoLink
  BY <1>1 DEF Types, CallTypes, Stages
<1>3. /\ \/ after = "appsend" /\ "abort" \in uip_flags /\ k.state = "CLOSED"
         \/ after = "appsend" /\ "closed" \in uip_flags /\ k.state = "FIN_WAIT_1"
         \/ after = "appsend" /\ uip_flags \cap {"abort", "closed"} = {} /\ k.state = conns[u].state
         \/ after = "close" /\ k.state = "CLOSED"
         \/ after = "finack" /\ k.state = "LAST_ACK"
         \/ after \notin {"appsend", "close", "finack"} /\ k = conns[u]
  <2>1. conns[u] \in ConnRec /\ ("abort" \in uip_flags => "closed" \notin uip_flags)
    BY <1>1 DEF Types, CallTypes
  <2> QED BY <2>1, AfterCallRecord
<1> HIDE DEF k
<1>4. conns'[u] = k /\ \A s \in Slots : s # u => conns'[s] = conns[s]
  BY <1>1 DEF Types
<1>5. "closed" \in uip_flags => "closed" \in app[u].mode /\ ~Held(app[u].id)
  BY <1>1 DEF EndsKept
<1>6. Steady \/ Closing \/ Gone \/ Broken
  BY <1>1 DEF CallShape
<1>7. \/ k.state = "ESTABLISHED" /\ IsOpen(u) /\ "closed" \notin uip_flags
      \/ k.state \notin {"ESTABLISHED"} /\ ~Held(app[u].id) /\ "closed" \in app[u].mode
      \/ k.state \notin {"ESTABLISHED"} /\ ~IsOpen(u) /\ (k.state = "CLOSED" \/ k = conns[u])
  <2>1. CASE Steady
    <3>1. IsOpen(u) /\ "closed" \notin uip_flags /\ "abort" \notin uip_flags /\ after \in {"appsend", "drop"}
      BY <2>1 DEF Steady
    <3> QED BY <1>3, <3>1 DEF IsOpen
  <2>2. CASE Closing
    <3>1. "closed" \in uip_flags /\ "abort" \notin uip_flags /\ after \in {"appsend", "finack"}
      BY <2>2 DEF Closing
    <3> QED BY <1>3, <1>5, <3>1
  <2>3. CASE Gone
    BY <1>3, <2>3 DEF Gone, IsOpen
  <2>4. CASE Broken
    BY <1>3, <2>4 DEF Broken, IsOpen
  <2> QED BY <1>6, <2>1, <2>2, <2>3, <2>4
<1>8. \A c \in Slots : IsOpen(c) /\ "closed" \in app[c].mode => c = u /\ "closed" \in uip_flags
  BY <1>1 DEF EndsKept
<1>9. NoAborts' /\ CallShape' /\ StartsNew' /\ EventsInOrder' /\ UniqueIds'
  BY <1>1, <1>2 DEF NoAborts, CallShape, StartsNew, EventsInOrder, HandlesAgree, UniqueIds
<1>10. EndsKept'
  <2>1. \A c \in Slots : conns'[c].state \in Left => "closed" \in app'[c].mode
    BY <1>1, <1>4, <1>7 DEF EndsKept, Left
  <2>2. \A c \in Slots : IsOpen(c)' => "closed" \notin app'[c].mode
    BY <1>1, <1>4, <1>7, <1>8 DEF IsOpen
  <2> QED BY <1>1, <2>1, <2>2 DEF EndsKept
<1>11. OpenIsHeld'
  <2> SUFFICES ASSUME NEW c \in Slots, IsOpen(c), app[c].link # NoLink, "closed" \notin app[c].mode
               PROVE  app[c].id \in handles[app[c].link]
    BY <1>1, <1>4, <1>7, <1>8 DEF OpenIsHeld, IsOpen
  <2> QED BY <1>1 DEF HandlesAgree, OpenIsHeld, Starting, IsOpen
<1>12. HeldIsOpen'
  <2> SUFFICES ASSUME NEW l \in Links, NEW i \in handles[l]
               PROVE  \E c \in Slots : app[c].id = i /\ app[c].link = l /\ IsOpen(c)'
    BY <1>1 DEF HeldIsOpen, IsOpen
  <2>1. PICK c \in Slots : app[c].id = i /\ app[c].link = l /\ IsOpen(c)
    BY <1>1 DEF HandlesAgree, HeldIsOpen, IsOpen, Ending, Final
  <2>2. IsOpen(c)'
    BY <1>4, <1>7, <2>1 DEF IsOpen, Held
  <2> QED BY <2>1, <2>2
<1> QED BY <1>1, <1>9, <1>10, <1>11, <1>12 DEF HandlesAgree

\* The client's xtcp_close turns the poll into a closing.
LEMMA HandlesPollClose ==
  ASSUME HandlesInv, Types', NoAborts', ConnsStay, AppsStay, UNCHANGED <<uip_conn, after, handles>>,
         stage = "poll", waiting = NoLink, PollClose
  PROVE  HandlesInv'
<1> USE DEF HandlesInv
<1>1. /\ uip_conn \in Slots /\ IsOpen(uip_conn) /\ stage \in uip_flags
      /\ \A c \in Slots : IsOpen(c) => "closed" \notin app[c].mode
  BY BetweenFacts
<1>2. uip_flags' = {"closed"} /\ waiting' = NoLink /\ stage' = NextStage({"closed"}, stage)
  BY DEF PollClose
<1>3. {"closed"} \subseteq Stages /\ stage \in Stages
  BY DEF Stages
<1>4. stage' = "closed"
  <2>1. stage' \in {"closed"} \cup {"return"} /\ stage' # "return"
    BY <1>2, <1>3, LaterStage
  <2> QED BY <2>1
<1>5. \A s \in Slots : /\ conns'[s].state = conns[s].state /\ app'[s].id = app[s].id /\ app'[s].link = app[s].link
                       /\ ("closed" \in app'[s].mode <=> "closed" \in app[s].mode)
  BY DEF ConnsStay, AppsStay
<1>6. after = "appsend"
  BY <1>1 DEF CallShape, Steady, Closing, Gone, Broken
<1>7. CallShape'
  BY <1>1, <1>2, <1>4, <1>5, <1>6 DEF CallShape, Closing, IsOpen
<1>8. EndsKept'
  BY <1>1, <1>2, <1>4, <1>5 DEF EndsKept, IsOpen
<1>9. StartsNew' /\ EventsInOrder' /\ UniqueIds'
  BY <1>2, <1>4, <1>5 DEF StartsNew, EventsInOrder, HandlesAgree, UniqueIds
<1>10. OpenIsHeld'
  BY <1>1, <1>5 DEF HandlesAgree, OpenIsHeld, Starting, IsOpen
<1>11. HeldIsOpen'
  BY <1>1, <1>5 DEF HandlesAgree, HeldIsOpen, Ending, Final, IsOpen
<1> QED BY <1>7, <1>8, <1>9, <1>10, <1>11 DEF HandlesAgree

LEMMA HandlesStep ==
  ASSUME "abort" \notin Cmds, Connectors = {} \/ NumClients = 1, HandlesInv, [Next]_vars
  PROVE  HandlesInv'
<1>1. Types /\ NoAborts
  BY DEF HandlesInv
<1>2. Types'
  BY <1>1, TypesStep
<1>3. ASSUME UNCHANGED <<conns, app>>
      PROVE  ConnsStay /\ AppsStay /\ NoAborts'
  BY <1>1, <1>3 DEF ConnsStay, AppsStay, NoAborts, Types
<1>4. CASE UNCHANGED vars
  BY <1>2, <1>3, <1>4, HandlesStay DEF vars, clients
<1>5. ASSUME NEW l \in Links, NEW p \in Ports, Listen(l, p) \/ Unlisten(l, p)
      PROVE  HandlesInv'
  <2>1. UNCHANGED <<conns, app, callVars, handles>>
    BY <1>5 DEF Listen, Unlisten
  <2> QED BY <1>2, <1>3, <2>1, HandlesStay
<1>6. ASSUME NEW l \in Links, NEW i \in Guids, Command(l, i)
      PROVE  HandlesInv'
  <2>1. /\ ConnsStay /\ AppsStay /\ UNCHANGED <<tables, callVars, clients>>
        /\ \A s \in Slots : app'[s].req \subseteq app[s].req \cup Asked
    BY <1>1, <1>6, CommandStep
  <2>2. NoAborts'
    BY <1>1, <2>1 DEF NoAborts, Asked
  <2> QED BY <1>2, <2>1, <2>2, HandlesStay DEF clients
<1>7. ASSUME ConnsStay, AppsStay, NoAborts', UNCHANGED <<uip_conn, uip_flags, after, handles>>, waiting = NoLink,
             stage \in {"data", "acked", "rexmit", "poll", "abort", "timedout"}, uip_conn \in Slots,
             Raise(app[uip_conn].link)
      PROVE  HandlesInv'
  <2>1. CASE app[uip_conn].link # NoLink
    <3>1. waiting' = app[uip_conn].link /\ UNCHANGED stage
      BY <1>7, <2>1 DEF Raise
    <3> QED BY <1>2, <1>7, <2>1, <3>1, HandlesWait
  <2>2. CASE app[uip_conn].link = NoLink
    <3>1. waiting' = NoLink /\ stage' = NextStage(uip_flags, stage)
      BY <1>7, <2>2 DEF Raise
    <3>2. CASE stage \in {"data", "acked", "rexmit", "poll"}
      BY <1>2, <1>7, <3>1, <3>2, HandlesPass
    <3>3. CASE stage \in {"abort", "timedout"}
      BY <1>2, <1>7, <2>2, <3>1, <3>3, HandlesLost
    <3> QED BY <1>7, <3>2, <3>3
  <2> QED BY <2>1, <2>2
<1>8. CASE Event
  <2>1. /\ stage \in {"data", "abort", "timedout", "acked", "rexmit"} /\ waiting = NoLink /\ uip_conn \in Slots
        /\ Raise(app[uip_conn].link)
        /\ UNCHANGED <<conns, app, tables, uip_conn, uip_flags, uip_slen, after, clients>>
    BY <1>1, <1>8, EventStep
  <2> QED BY <1>3, <1>7, <2>1 DEF clients
<1>9. CASE PollAbort \/ PollClose \/ PollSend \/ PollNone
  <2>1. /\ ConnsStay /\ AppsStay /\ UNCHANGED <<conns, handles, uip_conn, after>>
        /\ \A s \in Slots : app'[s].req \subseteq app[s].req
        /\ stage = "poll" /\ waiting = NoLink /\ uip_conn \in Slots
    BY <1>1, <1>9, PollStep DEF clients
  <2>2. NoAborts'
    BY <1>1, <2>1 DEF NoAborts
  <2>3. ~PollAbort
    BY <1>1, <2>1 DEF PollAbort, NoAborts
  <2>4. CASE PollSend
    <3>1. UNCHANGED uip_flags /\ Raise(app[uip_conn].link)
      BY <2>4 DEF PollSend
    <3> QED BY <1>7, <2>1, <2>2, <3>1
  <2>5. CASE PollNone
    <3>1. UNCHANGED uip_flags /\ waiting' = NoLink /\ stage' = NextStage(uip_flags, stage)
      BY <2>1, <2>5 DEF PollNone
    <3> QED BY <1>2, <2>1, <2>2, <3>1, HandlesPass
  <2>6. CASE PollClose
    BY <1>2, <2>1, <2>2, <2>6, HandlesPollClose
  <2> QED BY <1>9, <2>3, <2>4, <2>5, <2>6
<1> QED BY <1>2, <1>4, <1>5, <1>6, <1>8, <1>9, HandlesConnect, HandlesConnected, HandlesClosed, HandlesDeliver,
           HandlesReturn, HandlesProcess, HandlesSyn
        DEF Next, ServerStep

(***************************************************************************)
(* lookup_xtcpd_state finds the connection that is meant, and the handles  *)
(* of the clients are those of the open connections of their links, except *)
(* while the events that say so are on their way.  It needs that no client *)
(* aborts (an abort raises no event for its own client, whose handle then  *)
(* stays) and that there is one client, if any connects (the slot of a     *)
(* connection whose last event is on its way may be taken by xtcpd_connect *)
(* for another client).                                                    *)
(***************************************************************************)
THEOREM HandlesStayTrue ==
  ASSUME "abort" \notin Cmds, Connectors = {} \/ NumClients = 1
  PROVE  Spec => []HandlesAgree
<1>1. HandlesInv /\ [Next]_vars => HandlesInv'
  BY HandlesStep
<1>2. HandlesInv => HandlesAgree
  BY DEF HandlesInv
<1> QED BY <1>1, <1>2, HandlesInit, PTL DEF Spec

(***************************************************************************)
(* Under the same conditions no event comes before NEW_CONNECTION or after *)
(* the end of its connection, and CLOSED comes once.                       *)
(***************************************************************************)
THEOREM EventsStayInOrder ==
  ASSUME "abort" \notin Cmds, Connectors = {} \/ NumClients = 1
  PROVE  Spec => []EventsInOrder
<1>1. HandlesInv /\ [Next]_vars => HandlesInv'
  BY HandlesStep
<1>2. HandlesInv => EventsInOrder
  BY DEF HandlesInv
<1> QED BY <1>1, <1>2, HandlesInit, PTL DEF Spec
=============================================================================
