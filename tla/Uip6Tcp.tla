------------------------------ MODULE Uip6Tcp -------------------------------
(***************************************************************************)
(* One TCP connection of contiki/net/uip6.c against a peer, with sequence  *)
(* numbers: what uip_process does with a segment, on a poll and on the     *)
(* periodic timer.  The peer (an ordinary TCP that may take a part of a    *)
(* segment) and the network, which loses, repeats and reorders segments,   *)
(* are external; so is the client behind xtcpd_appcall, which gives the    *)
(* same bytes again when it is asked to.  The n-th byte of each direction  *)
(* is n.  Urgent data and TCP options are left out.                        *)
(***************************************************************************)
EXTENDS Integers, Sequences, FiniteSets, SequencesExt

CONSTANTS Base,         \* a sequence number is two digits to this base
          Mss,          \* UIP_TCP_MSS
          MaxRtx,       \* UIP_MAXRTX and UIP_MAXSYNRTX
          Rto,          \* UIP_RTO
          TimeWait,     \* UIP_TIME_WAIT_TIMEOUT
          PeerWnds,     \* windows the peer offers with its bytes
          MaxApp,       \* bound: bytes the client gives
          MaxPeer,      \* bound: bytes the peer sends
          NetIn, NetOut \* bounds: segments in flight to us and to the peer

ASSUME Tcp6Assumption ==
  /\ {Base, Mss, MaxRtx, TimeWait, MaxApp, MaxPeer, NetIn, NetOut} \subseteq Nat \ {0}
  /\ Rto \in Nat /\ PeerWnds \subseteq Nat
  /\ Mss < Base /\ MaxApp + 2 < Base * Base /\ MaxPeer + 2 < Base * Base

VARIABLES
  conn,           \* struct uip_conn
  toUs, toPeer,   \* segments in flight
  given, acked,   \* bytes the client gave, and was told are there
  got,            \* bytes the client was given
  told,           \* the last of CONNECTED, CLOSED, ABORTED, TIMED_OUT it was told
  peer

tcp6Vars == <<conn, toUs, toPeer, given, acked, got, told, peer>>

\* uip_add32: the carry is found by comparing the digit with what was added to it.
uip_add32(a, n) ==
  LET lo == ((a % Base) + (n % Base)) % Base
      carry == IF lo < n % Base THEN 1 ELSE 0
  IN  (((a \div Base) + (n \div Base) + carry) % Base) * Base + lo

Seg(flags, seq, ack, data, wnd) == [flags |-> flags, seq |-> seq, ack |-> ack, data |-> data, wnd |-> wnd]
Bytes(from, n) == [i \in 1 .. n |-> from + i]
InFlight(net, s) == IF Cardinality(net) < NetOut THEN net \cup {s} ELSE net
Incoming(s) == IF Cardinality(toUs) < NetIn THEN toUs \cup {s} ELSE toUs

Iss == Base - 1
PeerIss == Base * Base - 2

\* uip_init; the peer will open the connection, or wait for it.
Tcp6Init ==
  /\ conn = [st |-> "CLOSED", rcv_nxt |-> 0, snd_nxt |-> Iss, len |-> 0, tmr |-> 0, nrtx |-> 0,
             stopped |-> FALSE, mss |-> Mss, listening |-> TRUE]
  /\ toUs = {} /\ toPeer = {} /\ given = 0 /\ acked = 0 /\ got = <<>> /\ told = "nothing"
  /\ peer = [st |-> "idle", rcv |-> 0, una |-> 0, sent |-> 0, fin |-> FALSE, eof |-> FALSE, got |-> <<>>]

-----------------------------------------------------------------------------
(* Sending: tcp_send and the labels before it.                             *)

Out(c, flags, data) == Seg(flags, c.snd_nxt, c.rcv_nxt, data, IF c.stopped THEN 0 ELSE Mss)
Send(c, flags) == toPeer' = InFlight(toPeer, Out(c, flags, <<>>))
SendData(c) == toPeer' = InFlight(toPeer, Out(c, {"ACK"}, Bytes(acked, c.len)))
Quiet == UNCHANGED toPeer

\* The reset label: no reset is answered.
Reset(s) ==
  IF "RST" \in s.flags THEN Quiet
  ELSE toPeer' = InFlight(toPeer, Seg({"RST", "ACK"}, s.ack, uip_add32(s.seq, 1), <<>>, Mss))

\* appsend, when the client gives n more bytes.
Appsend(c, n, flags) ==
  LET m == IF n > c.mss THEN c.mss ELSE n
      d == IF n > 0 /\ c.len = 0 THEN [c EXCEPT !.len = m, !.nrtx = 0] ELSE [c EXCEPT !.nrtx = 0]
  IN  /\ conn' = d /\ given' = given + m
      /\ IF n > 0 THEN toPeer' = InFlight(toPeer, Out(d, {"ACK"}, Bytes(given, d.len)))
         ELSE IF "NEWDATA" \in flags THEN toPeer' = InFlight(toPeer, Out(d, {"ACK"}, <<>>))
         ELSE Quiet

\* What the client can give: it knows the mss, and gives nothing without being asked.
CanGive == 0 .. (IF MaxApp - given < conn.mss THEN MaxApp - given ELSE conn.mss)

-----------------------------------------------------------------------------
(* Opening. *)

\* uip_connect, and the poll that sends the SYN.
uip_connect ==
  /\ conn.st = "CLOSED" /\ conn.listening /\ peer.st = "idle"
  /\ conn' = [conn EXCEPT !.st = "SYN_SENT", !.len = 1, !.tmr = Rto, !.nrtx = 0, !.listening = FALSE]
  /\ Send(conn', {"SYN"})
  /\ UNCHANGED <<toUs, given, acked, got, told, peer>>

-----------------------------------------------------------------------------
(* Input of segment s, of which the network may keep a copy. *)

Took(s) == s \in toUs /\ (toUs' = toUs \/ toUs' = toUs \ {s})
NoEvent == UNCHANGED <<given, acked, got, told>>
Tell(e) == told' = e /\ UNCHANGED <<given, acked, got>>
N(s) == Len(s.data)

\* tcp_input: a segment with a good checksum and ports finds the connection, if it is open.
Found == conn.st # "CLOSED"

\* No connection matches: a SYN for the listening port makes one, and the client then
\* stops listening.
FoundNone(s) ==
  /\ Took(s) /\ ~Found
  /\ IF s.flags = {"SYN"} /\ conn.listening
       THEN /\ conn' = [conn EXCEPT !.st = "SYN_RCVD", !.rcv_nxt = uip_add32(s.seq, 1), !.len = 1,
                                    !.tmr = Rto, !.nrtx = 0, !.listening = FALSE]
            /\ Send(conn', {"SYN", "ACK"})
       ELSE Reset(s) /\ UNCHANGED conn
  /\ NoEvent /\ UNCHANGED peer

GotReset(s) ==
  /\ Took(s) /\ Found /\ "RST" \in s.flags
  /\ conn' = [conn EXCEPT !.st = "CLOSED"] /\ Tell("ABORTED") /\ Quiet /\ UNCHANGED peer

\* Slip: an old segment is taken for the next one.
NothingOld(s) == FALSE
\* Slip: a FIN by itself is taken in any order.
FinNotChecked(s) == N(s) > 0 /\ s.seq # conn.rcv_nxt
OutOfOrder(s) ==
  /\ ~(conn.st = "SYN_SENT" /\ s.flags = {"SYN", "ACK"}) /\ ~(conn.st = "SYN_RCVD" /\ s.flags = {"SYN"})
  /\ N(s) > 0 \/ s.flags \cap {"SYN", "FIN"} # {}
  /\ s.seq # conn.rcv_nxt

GotOld(s) ==
  /\ Took(s) /\ Found /\ "RST" \notin s.flags /\ OutOfOrder(s)
  /\ Send(conn, IF "SYN" \in s.flags THEN {"SYN", "ACK"} ELSE {"ACK"})
  /\ NoEvent /\ UNCHANGED <<conn, peer>>

\* Slip: any acknowledgement will do.
AnyAck(s) == "ACK" \in s.flags /\ conn.len > 0
\* Exactly the bytes in transit have to be acknowledged.
Acks(s) == "ACK" \in s.flags /\ conn.len > 0 /\ s.ack = uip_add32(conn.snd_nxt, conn.len)

\* The connection after the acknowledgement; the round-trip estimate is left out.
AfterAck(s) ==
  IF Acks(s) THEN [conn EXCEPT !.snd_nxt = uip_add32(@, conn.len), !.len = 0, !.tmr = Rto] ELSE conn

InOrder(s) == Took(s) /\ "RST" \notin s.flags /\ ~OutOfOrder(s)

\* SYN_RCVD: the acknowledgement of the SYNACK, with data perhaps.
InSynRcvd(s) ==
  /\ conn.st = "SYN_RCVD" /\ InOrder(s)
  /\ IF Acks(s)
       THEN /\ Appsend([AfterAck(s) EXCEPT !.st = "ESTABLISHED", !.rcv_nxt = uip_add32(@, N(s))], 0,
                       IF N(s) > 0 THEN {"NEWDATA"} ELSE {})
            /\ told' = "CONNECTED" /\ got' = got \o s.data /\ UNCHANGED acked
       ELSE /\ IF s.flags = {"SYN"} THEN Send(conn, {"SYN", "ACK"}) ELSE Quiet
            /\ NoEvent /\ UNCHANGED conn
  /\ UNCHANGED peer

\* SYN_SENT: anything but the SYNACK that is waited for closes the connection.
InSynSent(s) ==
  /\ conn.st = "SYN_SENT" /\ InOrder(s)
  /\ IF Acks(s) /\ s.flags = {"SYN", "ACK"}
       THEN /\ Appsend([AfterAck(s) EXCEPT !.st = "ESTABLISHED", !.rcv_nxt = uip_add32(s.seq, 1)], 0, {"NEWDATA"})
            /\ told' = "CONNECTED" /\ UNCHANGED <<acked, got>>
       ELSE conn' = [conn EXCEPT !.st = "CLOSED"] /\ Reset(s) /\ Tell("ABORTED")
  /\ UNCHANGED peer

\* The FIN of the peer is passed over while the client has stopped the stream.
FinSeen(s) == "FIN" \in s.flags /\ ~conn.stopped

\* ESTABLISHED, with a FIN: bytes the client gives for the acknowledgement that comes
\* with it are lost.
InEstablishedFin(s) ==
  /\ conn.st = "ESTABLISHED" /\ InOrder(s) /\ FinSeen(s)
  /\ LET c == AfterAck(s)
     IN  IF c.len > 0
           THEN conn' = c /\ Quiet /\ NoEvent
           ELSE /\ conn' = [c EXCEPT !.st = "LAST_ACK", !.len = 1, !.nrtx = 0, !.rcv_nxt = uip_add32(@, 1 + N(s))]
                /\ Send(conn', {"FIN", "ACK"})
                /\ told' = "CLOSED" /\ got' = got \o s.data
                /\ acked' = IF Acks(s) THEN given ELSE acked
                /\ UNCHANGED given
  /\ UNCHANGED peer

\* ESTABLISHED otherwise: data, unless the stream is stopped, the window and the answer
\* of the client, which may stop the stream (ack_recv_mode or a pause).
InEstablished(s) ==
  /\ conn.st = "ESTABLISHED" /\ InOrder(s) /\ ~FinSeen(s)
  /\ LET new == N(s) > 0 /\ ~conn.stopped
         c == [AfterAck(s) EXCEPT !.mss = IF s.wnd = 0 \/ s.wnd > Mss THEN Mss ELSE s.wnd,
                                  !.rcv_nxt = IF new THEN uip_add32(@, N(s)) ELSE @]
     IN  /\ got' = IF new THEN got \o s.data ELSE got
         /\ acked' = IF Acks(s) THEN given ELSE acked
         /\ IF new \/ Acks(s)
              THEN \E stop \in BOOLEAN, n \in CanGive :
                     /\ stop => new
                     /\ n > 0 => Acks(s) /\ n <= c.mss
                     /\ Appsend([c EXCEPT !.stopped = stop \/ @], n, IF new THEN {"NEWDATA"} ELSE {})
              ELSE conn' = c /\ Quiet /\ UNCHANGED given
  /\ UNCHANGED <<told, peer>>

\* The states after a close of either side.
InClosing(s) ==
  /\ conn.st \in {"LAST_ACK", "FIN_WAIT_1", "FIN_WAIT_2", "TIME_WAIT", "CLOSING"} /\ InOrder(s)
  /\ LET fin == "FIN" \in s.flags
         waits == conn.st \in {"FIN_WAIT_1", "FIN_WAIT_2"}
         n == IF waits THEN N(s) + (IF fin THEN 1 ELSE 0) ELSE 0
         st == CASE conn.st = "LAST_ACK" -> IF Acks(s) THEN "CLOSED" ELSE conn.st
                 [] conn.st = "FIN_WAIT_1" -> IF fin THEN IF Acks(s) THEN "TIME_WAIT" ELSE "CLOSING"
                                              ELSE IF Acks(s) THEN "FIN_WAIT_2" ELSE conn.st
                 [] conn.st = "FIN_WAIT_2" -> IF fin THEN "TIME_WAIT" ELSE conn.st
                 [] conn.st = "CLOSING" -> IF Acks(s) THEN "TIME_WAIT" ELSE conn.st
                 [] OTHER -> conn.st
         c == [AfterAck(s) EXCEPT !.st = st, !.rcv_nxt = uip_add32(@, n),
                                  !.tmr = IF st = "TIME_WAIT" /\ conn.st # st THEN 0 ELSE @]
     IN  /\ conn' = c
         /\ told' = IF (waits /\ fin) \/ st = "CLOSED" THEN "CLOSED" ELSE told
         /\ IF (waits /\ (fin \/ (N(s) > 0 /\ ~(conn.st = "FIN_WAIT_1" /\ Acks(s))))) \/ conn.st = "TIME_WAIT"
              THEN Send(c, {"ACK"}) ELSE Quiet
  /\ UNCHANGED <<given, acked, got, peer>>

-----------------------------------------------------------------------------
(* Polls and the timer. *)

\* Slip: polled with bytes in transit.
PollAnyTime == TRUE
MayPoll == conn.len = 0
\* UIP_POLL_REQUEST, and UIP_TIMER with nothing in transit, as handle_poll answers it.
Poll ==
  /\ conn.st = "ESTABLISHED" /\ MayPoll /\ UNCHANGED acked
  /\ \/ \E n \in CanGive \ {0} : Appsend(conn, n, {}) /\ UNCHANGED told
     \/ conn.stopped /\ Appsend([conn EXCEPT !.stopped = FALSE], 0, {"NEWDATA"}) /\ UNCHANGED told
     \/ /\ conn' = [conn EXCEPT !.st = "FIN_WAIT_1", !.len = 1, !.nrtx = 0, !.stopped = FALSE]
        /\ Send(conn', {"FIN", "ACK"}) /\ UNCHANGED <<given, told>>
     \/ /\ conn' = [conn EXCEPT !.st = "CLOSED"]
        /\ Send(conn, {"RST", "ACK"}) /\ told' = "ABORTED" /\ UNCHANGED given
  /\ UNCHANGED <<toUs, got, peer>>

GivenUp == conn.nrtx = MaxRtx

\* UIP_TIMER with something in transit.
Retransmit ==
  /\ conn.st \notin {"CLOSED", "TIME_WAIT", "FIN_WAIT_2"} /\ conn.len > 0
  /\ IF conn.tmr > 0
       THEN conn' = [conn EXCEPT !.tmr = @ - 1] /\ Quiet /\ UNCHANGED told
       ELSE IF GivenUp
       THEN /\ conn' = [conn EXCEPT !.st = "CLOSED"] /\ told' = "TIMED_OUT"
            /\ Send(conn, {"RST", "ACK"})
       ELSE /\ conn' = [conn EXCEPT !.nrtx = IF @ < MaxRtx THEN @ + 1 ELSE @, !.tmr = Rto] /\ UNCHANGED told
            /\ CASE conn.st = "SYN_RCVD" -> Send(conn, {"SYN", "ACK"})
                 [] conn.st = "SYN_SENT" -> Send(conn, {"SYN"})
                 [] conn.st = "ESTABLISHED" -> SendData(conn)
                 [] OTHER -> Send(conn, {"FIN", "ACK"})
  /\ UNCHANGED <<toUs, given, acked, got, peer>>

\* UIP_TIMER in TIME_WAIT and FIN_WAIT_2.
WaitOver ==
  /\ conn.st \in {"TIME_WAIT", "FIN_WAIT_2"}
  /\ conn' = [conn EXCEPT !.tmr = @ + 1, !.st = IF conn.tmr + 1 = TimeWait THEN "CLOSED" ELSE @]
  /\ UNCHANGED <<toUs, toPeer, given, acked, got, told, peer>>

-----------------------------------------------------------------------------
(* The peer and the network. *)

PeerSeq(n) == uip_add32(PeerIss, 1 + n)
Post(flags, seq, data, w) ==
  toUs' = Incoming(Seg(flags, seq, peer'.rcv, data, w))
Ours == UNCHANGED <<conn, given, acked, got, told>>

PeerOpens ==
  /\ peer.st \in {"idle", "syn"} /\ conn.st \in {"CLOSED", "SYN_RCVD"}
  /\ peer.st = "idle" => conn.listening
  /\ peer' = [peer EXCEPT !.st = "syn"]
  /\ toUs' = Incoming(Seg({"SYN"}, PeerIss, 0, <<>>, Mss))
  /\ UNCHANGED toPeer /\ Ours

\* How far the peer's bytes are acknowledged, and what it takes of a segment.
PeerUna(s) ==
  LET new == {k \in peer.una .. peer.sent : s.ack = PeerSeq(k)} IN IF new = {} THEN peer.una ELSE CHOOSE k \in new : TRUE
PeerSkip(s) ==
  LET k == {j \in 0 .. Len(s.data) : uip_add32(s.seq, j) = peer.rcv} IN IF k = {} THEN -1 ELSE CHOOSE j \in k : TRUE

PeerGetsData(s) ==
  LET skip == PeerSkip(s)
      fresh == IF skip < 0 \/ peer.eof THEN <<>> ELSE SubSeq(s.data, skip + 1, Len(s.data))
      fin == "FIN" \in s.flags /\ skip = Len(s.data) /\ ~peer.eof
  IN  \E n \in 0 .. Len(fresh) :
        /\ peer' = [peer EXCEPT !.una = PeerUna(s), !.got = @ \o SubSeq(fresh, 1, n),
                                !.rcv = uip_add32(@, n + (IF fin THEN 1 ELSE 0)), !.eof = @ \/ fin,
                                !.st = "est"]
        /\ IF s.data # <<>> \/ fin \/ "SYN" \in s.flags
             THEN Post({"ACK"}, PeerSeq(peer.sent + (IF peer.fin THEN 1 ELSE 0)), <<>>, Mss) ELSE UNCHANGED toUs

PeerTakes(s) ==
  /\ s \in toPeer /\ (toPeer' = toPeer \/ toPeer' = toPeer \ {s})
  /\ \/ "RST" \in s.flags /\ peer' = [peer EXCEPT !.st = "dead"] /\ UNCHANGED toUs
     \/ peer.st = "dead" /\ "RST" \notin s.flags /\ UNCHANGED <<peer, toUs>>
     \/ /\ peer.st \in {"idle", "answered"} /\ s.flags = {"SYN"}
        /\ peer' = [peer EXCEPT !.st = "answered", !.rcv = uip_add32(s.seq, 1)]
        /\ Post({"SYN", "ACK"}, PeerIss, <<>>, Mss)
     \/ /\ peer.st = "syn" /\ s.flags = {"SYN", "ACK"} /\ s.ack = PeerSeq(0)
        /\ peer' = [peer EXCEPT !.st = "est", !.rcv = uip_add32(s.seq, 1)]
        /\ Post({"ACK"}, PeerSeq(0), <<>>, Mss)
     \/ peer.st \in {"est", "answered"} /\ "ACK" \in s.flags /\ "RST" \notin s.flags /\ PeerGetsData(s)
  /\ Ours

\* New bytes or old ones again, with the FIN at their end once there is one.
PeerSends(from, n, fin) ==
  LET end == from + n
  IN  /\ peer.st = "est" /\ end <= MaxPeer /\ (n > 0 \/ fin)
      /\ fin => end >= peer.sent
      /\ peer.fin => end <= peer.sent
      /\ peer' = [peer EXCEPT !.sent = IF end > @ THEN end ELSE @, !.fin = @ \/ fin]
      /\ \E w \in PeerWnds :
           Post(IF fin THEN {"ACK", "FIN"} ELSE {"ACK"}, PeerSeq(from), Bytes(from, n), w)
      /\ UNCHANGED toPeer /\ Ours

PeerAborts ==
  /\ peer.st = "est" /\ peer' = [peer EXCEPT !.st = "dead"]
  /\ Post({"RST", "ACK"}, PeerSeq(peer.sent), <<>>, 0)
  /\ UNCHANGED toPeer /\ Ours

Lost ==
  /\ \/ \E s \in toUs : toUs' = toUs \ {s} /\ UNCHANGED toPeer
     \/ \E s \in toPeer : toPeer' = toPeer \ {s} /\ UNCHANGED toUs
  /\ UNCHANGED peer /\ Ours

Tcp6Next ==
  \/ uip_connect \/ Poll \/ Retransmit \/ WaitOver
  \/ \E s \in toUs : \/ FoundNone(s) \/ GotReset(s) \/ GotOld(s) \/ InSynRcvd(s) \/ InSynSent(s)
                     \/ InEstablishedFin(s) \/ InEstablished(s) \/ InClosing(s)
  \/ \E s \in toPeer : PeerTakes(s)
  \/ PeerOpens \/ PeerAborts \/ Lost
  \/ \E from \in {peer.una, peer.sent}, n \in 0 .. Mss, fin \in BOOLEAN : PeerSends(from, n, fin)

Tcp6Spec == Tcp6Init /\ [][Tcp6Next]_tcp6Vars

-----------------------------------------------------------------------------
\* What the peer gets is what the client gave, in order, each byte once, whatever the
\* network does with the segments and however little of one the peer takes.
ToPeerStream == INSTANCE Stream WITH given <- Bytes(0, given), taken <- peer.got
\* What the client gets is what the peer sent.
ToAppStream == INSTANCE Stream WITH given <- Bytes(0, peer.sent), taken <- got
\* TCP over a network that loses, repeats and reorders segments implements two streams:
\* uip_process, retransmission and the one segment in transit.
Tcp6Streams == ToPeerStream!StreamSpec /\ ToAppStream!StreamSpec

\* SENT_DATA is raised only for bytes that the peer has.
AckedIsThere == acked <= Len(peer.got)

\* A client that did not close itself and is told that the connection is closed has all
\* that the peer sent.
ClosedIsComplete == conn.st = "LAST_ACK" => Len(got) = peer.sent

\* Both: what the client is told about the connection is true of the peer.
ToldIsTrue == AckedIsThere /\ ClosedIsComplete
=============================================================================
