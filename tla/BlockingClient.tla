--------------------------- MODULE BlockingClient ---------------------------
(***************************************************************************)
(* xtcp_blocking_client.xc: an application that waits for the interface    *)
(* and for a connection, and then writes and reads.  Each call takes       *)
(* events from the server until it is done.  The server is external: it    *)
(* raises the events of the connection, and those of another one that      *)
(* peers try to open.  A byte is its place in the stream.                  *)
(***************************************************************************)
EXTENDS Integers, Sequences

CONSTANTS WriteLens,    \* the lengths of buffers that are written
          BlMss,        \* conn.mss
          MinLens,      \* the lengths that are read for
          MaxWrites,    \* bound: writes
          MaxIncoming   \* bound: bytes the peer sends

ASSUME BlAssumption ==
  BlMss \in Nat \ {0} /\ {MaxWrites, MaxIncoming} \subseteq Nat /\ WriteLens \subseteq Nat /\ MinLens \subseteq Nat

VARIABLES
  call,          \* the call the application is in, or its last result
  bl_len,        \* len or minlen
  index, prev,   \* of xtcp_write; index is rlen of xtcp_read
  conn_id,       \* conn.id, which every event overwrites
  base,          \* bytes of the earlier writes
  inflight,      \* bytes given to the server and not acknowledged
  ackd,          \* bytes acknowledged
  sendReq,       \* a send request the server has not acted on
  incoming,      \* bytes that the server has offered and that were not taken
  readBytes,     \* bytes taken
  arrivedBytes,  \* bytes the peer sent
  open, writes

blVars == <<call, bl_len, index, prev, conn_id, base, inflight, ackd, sendReq, incoming,
            readBytes, arrivedBytes, open, writes>>
blServer == <<inflight, ackd, sendReq, incoming, readBytes, arrivedBytes>>
blCall == <<bl_len, index, prev, base>>

BlInit ==
  /\ call = "ifup" /\ bl_len = 0 /\ index = 0 /\ prev = 0 /\ conn_id = "none" /\ base = 0
  /\ inflight = <<>> /\ ackd = <<>> /\ sendReq = FALSE /\ incoming = <<>> /\ readBytes = <<>>
  /\ arrivedBytes = 0 /\ open = FALSE /\ writes = 0

-----------------------------------------------------------------------------
\* Events other than XTCP_IFUP, and then other than XTCP_NEW_CONNECTION, are passed over.
xtcp_wait_for_ifup ==
  /\ call = "ifup" /\ call' = "connection"
  /\ UNCHANGED <<blCall, blServer, conn_id, open, writes>>

xtcp_wait_for_connection ==
  /\ call = "connection" /\ call' = "idle" /\ conn_id' = "own" /\ open' = TRUE
  /\ UNCHANGED <<blCall, blServer, writes>>

\* xtcp_write up to its loop: the send request is for conn, whichever that is now.  No
\* write is begun while bytes of one that failed are on their way.
WriteBegins(len) ==
  /\ call \in {"idle", "written"} /\ inflight = <<>> /\ writes < MaxWrites
  /\ call' = "write" /\ bl_len' = len /\ index' = 0 /\ prev' = 0 /\ writes' = writes + 1
  /\ base' = Len(ackd)
  /\ sendReq' = (sendReq \/ conn_id = "own")
  /\ UNCHANGED <<conn_id, inflight, ackd, incoming, readBytes, arrivedBytes, open>>

ReadBegins(minlen) ==
  /\ call \in {"idle", "written", "failed"}
  /\ call' = "read" /\ bl_len' = minlen /\ index' = 0 /\ prev' = 0
  /\ UNCHANGED <<base, conn_id, blServer, open, writes>>

Smaller(a, b) == IF a < b THEN a ELSE b

\* Slip: the write is over when everything was sent.
WriteSendEarly ==
  LET sendlen == Smaller(bl_len - index, BlMss)
  IN  /\ inflight' = [i \in 1 .. sendlen |-> base + index + i]
      /\ prev' = index /\ index' = index + sendlen
      /\ call' = IF index' = bl_len THEN "written" ELSE "write"

\* XTCP_REQUEST_DATA and XTCP_SENT_DATA in xtcp_write.
WriteSend ==
  LET sendlen == Smaller(bl_len - index, BlMss)
  IN  /\ inflight' = [i \in 1 .. sendlen |-> base + index + i]
      /\ prev' = index /\ index' = index + sendlen
      /\ call' = IF sendlen = 0 THEN "written" ELSE "write"

WriteRequested ==
  /\ call = "write" /\ sendReq /\ inflight = <<>>
  /\ WriteSend /\ sendReq' = FALSE /\ conn_id' = "own"
  /\ UNCHANGED <<bl_len, base, ackd, incoming, readBytes, arrivedBytes, open, writes>>

WriteSent ==
  /\ call = "write" /\ inflight # <<>>
  /\ WriteSend /\ ackd' = ackd \o inflight /\ conn_id' = "own"
  /\ UNCHANGED <<bl_len, base, sendReq, incoming, readBytes, arrivedBytes, open, writes>>

WriteResend ==
  /\ call = "write" /\ inflight # <<>>
  /\ inflight' = [i \in 1 .. index - prev |-> base + prev + i] /\ conn_id' = "own"
  /\ UNCHANGED <<call, blCall, ackd, sendReq, incoming, readBytes, arrivedBytes, open, writes>>

\* Slip: the data are accepted and thrown away.
TakenInWrite ==
  call' = "failed" /\ incoming' = <<>> /\ UNCHANGED readBytes

\* XTCP_RECV_DATA in xtcp_write: the server keeps the data, and the write is over; prev
\* is less than len as long as bytes are outstanding, and before the first are sent.
KeptInWrite ==
  call' = (IF prev # bl_len THEN "failed" ELSE "written") /\ UNCHANGED <<incoming, readBytes>>

WriteInterrupted ==
  /\ call = "write" /\ incoming # <<>> /\ KeptInWrite /\ conn_id' = "own"
  /\ UNCHANGED <<blCall, inflight, ackd, sendReq, arrivedBytes, open, writes>>

\* XTCP_RECV_DATA in xtcp_read.
ReadData ==
  /\ call = "read" /\ incoming # <<>>
  /\ readBytes' = readBytes \o incoming /\ incoming' = <<>> /\ index' = index + Len(incoming)
  /\ call' = IF index' < bl_len THEN "read" ELSE "idle"
  /\ conn_id' = "own"
  /\ UNCHANGED <<bl_len, prev, base, inflight, ackd, sendReq, arrivedBytes, open, writes>>

\* A request for data in xtcp_read is answered with none; when it is for a resend, the
\* bytes stay on their way.
ReadRequested ==
  /\ call = "read" /\ (sendReq \/ inflight # <<>>)
  /\ \/ inflight # <<>> /\ ackd' = ackd \o inflight /\ inflight' = <<>> /\ UNCHANGED sendReq
     \/ inflight = <<>> /\ sendReq' = FALSE /\ UNCHANGED <<inflight, ackd>>
  /\ conn_id' = "own"
  /\ UNCHANGED <<call, blCall, incoming, readBytes, arrivedBytes, open, writes>>

\* XTCP_CLOSED, XTCP_ABORTED or XTCP_TIMED_OUT of the connection, or XTCP_IFDOWN.
CallFails ==
  /\ call \in {"write", "read"} /\ open
  /\ call' = "closed" /\ open' = FALSE /\ conn_id' \in {"own", conn_id}
  /\ UNCHANGED <<blCall, blServer, writes>>

\* XTCP_NEW_CONNECTION of another connection, which is closed; or the end of that one.
OtherConnection ==
  /\ call \in {"write", "read"} /\ conn_id' = "other"
  /\ UNCHANGED <<call, blCall, blServer, open, writes>>

\* The peer sends; the server offers one packet until it is taken.
PeerSends ==
  /\ open /\ incoming = <<>> /\ arrivedBytes < MaxIncoming
  /\ arrivedBytes' = arrivedBytes + 1 /\ incoming' = <<arrivedBytes + 1>>
  /\ UNCHANGED <<call, blCall, conn_id, inflight, ackd, sendReq, readBytes, open, writes>>

BlNext ==
  \/ xtcp_wait_for_ifup \/ xtcp_wait_for_connection
  \/ \E len \in WriteLens : WriteBegins(len)
  \/ \E len \in MinLens : ReadBegins(len)
  \/ WriteRequested \/ WriteSent \/ WriteResend \/ WriteInterrupted
  \/ ReadData \/ ReadRequested \/ CallFails \/ OtherConnection \/ PeerSends

-----------------------------------------------------------------------------
\* "1 for success": a write that succeeds has had all of its buffer acknowledged, and
\* nothing of it is on its way, in spite of resends and of events of other connections.
WrittenIsAcked ==
  /\ call = "written" => inflight = <<>> /\ Len(ackd) = base + bl_len
  /\ ackd = [i \in 1 .. Len(ackd) |-> i]

\* What the peer sent reaches the application in order and complete, also what arrived
\* in the middle of a write.
BlStream == INSTANCE Stream WITH given <- [i \in 1 .. arrivedBytes |-> i], taken <- readBytes
ReadsWhatArrived == BlStream!StreamSpec
=============================================================================
