---------------------------- MODULE BufferedSend ----------------------------
(***************************************************************************)
(* The sending half of xtcp_buffered_client.c: a buffer between an         *)
(* application that queues messages and the server that asks for data,     *)
(* asks for them again, and says that they were taken.                     *)
(*                                                                         *)
(* A byte is its place in the stream, so that one that is lost, repeated   *)
(* or moved shows.  The server is external: it asks (XTCP_REQUEST_DATA)    *)
(* when nothing is outstanding and a send was requested, and after data    *)
(* it says either XTCP_SENT_DATA, which asks for more, or                  *)
(* XTCP_RESEND_DATA.                                                       *)
(***************************************************************************)
EXTENDS Integers, Sequences, SequencesExt

CONSTANTS TxLen,      \* the length of the buffer
          Lowmark,    \* tx_lowmark
          Mss,        \* conn.mss
          Messages,   \* the lengths of messages
          MaxQueued   \* bound: bytes queued in all

ASSUME TxAssumption == {TxLen, Mss} \subseteq Nat \ {0} /\ {Lowmark, MaxQueued} \subseteq Nat /\ Messages \subseteq Nat

VARIABLES
  tx,                               \* the bytes of the buffer
  tx_prev_rdptr, tx_rdptr, tx_wrptr, \* offsets into it
  queued,      \* bytes accepted from the application
  asked,       \* send requests that the server has not acted on
  out,         \* the bytes it has been given and that are not acknowledged
  sent,        \* the bytes that were acknowledged
  paused       \* whether the server holds back received data

txVars == <<tx, tx_prev_rdptr, tx_rdptr, tx_wrptr, queued, asked, out, sent, paused>>

TxOffsets == 0 .. TxLen - 1

\* xtcp_buffered_set_tx_buffer
TxInit ==
  /\ tx = [i \in TxOffsets |-> 0]
  /\ tx_prev_rdptr = 0 /\ tx_rdptr = 0 /\ tx_wrptr = 0
  /\ queued = 0 /\ asked = 0 /\ out = <<>> /\ sent = <<>> /\ paused = FALSE

\* xtcp_buffered_send_buffer_remaining
Remaining == (TxLen - tx_wrptr) + tx_prev_rdptr

\* The bytes from offset a up to b.
Bytes(a, b) == [i \in 1 .. b - a |-> tx[a + i - 1]]

\* How far the contents are moved to the front, if there is no room at the end.
Compact(len) == IF TxLen - tx_wrptr < len THEN tx_prev_rdptr ELSE 0

\* Of a message of length len, the buffer after the move: shift, then append.
xtcp_buffered_send(len) ==
  LET shift == Compact(len)
      moved == [i \in TxOffsets |->
                  IF i < tx_wrptr - shift THEN tx[i + shift] ELSE tx[i]]
      wr == tx_wrptr - shift
      fits == TxLen - wr >= len
  IN  /\ queued + len <= MaxQueued
      /\ tx_prev_rdptr' = tx_prev_rdptr - shift
      /\ tx_rdptr' = tx_rdptr - shift
      /\ IF fits
           THEN /\ tx' = [i \in TxOffsets |->
                            IF i \in wr .. wr + len - 1 THEN queued + i - wr + 1 ELSE moved[i]]
                /\ tx_wrptr' = wr + len /\ queued' = queued + len
                /\ asked' = IF tx_rdptr = tx_wrptr THEN asked + 1 ELSE asked
                /\ paused' = (paused \/ Remaining - len < Lowmark)
           ELSE tx' = moved /\ tx_wrptr' = wr /\ UNCHANGED <<queued, asked, paused>>
      /\ UNCHANGED <<out, sent>>

Least(a, b) == IF a < b THEN a ELSE b

\* Slip: what was sent last is forgotten.
MoreDataAtEnd ==
  LET len == Least(tx_wrptr - tx_rdptr, Mss)
  IN  /\ out' = Bytes(tx_rdptr, tx_rdptr + len)
      /\ paused' = (paused /\ ~(Remaining < Lowmark /\ Remaining + len >= Lowmark))
      /\ tx_prev_rdptr' = tx_rdptr + len /\ tx_rdptr' = tx_rdptr + len
      /\ UNCHANGED <<tx, tx_wrptr, queued>>

\* xtcp_buffered_send_handler for XTCP_REQUEST_DATA and XTCP_SENT_DATA.
MoreData ==
  LET len == Least(tx_wrptr - tx_rdptr, Mss)
  IN  /\ out' = Bytes(tx_rdptr, tx_rdptr + len)
      /\ paused' = (paused /\ ~(Remaining < Lowmark /\ Remaining + len >= Lowmark))
      /\ tx_prev_rdptr' = tx_rdptr /\ tx_rdptr' = tx_rdptr + len
      /\ UNCHANGED <<tx, tx_wrptr, queued>>

\* Its three events, as the server raises them.
RequestData ==
  /\ asked > 0 /\ out = <<>>
  /\ MoreData /\ asked' = asked - 1 /\ UNCHANGED sent

SentData ==
  /\ out # <<>>
  /\ MoreData /\ sent' = sent \o out /\ UNCHANGED asked

\* What is sent again replaces what was lost.
ResendData ==
  /\ out # <<>>
  /\ out' = Bytes(tx_prev_rdptr, tx_rdptr)
  /\ UNCHANGED <<tx, tx_prev_rdptr, tx_rdptr, tx_wrptr, queued, asked, sent, paused>>

TxNext ==
  \/ \E len \in Messages : xtcp_buffered_send(len)
  \/ RequestData \/ SentData \/ ResendData

-----------------------------------------------------------------------------
\* The bytes the peer acknowledges are those the application queued, however often
\* they were moved in the buffer or sent again.
SendStream == INSTANCE Stream WITH given <- [i \in 1 .. queued |-> i], taken <- sent
SendsWhatWasQueued == SendStream!StreamSpec

\* Every queued byte is sent in the end: a request is due whenever bytes wait and
\* none is outstanding.
AllSent == []<>(Len(sent) = queued)
=============================================================================
