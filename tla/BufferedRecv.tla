---------------------------- MODULE BufferedRecv ----------------------------
(***************************************************************************)
(* The receiving half of xtcp_buffered_client.c.  After an XTCP_RECV_DATA  *)
(* event the application calls xtcp_buffered_recv or                       *)
(* xtcp_buffered_recv_upto until it returns 0; the first call takes the    *)
(* data from the server.  A byte is its place in the stream; those that    *)
(* are multiples of Delimiter are the delimiter.                           *)
(***************************************************************************)
EXTENDS Integers, Sequences, SequencesExt, FiniteSetsExt

CONSTANTS RxLen,        \* the length of the buffer
          ClientBuf,    \* XTCP_CLIENT_BUF_SIZE, the most that an event brings
          Lengths,      \* the lengths that xtcp_buffered_recv is called with
          Delimiter,
          MaxArrived    \* bound: bytes received in all

\* "The size of the buffer should probably be no smaller than XTCP_CLIENT_BUF_SIZE."
ASSUME RxAssumption ==
  {RxLen, ClientBuf, Delimiter} \subseteq Nat \ {0} /\ RxLen >= ClientBuf /\ MaxArrived \in Nat /\ Lengths \subseteq Nat

VARIABLES
  rx,                  \* the bytes of the buffer
  rx_rdptr, rx_wrptr,  \* offsets into it
  rx_new_event,        \* whether the next call takes data from the server
  event,               \* the bytes of an event that have not been taken, or 0
  reading,             \* whether the application goes on calling
  arrived,             \* bytes taken from the server
  got                  \* the bytes returned to the application

rxVars == <<rx, rx_rdptr, rx_wrptr, rx_new_event, event, reading, arrived, got>>

\* xtcp_buffered_set_rx_buffer
RxInit ==
  /\ rx = [i \in 0 .. RxLen - 1 |-> 0] /\ rx_rdptr = 0 /\ rx_wrptr = 0 /\ rx_new_event = TRUE
  /\ event = 0 /\ reading = FALSE /\ arrived = 0 /\ got = <<>>

\* The server is external: its next event comes when the last one was dealt with.
RecvEvent ==
  /\ ~reading
  /\ event' \in 1 .. ClientBuf /\ arrived + event' <= MaxArrived
  /\ reading' = TRUE
  /\ UNCHANGED <<rx, rx_rdptr, rx_wrptr, rx_new_event, arrived, got>>

Fill == IF rx_new_event THEN event ELSE 0
Filled ==
  [i \in DOMAIN rx \cup rx_wrptr .. rx_wrptr + Fill - 1 |->
     IF i >= rx_wrptr /\ i < rx_wrptr + Fill THEN arrived + i - rx_wrptr + 1 ELSE rx[i]]

\* Where the first delimiter ends, 0 if there is none.
Upto ==
  LET found == {n \in 1 .. rx_wrptr + Fill - rx_rdptr : Filled[rx_rdptr + n - 1] % Delimiter = 0}
  IN  IF found = {} THEN 0 ELSE Min(found)

Overflow(remaining) == RxLen - remaining < ClientBuf

\* Slip: the bytes that are left stay where they are.
MovedNot(remaining) == Filled
Moved(remaining) ==
  [i \in DOMAIN Filled |-> IF i < remaining THEN Filled[i + rx_rdptr] ELSE Filled[i]]

\* What both functions do: return the next len bytes if enough are there (len = 0: the
\* delimiter is not), or else move what is left to the front, and return it if another
\* event might not fit behind it.
Pull(len) ==
  LET wr == rx_wrptr + Fill
      remaining == wr - rx_rdptr
      enough == len # 0 /\ len <= remaining
      n == IF enough THEN len ELSE IF Overflow(remaining) THEN remaining ELSE 0
  IN  /\ got' = got \o [i \in 1 .. n |-> Filled[rx_rdptr + i - 1]]
      /\ IF enough
           THEN rx' = Filled /\ rx_wrptr' = wr /\ rx_rdptr' = rx_rdptr + len
           ELSE /\ rx' = Moved(remaining)
                /\ rx_rdptr' = 0 /\ rx_wrptr' = IF Overflow(remaining) THEN 0 ELSE remaining
      /\ rx_new_event' = (~enough /\ ~Overflow(remaining))
      /\ reading' = (n # 0)
      /\ arrived' = arrived + Fill /\ event' = event - Fill

xtcp_buffered_recv(len) == reading /\ len > 0 /\ Pull(len)
xtcp_buffered_recv_upto == reading /\ Pull(Upto)

RxNext ==
  \/ RecvEvent
  \/ \E len \in Lengths : xtcp_buffered_recv(len)
  \/ xtcp_buffered_recv_upto

-----------------------------------------------------------------------------
\* The application gets the bytes that were received, in order, each once; also those
\* that are returned because of an overflow.
RecvStream == INSTANCE Stream WITH given <- [i \in 1 .. arrived |-> i], taken <- got
GetsWhatArrived == RecvStream!StreamSpec
=============================================================================
