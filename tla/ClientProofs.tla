---------------------------- MODULE ClientProofs ----------------------------
(***************************************************************************)
(* Proofs about the client libraries and the servers built on them, for    *)
(* every value of their constants.                                         *)
(***************************************************************************)
EXTENDS MCServices, SequenceTheorems, WellFoundedInduction, TLAPS

-----------------------------------------------------------------------------
(* A byte is its place in the stream: sequences that count from 1.         *)
Counting(n) == [i \in 1 .. n |-> i]

LEMMA CountingPrefix ==
  ASSUME NEW m \in Nat, NEW n \in Nat, m <= n
  PROVE  IsPrefix(Counting(m), Counting(n))
  BY DEF IsPrefix, Counting

\* The k bytes that follow m of them.
Following(m, k) == [i \in 1 .. k |-> m + i]

LEMMA FollowingEmpty ==
  ASSUME NEW m \in Nat, NEW k \in Nat
  PROVE  (Following(m, k) = <<>> <=> k = 0) /\ Len(Following(m, k)) = k /\ Len(Counting(m)) = m
  BY DEF Following, Counting

\* What follows m bytes, in order, makes more of the stream of them.
LEMMA CountingAppend ==
  ASSUME NEW m \in Nat, NEW k \in Nat
  PROVE  Counting(m) \o Following(m, k) = Counting(m + k)
<1> DEFINE s == Counting(m) \o [i \in 1 .. k |-> m + i]
<1>1. Counting(m) \in Seq(Nat) /\ Len(Counting(m)) = m
  BY DEF Counting
<1>2. [i \in 1 .. k |-> m + i] \in Seq(Nat) /\ Len([i \in 1 .. k |-> m + i]) = k
  OBVIOUS
<1>3. Counting(m + k) \in Seq(Nat) /\ Len(Counting(m + k)) = m + k
  BY DEF Counting
<1> DEFINE t == [i \in 1 .. k |-> m + i]
<1>4. \A i \in 1 .. m + k : s[i] = Counting(m + k)[i]
  BY <1>1, <1>2 DEF Counting
<1>5. s \in Seq(Nat) /\ Len(s) = m + k
  BY <1>1, <1>2
<1> HIDE DEF t, s
<1>6. s = Counting(m + k)
  BY <1>3, <1>4, <1>5, SeqEqual, Zenon
<1> QED BY <1>6 DEF Following, s

-----------------------------------------------------------------------------
(* The sending half of the buffered client (xtcp_buffered_client.c).       *)

TxTypes ==
  /\ tx \in [TxOffsets -> Nat]
  /\ tx_prev_rdptr \in 0 .. tx_rdptr /\ tx_rdptr \in 0 .. tx_wrptr /\ tx_wrptr \in 0 .. TxLen
  /\ queued \in Nat

\* The buffer ends with the last byte that was queued, what is outstanding begins
\* where it may be sent again from, and what was acknowledged ends before that.
TxHolds ==
  /\ tx_wrptr - tx_prev_rdptr <= queued
  /\ \A i \in tx_prev_rdptr .. tx_wrptr - 1 : tx[i] = queued - tx_wrptr + i + 1
  /\ sent = Counting(queued - tx_wrptr + tx_prev_rdptr)
  /\ out = [i \in 1 .. tx_rdptr - tx_prev_rdptr |-> queued - tx_wrptr + tx_prev_rdptr + i]

TxInv == TxTypes /\ TxHolds

LEMMA TxInitInv == TxInit => TxInv
  BY TxAssumption DEF TxInit, TxInv, TxTypes, TxHolds, TxOffsets, Counting

LEMMA TxSendInv ==
  ASSUME NEW len \in Messages
  PROVE  TxInv /\ xtcp_buffered_send(len) =>
            /\ TxInv' /\ queued <= queued' /\ sent' = sent
<1> SUFFICES ASSUME TxInv, xtcp_buffered_send(len)
             PROVE  TxInv' /\ queued <= queued' /\ sent' = sent
  OBVIOUS
<1> USE TxAssumption DEF TxInv
<1> DEFINE shift == Compact(len)
           wr == tx_wrptr - shift
           moved == [i \in TxOffsets |-> IF i < tx_wrptr - shift THEN tx[i + shift] ELSE tx[i]]
<1>1. len \in Nat /\ TxLen \in Nat \ {0}
  OBVIOUS
<1>2. shift \in 0 .. tx_prev_rdptr
  BY DEF Compact, TxTypes
<1>3. /\ tx_prev_rdptr' = tx_prev_rdptr - shift /\ tx_rdptr' = tx_rdptr - shift
      /\ out' = out /\ sent' = sent
  BY DEF xtcp_buffered_send
<1>4. /\ moved \in [TxOffsets -> Nat]
      /\ \A i \in TxOffsets : i < wr => moved[i] = tx[i + shift]
  BY <1>2 DEF TxTypes, TxOffsets
<1>5. CASE TxLen - wr >= len
  <2>1. /\ tx' = [i \in TxOffsets |-> IF i \in wr .. wr + len - 1 THEN queued + i - wr + 1 ELSE moved[i]]
        /\ tx_wrptr' = wr + len /\ queued' = queued + len
    BY <1>5 DEF xtcp_buffered_send
  <2> HIDE DEF shift, moved
  <2>2. tx' \in [TxOffsets -> Nat]
    <3>1. \A i \in TxOffsets : i \in wr .. wr + len - 1 => queued + i - wr + 1 \in Nat
      BY <1>1, <1>2 DEF TxTypes, TxOffsets
    <3> QED BY <1>4, <2>1, <3>1
  <2>3. TxTypes'
    BY <1>1, <1>2, <1>3, <1>5, <2>1, <2>2 DEF TxTypes
  <2>4. \A i \in tx_prev_rdptr' .. tx_wrptr' - 1 : tx'[i] = queued' - tx_wrptr' + i + 1
    <3> SUFFICES ASSUME NEW i \in tx_prev_rdptr' .. tx_wrptr' - 1
                 PROVE  tx'[i] = queued' - tx_wrptr' + i + 1
      OBVIOUS
    <3> HIDE DEF wr
    <3>0. wr \in Nat /\ wr = tx_wrptr - shift
      BY <1>2 DEF TxTypes, wr
    <3>1. i \in TxOffsets /\ i \in Nat /\ tx_prev_rdptr - shift <= i
      BY <1>1, <1>2, <1>3, <1>5, <2>1, <3>0 DEF TxTypes, TxOffsets
    <3>2. CASE i \in wr .. wr + len - 1
      <4>1. tx'[i] = queued + i - wr + 1
        BY <2>1, <3>1, <3>2
      <4> QED BY <1>1, <2>1, <3>0, <3>1, <4>1 DEF TxTypes
    <3>3. CASE i < wr
      <4>1. tx'[i] = tx[i + shift]
        BY <1>1, <1>4, <2>1, <3>0, <3>1, <3>3
      <4>2. i + shift \in tx_prev_rdptr .. tx_wrptr - 1
        BY <1>2, <3>0, <3>1, <3>3 DEF TxTypes
      <4>3. tx[i + shift] = queued - tx_wrptr + (i + shift) + 1
        BY <4>2 DEF TxHolds
      <4> QED BY <1>1, <1>2, <2>1, <3>0, <3>1, <4>1, <4>3 DEF TxTypes
    <3> QED BY <1>1, <2>1, <3>0, <3>1, <3>2, <3>3
  <2>5. /\ queued' - tx_wrptr' + tx_prev_rdptr' = queued - tx_wrptr + tx_prev_rdptr
        /\ tx_rdptr' - tx_prev_rdptr' = tx_rdptr - tx_prev_rdptr
        /\ tx_wrptr' - tx_prev_rdptr' <= queued'
    BY <1>1, <1>2, <1>3, <2>1 DEF TxTypes, TxHolds
  <2>6. TxHolds'
    BY <1>3, <2>4, <2>5 DEF TxHolds
  <2> QED BY <1>1, <1>3, <2>1, <2>3, <2>6 DEF TxTypes
<1>6. CASE ~(TxLen - wr >= len)
  <2>1. tx' = moved /\ tx_wrptr' = wr /\ queued' = queued
    BY <1>6 DEF xtcp_buffered_send
  <2> HIDE DEF shift, moved
  <2>2. TxTypes'
    BY <1>1, <1>2, <1>3, <1>4, <2>1 DEF TxTypes
  <2>3. \A i \in tx_prev_rdptr' .. tx_wrptr' - 1 : tx'[i] = queued' - tx_wrptr' + i + 1
    BY <1>1, <1>2, <1>3, <1>4, <2>1 DEF TxTypes, TxHolds, TxOffsets
  <2>4. /\ queued' - tx_wrptr' + tx_prev_rdptr' = queued - tx_wrptr + tx_prev_rdptr
        /\ tx_rdptr' - tx_prev_rdptr' = tx_rdptr - tx_prev_rdptr
        /\ tx_wrptr' - tx_prev_rdptr' <= queued'
    BY <1>1, <1>2, <1>3, <2>1 DEF TxTypes, TxHolds
  <2>5. TxHolds'
    BY <1>3, <2>3, <2>4 DEF TxHolds
  <2> QED BY <1>3, <2>1, <2>2, <2>5 DEF TxTypes
<1> QED BY <1>5, <1>6

\* More data are given while nothing is outstanding, or when that is acknowledged.
LEMMA TxMoreInv ==
  TxInv /\ MoreData /\ sent' = sent \o out =>
      TxInv' /\ queued' = queued /\ queued - tx_wrptr + tx_rdptr <= queued
             /\ sent' = Counting(queued - tx_wrptr + tx_rdptr)
             /\ queued - tx_wrptr + tx_prev_rdptr <= queued - tx_wrptr + tx_rdptr
<1> SUFFICES ASSUME TxInv, MoreData, sent' = sent \o out
             PROVE  TxInv' /\ queued' = queued /\ queued - tx_wrptr + tx_rdptr <= queued
             /\ sent' = Counting(queued - tx_wrptr + tx_rdptr)
             /\ queued - tx_wrptr + tx_prev_rdptr <= queued - tx_wrptr + tx_rdptr
  OBVIOUS
<1> USE TxAssumption DEF TxInv
<1> DEFINE len == Least(tx_wrptr - tx_rdptr, Mss)
<1>1. len \in 0 .. tx_wrptr - tx_rdptr
  <2>1. tx_wrptr - tx_rdptr \in Nat /\ Mss \in Nat
    BY DEF TxTypes
  <2> QED BY <2>1 DEF Least
<1>2. /\ out' = Bytes(tx_rdptr, tx_rdptr + len)
      /\ tx_prev_rdptr' = tx_rdptr /\ tx_rdptr' = tx_rdptr + len
      /\ tx' = tx /\ tx_wrptr' = tx_wrptr /\ queued' = queued
  BY DEF MoreData
<1> HIDE DEF len
<1>3. TxTypes'
  BY <1>1, <1>2 DEF TxTypes
<1> DEFINE m == queued - tx_wrptr + tx_prev_rdptr
           k == tx_rdptr - tx_prev_rdptr
<1>4. m \in Nat /\ k \in Nat /\ m + k = queued - tx_wrptr + tx_rdptr /\ m + k <= queued
  BY DEF TxTypes, TxHolds
<1>5. sent' = Counting(m) \o [i \in 1 .. k |-> m + i]
  BY DEF TxHolds
<1> HIDE DEF m, k
<1>6. sent' = Counting(m + k)
  BY <1>4, <1>5, CountingAppend DEF Following
<1>7. out' = [i \in 1 .. tx_rdptr' - tx_prev_rdptr' |-> queued' - tx_wrptr' + tx_prev_rdptr' + i]
  BY <1>1, <1>2 DEF Bytes, TxTypes, TxHolds
<1>8. TxHolds'
  <2>1. tx_wrptr' - tx_prev_rdptr' <= queued'
    BY <1>2 DEF TxTypes, TxHolds
  <2>2. \A i \in tx_prev_rdptr' .. tx_wrptr' - 1 : tx'[i] = queued' - tx_wrptr' + i + 1
    BY <1>2 DEF TxTypes, TxHolds
  <2>3. sent' = Counting(queued' - tx_wrptr' + tx_prev_rdptr')
    BY <1>2, <1>4, <1>6
  <2> QED BY <1>7, <2>1, <2>2, <2>3 DEF TxHolds
<1> QED BY <1>2, <1>3, <1>4, <1>6, <1>8 DEF TxTypes, m

LEMMA TxStep ==
  TxInv /\ [TxNext]_txVars => TxInv' /\ (SendStream!StreamNext \/ UNCHANGED <<queued, sent>>)
<1> SUFFICES ASSUME TxInv, [TxNext]_txVars
             PROVE  TxInv' /\ (SendStream!StreamNext \/ UNCHANGED <<queued, sent>>)
  OBVIOUS
<1> USE DEF TxInv
<1> DEFINE n == queued - tx_wrptr + tx_prev_rdptr
<1>0. n \in Nat /\ n <= queued /\ queued \in Nat /\ sent = Counting(n)
  BY DEF TxTypes, TxHolds
<1>1. ASSUME NEW len \in Messages, xtcp_buffered_send(len)
      PROVE  TxInv' /\ SendStream!StreamNext
  <2>1. TxInv' /\ queued <= queued' /\ sent' = sent
    BY <1>1, TxSendInv
  <2>2. queued' \in Nat
    BY <2>1 DEF TxTypes
  <2> HIDE DEF n
  <2> QED BY <1>0, <2>1, <2>2, CountingPrefix DEF SendStream!StreamNext, SendStream!IsPrefix, IsPrefix, Counting
<1>2. CASE MoreData /\ sent' = sent \o out
  <2> DEFINE m == queued - tx_wrptr + tx_rdptr
  <2>1. TxInv' /\ queued' = queued /\ m <= queued /\ sent' = Counting(m) /\ n <= m
    BY <1>2, TxMoreInv
  <2>2. m \in Nat
    BY <1>0, <2>1 DEF TxTypes
  <2> HIDE DEF n, m
  <2> QED BY <1>0, <2>1, <2>2, CountingPrefix DEF SendStream!StreamNext, SendStream!IsPrefix, IsPrefix, Counting
<1>3. CASE RequestData
  <2>1. sent' = sent \o out
    BY <1>0, <1>3 DEF RequestData, Counting
  <2> QED BY <1>2, <1>3, <2>1 DEF RequestData
<1>4. CASE SentData
  BY <1>2, <1>4 DEF SentData
<1>5. CASE ResendData
  <2>1. out' = out
    BY <1>5 DEF ResendData, Bytes, TxTypes, TxHolds
  <2> QED BY <1>5, <2>1 DEF ResendData, TxTypes, TxHolds, TxOffsets
<1>6. CASE UNCHANGED txVars
  BY <1>6 DEF txVars, TxTypes, TxHolds
<1> QED BY <1>1, <1>3, <1>4, <1>5, <1>6 DEF TxNext

LEMMA ServicesTx == [Next]_vars => [TxNext]_txVars
  BY DEF Next, vars, clientVars, ClientNext, HostNext

\* What the peer acknowledges is what the application queued, in order and each
\* byte once, for every length of the buffer, of the messages and of the segments:
\* the sending half of the buffered client implements Stream.
THEOREM SendKeepsStream == Spec => SendsWhatWasQueued
<1>1. Init => TxInv /\ SendStream!StreamInit
  <2>1. TxInit => SendStream!StreamInit
    BY DEF TxInit, SendStream!StreamInit
  <2> QED BY <2>1, TxInitInv DEF Init
<1>2. TxInv /\ [Next]_vars =>
        TxInv' /\ [SendStream!StreamNext]_<<[i \in 1 .. queued |-> i], sent>>
  BY TxStep, ServicesTx
<1> QED BY <1>1, <1>2, PTL DEF Spec, SendsWhatWasQueued, SendStream!StreamSpec

-----------------------------------------------------------------------------
(* The receiving half of the buffered client.                              *)

RxTypes ==
  /\ rx \in [0 .. RxLen - 1 -> Nat]
  /\ rx_rdptr \in 0 .. rx_wrptr /\ rx_wrptr \in 0 .. RxLen
  /\ arrived \in Nat /\ event \in 0 .. ClientBuf

\* The buffer ends with the last byte that was taken from the server, and what was
\* returned ends where the rest of it begins.
RxHolds ==
  /\ rx_wrptr - rx_rdptr <= arrived
  /\ \A i \in rx_rdptr .. rx_wrptr - 1 : rx[i] = arrived - rx_wrptr + i + 1
  /\ got = Counting(arrived - rx_wrptr + rx_rdptr)

\* When the next call takes data there is room for all that an event may bring;
\* it does when the application has stopped calling.
RxRoom ==
  /\ rx_new_event \in BOOLEAN /\ reading \in BOOLEAN
  /\ rx_new_event = TRUE => rx_wrptr + ClientBuf <= RxLen
  /\ rx_new_event = FALSE => event = 0 /\ reading = TRUE

RxInv == RxTypes /\ RxHolds /\ RxRoom

LEMMA RxInitInv == RxInit => RxInv
<1> SUFFICES ASSUME RxInit PROVE RxInv
  OBVIOUS
<1>1. RxTypes
  BY RxAssumption DEF RxInit, RxTypes
<1>3. RxRoom
  <2>1. rx_wrptr + ClientBuf <= RxLen
    BY RxAssumption DEF RxInit
  <2> QED BY <2>1, Zenon DEF RxInit, RxRoom
<1>2. RxHolds
  BY RxAssumption DEF RxInit, RxHolds, Counting
<1> QED BY <1>1, <1>2, <1>3 DEF RxInv

LEMMA RxEventInv == RxInv /\ RecvEvent => RxInv'
  BY RxAssumption DEF RecvEvent, RxInv, RxTypes, RxHolds, RxRoom

\* The data of an event go behind what is left in the buffer, and fit.
LEMMA RxFilled ==
  ASSUME RxInv
  PROVE  /\ Fill \in Nat /\ rx_wrptr + Fill \in 0 .. RxLen /\ event - Fill = 0
         /\ Filled \in [0 .. RxLen - 1 -> Nat]
         /\ \A i \in rx_rdptr .. rx_wrptr + Fill - 1 :
               Filled[i] = (arrived + Fill) - (rx_wrptr + Fill) + i + 1
<1> USE RxAssumption DEF RxInv
<1>1. Fill \in 0 .. ClientBuf /\ rx_wrptr + Fill \in 0 .. RxLen /\ event - Fill = 0
  <2>1. CASE rx_new_event = TRUE
    BY <2>1 DEF Fill, RxTypes, RxRoom
  <2>2. CASE rx_new_event = FALSE
    BY <2>2 DEF Fill, RxTypes, RxRoom
  <2> QED BY <2>1, <2>2 DEF RxRoom
<1> DEFINE f == Fill
<1>2. DOMAIN rx \cup rx_wrptr .. rx_wrptr + f - 1 = 0 .. RxLen - 1
  <2> HIDE DEF f
  <2>1. f \in Nat /\ rx_wrptr + f <= RxLen /\ rx_wrptr \in Nat
    BY <1>1 DEF f, RxTypes
  <2>2. DOMAIN rx = 0 .. RxLen - 1
    BY DEF RxTypes
  <2>3. rx_wrptr .. rx_wrptr + f - 1 \subseteq 0 .. RxLen - 1
    BY <2>1
  <2> QED BY <2>2, <2>3
<1>3. Filled = [i \in 0 .. RxLen - 1 |->
                  IF i >= rx_wrptr /\ i < rx_wrptr + f THEN arrived + i - rx_wrptr + 1 ELSE rx[i]]
  BY <1>2, Zenon DEF Filled
<1>4. Filled \in [0 .. RxLen - 1 -> Nat]
  <2> HIDE DEF f
  <2>1. \A i \in 0 .. RxLen - 1 : i >= rx_wrptr => arrived + i - rx_wrptr + 1 \in Nat
    BY DEF RxTypes
  <2> QED BY <1>3, <2>1 DEF RxTypes
<1>5. ASSUME NEW i \in rx_rdptr .. rx_wrptr + f - 1
      PROVE  Filled[i] = (arrived + f) - (rx_wrptr + f) + i + 1
  <2> HIDE DEF f
  <2>1. f \in Nat /\ i \in 0 .. RxLen - 1
    BY <1>1 DEF f, RxTypes
  <2>2. CASE i >= rx_wrptr
    <3>1. i < rx_wrptr + f
      BY <2>1 DEF RxTypes
    <3>2. Filled[i] = arrived + i - rx_wrptr + 1
      BY <1>3, <2>1, <2>2, <3>1
    <3> QED BY <2>1, <3>2 DEF RxTypes
  <2>3. CASE ~(i >= rx_wrptr)
    <3>1. Filled[i] = rx[i]
      BY <1>3, <2>1, <2>3
    <3>2. i \in rx_rdptr .. rx_wrptr - 1
      BY <2>1, <2>3 DEF RxTypes
    <3> QED BY <2>1, <3>1, <3>2 DEF RxTypes, RxHolds
  <2> QED BY <2>2, <2>3
<1> QED BY <1>1, <1>4, <1>5

\* A call takes an event, returns bytes or moves what is left, and keeps the stream.
LEMMA RxPullInv ==
  ASSUME NEW len \in Nat, RxInv, reading = TRUE, Pull(len)
  PROVE  /\ RxInv' /\ arrived <= arrived'
         /\ arrived - rx_wrptr + rx_rdptr <= arrived' - rx_wrptr' + rx_rdptr'
<1> USE RxAssumption
<1> DEFINE f == Fill
           b == Filled
           wr == rx_wrptr + f
           remaining == wr - rx_rdptr
           enough == len # 0 /\ len <= remaining
           over == RxLen - remaining < ClientBuf
           n == IF enough THEN len ELSE IF over THEN remaining ELSE 0
           m == arrived - rx_wrptr + rx_rdptr
<1>1. /\ got' = got \o [i \in 1 .. n |-> b[rx_rdptr + i - 1]]
      /\ enough => rx' = b /\ rx_wrptr' = wr /\ rx_rdptr' = rx_rdptr + len
      /\ ~enough => /\ rx' = Moved(remaining) /\ rx_rdptr' = 0
                    /\ rx_wrptr' = IF over THEN 0 ELSE remaining
      /\ rx_new_event' = (~enough /\ ~over)
      /\ reading' = (n # 0)
      /\ arrived' = arrived + f /\ event' = event - f
  BY DEF Pull, Overflow
<1>2. /\ f \in Nat /\ rx_wrptr + f \in 0 .. RxLen /\ event - f = 0 /\ b \in [0 .. RxLen - 1 -> Nat]
      /\ \A i \in rx_rdptr .. rx_wrptr + f - 1 : b[i] = (arrived + f) - (rx_wrptr + f) + i + 1
  <2>1. f = Fill /\ b = Filled
    OBVIOUS
  <2> HIDE DEF f, b
  <2> QED BY <2>1, RxFilled, Zenon
<1>3. Moved(remaining) = [i \in 0 .. RxLen - 1 |-> IF i < remaining THEN b[i + rx_rdptr] ELSE b[i]]
  <2>1. DOMAIN Filled = 0 .. RxLen - 1
    BY <1>2
  <2> QED BY <2>1 DEF Moved
<1> HIDE DEF f, b
<1>4. /\ rx_rdptr \in Nat /\ rx_wrptr \in Nat /\ rx_rdptr <= rx_wrptr /\ arrived \in Nat
      /\ rx_wrptr - rx_rdptr <= arrived /\ got = Counting(m)
      /\ RxLen \in Nat /\ ClientBuf \in Nat \ {0} /\ ClientBuf <= RxLen
  BY DEF RxInv, RxTypes, RxHolds
<1>5. wr \in Nat /\ wr <= RxLen /\ remaining \in Nat /\ m \in Nat /\ (arrived + f) - wr + rx_rdptr = m
      /\ wr - rx_rdptr = remaining /\ arrived + f \in Nat /\ f \in Nat /\ wr = rx_wrptr + f
  BY <1>2, <1>4
<1> HIDE DEF wr, remaining
<1>7. n \in 0 .. remaining
  BY <1>5
<1> HIDE DEF m
<1>8. got' = Counting(m + n)
  <2> HIDE DEF n
  <2>1. [i \in 1 .. n |-> b[rx_rdptr + i - 1]] = [i \in 1 .. n |-> m + i]
    <3> SUFFICES ASSUME NEW i \in 1 .. n PROVE b[rx_rdptr + i - 1] = m + i
      OBVIOUS
    <3>1. rx_rdptr + i - 1 \in rx_rdptr .. rx_wrptr + f - 1
      BY <1>4, <1>5, <1>7
    <3>2. b[rx_rdptr + i - 1] = (arrived + f) - (rx_wrptr + f) + (rx_rdptr + i - 1) + 1
      BY <1>2, <3>1
    <3> QED BY <1>2, <1>4, <1>5, <1>7, <3>2
  <2>2. got' = Counting(m) \o [i \in 1 .. n |-> m + i]
    BY <1>1, <1>4, <2>1
  <2>3. n \in Nat /\ m \in Nat
    BY <1>5, <1>7
  <2> QED BY <2>2, <2>3, CountingAppend DEF Following
<1>9. CASE enough
  <2>1. n = len /\ len \in 1 .. remaining
    BY <1>5, <1>9
  <2>2. rx' = b /\ rx_wrptr' = wr /\ rx_rdptr' = rx_rdptr + len /\ rx_new_event' = FALSE
        /\ reading' = TRUE /\ event' = 0
    BY <1>1, <1>2, <1>9, <2>1
  <2>3. RxTypes'
    BY <1>1, <1>2, <1>4, <1>5, <2>1, <2>2 DEF RxTypes
  <2>4. RxRoom'
    BY <2>2 DEF RxRoom
  <2>5. m + n = arrived' - rx_wrptr' + rx_rdptr'
    BY <1>1, <1>2, <1>4, <1>5, <2>1, <2>2
  <2>6. \A i \in rx_rdptr' .. rx_wrptr' - 1 : rx'[i] = arrived' - rx_wrptr' + i + 1
    BY <1>1, <1>2, <1>4, <1>5, <2>1, <2>2
  <2>7. RxHolds'
    <3>1. rx_wrptr' - rx_rdptr' <= arrived'
      BY <1>1, <1>2, <1>4, <1>5, <2>1, <2>2
    <3> QED BY <1>8, <2>5, <2>6, <3>1 DEF RxHolds
  <2> QED BY <1>1, <1>2, <1>4, <1>5, <1>7, <2>3, <2>4, <2>5, <2>7 DEF RxInv, m
<1>10. CASE ~enough
  <2>1. n = (IF over THEN remaining ELSE 0)
    BY <1>10
  <2>2. rx' = Moved(remaining) /\ rx_rdptr' = 0 /\ rx_wrptr' = remaining - n
    BY <1>1, <1>5, <1>10, <2>1
  <2>3. Moved(remaining) \in [0 .. RxLen - 1 -> Nat]
    <3>1. \A i \in 0 .. RxLen - 1 : i < remaining => i + rx_rdptr \in 0 .. RxLen - 1
      BY <1>4, <1>5
    <3> QED BY <1>2, <1>3, <3>1
  <2>4. /\ over => n > 0 /\ reading' = TRUE /\ rx_new_event' = FALSE /\ rx_wrptr' = 0
        /\ ~over => n = 0 /\ reading' = FALSE /\ rx_new_event' = TRUE /\ rx_wrptr' = remaining
    <3>1. ASSUME over PROVE n > 0 /\ reading' = TRUE /\ rx_new_event' = FALSE /\ rx_wrptr' = 0
      <4>1. n = remaining /\ remaining > 0
        BY <1>4, <1>5, <2>1, <3>1
      <4>2. n # 0
        BY <1>5, <4>1
      <4>3. reading' = TRUE /\ rx_new_event' = FALSE
        BY <1>1, <1>10, <3>1, <4>2, Zenon
      <4>4. rx_wrptr' = 0
        BY <1>1, <1>10, <3>1
      <4> QED BY <1>5, <4>1, <4>3, <4>4
    <3>2. ASSUME ~over
          PROVE  n = 0 /\ reading' = FALSE /\ rx_new_event' = TRUE /\ rx_wrptr' = remaining
      BY <1>1, <1>4, <1>5, <1>10, <2>1, <3>2
    <3> QED BY <3>1, <3>2
  <2>5. event' = 0 /\ arrived' = arrived + f
    BY <1>1, <1>2
  <2>6. RxTypes'
    <3>1. rx_wrptr' \in 0 .. RxLen
      BY <1>4, <1>5, <1>7, <2>2
    <3>2. rx_rdptr' \in 0 .. rx_wrptr' /\ arrived' \in Nat /\ event' \in 0 .. ClientBuf
      BY <1>4, <1>5, <2>2, <2>5, <3>1
    <3> QED BY <2>2, <2>3, <3>1, <3>2 DEF RxTypes
  <2>7. RxRoom'
    <3>1. over \/ remaining + ClientBuf <= RxLen
      BY <1>4, <1>5
    <3> HIDE DEF over
    <3>2. CASE over
      BY <2>4, <2>5, <3>2, Zenon DEF RxRoom
    <3>3. CASE ~over
      BY <2>4, <2>5, <3>1, <3>3, Zenon DEF RxRoom
    <3> QED BY <3>2, <3>3
  <2> HIDE DEF n
  <2>8. m + n = arrived' - rx_wrptr' + rx_rdptr'
    BY <1>2, <1>4, <1>5, <1>7, <2>2, <2>5
  <2>9. ASSUME NEW i \in rx_rdptr' .. rx_wrptr' - 1
        PROVE  rx'[i] = arrived' - rx_wrptr' + i + 1
    <3>1. ~over /\ n = 0 /\ i \in 0 .. remaining - 1
      BY <1>4, <1>5, <2>2, <2>4
    <3>2. i \in 0 .. RxLen - 1 /\ i < remaining
      BY <1>4, <1>5, <3>1
    <3>3. rx'[i] = b[i + rx_rdptr]
      BY <1>3, <2>2, <3>2
    <3>4. i + rx_rdptr \in rx_rdptr .. rx_wrptr + f - 1
      BY <1>4, <1>5, <3>1
    <3>5. b[i + rx_rdptr] = (arrived + f) - (rx_wrptr + f) + (i + rx_rdptr) + 1
      BY <1>2, <3>4
    <3> QED BY <1>2, <1>4, <1>5, <2>2, <2>5, <3>1, <3>3, <3>5
  <2>10. RxHolds'
    <3>1. rx_wrptr' - rx_rdptr' <= arrived'
      BY <1>4, <1>5, <1>7, <2>2, <2>5, <2>8
    <3> QED BY <1>8, <2>8, <2>9, <3>1 DEF RxHolds
  <2> QED BY <1>2, <1>4, <1>5, <1>7, <2>5, <2>6, <2>7, <2>8, <2>10 DEF RxInv, m
<1> QED BY <1>9, <1>10

LEMMA LeastOf ==
  ASSUME NEW T, T \subseteq Nat, T # {}
  PROVE  \E x \in T : \A y \in T : x <= y
<1>1. PICK x \in T : \A y \in T : <<y, x>> \notin OpToRel(<, Nat)
  BY NatLessThanWellFounded, WFMin
<1>2. \A y \in T : ~(y < x)
  BY <1>1 DEF OpToRel
<1> QED BY <1>2

LEMMA UptoIsNat ==
  ASSUME RxInv
  PROVE  Upto \in Nat
<1> DEFINE found == {n \in 1 .. rx_wrptr + Fill - rx_rdptr : Filled[rx_rdptr + n - 1] % Delimiter = 0}
<1>1. CASE found = {}
  BY <1>1 DEF Upto
<1>2. CASE found # {}
  <2>1. found \subseteq Nat
    OBVIOUS
  <2> HIDE DEF found
  <2>2. PICK a \in found : \A x \in found : a <= x
    BY <1>2, <2>1, LeastOf
  <2>3. Min(found) \in found
    BY <2>2 DEF Min
  <2> QED BY <1>2, <2>1, <2>3 DEF Upto, found
<1> QED BY <1>1, <1>2

LEMMA PlaceWithin ==
  ASSUME NEW a \in Nat, NEW w \in Nat, NEW r \in 0 .. w, w - r <= a
  PROVE  a - w + r \in Nat /\ a - w + r <= a
  OBVIOUS

LEMMA RxStep ==
  RxInv /\ [RxNext]_rxVars => RxInv' /\ (RecvStream!StreamNext \/ UNCHANGED <<arrived, got>>)
<1> SUFFICES ASSUME RxInv, [RxNext]_rxVars
             PROVE  RxInv' /\ (RecvStream!StreamNext \/ UNCHANGED <<arrived, got>>)
  OBVIOUS
<1>1. CASE RecvEvent
  BY <1>1, RxEventInv DEF RecvEvent
<1>2. ASSUME NEW len \in Nat, reading = TRUE, Pull(len) PROVE RxInv' /\ RecvStream!StreamNext
  <2> DEFINE m == arrived - rx_wrptr + rx_rdptr
             n == arrived' - rx_wrptr' + rx_rdptr'
  <2>1. RxInv' /\ arrived <= arrived' /\ m <= n
    BY <1>2, RxPullInv
  <2>2. m \in Nat /\ n \in Nat /\ n <= arrived' /\ arrived \in Nat /\ arrived' \in Nat
    <3>1. m \in Nat /\ arrived \in Nat
      BY RxAssumption DEF RxInv, RxTypes, RxHolds
    <3>2. RxTypes' /\ RxHolds'
      BY <2>1 DEF RxInv
    <3>3. arrived' \in Nat /\ rx_wrptr' \in Nat /\ rx_rdptr' \in 0 .. rx_wrptr'
      BY <3>2, RxAssumption DEF RxTypes
    <3>4. rx_wrptr' - rx_rdptr' <= arrived'
      BY <3>2 DEF RxHolds
    <3>5. n \in Nat /\ n <= arrived'
      BY <3>3, <3>4, PlaceWithin
    <3> QED BY <3>1, <3>3, <3>5
  <2>3. got = Counting(m) /\ got' = Counting(n)
    BY <2>1 DEF RxInv, RxHolds
  <2> HIDE DEF m, n
  <2> QED BY <2>1, <2>2, <2>3, CountingPrefix
          DEF RecvStream!StreamNext, RecvStream!IsPrefix, IsPrefix, Counting
<1>3. ASSUME NEW len \in Lengths, xtcp_buffered_recv(len) PROVE RxInv' /\ RecvStream!StreamNext
  <2>1. len \in Nat /\ Pull(len)
    BY <1>3, RxAssumption DEF xtcp_buffered_recv
  <2>2. reading = TRUE
    BY <1>3 DEF xtcp_buffered_recv, RxInv, RxRoom
  <2> QED BY <1>2, <2>1, <2>2
<1>4. CASE xtcp_buffered_recv_upto
  <2>1. Upto \in Nat /\ Pull(Upto)
    BY <1>4, UptoIsNat DEF xtcp_buffered_recv_upto
  <2>2. reading = TRUE
    BY <1>4 DEF xtcp_buffered_recv_upto, RxInv, RxRoom
  <2> QED BY <1>2, <2>1, <2>2
<1>5. CASE UNCHANGED rxVars
  BY <1>5 DEF rxVars, RxInv, RxTypes, RxHolds, RxRoom
<1> QED BY <1>1, <1>3, <1>4, <1>5 DEF RxNext

LEMMA ServicesRx == [Next]_vars => [RxNext]_rxVars
  BY DEF Next, vars, clientVars, ClientNext, HostNext

\* The application gets the bytes that were received, in order and each once, also
\* those returned because of an overflow, for every length of the buffer and of the
\* events that fit: the receiving half of the buffered client implements Stream.
THEOREM RecvKeepsStream == Spec => GetsWhatArrived
<1>1. Init => RxInv /\ RecvStream!StreamInit
  <2>1. RxInit => RecvStream!StreamInit
    BY DEF RxInit, RecvStream!StreamInit
  <2> QED BY <2>1, RxInitInv DEF Init
<1>2. RxInv /\ [Next]_vars =>
        RxInv' /\ [RecvStream!StreamNext]_<<[i \in 1 .. arrived |-> i], got>>
  BY RxStep, ServicesRx
<1> QED BY <1>1, <1>2, PTL DEF Spec, GetsWhatArrived, RecvStream!StreamSpec

\* No event is written past the end of the receive buffer, which is checked nowhere
\* when it is taken: what is left is returned early enough (xtcp_buffered_recv).
THEOREM RecvStaysInBuffer == Spec => [](DOMAIN rx = 0 .. RxLen - 1 /\ rx_wrptr <= RxLen)
<1>1. Init => RxInv
  BY RxInitInv DEF Init
<1>2. RxInv /\ [Next]_vars => RxInv'
  BY RxStep, ServicesRx
<1>3. RxInv => DOMAIN rx = 0 .. RxLen - 1 /\ rx_wrptr <= RxLen
  BY RxAssumption DEF RxInv, RxTypes
<1> QED BY <1>1, <1>2, <1>3, PTL DEF Spec

-----------------------------------------------------------------------------
(* The blocking client (xtcp_blocking_client.xc).                          *)

\* The bytes acknowledged and on their way are those of the writes so far: while
\* one goes on, up to prev and from there to index.
BlWrites(a, k) ==
  /\ ackd = Counting(a) /\ inflight = Following(a, k)
  /\ call = "write" => /\ prev <= index /\ index <= bl_len
                       /\ a = base + prev /\ k = index - prev
  /\ call = "written" => k = 0 /\ a = base + bl_len

\* The bytes read and offered are those the peer has sent.
BlReads(r, k) ==
  readBytes = Counting(r) /\ incoming = Following(r, k) /\ arrivedBytes = r + k

BlInv ==
  /\ {bl_len, index, prev, base} \subseteq Nat
  /\ \E a, k \in Nat : BlWrites(a, k)
  /\ \E r, k \in Nat : BlReads(r, k)

LEMMA BlInitInv == BlInit => BlInv
<1> SUFFICES ASSUME BlInit PROVE BlInv
  OBVIOUS
<1>1. BlWrites(0, 0)
  BY DEF BlInit, BlWrites, Counting, Following
<1>2. BlReads(0, 0)
  BY DEF BlInit, BlReads, Counting, Following
<1>3. {bl_len, index, prev, base} \subseteq Nat
  BY DEF BlInit
<1> QED BY <1>1, <1>2, <1>3 DEF BlInv

\* What xtcp_write gives next when nothing, or nothing any more, is outstanding.
LEMMA BlSendStep ==
  ASSUME BlInv, NEW a \in Nat, call = "write", prev <= index, index <= bl_len, a = base + index,
         WriteSend, ackd' = Counting(a), bl_len' = bl_len, base' = base
  PROVE  {bl_len, index, prev, base}' \subseteq Nat /\ \E b, k \in Nat : BlWrites(b, k)'
<1> USE BlAssumption
<1>1. /\ bl_len \in Nat /\ index \in Nat /\ prev \in Nat /\ base \in Nat
  BY DEF BlInv
<1>2. PICK n \in Nat : n = Smaller(bl_len - index, BlMss) /\ n <= bl_len - index /\ (n = 0 => bl_len = index)
  <2>1. bl_len - index \in Nat /\ BlMss \in Nat \ {0}
    BY <1>1
  <2>2. ASSUME NEW x \in Nat, NEW y \in Nat \ {0}
        PROVE  Smaller(x, y) \in Nat /\ Smaller(x, y) <= x /\ (Smaller(x, y) = 0 => x = 0)
    BY DEF Smaller
  <2>3. LET z == Smaller(bl_len - index, BlMss)
        IN  z \in Nat /\ z <= bl_len - index /\ (z = 0 => bl_len - index = 0)
    BY <2>1, <2>2
  <2>4. bl_len - index = 0 => bl_len = index
    BY <1>1
  <2> QED BY <2>3, <2>4
<1>3. /\ inflight' = [i \in 1 .. n |-> base + index + i]
      /\ prev' = index /\ index' = index + n
      /\ call' = IF n = 0 THEN "written" ELSE "write"
  BY <1>2 DEF WriteSend
<1>4. inflight' = Following(a, n)
  BY <1>3 DEF Following
<1>5. {bl_len, index, prev, base}' \subseteq Nat
  BY <1>1, <1>2, <1>3
<1>6. BlWrites(a, n)'
  <2>1. call' = "write" => /\ prev' <= index' /\ index' <= bl_len'
                           /\ a = base' + prev' /\ n = index' - prev'
    BY <1>1, <1>2, <1>3
  <2>2. call' = "written" => n = 0 /\ a = base' + bl_len'
    BY <1>1, <1>2, <1>3
  <2> QED BY <1>4, <2>1, <2>2 DEF BlWrites
<1> QED BY <1>2, <1>5, <1>6

\* A step of the writing side keeps its part of the invariant, whatever becomes of
\* the call, as long as it leaves the bytes and the places alone.
LEMMA BlWritesKept ==
  ASSUME NEW a \in Nat, NEW k \in Nat, BlWrites(a, k),
         UNCHANGED <<ackd, inflight, blCall>>,
         call' = call \/ call' \notin {"write", "written"}
  PROVE  BlWrites(a, k)'
  BY DEF BlWrites, blCall

LEMMA BlStep ==
  BlInv /\ [BlNext]_blVars =>
      BlInv' /\ (BlStream!StreamNext \/ UNCHANGED <<arrivedBytes, readBytes>>)
<1> SUFFICES ASSUME BlInv, [BlNext]_blVars
             PROVE  BlInv' /\ (BlStream!StreamNext \/ UNCHANGED <<arrivedBytes, readBytes>>)
  OBVIOUS
<1>0. PICK a \in Nat, k \in Nat : BlWrites(a, k)
  BY DEF BlInv
<1>1. PICK r \in Nat, j \in Nat : BlReads(r, j)
  BY DEF BlInv
<1>2. bl_len \in Nat /\ index \in Nat /\ prev \in Nat /\ base \in Nat
  BY DEF BlInv
<1>3. /\ (inflight = <<>> <=> k = 0) /\ Len(ackd) = a
      /\ (incoming = <<>> <=> j = 0) /\ Len(incoming) = j
  BY <1>0, <1>1, FollowingEmpty DEF BlWrites, BlReads
\* The steps that leave the bytes that are read and those that are written alone.
<1>4. ASSUME UNCHANGED <<readBytes, incoming, arrivedBytes>>
      PROVE  BlReads(r, j)'
  BY <1>1, <1>4 DEF BlReads
<1>5. ASSUME BlReads(r, j)', {bl_len, index, prev, base}' \subseteq Nat,
             NEW b \in Nat, NEW n \in Nat, BlWrites(b, n)'
      PROVE  BlInv'
  BY <1>5 DEF BlInv
<1>6. ASSUME UNCHANGED <<ackd, inflight, blCall>>, UNCHANGED <<readBytes, incoming, arrivedBytes>>,
             call' = call \/ call' \notin {"write", "written"}
      PROVE  BlInv' /\ UNCHANGED <<arrivedBytes, readBytes>>
  <2>1. BlWrites(a, k)'
    BY <1>0, <1>6, BlWritesKept
  <2>2. {bl_len, index, prev, base}' \subseteq Nat
    BY <1>2, <1>6 DEF blCall
  <2> QED BY <1>4, <1>5, <1>6, <2>1, <2>2
<1>10. CASE xtcp_wait_for_ifup
  BY <1>6, <1>10 DEF xtcp_wait_for_ifup, blServer
<1>11. CASE xtcp_wait_for_connection
  BY <1>6, <1>11 DEF xtcp_wait_for_connection, blServer
<1>12. ASSUME NEW len \in WriteLens, WriteBegins(len)
       PROVE  BlInv' /\ UNCHANGED <<arrivedBytes, readBytes>>
  <2>1. len \in Nat /\ k = 0
    BY <1>3, <1>12, BlAssumption DEF WriteBegins
  <2>2. {bl_len, index, prev, base}' \subseteq Nat
    BY <1>3, <1>12, <2>1 DEF WriteBegins
  <2>3. BlWrites(a, 0)'
    <3>1. /\ ackd' = ackd /\ inflight' = inflight /\ call' = "write" /\ index' = 0 /\ prev' = 0
          /\ bl_len' = len /\ base' = a
      BY <1>3, <1>12 DEF WriteBegins
    <3>2. ackd = Counting(a) /\ inflight = Following(a, 0)
      BY <1>0, <2>1 DEF BlWrites
    <3> QED BY <2>1, <3>1, <3>2 DEF BlWrites
  <2> QED BY <1>4, <1>5, <1>12, <2>2, <2>3 DEF WriteBegins
<1>13. ASSUME NEW len \in MinLens, ReadBegins(len)
       PROVE  BlInv' /\ UNCHANGED <<arrivedBytes, readBytes>>
  <2>1. {bl_len, index, prev, base}' \subseteq Nat
    BY <1>2, <1>13, BlAssumption DEF ReadBegins
  <2>2. BlWrites(a, k)'
    BY <1>0, <1>13 DEF ReadBegins, BlWrites, blServer
  <2> QED BY <1>4, <1>5, <1>13, <2>1, <2>2 DEF ReadBegins, blServer
<1>14. CASE WriteRequested
  <2>1. /\ WriteSend /\ ackd' = ackd /\ bl_len' = bl_len /\ base' = base /\ call = "write" /\ k = 0
        /\ UNCHANGED <<readBytes, incoming, arrivedBytes>>
    BY <1>3, <1>14 DEF WriteRequested
  <2>2. a = base + index /\ prev <= index /\ index <= bl_len /\ ackd' = Counting(a)
    BY <1>0, <1>2, <2>1 DEF BlWrites
  <2>3. {bl_len, index, prev, base}' \subseteq Nat /\ \E b, n \in Nat : BlWrites(b, n)'
    BY <2>1, <2>2, BlSendStep
  <2> QED BY <1>4, <1>5, <2>1, <2>3
<1>15. CASE WriteSent
  <2>1. /\ WriteSend /\ ackd' = ackd \o inflight /\ bl_len' = bl_len /\ base' = base
        /\ call = "write" /\ UNCHANGED <<readBytes, incoming, arrivedBytes>>
    BY <1>15 DEF WriteSent
  <2>2. a + k \in Nat /\ a + k = base + index /\ prev <= index /\ index <= bl_len
    BY <1>0, <1>2, <2>1 DEF BlWrites
  <2>3. ackd' = Counting(a + k)
    BY <1>0, <2>1, CountingAppend DEF BlWrites
  <2>4. {bl_len, index, prev, base}' \subseteq Nat /\ \E b, n \in Nat : BlWrites(b, n)'
    BY <2>1, <2>2, <2>3, BlSendStep
  <2> QED BY <1>4, <1>5, <2>1, <2>4
<1>16. CASE WriteResend
  <2>1. /\ call = "write" /\ inflight' = [i \in 1 .. index - prev |-> base + prev + i]
        /\ UNCHANGED <<call, blCall, ackd>> /\ UNCHANGED <<readBytes, incoming, arrivedBytes>>
    BY <1>16 DEF WriteResend
  <2>2. inflight' = inflight
    BY <1>0, <2>1 DEF BlWrites, Following
  <2> QED BY <1>6, <2>1, <2>2
<1>17. CASE WriteInterrupted
  <2>1. /\ call = "write" /\ call' = (IF prev # bl_len THEN "failed" ELSE "written")
        /\ UNCHANGED <<ackd, inflight, blCall>> /\ UNCHANGED <<readBytes, incoming, arrivedBytes>>
    BY <1>17 DEF WriteInterrupted, KeptInWrite
  <2>2. BlWrites(a, k)'
    BY <1>0, <1>2, <2>1 DEF BlWrites, blCall
  <2>3. {bl_len, index, prev, base}' \subseteq Nat
    BY <1>2, <2>1 DEF blCall
  <2> QED BY <1>4, <1>5, <2>1, <2>2, <2>3
<1>18. CASE ReadData
  <2>1. /\ call = "read" /\ call' \in {"read", "idle"} /\ index' = index + j
        /\ readBytes' = readBytes \o incoming /\ incoming' = <<>>
        /\ UNCHANGED <<bl_len, prev, base, inflight, ackd, arrivedBytes>>
    BY <1>3, <1>18 DEF ReadData
  <2>2. {bl_len, index, prev, base}' \subseteq Nat
    BY <1>2, <2>1
  <2>3. BlWrites(a, k)'
    BY <1>0, <2>1 DEF BlWrites
  <2>4. r + j \in Nat /\ readBytes' = Counting(r + j) /\ arrivedBytes' = r + j
    <3>1. readBytes' = Counting(r) \o Following(r, j) /\ arrivedBytes' = r + j
      BY <1>1, <2>1 DEF BlReads
    <3>2. r + j \in Nat
      OBVIOUS
    <3>3. Counting(r) \o Following(r, j) = Counting(r + j)
      BY CountingAppend
    <3> QED BY <3>1, <3>2, <3>3
  <2>5. BlReads(r + j, 0)'
    BY <2>1, <2>4, FollowingEmpty DEF BlReads
  <2>6. BlInv'
    BY <2>2, <2>3, <2>4, <2>5 DEF BlInv
  <2>7. IsPrefix(Counting(r), Counting(r + j)) /\ IsPrefix(Counting(r + j), Counting(r + j))
    BY <2>4, CountingPrefix
  <2>8. readBytes = Counting(r) /\ [i \in 1 .. arrivedBytes |-> i] = Counting(r + j)
        /\ [i \in 1 .. arrivedBytes' |-> i] = Counting(r + j)
    BY <1>1, <2>1, <2>4 DEF BlReads, Counting
  <2>9. BlStream!StreamNext
    BY <2>4, <2>7, <2>8 DEF BlStream!StreamNext, BlStream!IsPrefix, IsPrefix
  <2> QED BY <2>6, <2>9
<1>19. CASE ReadRequested
  <2>1. /\ call = "read" /\ call' = call /\ UNCHANGED blCall
        /\ UNCHANGED <<readBytes, incoming, arrivedBytes>>
        /\ \/ ackd' = ackd \o inflight /\ inflight' = <<>>
           \/ UNCHANGED <<ackd, inflight>>
    BY <1>19 DEF ReadRequested
  <2>2. CASE UNCHANGED <<ackd, inflight>>
    BY <1>6, <2>1, <2>2
  <2>3. CASE ackd' = ackd \o inflight /\ inflight' = <<>>
    <3>1. a + k \in Nat /\ ackd' = Counting(a + k)
      <4>1. ackd' = Counting(a) \o Following(a, k)
        BY <1>0, <2>3 DEF BlWrites
      <4>2. a + k \in Nat
        OBVIOUS
      <4>3. Counting(a) \o Following(a, k) = Counting(a + k)
        BY CountingAppend
      <4> QED BY <4>1, <4>2, <4>3
    <3>2. BlWrites(a + k, 0)'
      BY <2>1, <2>3, <3>1, FollowingEmpty DEF BlWrites
    <3>3. {bl_len, index, prev, base}' \subseteq Nat
      BY <1>2, <2>1 DEF blCall
    <3> QED BY <1>4, <1>5, <2>1, <3>1, <3>2, <3>3
  <2> QED BY <2>1, <2>2, <2>3
<1>20. CASE CallFails
  BY <1>6, <1>20 DEF CallFails, blServer
<1>21. CASE OtherConnection
  BY <1>6, <1>21 DEF OtherConnection, blServer
<1>22. CASE PeerSends
  <2>1. /\ j = 0 /\ arrivedBytes' = arrivedBytes + 1 /\ incoming' = <<arrivedBytes + 1>>
        /\ UNCHANGED <<call, blCall, ackd, inflight, readBytes>>
    BY <1>3, <1>22 DEF PeerSends
  <2>2. arrivedBytes = r /\ readBytes = Counting(r)
    BY <1>1, <2>1 DEF BlReads
  <2>3. BlReads(r, 1)'
    BY <2>1, <2>2 DEF BlReads, Following
  <2>4. BlWrites(a, k)'
    BY <1>0, <2>1, BlWritesKept
  <2>5. {bl_len, index, prev, base}' \subseteq Nat
    BY <1>2, <2>1 DEF blCall
  <2>6. BlInv'
    BY <2>3, <2>4, <2>5 DEF BlInv
  <2>7. IsPrefix(Counting(r), Counting(r)) /\ IsPrefix(Counting(r), Counting(r + 1))
    BY CountingPrefix
  <2>8. [i \in 1 .. arrivedBytes |-> i] = Counting(r) /\ [i \in 1 .. arrivedBytes' |-> i] = Counting(r + 1)
    BY <2>1, <2>2 DEF Counting
  <2>9. BlStream!StreamNext
    BY <2>1, <2>2, <2>7, <2>8 DEF BlStream!StreamNext, BlStream!IsPrefix, IsPrefix
  <2> QED BY <2>6, <2>9
<1>23. CASE UNCHANGED blVars
  BY <1>6, <1>23 DEF blVars, blCall
<1> QED
  BY <1>10, <1>11, <1>12, <1>13, <1>14, <1>15, <1>16, <1>17, <1>18, <1>19, <1>20, <1>21, <1>22,
     <1>23 DEF BlNext

LEMMA BlInvWritten == BlInv => WrittenIsAcked
<1> SUFFICES ASSUME BlInv PROVE WrittenIsAcked
  OBVIOUS
<1>1. PICK a \in Nat, k \in Nat : BlWrites(a, k)
  BY DEF BlInv
<1>2. (inflight = <<>> <=> k = 0) /\ Len(ackd) = a
  BY <1>1, FollowingEmpty DEF BlWrites
<1> QED BY <1>1, <1>2 DEF BlWrites, WrittenIsAcked, Counting

LEMMA ServicesBl == [Next]_vars => [BlNext]_blVars
  BY DEF Next, vars, clientVars, ClientNext, HostNext

\* What the peer sent reaches the application in order and complete, also what
\* arrived in the middle of a write: the blocking client implements Stream.
THEOREM ReadKeepsStream == Spec => ReadsWhatArrived
<1>1. Init => BlInv /\ BlStream!StreamInit
  <2>1. BlInit => BlStream!StreamInit
    BY DEF BlInit, BlStream!StreamInit
  <2> QED BY <2>1, BlInitInv DEF Init
<1>2. BlInv /\ [Next]_vars =>
        BlInv' /\ [BlStream!StreamNext]_<<[i \in 1 .. arrivedBytes |-> i], readBytes>>
  BY BlStep, ServicesBl
<1> QED BY <1>1, <1>2, PTL DEF Spec, ReadsWhatArrived, BlStream!StreamSpec

-----------------------------------------------------------------------------
(* The web server (httpd.c).                                               *)

WebTypes == [st : {"unused", "open", "closed"}, app : 0 .. HttpSlots, wanted : BOOLEAN,
             asked : BOOLEAN, flight : Seq(Nat), got : Seq(Nat), close : BOOLEAN, abort : BOOLEAN]
SlotTypes == [active : BOOLEAN, conn_id : 0 .. HttpConns, dptr : -1 .. PageLen, prev : -1 .. PageLen]

\* A connection that has a slot, before it asks for the page; between two parts of it,
\* or at its end; and with a part of it on its way.
HttpSilent(w, hs) ==
  /\ hs.dptr = NULLPTR
  /\ w.wanted = FALSE /\ w.asked = FALSE /\ w.flight = <<>> /\ w.got = <<>> /\ w.close = FALSE
HttpBetween(w, hs) ==
  /\ hs.dptr \in Nat
  /\ w.wanted = TRUE /\ w.flight = <<>> /\ w.got = Counting(hs.dptr)
  /\ w.close = TRUE => w.asked = FALSE
HttpSending(w, hs) ==
  /\ hs.dptr \in Nat /\ hs.prev \in Nat /\ hs.prev < hs.dptr
  /\ w.wanted = TRUE /\ w.asked = FALSE /\ w.close = FALSE
  /\ w.got = Counting(hs.prev) /\ w.flight = Following(hs.prev, hs.dptr - hs.prev)

\* What is true of connection c: its slot is its own while it is open, and what it got
\* is the page up to where the slot says.
HttpConn(w, c, cs) ==
  /\ w.st = "unused" => w.app = 0
  /\ w.app = 0 => w.wanted = FALSE /\ w.asked = FALSE /\ w.flight = <<>> /\ w.got = <<>> /\ w.close = FALSE
  /\ w.st = "open" /\ w.app # 0 =>
       /\ cs[w.app].active = TRUE /\ cs[w.app].conn_id = c
       /\ HttpSilent(w, cs[w.app]) \/ HttpBetween(w, cs[w.app]) \/ HttpSending(w, cs[w.app])
  /\ w.close = TRUE => w.got = Page
  /\ \E n \in 0 .. PageLen : w.got = Counting(n)
  /\ w.wanted = FALSE => w.got = <<>>

HttpInv ==
  /\ web \in [1 .. HttpConns -> WebTypes]
  /\ connection_states \in [1 .. HttpSlots -> SlotTypes]
  /\ \A c \in 1 .. HttpConns : HttpConn(web[c], c, connection_states)

LEMMA HttpInitInv == HttpInit => HttpInv
<1> SUFFICES ASSUME HttpInit PROVE HttpInv
  OBVIOUS
<1> DEFINE w == [st |-> "unused", app |-> 0, wanted |-> FALSE, asked |-> FALSE, flight |-> <<>>,
                 got |-> <<>>, close |-> FALSE, abort |-> FALSE]
           hs == [active |-> FALSE, conn_id |-> 0, dptr |-> NULLPTR, prev |-> NULLPTR]
<1>1. web = [c \in 1 .. HttpConns |-> w] /\ connection_states = [s \in 1 .. HttpSlots |-> hs]
  BY DEF HttpInit
<1>2. w \in WebTypes
  BY HttpConsts DEF WebTypes
<1>3. hs \in SlotTypes
  BY HttpConsts DEF SlotTypes, NULLPTR
<1>4. Counting(0) = <<>>
  BY DEF Counting
<1>5. /\ w.st = "unused" /\ w.app = 0 /\ w.wanted = FALSE /\ w.asked = FALSE /\ w.flight = <<>>
      /\ w.got = <<>> /\ w.close = FALSE
  OBVIOUS
<1> HIDE DEF w, hs
<1>6. \A c : HttpConn(w, c, connection_states)
  BY <1>4, <1>5, HttpConsts DEF HttpConn
<1> QED BY <1>1, <1>2, <1>3, <1>6 DEF HttpInv

\* A step of connection c that leaves the slots of the others alone.
LEMMA HttpStepOf ==
  ASSUME HttpInv, NEW c \in 1 .. HttpConns, NEW w \in WebTypes, web' = [web EXCEPT ![c] = w],
         connection_states' \in [1 .. HttpSlots -> SlotTypes],
         \A d \in 1 .. HttpConns \ {c} : web[d].st = "open" /\ web[d].app # 0 =>
            connection_states'[web[d].app] = connection_states[web[d].app],
         HttpConn(w, c, connection_states'),
         IsPrefix(web[c].got, w.got)
  PROVE  HttpInv' /\ \A d \in 1 .. HttpConns : IsPrefix(web[d].got, web'[d].got)
<1>1. web \in [1 .. HttpConns -> WebTypes]
  BY DEF HttpInv
<1>2. web' \in [1 .. HttpConns -> WebTypes] /\ web'[c] = w
  BY <1>1
<1>3. ASSUME NEW d \in 1 .. HttpConns, d # c
      PROVE  web'[d] = web[d] /\ HttpConn(web'[d], d, connection_states') /\ IsPrefix(web[d].got, web'[d].got)
  <2>1. web'[d] = web[d]
    BY <1>1, <1>3
  <2>2. HttpConn(web[d], d, connection_states)
    BY DEF HttpInv
  <2>3. HttpConn(web[d], d, connection_states')
    BY <1>3, <2>2 DEF HttpConn
  <2>4. PICK n \in 0 .. PageLen : web[d].got = Counting(n)
    BY <2>2 DEF HttpConn
  <2>5. IsPrefix(Counting(n), Counting(n))
    BY HttpConsts, CountingPrefix
  <2> QED BY <2>1, <2>3, <2>4, <2>5
<1> QED BY <1>2, <1>3 DEF HttpInv

LEMMA PagePart ==
  ASSUME NEW m \in Nat, NEW k \in Nat, m + k <= PageLen
  PROVE  SubSeq(Page, m + 1, m + k) = Following(m, k) /\ Following(m, k) \in Seq(Nat)
<1>1. Page \in Seq(Nat) /\ Len(Page) = PageLen /\ \A i \in 1 .. PageLen : Page[i] = i
  BY HttpConsts DEF Page
<1>2. Following(m, k) \in Seq(Nat) /\ Len(Following(m, k)) = k
  BY DEF Following
<1> DEFINE t == SubSeq(Page, m + 1, m + k)
<1>3. /\ t \in Seq(Nat) /\ Len(t) = k
      /\ \A i \in 1 .. k : t[i] = Page[m + i]
  <2>1. m + 1 \in Int /\ m + k \in Int
    OBVIOUS
  <2>2. PICK q : q = Page
    OBVIOUS
  <2>3. PICK f, l \in Int : f = m + 1 /\ l = m + k
    BY <2>1, Zenon
  <2>4. \A i \in f .. l : q[i] \in Nat
    BY <1>1, <2>2, <2>3, HttpConsts
  <2>5. /\ SubSeq(q, f, l) \in Seq(Nat)
        /\ Len(SubSeq(q, f, l)) = IF f <= l THEN l - f + 1 ELSE 0
        /\ \A i \in 1 .. l - f + 1 : SubSeq(q, f, l)[i] = q[f + i - 1]
    BY <2>4, SubSeqProperties
  <2>6. \A i \in 1 .. k : i \in 1 .. l - f + 1 /\ f + i - 1 = m + i
    BY <2>3
  <2> QED BY <2>2, <2>3, <2>5, <2>6
<1>4. \A i \in 1 .. k : t[i] = Following(m, k)[i]
  BY <1>1, <1>3, HttpConsts DEF Following
<1> HIDE DEF t
<1>5. t = Following(m, k)
  BY <1>2, <1>3, <1>4, SeqEqual, Zenon
<1> QED BY <1>2, <1>5 DEF t

LEMMA CountingSeq ==
  ASSUME NEW n \in Nat
  PROVE  Counting(n) \in Seq(Nat)
  BY DEF Counting

LEMMA CountingZero == Counting(0) = <<>> /\ IsPrefix(Counting(0), Counting(0)) /\ Counting(0) \in Seq(Nat)
<1>1. Counting(0) = <<>>
  BY DEF Counting
<1> QED BY <1>1, CountingPrefix, CountingSeq

\* The records that httpd_init_state makes.
TakenSlot(h, c) == [active |-> TRUE, conn_id |-> c, dptr |-> NULLPTR, prev |-> h.prev]
TakenWeb(w, k) == [st |-> "open", app |-> k, wanted |-> w.wanted, asked |-> w.asked, flight |-> w.flight,
                   got |-> w.got, close |-> w.close, abort |-> w.abort]

LEMMA SlotTaken ==
  ASSUME NEW h \in SlotTypes, NEW c
  PROVE  [h EXCEPT !.active = TRUE, !.conn_id = c, !.dptr = NULLPTR] = TakenSlot(h, c)
<1>1. SUFFICES ASSUME NEW x, x = [h EXCEPT !.active = TRUE, !.conn_id = c, !.dptr = NULLPTR]
               PROVE  x = TakenSlot(h, c)
  OBVIOUS
<1> QED BY <1>1 DEF SlotTypes, TakenSlot

LEMMA WebTaken ==
  ASSUME NEW w \in WebTypes, NEW k
  PROVE  [w EXCEPT !.st = "open", !.app = k] = TakenWeb(w, k)
<1>1. SUFFICES ASSUME NEW x, x = [w EXCEPT !.st = "open", !.app = k]
               PROVE  x = TakenWeb(w, k)
  OBVIOUS
<1> QED BY <1>1 DEF WebTypes, TakenWeb

LEMMA HttpInitStep ==
  ASSUME HttpInv, NEW c \in 1 .. HttpConns, httpd_init_state(c)
  PROVE  HttpInv' /\ \A d \in 1 .. HttpConns : IsPrefix(web[d].got, web'[d].got)
<1> USE HttpConsts
<1> DEFINE free == {s \in 1 .. HttpSlots : ~connection_states[s].active}
           i == CHOOSE s \in free : \A t \in free : s <= t
           w0 == web[c]
<1>1. /\ web \in [1 .. HttpConns -> WebTypes] /\ w0 \in WebTypes
      /\ connection_states \in [1 .. HttpSlots -> SlotTypes]
      /\ HttpConn(w0, c, connection_states)
  BY DEF HttpInv
<1>2. /\ w0.st = "unused" /\ w0.app = 0 /\ w0.wanted = FALSE /\ w0.asked = FALSE /\ w0.flight = <<>>
      /\ w0.got = <<>> /\ w0.close = FALSE
  BY <1>1 DEF HttpConn, httpd_init_state
<1>3. Counting(0) = <<>> /\ IsPrefix(Counting(0), Counting(0)) /\ Counting(0) \in Seq(Nat)
  BY CountingZero
<1>4. CASE free = {}
  <2> DEFINE w == [w0 EXCEPT !.st = "open", !.abort = TRUE]
  <2>1. web' = [web EXCEPT ![c] = w] /\ connection_states' = connection_states
    BY <1>1, <1>4 DEF httpd_init_state
  <2>2. w \in WebTypes
    BY <1>1 DEF WebTypes
  <2>3. /\ w.st = "open" /\ w.app = 0 /\ w.wanted = FALSE /\ w.asked = FALSE /\ w.flight = <<>>
        /\ w.got = <<>> /\ w.close = FALSE
    BY <1>1, <1>2 DEF WebTypes
  <2> HIDE DEF w
  <2>4. HttpConn(w, c, connection_states')
    BY <1>3, <2>3 DEF HttpConn
  <2> QED BY <1>1, <1>2, <1>3, <2>1, <2>2, <2>3, <2>4, HttpStepOf
<1>5. CASE free # {}
  <2>1. PICK k \in 1 .. HttpSlots : k = i /\ ~connection_states[k].active
    <3>1. PICK m \in free : \A t \in free : m <= t
      <4>1. free \subseteq Nat
        OBVIOUS
      <4> HIDE DEF free
      <4> QED BY <1>5, <4>1, LeastOf
    <3>2. i \in free
      BY <3>1
    <3> QED BY <3>2
  <2> HIDE DEF i
  <2> DEFINE w == TakenWeb(w0, k)
             hs == TakenSlot(connection_states[k], c)
  <2>2. web' = [web EXCEPT ![c] = w] /\ connection_states' = [connection_states EXCEPT ![k] = hs]
    <3>1. /\ web' = [web EXCEPT ![c] = [@ EXCEPT !.st = "open", !.app = k]]
          /\ connection_states' = [connection_states EXCEPT
               ![k] = [@ EXCEPT !.active = TRUE, !.conn_id = c, !.dptr = NULLPTR]]
      BY <1>1, <1>5, <2>1 DEF httpd_init_state, i
    <3>2. [w0 EXCEPT !.st = "open", !.app = k] = w
      BY <1>1, WebTaken
    <3>3. [connection_states[k] EXCEPT !.active = TRUE, !.conn_id = c, !.dptr = NULLPTR] = hs
      BY <1>1, SlotTaken
    <3> QED BY <3>1, <3>2, <3>3
  <2>3. w \in WebTypes
    BY <1>1 DEF WebTypes, TakenWeb
  <2>4. /\ w.st = "open" /\ w.app = k /\ w.wanted = FALSE /\ w.asked = FALSE /\ w.flight = <<>>
        /\ w.got = <<>> /\ w.close = FALSE
    BY <1>2 DEF TakenWeb
  <2>5. hs \in SlotTypes /\ hs.active = TRUE /\ hs.conn_id = c /\ hs.dptr = NULLPTR
    BY <1>1 DEF SlotTypes, TakenSlot, NULLPTR
  <2> HIDE DEF w, hs
  <2>6. connection_states' \in [1 .. HttpSlots -> SlotTypes] /\ connection_states'[k] = hs
    BY <1>1, <2>2, <2>5
  <2>7. HttpConn(w, c, connection_states')
    BY <1>3, <2>4, <2>5, <2>6 DEF HttpConn, HttpSilent
  <2>8. ASSUME NEW d \in 1 .. HttpConns \ {c}, web[d].st = "open", web[d].app # 0
        PROVE  connection_states'[web[d].app] = connection_states[web[d].app]
    <3>1. HttpConn(web[d], d, connection_states) /\ web[d] \in WebTypes
      BY DEF HttpInv
    <3>2. web[d].app \in 1 .. HttpSlots /\ web[d].app # k
      BY <2>1, <2>8, <3>1, SMTT(30) DEF HttpConn, WebTypes
    <3> QED BY <1>1, <2>2, <3>2
  <2> QED BY <1>1, <1>2, <1>3, <2>2, <2>3, <2>4, <2>6, <2>7, <2>8, HttpStepOf, ZenonT(30)
<1> QED BY <1>4, <1>5

\* The slot of an open connection that has one, and that no other one has it.
LEMMA HttpSlotOf ==
  ASSUME HttpInv, NEW c \in 1 .. HttpConns, web[c].st = "open", web[c].app # 0
  PROVE  /\ web[c] \in WebTypes /\ web[c].app \in 1 .. HttpSlots /\ Hs(c) \in SlotTypes
         /\ Hs(c).active = TRUE /\ Hs(c).conn_id = c
         /\ HttpSilent(web[c], Hs(c)) \/ HttpBetween(web[c], Hs(c)) \/ HttpSending(web[c], Hs(c))
         /\ \A d \in 1 .. HttpConns \ {c} : web[d].st = "open" /\ web[d].app # 0 => web[d].app # web[c].app
<1>1. web[c] \in WebTypes /\ HttpConn(web[c], c, connection_states)
  BY DEF HttpInv
<1>2. web[c].app \in 1 .. HttpSlots
  BY <1>1, HttpConsts DEF WebTypes
<1>3. Hs(c) \in SlotTypes
  BY <1>2 DEF HttpInv, Hs
<1>4. ASSUME NEW d \in 1 .. HttpConns \ {c}, web[d].st = "open", web[d].app # 0, web[d].app = web[c].app
      PROVE  FALSE
  <2>1. HttpConn(web[d], d, connection_states)
    BY DEF HttpInv
  <2>2. connection_states[web[c].app].conn_id = d /\ connection_states[web[c].app].conn_id = c
    BY <1>1, <1>4, <2>1 DEF HttpConn
  <2> QED BY <2>2
<1> QED BY <1>1, <1>2, <1>3, <1>4 DEF HttpConn, Hs

\* A step of connection c on its own slot.
LEMMA HttpOwnSlot ==
  ASSUME HttpInv, NEW c \in 1 .. HttpConns, web[c].st = "open", web[c].app # 0,
         NEW w \in WebTypes, NEW hs \in SlotTypes,
         web' = [web EXCEPT ![c] = w],
         connection_states' = [connection_states EXCEPT ![web[c].app] = hs],
         w.st = "open", w.app = web[c].app, hs.active = TRUE, hs.conn_id = c,
         HttpBetween(w, hs) \/ HttpSending(w, hs),
         w.close = TRUE => w.got = Page,
         \E n \in 0 .. PageLen : w.got = Counting(n),
         IsPrefix(web[c].got, w.got)
  PROVE  HttpInv' /\ \A d \in 1 .. HttpConns : IsPrefix(web[d].got, web'[d].got)
<1>1. /\ web[c].app \in 1 .. HttpSlots
      /\ \A d \in 1 .. HttpConns \ {c} : web[d].st = "open" /\ web[d].app # 0 => web[d].app # web[c].app
  BY HttpSlotOf
<1>2. connection_states \in [1 .. HttpSlots -> SlotTypes] /\ web \in [1 .. HttpConns -> WebTypes]
  BY DEF HttpInv
<1>3. /\ connection_states' \in [1 .. HttpSlots -> SlotTypes]
      /\ connection_states'[web[c].app] = hs
      /\ \A i \in 1 .. HttpSlots : i # web[c].app => connection_states'[i] = connection_states[i]
  BY <1>1, <1>2
<1>4. \A d \in 1 .. HttpConns \ {c} : web[d].st = "open" /\ web[d].app # 0 =>
         connection_states'[web[d].app] = connection_states[web[d].app]
  BY <1>1, <1>2, <1>3, HttpConsts DEF WebTypes
<1>5. w.wanted = TRUE
  BY DEF HttpBetween, HttpSending
<1>6. HttpConn(w, c, connection_states')
  BY <1>1, <1>3, <1>5, HttpConsts DEF HttpConn
<1> QED BY <1>3, <1>4, <1>6, HttpStepOf

LEMMA HttpRecvStep ==
  ASSUME HttpInv, NEW c \in 1 .. HttpConns, NEW get \in BOOLEAN, httpd_recv(c, get),
         ~UNCHANGED httpVars
  PROVE  HttpInv' /\ \A d \in 1 .. HttpConns : IsPrefix(web[d].got, web'[d].got)
<1> DEFINE w0 == web[c]
           h0 == connection_states[web[c].app]
           w == [st |-> w0.st, app |-> w0.app, wanted |-> TRUE, asked |-> TRUE, flight |-> w0.flight,
                 got |-> w0.got, close |-> w0.close, abort |-> w0.abort]
           hs == [active |-> h0.active, conn_id |-> h0.conn_id, dptr |-> 0, prev |-> h0.prev]
<1>1. /\ w0.st = "open" /\ w0.app # 0 /\ h0.dptr = NULLPTR
      /\ web' = [web EXCEPT ![c] = [@ EXCEPT !.asked = TRUE, !.wanted = TRUE]]
      /\ connection_states' = [connection_states EXCEPT ![w0.app] = [@ EXCEPT !.dptr = 0]]
  BY DEF httpd_recv, Hs
<1>2. /\ w0 \in WebTypes /\ w0.app \in 1 .. HttpSlots /\ h0 \in SlotTypes
      /\ h0.active = TRUE /\ h0.conn_id = c
      /\ HttpSilent(w0, h0) \/ HttpBetween(w0, h0) \/ HttpSending(w0, h0)
  BY <1>1, HttpSlotOf DEF Hs
<1>3. w0.flight = <<>> /\ w0.got = <<>> /\ w0.close = FALSE
  BY <1>1, <1>2 DEF HttpSilent, HttpBetween, HttpSending, NULLPTR
<1>4. web' = [web EXCEPT ![c] = w] /\ connection_states' = [connection_states EXCEPT ![w0.app] = hs]
  <2>1. ASSUME NEW x, x = [w0 EXCEPT !.asked = TRUE, !.wanted = TRUE] PROVE x = w
    BY <1>2, <2>1 DEF WebTypes
  <2>2. ASSUME NEW x, x = [h0 EXCEPT !.dptr = 0] PROVE x = hs
    BY <1>2, <2>2 DEF SlotTypes
  <2> HIDE DEF w, hs
  <2> QED BY <1>1, <2>1, <2>2, Zenon
<1>5. w \in WebTypes /\ hs \in SlotTypes
  BY <1>2, HttpConsts, SMTT(30) DEF WebTypes, SlotTypes
<1>6. /\ w.st = "open" /\ w.app = w0.app /\ hs.active = TRUE /\ hs.conn_id = c /\ hs.dptr = 0
      /\ w.flight = <<>> /\ w.got = <<>> /\ w.close = FALSE /\ w.wanted = TRUE
  BY <1>1, <1>2, <1>3
<1> HIDE DEF w, hs
<1>7. HttpBetween(w, hs)
  BY <1>6, CountingZero DEF HttpBetween
<1>8. (\E n \in 0 .. PageLen : w.got = Counting(n)) /\ IsPrefix(w0.got, w.got)
  BY <1>3, <1>6, CountingZero, HttpConsts
<1>9. w.close = TRUE => w.got = Page
  BY <1>6
<1> QED BY <1>1, <1>4, <1>5, <1>6, <1>7, <1>8, <1>9, HttpOwnSlot

\* httpd_send when everything up to dptr is acknowledged: all that was asked for, or
\* what is on its way.
LEMMA HttpSendStep ==
  ASSUME HttpInv, NEW c \in 1 .. HttpConns, NEW mss \in MssValues, httpd_send(c, mss),
         web[c].st = "open", web[c].app # 0,
         \/ web[c].flight = <<>> /\ web[c].asked
         \/ web[c].flight # <<>>
  PROVE  HttpInv' /\ \A d \in 1 .. HttpConns : IsPrefix(web[d].got, web'[d].got)
<1> DEFINE w0 == web[c]
           h0 == connection_states[web[c].app]
<1>1. /\ w0 \in WebTypes /\ w0.app \in 1 .. HttpSlots /\ h0 \in SlotTypes
      /\ h0.active = TRUE /\ h0.conn_id = c
      /\ HttpBetween(w0, h0) \/ HttpSending(w0, h0)
  <2>1. /\ w0 \in WebTypes /\ w0.app \in 1 .. HttpSlots /\ h0 \in SlotTypes
        /\ h0.active = TRUE /\ h0.conn_id = c
        /\ HttpSilent(w0, h0) \/ HttpBetween(w0, h0) \/ HttpSending(w0, h0)
    BY HttpSlotOf DEF Hs
  <2>2. ~HttpSilent(w0, h0)
    BY DEF HttpSilent
  <2> QED BY <2>1, <2>2
<1>2. PICK p \in 0 .. PageLen : p = h0.dptr
  BY <1>1 DEF HttpBetween, HttpSending, SlotTypes
<1>3. /\ w0.got \o w0.flight = Counting(p) /\ w0.close = FALSE /\ w0.wanted = TRUE
      /\ IsPrefix(w0.got, Counting(p))
  <2>1. CASE HttpBetween(w0, h0)
    <3>1. /\ w0.flight = <<>> /\ w0.got = Counting(p) /\ w0.asked /\ w0.wanted = TRUE
          /\ w0.close = TRUE => w0.asked = FALSE
      BY <1>2, <2>1 DEF HttpBetween
    <3>2. w0.close \in BOOLEAN
      BY <1>1 DEF WebTypes
    <3>3. Counting(p) \o <<>> = Counting(p)
      BY CountingSeq, HttpConsts
    <3>4. IsPrefix(Counting(p), Counting(p))
      BY CountingPrefix, HttpConsts
    <3> QED BY <3>1, <3>2, <3>3, <3>4
  <2>2. CASE HttpSending(w0, h0)
    <3>1. PICK q \in Nat : q = h0.prev /\ q < p
      BY <1>2, <2>2 DEF HttpSending
    <3>2. /\ w0.got = Counting(q) /\ w0.flight = Following(q, p - q) /\ w0.close = FALSE /\ w0.wanted = TRUE
      BY <1>2, <2>2, <3>1 DEF HttpSending
    <3>3. Counting(q) \o Following(q, p - q) = Counting(q + (p - q))
      <4>1. p - q \in Nat
        BY <3>1, HttpConsts
      <4> QED BY <4>1, CountingAppend
    <3>4. q + (p - q) = p /\ p \in Nat
      BY <3>1, HttpConsts
    <3>5. IsPrefix(Counting(q), Counting(p))
      BY <3>1, <3>4, CountingPrefix
    <3> QED BY <3>2, <3>3, <3>4, <3>5
  <2> QED BY <1>1, <2>1, <2>2
<1>4. p \in Nat /\ Counting(p) \in Seq(Nat) /\ mss \in Nat \ {0} /\ PageLen \in Nat
  BY HttpConsts, CountingSeq
<1>5. CASE p = PageLen
  <2> DEFINE w == [st |-> w0.st, app |-> w0.app, wanted |-> w0.wanted, asked |-> FALSE, flight |-> <<>>,
                   got |-> Counting(p), close |-> TRUE, abort |-> w0.abort]
  <2>1. /\ web' = [web EXCEPT ![c] = [[@ EXCEPT !.asked = FALSE, !.got = Counting(p)] EXCEPT
                                        !.flight = <<>>, !.close = TRUE]]
        /\ connection_states' = connection_states
    <3>1. PageLen - h0.dptr = 0
      BY <1>2, <1>4, <1>5
    <3> QED BY <1>3, <3>1 DEF httpd_send, Hs
  <2>2. ASSUME NEW x, x = [[w0 EXCEPT !.asked = FALSE, !.got = Counting(p)] EXCEPT
                                        !.flight = <<>>, !.close = TRUE]
        PROVE  x = w
    BY <1>1, <2>2 DEF WebTypes
  <2>3. connection_states' = [connection_states EXCEPT ![w0.app] = h0]
    <3>1. connection_states \in [1 .. HttpSlots -> SlotTypes]
      BY DEF HttpInv
    <3> QED BY <1>1, <2>1, <3>1
  <2>4. w \in WebTypes
    BY <1>1, <1>4 DEF WebTypes
  <2>5. /\ w.st = "open" /\ w.app = w0.app /\ w.wanted = TRUE /\ w.asked = FALSE
        /\ w.flight = <<>> /\ w.got = Counting(p) /\ w.close = TRUE
    BY <1>3
  <2> HIDE DEF w
  <2>6. web' = [web EXCEPT ![c] = w]
    BY <2>1, <2>2, Zenon
  <2>7. HttpBetween(w, h0)
    BY <1>2, <1>4, <2>5 DEF HttpBetween
  <2>8. w.got = Page /\ \E n \in 0 .. PageLen : w.got = Counting(n)
    BY <1>5, <2>5 DEF Page, Counting
  <2>9. IsPrefix(w0.got, w.got)
    BY <1>3, <2>5
  <2> QED BY <1>1, <2>3, <2>4, <2>5, <2>6, <2>7, <2>8, <2>9, HttpOwnSlot
<1>6. CASE p # PageLen
  <2>1. PICK len \in Nat \ {0} : len = (IF PageLen - p > mss THEN mss ELSE PageLen - p) /\ p + len <= PageLen
    <3>1. PageLen - p \in Nat \ {0}
      BY <1>4, <1>6
    <3>2. CASE PageLen - p > mss
      <4>1. p + mss <= PageLen
        BY <1>4, <3>2
      <4> QED BY <1>4, <3>2, <4>1
    <3>3. CASE ~(PageLen - p > mss)
      <4>1. p + (PageLen - p) <= PageLen
        BY <1>4
      <4> QED BY <3>1, <3>3, <4>1
    <3> QED BY <3>2, <3>3
  <2> DEFINE w == [st |-> w0.st, app |-> w0.app, wanted |-> w0.wanted, asked |-> FALSE,
                   flight |-> Following(p, len), got |-> Counting(p), close |-> w0.close, abort |-> w0.abort]
             hs == [active |-> h0.active, conn_id |-> h0.conn_id, dptr |-> p + len, prev |-> p]
  <2>2. SubSeq(Page, p + 1, p + len) = Following(p, len) /\ Following(p, len) \in Seq(Nat)
    BY <1>4, <2>1, PagePart
  <2>3. /\ web' = [web EXCEPT ![c] = [[@ EXCEPT !.asked = FALSE, !.got = Counting(p)] EXCEPT
                                        !.flight = Following(p, len)]]
        /\ connection_states' = [connection_states EXCEPT ![w0.app] = [@ EXCEPT !.prev = p, !.dptr = p + len]]
    <3>1. ~(h0.dptr = NULLPTR \/ PageLen - h0.dptr = 0)
      BY <1>2, <1>4, <1>6 DEF NULLPTR
    <3>2. /\ web' = [web EXCEPT ![c] = [[web[c] EXCEPT !.asked = FALSE, !.got = web[c].got \o web[c].flight]
                       EXCEPT !.flight = SubSeq(Page, p + 1, p + len)]]
          /\ connection_states' = [connection_states EXCEPT ![w0.app] = Advanced(h0, len)]
      BY <1>2, <2>1, <3>1 DEF httpd_send, Hs
    <3>3. Advanced(h0, len) = [h0 EXCEPT !.prev = p, !.dptr = p + len]
      BY <1>2 DEF Advanced
    <3> QED BY <1>3, <2>2, <3>2, <3>3, Zenon
  <2>4. ASSUME NEW x, x = [[w0 EXCEPT !.asked = FALSE, !.got = Counting(p)] EXCEPT
                                        !.flight = Following(p, len)]
        PROVE  x = w
    BY <1>1, <2>4 DEF WebTypes
  <2>5. ASSUME NEW x, x = [h0 EXCEPT !.prev = p, !.dptr = p + len]
        PROVE  x = hs
    BY <1>1, <2>5 DEF SlotTypes
  <2>6. w \in WebTypes
    BY <1>1, <1>4, <2>2 DEF WebTypes
  <2>7. hs \in SlotTypes
    <3>1. p + len \in -1 .. PageLen /\ p \in -1 .. PageLen
      BY <1>4, <2>1
    <3> QED BY <1>1, <3>1 DEF SlotTypes
  <2>8. /\ w.st = "open" /\ w.app = w0.app /\ w.wanted = TRUE /\ w.asked = FALSE
        /\ w.flight = Following(p, len) /\ w.got = Counting(p) /\ w.close = FALSE
        /\ hs.active = TRUE /\ hs.conn_id = c /\ hs.dptr = p + len /\ hs.prev = p
    BY <1>1, <1>3
  <2> HIDE DEF w, hs
  <2>9. web' = [web EXCEPT ![c] = w] /\ connection_states' = [connection_states EXCEPT ![w0.app] = hs]
    BY <2>3, <2>4, <2>5, Zenon
  <2>10. HttpSending(w, hs)
    <3>1. p + len \in Nat /\ p < p + len /\ (p + len) - p = len
      BY <1>4, <2>1
    <3> QED BY <1>4, <2>8, <3>1 DEF HttpSending
  <2>11. (\E n \in 0 .. PageLen : w.got = Counting(n)) /\ IsPrefix(w0.got, w.got)
    BY <1>3, <2>8
  <2>12. w.close = TRUE => w.got = Page
    BY <2>8
  <2> QED BY <1>1, <2>6, <2>7, <2>8, <2>9, <2>10, <2>11, <2>12, HttpOwnSlot
<1> QED BY <1>5, <1>6

LEMMA HttpResendStep ==
  ASSUME HttpInv, NEW c \in 1 .. HttpConns, ResendData4(c)
  PROVE  web' = web /\ connection_states' = connection_states
<1> DEFINE w0 == web[c]
           h0 == connection_states[web[c].app]
<1>1. /\ w0.st = "open" /\ w0.flight # <<>>
      /\ web' = [web EXCEPT ![c].flight = SubSeq(Page, h0.prev + 1, h0.dptr)]
      /\ connection_states' = connection_states
  BY DEF ResendData4, Hs
<1>2. w0.app # 0 /\ web \in [1 .. HttpConns -> WebTypes]
  BY <1>1 DEF HttpInv, HttpConn
<1>3. w0 \in WebTypes /\ h0 \in SlotTypes /\ HttpSending(w0, h0)
  <2>1. /\ w0 \in WebTypes /\ h0 \in SlotTypes
        /\ HttpSilent(w0, h0) \/ HttpBetween(w0, h0) \/ HttpSending(w0, h0)
    BY <1>1, <1>2, HttpSlotOf DEF Hs
  <2>2. ~HttpSilent(w0, h0) /\ ~HttpBetween(w0, h0)
    BY <1>1 DEF HttpSilent, HttpBetween
  <2> QED BY <2>1, <2>2
<1>4. PICK q \in Nat, k \in Nat : q = h0.prev /\ h0.dptr = q + k /\ q + k <= PageLen /\ k = h0.dptr - q
  <2>1. h0.prev \in Nat /\ h0.dptr \in Nat /\ h0.prev < h0.dptr /\ h0.dptr <= PageLen
    BY <1>3, HttpConsts DEF HttpSending, SlotTypes
  <2>2. h0.dptr - h0.prev \in Nat /\ h0.dptr = h0.prev + (h0.dptr - h0.prev)
    BY <2>1
  <2> QED BY <2>1, <2>2
<1>5. SubSeq(Page, h0.prev + 1, h0.dptr) = w0.flight
  <2>1. SubSeq(Page, q + 1, q + k) = Following(q, k)
    BY <1>4, PagePart
  <2>2. w0.flight = Following(q, k)
    BY <1>3, <1>4 DEF HttpSending
  <2> QED BY <1>4, <2>1, <2>2
<1>6. web' = [web EXCEPT ![c].flight = web[c].flight]
  BY <1>1, <1>5
<1> QED BY <1>1, <1>2, <1>6 DEF WebTypes

\* What is left of a connection that is closed.
LEMMA HttpFreeStep ==
  ASSUME HttpInv, NEW c \in 1 .. HttpConns, httpd_free_state(c) \/ AbortedSilently(c)
  PROVE  HttpInv' /\ \A d \in 1 .. HttpConns : IsPrefix(web[d].got, web'[d].got)
<1> DEFINE w0 == web[c]
           cs == [s \in 1 .. HttpSlots |->
                   IF connection_states[s].conn_id = c THEN [connection_states[s] EXCEPT !.active = FALSE]
                   ELSE connection_states[s]]
<1>1. /\ web \in [1 .. HttpConns -> WebTypes] /\ w0 \in WebTypes
      /\ connection_states \in [1 .. HttpSlots -> SlotTypes]
      /\ HttpConn(w0, c, connection_states)
  BY DEF HttpInv
<1>2. PICK n \in 0 .. PageLen : w0.got = Counting(n)
  BY <1>1 DEF HttpConn
<1>3. IsPrefix(Counting(n), Counting(n))
  BY CountingPrefix, HttpConsts
<1>4. PICK w \in WebTypes : /\ w.st = "closed" /\ w.app = w0.app /\ w.wanted = w0.wanted /\ w.asked = w0.asked
                            /\ w.flight \in {<<>>, w0.flight} /\ w.got = w0.got /\ w.close = w0.close
                            /\ web' = [web EXCEPT ![c] = w]
  <2>1. CASE httpd_free_state(c)
    <3> DEFINE w == [st |-> "closed", app |-> w0.app, wanted |-> w0.wanted, asked |-> w0.asked,
                     flight |-> <<>>, got |-> w0.got, close |-> w0.close, abort |-> w0.abort]
    <3>1. ASSUME NEW x, x = [w0 EXCEPT !.st = "closed", !.flight = <<>>] PROVE x = w
      BY <1>1, <3>1 DEF WebTypes
    <3>2. web' = [web EXCEPT ![c] = [@ EXCEPT !.st = "closed", !.flight = <<>>]]
      BY <2>1 DEF httpd_free_state
    <3>3. w \in WebTypes
      BY <1>1 DEF WebTypes
    <3>4. web' = [web EXCEPT ![c] = w]
      <4> HIDE DEF w
      <4> QED BY <3>1, <3>2, Zenon
    <3> QED BY <3>3, <3>4
  <2>2. CASE AbortedSilently(c)
    <3>1. web' = [web EXCEPT ![c] = [@ EXCEPT !.st = "closed"]]
      BY <2>2 DEF AbortedSilently
    <3> QED BY <1>1, <3>1 DEF WebTypes
  <2> QED BY <2>1, <2>2
<1>5. \/ connection_states' = connection_states
      \/ connection_states' = cs
  BY DEF httpd_free_state, AbortedSilently
<1>6. cs \in [1 .. HttpSlots -> SlotTypes]
  BY <1>1 DEF SlotTypes
<1>7. ASSUME NEW d \in 1 .. HttpConns \ {c}, web[d].st = "open", web[d].app # 0
      PROVE  connection_states'[web[d].app] = connection_states[web[d].app]
  <2>1. HttpConn(web[d], d, connection_states) /\ web[d] \in WebTypes
    BY DEF HttpInv
  <2>2. web[d].app \in 1 .. HttpSlots /\ connection_states[web[d].app].conn_id # c
    BY <1>7, <2>1, HttpConsts, SMTT(30) DEF HttpConn, WebTypes
  <2> QED BY <1>5, <2>2
<1>8. HttpConn(w, c, connection_states')
  BY <1>1, <1>4 DEF HttpConn
<1>9. connection_states' \in [1 .. HttpSlots -> SlotTypes]
  BY <1>1, <1>5, <1>6
<1> HIDE DEF cs
<1> QED BY <1>2, <1>3, <1>4, <1>7, <1>8, <1>9, HttpStepOf

LEMMA HttpUnchanged ==
  HttpInv /\ UNCHANGED httpVars =>
     HttpInv' /\ \A d \in 1 .. HttpConns : IsPrefix(web[d].got, web'[d].got)
<1> SUFFICES ASSUME HttpInv, web' = web, connection_states' = connection_states
             PROVE  HttpInv' /\ \A d \in 1 .. HttpConns : IsPrefix(web[d].got, web[d].got)
  BY DEF httpVars
<1>1. HttpInv'
  BY DEF HttpInv
<1>2. ASSUME NEW d \in 1 .. HttpConns PROVE IsPrefix(web[d].got, web[d].got)
  <2>1. PICK n \in 0 .. PageLen : web[d].got = Counting(n)
    BY DEF HttpInv, HttpConn
  <2> QED BY <2>1, CountingPrefix, HttpConsts
<1> QED BY <1>1, <1>2

LEMMA HttpStep ==
  HttpInv /\ [httpd_handle_event]_httpVars =>
     HttpInv' /\ \A d \in 1 .. HttpConns : IsPrefix(web[d].got, web'[d].got)
<1> SUFFICES ASSUME HttpInv, [httpd_handle_event]_httpVars, ~UNCHANGED httpVars
             PROVE  HttpInv' /\ \A d \in 1 .. HttpConns : IsPrefix(web[d].got, web'[d].got)
  BY HttpUnchanged
<1>1. PICK c \in 1 .. HttpConns :
        \/ httpd_init_state(c) \/ httpd_free_state(c) \/ AbortedSilently(c) \/ ResendData4(c)
        \/ \E get \in BOOLEAN : httpd_recv(c, get)
        \/ \E mss \in MssValues : RequestData4(c, mss) \/ SentData4(c, mss)
  BY DEF httpd_handle_event
<1>2. CASE httpd_init_state(c)
  BY <1>2, HttpInitStep
<1>3. CASE httpd_free_state(c) \/ AbortedSilently(c)
  BY <1>3, HttpFreeStep
<1>4. CASE ResendData4(c)
  BY <1>4, HttpResendStep DEF httpVars
<1>5. ASSUME NEW get \in BOOLEAN, httpd_recv(c, get)
      PROVE  HttpInv' /\ \A d \in 1 .. HttpConns : IsPrefix(web[d].got, web'[d].got)
  BY <1>5, HttpRecvStep
<1>6. ASSUME NEW mss \in MssValues, RequestData4(c, mss) \/ SentData4(c, mss)
      PROVE  HttpInv' /\ \A d \in 1 .. HttpConns : IsPrefix(web[d].got, web'[d].got)
  <2>1. /\ httpd_send(c, mss) /\ web[c].st = "open"
        /\ \/ web[c].flight = <<>> /\ web[c].asked
           \/ web[c].flight # <<>>
    BY <1>6 DEF RequestData4, SentData4
  <2>2. web[c].app # 0
    BY <2>1 DEF HttpInv, HttpConn
  <2> QED BY <2>1, <2>2, HttpSendStep
<1> QED BY <1>1, <1>2, <1>3, <1>4, <1>5, <1>6

\* What was got is the page from its beginning, if it was asked for.
GotIsPage ==
  \A c \in 1 .. HttpConns : IsPrefix(web[c].got, IF web[c].wanted THEN Page ELSE <<>>)

LEMMA HttpInvGot == HttpInv => GotIsPage
<1> SUFFICES ASSUME HttpInv, NEW c \in 1 .. HttpConns
             PROVE  IsPrefix(web[c].got, IF web[c].wanted THEN Page ELSE <<>>)
  BY DEF GotIsPage
<1>1. PICK n \in 0 .. PageLen : web[c].got = Counting(n)
  BY DEF HttpInv, HttpConn
<1>2. IsPrefix(Counting(n), Counting(PageLen)) /\ IsPrefix(<<>>, <<>>)
  BY CountingPrefix, CountingZero, HttpConsts
<1>3. Counting(PageLen) = Page
  BY DEF Counting, Page
<1>4. web[c].wanted \in BOOLEAN /\ (web[c].wanted = FALSE => web[c].got = <<>>)
  BY DEF HttpInv, WebTypes, HttpConn
<1> QED BY <1>1, <1>2, <1>3, <1>4

LEMMA HttpInvWhole == HttpInv => PageIsWhole
<1> SUFFICES ASSUME HttpInv PROVE PageIsWhole
  OBVIOUS
<1>1. ASSUME NEW c \in 1 .. HttpConns, web[c].close PROVE web[c].got = Page
  BY <1>1 DEF HttpInv, HttpConn, WebTypes
<1>2. ASSUME NEW c \in 1 .. HttpConns, NEW d \in 1 .. HttpConns, c # d,
             web[c].st = "open", web[d].st = "open", web[c].app # 0
      PROVE  web[c].app # web[d].app
  BY <1>2, HttpSlotOf
<1> QED BY <1>1, <1>2 DEF PageIsWhole

LEMMA ServicesHttp == [Next]_vars => [httpd_handle_event]_httpVars
  BY DEF Next, vars, clientVars, ClientNext, HostNext

\* Each connection of the web server gets the page from its beginning and in order,
\* however many connections and slots there are and however the page is cut into segments.
THEOREM PagesStayWhole == Spec => PagesServed
<1>1. Init => HttpInv
  BY HttpInitInv DEF Init
<1>2. HttpInv /\ [Next]_vars => HttpInv' /\ [\A c \in 1 .. HttpConns : PageInOrder(c)]_httpVars
  <2> SUFFICES ASSUME HttpInv, [Next]_vars
               PROVE  HttpInv' /\ \A c \in 1 .. HttpConns : PageInOrder(c)
    OBVIOUS
  <2>1. HttpInv' /\ \A c \in 1 .. HttpConns : IsPrefix(web[c].got, web'[c].got)
    BY HttpStep, ServicesHttp
  <2>2. HttpInv' => GotIsPage'
    BY HttpInvGot, PTL
  <2> QED BY <2>1, <2>2 DEF PageInOrder, GotIsPage
<1> QED BY <1>1, <1>2, PTL DEF Spec, PagesServed

\* The four together, the property that the services run checks.
THEOREM StreamsAreKept == Spec => StreamsKept
  BY SendKeepsStream, RecvKeepsStream, ReadKeepsStream, PagesStayWhole DEF StreamsKept

-----------------------------------------------------------------------------
(* The TFTP server (tftp.xc, tftp_support.c).                              *)

Live == tftp_conn.tid # 0

ServerPackets == [peer : Senders, kind : {"WRQ", "RRQ", "DATA", "ERROR"}, tid : Nat, num : 0 .. NumBlocks]
PeerPackets == [peer : Senders, kind : {"ACK", "ERROR"}, tid : Nat, num : Nat]
SenderTypes == [state : {"idle", "sending", "done", "gone"}, tid : Nat, block : 0 .. NumBlocks]

TftpTypes ==
  /\ local_tid \in 0 .. MaxTid /\ last_block \in 0 .. NumBlocks
  /\ stored \in [1 .. MaxTid -> SUBSET Nat]
  /\ tftp_conn \in [peer : Senders \cup {"none"}, tid : Nat] /\ tftp_conn.tid <= local_tid
  /\ reply \in [kind : {"ACK", "ERROR"}, num : Nat] \cup {NoReply}
  /\ signal_error \in BOOLEAN /\ signal_complete \in BOOLEAN /\ ifup \in BOOLEAN
  /\ completed \subseteq 1 .. local_tid /\ fresh \subseteq 1 .. local_tid

\* The packets: a peer sends a block when the one before it was acknowledged, and what
\* the server sends has the TID of a connection that it began.
TftpPackets ==
  /\ sender \in [Senders -> SenderTypes]
  /\ toServer \subseteq ServerPackets /\ toPeer \subseteq PeerPackets
  /\ \A m \in toPeer : m.tid \in 1 .. local_tid
  /\ \A m \in toServer : m.tid # 0 /\ m.kind # "ERROR" =>
       m.num # 0 /\ Packet(m.peer, "ACK", m.tid, m.num - 1) \in toPeer

\* The connection, its state and its signals.
TftpConn ==
  /\ tftp_conn.peer = "none" <=> tftp_conn.tid = 0
  /\ Live => tftp_state \in {"WAITING_FOR_DATA", "SENDING_ACK"} /\ ifup = TRUE /\ tftp_conn.tid \notin completed
  /\ ~Live => reply = NoReply /\ signal_error = FALSE /\ signal_complete = FALSE
  /\ tftp_state = "WAITING_FOR_DATA" => signal_error = FALSE /\ signal_complete = FALSE

\* What the application has of a transfer that began before any other.
TftpStored ==
  /\ \A t \in 1 .. MaxTid : t > local_tid => stored[t] = {}
  /\ Live /\ tftp_conn.tid \in fresh =>
       /\ stored[tftp_conn.tid] \subseteq 1 .. last_block
       /\ signal_error = FALSE => stored[tftp_conn.tid] = 1 .. last_block
       /\ reply.kind = "ACK" => 1 .. reply.num \subseteq stored[tftp_conn.tid]
       /\ signal_complete = TRUE /\ signal_error = FALSE => stored[tftp_conn.tid] = 1 .. NumBlocks

TftpInv == TftpTypes /\ TftpPackets /\ TftpConn /\ TftpStored /\ AckedIsStored /\ CompleteIsWhole

\* All of the variables but those of the peers.
tftpServer == <<tftp_state, tftp_conn, local_tid, last_block, reply, signal_error, signal_complete,
                ifup, toPeer, stored, completed, fresh>>

LEMMA TftpInitInv == TftpInit => TftpInv
<1> SUFFICES ASSUME TftpInit PROVE TftpInv
  OBVIOUS
<1> USE TftpAssumption
<1>1. TftpTypes
  <2>1. /\ tftp_conn = [peer |-> "none", tid |-> 0] /\ reply = NoReply
        /\ local_tid = 0 /\ last_block = 0 /\ stored = [t \in 1 .. MaxTid |-> {}]
        /\ completed = {} /\ fresh = {}
    BY DEF TftpInit, NoTransfer
  <2>2. signal_error \in BOOLEAN /\ signal_complete \in BOOLEAN /\ ifup \in BOOLEAN
    BY DEF TftpInit
  <2>3. /\ local_tid \in 0 .. MaxTid /\ last_block \in 0 .. NumBlocks
        /\ stored \in [1 .. MaxTid -> SUBSET Nat]
    BY <2>1
  <2>4. /\ tftp_conn \in [peer : Senders \cup {"none"}, tid : Nat] /\ tftp_conn.tid <= local_tid
        /\ reply \in [kind : {"ACK", "ERROR"}, num : Nat] \cup {NoReply}
    BY <2>1
  <2> QED BY <2>1, <2>2, <2>3, <2>4 DEF TftpTypes
<1>2. TftpPackets
  BY DEF TftpInit, TftpPackets, SenderTypes
<1>3. TftpConn
  BY DEF TftpInit, TftpConn, Live, NoTransfer
<1>4. TftpStored
  BY DEF TftpInit, TftpStored, Live, NoTransfer
<1>5. AckedIsStored /\ CompleteIsWhole
  BY DEF TftpInit, AckedIsStored, CompleteIsWhole
<1> QED BY <1>1, <1>2, <1>3, <1>4, <1>5 DEF TftpInv

\* A step of the peers disturbs only what is said of their packets.
LEMMA TftpServerKept ==
  ASSUME TftpInv, UNCHANGED tftpServer, TftpPackets'
  PROVE  TftpInv'
  BY DEF TftpInv, tftpServer, TftpTypes, TftpConn, TftpStored, AckedIsStored, CompleteIsWhole, Live

LEMMA TftpBegins ==
  ASSUME TftpInv, NEW p \in Senders, NEW kind \in {"WRQ", "RRQ"}, SenderBegins(p, kind)
  PROVE  TftpInv'
<1> USE TftpAssumption
<1>1. UNCHANGED tftpServer
  BY DEF SenderBegins, tftpServer
<1>2. sender' \in [Senders -> SenderTypes]
  BY DEF TftpInv, TftpPackets, SenderBegins, SenderTypes
<1>3. Packet(p, kind, 0, 0) \in ServerPackets /\ Packet(p, kind, 0, 0).tid = 0
  BY DEF ServerPackets, Packet
<1> DEFINE m0 == Packet(p, kind, 0, 0)
<1>4. toServer' = toServer \cup {m0} /\ m0 \in ServerPackets /\ m0.tid = 0
  BY <1>3 DEF SenderBegins
<1> HIDE DEF m0
<1>5. TftpPackets'
  BY <1>1, <1>2, <1>4 DEF TftpInv, TftpPackets, tftpServer
<1> QED BY <1>1, <1>5, TftpServerKept

LEMMA TftpGivesUp ==
  ASSUME TftpInv, NEW p \in Senders, SenderGivesUp(p)
  PROVE  TftpInv'
<1> USE TftpAssumption
<1> DEFINE m0 == Packet(p, "ERROR", sender[p].tid, 0)
<1>1. UNCHANGED tftpServer
  BY DEF SenderGivesUp, tftpServer
<1>2. sender' \in [Senders -> SenderTypes] /\ sender[p].tid \in Nat
  BY DEF TftpInv, TftpPackets, SenderGivesUp, SenderTypes
<1>3. m0 \in ServerPackets /\ m0.kind = "ERROR"
  BY <1>2 DEF ServerPackets, Packet
<1>4. toServer' = toServer \cup {m0}
  BY DEF SenderGivesUp
<1> HIDE DEF m0
<1>5. TftpPackets'
  BY <1>1, <1>2, <1>3, <1>4 DEF TftpInv, TftpPackets, tftpServer
<1> QED BY <1>1, <1>5, TftpServerKept

LEMMA TftpAcked ==
  ASSUME TftpInv, NEW m \in toPeer, SenderAcked(m)
  PROVE  TftpInv'
<1> USE TftpAssumption
<1> DEFINE s == sender[m.peer]
<1>1. UNCHANGED tftpServer
  BY DEF SenderAcked, tftpServer
<1>2. /\ m \in PeerPackets /\ m.peer \in Senders /\ s \in SenderTypes /\ sender \in [Senders -> SenderTypes]
      /\ m.kind = "ACK" /\ m.num = s.block
  BY DEF TftpInv, TftpPackets, PeerPackets, SenderAcked
<1>3. CASE s.block = NumBlocks
  <2>1. sender' = [sender EXCEPT ![m.peer].state = "done"] /\ toServer' = toServer
    BY <1>3 DEF SenderAcked
  <2>2. sender' \in [Senders -> SenderTypes]
    BY <1>2, <2>1 DEF SenderTypes
  <2>3. TftpPackets'
    BY <1>1, <2>1, <2>2 DEF TftpInv, TftpPackets, tftpServer
  <2> QED BY <1>1, <2>3, TftpServerKept
<1>4. CASE s.block # NumBlocks
  <2> DEFINE r == [state |-> s.state, tid |-> m.tid, block |-> s.block + 1]
             m0 == Packet(m.peer, "DATA", m.tid, s.block + 1)
  <2>1. /\ sender' = [sender EXCEPT ![m.peer] = [@ EXCEPT !.block = s.block + 1, !.tid = m.tid]]
        /\ toServer' = toServer \cup {m0}
    BY <1>4 DEF SenderAcked
  <2>2. ASSUME NEW x, x = [s EXCEPT !.block = s.block + 1, !.tid = m.tid] PROVE x = r
    BY <1>2, <2>2 DEF SenderTypes
  <2>3. r \in SenderTypes
    BY <1>2, <1>4 DEF SenderTypes, PeerPackets
  <2>4. m0 \in ServerPackets /\ m0.num = m.num + 1 /\ m0.peer = m.peer /\ m0.tid = m.tid
    BY <1>2, <1>4 DEF SenderTypes, PeerPackets, ServerPackets, Packet
  <2>5. m.num \in Nat /\ m = Packet(m.peer, "ACK", m.tid, m.num)
    BY <1>2 DEF PeerPackets, Packet
  <2>6. m0.num # 0 /\ m0.num - 1 = m.num
    BY <2>4, <2>5
  <2> HIDE DEF r, m0
  <2>7. sender' = [sender EXCEPT ![m.peer] = r]
    BY <2>1, <2>2, Zenon
  <2>8. sender' \in [Senders -> SenderTypes]
    BY <1>2, <2>3, <2>7
  <2>9. Packet(m0.peer, "ACK", m0.tid, m0.num - 1) \in toPeer
    BY <2>4, <2>5, <2>6
  <2>10. TftpPackets'
    BY <1>1, <2>1, <2>4, <2>6, <2>8, <2>9 DEF TftpInv, TftpPackets, tftpServer
  <2> QED BY <1>1, <2>10, TftpServerKept
<1> QED BY <1>3, <1>4

\* tftp_close, with or without the application being told that the file is complete.
LEMMA TftpCloses ==
  ASSUME TftpInv, tftp_close, UNCHANGED <<local_tid, last_block, toPeer, stored, fresh, netVars>>,
         ifup' \in BOOLEAN,
         \/ completed' = completed
         \/ /\ Live /\ completed' = completed \cup {tftp_conn.tid}
            /\ tftp_conn.tid \in fresh => stored[tftp_conn.tid] = 1 .. NumBlocks
  PROVE  TftpInv'
<1> USE TftpAssumption
<1>1. /\ tftp_conn' = [peer |-> "none", tid |-> 0] /\ reply' = NoReply /\ signal_error' = FALSE /\ signal_complete' = FALSE
      /\ UNCHANGED <<local_tid, last_block, toPeer, stored, fresh, toServer, sender>>
  BY DEF tftp_close, NoTransfer, netVars
<1>2. /\ local_tid \in 0 .. MaxTid /\ last_block \in 0 .. NumBlocks
      /\ stored \in [1 .. MaxTid -> SUBSET Nat]
      /\ tftp_conn.tid \in Nat /\ tftp_conn.tid <= local_tid
      /\ completed \subseteq 1 .. local_tid /\ fresh \subseteq 1 .. local_tid
  BY DEF TftpInv, TftpTypes
<1>3. TftpTypes'
  <2>1. completed' \subseteq 1 .. local_tid'
    <3>1. Live => tftp_conn.tid \in 1 .. local_tid
      BY <1>2 DEF Live
    <3> QED BY <1>1, <1>2, <3>1
  <2>2. /\ tftp_conn' \in [peer : Senders \cup {"none"}, tid : Nat] /\ tftp_conn'.tid <= local_tid'
        /\ reply' \in [kind : {"ACK", "ERROR"}, num : Nat] \cup {NoReply}
    BY <1>1, <1>2
  <2>3. signal_error' \in BOOLEAN /\ signal_complete' \in BOOLEAN /\ ifup' \in BOOLEAN
    BY <1>1
  <2> QED BY <1>1, <1>2, <2>1, <2>2, <2>3 DEF TftpTypes
<1>4. TftpPackets'
  BY <1>1 DEF TftpInv, TftpPackets
<1>5. ~Live' /\ TftpConn'
  BY <1>1 DEF TftpConn, Live
<1>6. TftpStored'
  BY <1>1, <1>5 DEF TftpInv, TftpStored
<1>7. AckedIsStored' /\ CompleteIsWhole'
  BY <1>1 DEF TftpInv, AckedIsStored, CompleteIsWhole
<1> QED BY <1>3, <1>4, <1>5, <1>6, <1>7 DEF TftpInv

LEMMA TftpIfSteps ==
  ASSUME TftpInv, IfUp \/ IfDown \/ Poll
  PROVE  TftpInv'
<1>1. CASE IfUp
  <2>1. /\ ~Live /\ ifup' = TRUE /\ tftp_state' # "WAITING_FOR_DATA"
        /\ UNCHANGED <<tftp_conn, local_tid, last_block, reply, signal_error, signal_complete, toPeer,
                       stored, completed, fresh, toServer, sender>>
    BY <1>1 DEF IfUp, TftpInv, TftpConn, netVars
  <2>2. TftpTypes'
    BY <2>1 DEF TftpInv, TftpTypes
  <2>3. TftpPackets' /\ TftpStored' /\ AckedIsStored' /\ CompleteIsWhole'
    BY <2>1 DEF TftpInv, TftpPackets, TftpStored, AckedIsStored, CompleteIsWhole, Live
  <2>4. TftpConn'
    BY <2>1 DEF TftpInv, TftpConn, Live
  <2> QED BY <2>2, <2>3, <2>4 DEF TftpInv
<1>2. CASE IfDown /\ tftp_state \in {"WAITING_FOR_DATA", "SENDING_ACK"}
  <2>1. /\ tftp_close /\ UNCHANGED <<local_tid, last_block, toPeer, stored, fresh, netVars, completed>>
        /\ ifup' \in BOOLEAN
    BY <1>2 DEF IfDown
  <2> QED BY <2>1, TftpCloses
<1>3. CASE IfDown /\ tftp_state \notin {"WAITING_FOR_DATA", "SENDING_ACK"}
  <2>1. /\ ~Live /\ ifup' = FALSE
        /\ UNCHANGED <<tftp_state, tftp_conn, local_tid, last_block, reply, signal_error, signal_complete,
                       toPeer, stored, completed, fresh, toServer, sender>>
    BY <1>3 DEF IfDown, TftpInv, TftpConn, netVars
  <2>2. TftpTypes'
    BY <2>1 DEF TftpInv, TftpTypes
  <2>3. TftpPackets' /\ TftpStored' /\ AckedIsStored' /\ CompleteIsWhole'
    BY <2>1 DEF TftpInv, TftpPackets, TftpStored, AckedIsStored, CompleteIsWhole, Live
  <2>4. TftpConn'
    BY <2>1 DEF TftpInv, TftpConn, Live
  <2> QED BY <2>2, <2>3, <2>4 DEF TftpInv
<1>4. CASE Poll
  <2>1. CASE tftp_close
    <3>1. UNCHANGED <<local_tid, last_block, toPeer, stored, fresh, netVars, completed>> /\ ifup' \in BOOLEAN
      BY <1>4 DEF Poll, TftpInv, TftpTypes
    <3> QED BY <2>1, <3>1, TftpCloses
  <2>2. CASE ~tftp_close
    <3>1. UNCHANGED tftpServer /\ UNCHANGED <<toServer, sender>>
      BY <1>4, <2>2 DEF Poll, tftpServer, netVars
    <3>2. TftpPackets'
      BY <3>1 DEF TftpInv, TftpPackets, tftpServer
    <3> QED BY <3>1, <3>2, TftpServerKept
  <2> QED BY <2>1, <2>2
<1> QED BY <1>1, <1>2, <1>3, <1>4

\* A reply goes out: what it acknowledges is stored.
LEMMA TftpReplies ==
  ASSUME TftpInv, RequestReply
  PROVE  TftpInv'
<1> USE TftpAssumption
<1> DEFINE m0 == Packet(tftp_conn.peer, reply.kind, tftp_conn.tid, reply.num)
<1>1. /\ toPeer' = toPeer \cup {m0} /\ reply # NoReply
      /\ UNCHANGED <<tftp_state, tftp_conn, local_tid, last_block, reply, signal_error, signal_complete,
                     ifup, stored, completed, fresh, toServer, sender>>
  BY DEF RequestReply, netVars
<1>2. Live
  BY <1>1 DEF TftpInv, TftpConn
<1>3. /\ tftp_conn.peer \in Senders /\ tftp_conn.tid \in 1 .. local_tid
  BY <1>2 DEF TftpInv, TftpTypes, TftpConn, Live
<1>4. reply.kind \in {"ACK", "ERROR"} /\ reply.num \in Nat
  BY <1>1 DEF TftpInv, TftpTypes
<1>5. m0 \in PeerPackets /\ m0.tid = tftp_conn.tid /\ m0.kind = reply.kind /\ m0.num = reply.num
  BY <1>3, <1>4 DEF PeerPackets, Packet
<1> HIDE DEF m0
<1>6. TftpTypes' /\ TftpConn' /\ TftpStored' /\ CompleteIsWhole'
  BY <1>1 DEF TftpInv, TftpTypes, TftpConn, TftpStored, CompleteIsWhole, Live
<1>7. TftpPackets'
  BY <1>1, <1>3, <1>5 DEF TftpInv, TftpPackets
<1>8. AckedIsStored'
  <2>1. m0.kind = "ACK" /\ m0.tid \in fresh => \A n \in 1 .. m0.num : n \in stored[m0.tid]
    BY <1>2, <1>5 DEF TftpInv, TftpStored
  <2> QED BY <1>1, <2>1 DEF TftpInv, AckedIsStored
<1> QED BY <1>6, <1>7, <1>8 DEF TftpInv

LEMMA TftpSent ==
  ASSUME TftpInv, SentReply
  PROVE  TftpInv'
<1>1. Live
  BY DEF SentReply, TftpInv, TftpConn
<1>2. signal_error \in BOOLEAN /\ signal_complete \in BOOLEAN /\ ifup \in BOOLEAN
  BY DEF TftpInv, TftpTypes
<1>3. UNCHANGED <<local_tid, last_block, ifup, toPeer, stored, fresh, netVars>>
  BY DEF SentReply
<1>4. CASE signal_error = TRUE
  <2>1. tftp_close /\ completed' = completed
    BY <1>4 DEF SentReply
  <2> QED BY <1>2, <1>3, <2>1, TftpCloses
<1>5. CASE signal_error = FALSE /\ signal_complete = TRUE
  <2>1. tftp_close /\ completed' = completed \cup {tftp_conn.tid}
    BY <1>5 DEF SentReply
  <2>2. tftp_conn.tid \in fresh => stored[tftp_conn.tid] = 1 .. NumBlocks
    BY <1>1, <1>5 DEF TftpInv, TftpStored
  <2> QED BY <1>1, <1>2, <1>3, <2>1, <2>2, TftpCloses
<1>6. CASE signal_error = FALSE /\ signal_complete = FALSE
  <2>1. /\ reply' = NoReply /\ tftp_state' = "WAITING_FOR_DATA"
        /\ UNCHANGED <<tftp_conn, signal_error, signal_complete, completed>>
        /\ UNCHANGED <<local_tid, last_block, ifup, toPeer, stored, fresh, toServer, sender>>
    BY <1>6 DEF SentReply, netVars
  <2>2. TftpTypes'
    BY <2>1 DEF TftpInv, TftpTypes
  <2>3. TftpPackets' /\ AckedIsStored' /\ CompleteIsWhole'
    BY <2>1 DEF TftpInv, TftpPackets, AckedIsStored, CompleteIsWhole
  <2>4. TftpConn'
    BY <1>1, <1>6, <2>1 DEF TftpInv, TftpConn, Live
  <2>5. TftpStored'
    BY <2>1 DEF TftpInv, TftpStored, Live, NoReply
  <2> QED BY <2>2, <2>3, <2>4, <2>5 DEF TftpInv
<1> QED BY <1>2, <1>4, <1>5, <1>6

\* A connection is begun: its TID is new, and nothing is stored for it.
LEMMA TftpTaken ==
  ASSUME TftpInv, NEW m \in toServer, NEW yes \in BOOLEAN, NewConnection(m, yes)
  PROVE  TftpInv'
<1> USE TftpAssumption
<1>1. CASE tftp_state # "WAITING_FOR_CONNECTION"
  <2>1. UNCHANGED tftpServer /\ UNCHANGED <<toServer, sender>>
    BY <1>1 DEF NewConnection, tftpServer, netVars
  <2>2. TftpPackets'
    BY <2>1 DEF TftpInv, TftpPackets, tftpServer
  <2> QED BY <2>1, <2>2, TftpServerKept
<1>2. CASE tftp_state = "WAITING_FOR_CONNECTION"
  <2> DEFINE t == local_tid + 1
  <2>1. /\ ifup = TRUE /\ local_tid < MaxTid /\ local_tid' = t /\ tftp_conn' = [peer |-> m.peer, tid |-> t]
        /\ tftp_state' = "SENDING_ACK"
        /\ fresh' = IF last_block = 0 THEN fresh \cup {t} ELSE fresh
        /\ UNCHANGED <<last_block, signal_complete, stored, ifup, toPeer, completed, toServer, sender>>
    BY <1>2 DEF NewConnection, ProcessWrq, netVars, TftpInv, TftpTypes
  <2>2. /\ reply' \in {[kind |-> "ACK", num |-> 0], [kind |-> "ERROR", num |-> 0]}
        /\ signal_error' \in {signal_error, TRUE}
    BY <1>2 DEF NewConnection, ProcessWrq, Reply
  <2>3. ~Live /\ signal_error = FALSE /\ signal_complete = FALSE
    BY <1>2 DEF TftpInv, TftpConn
  <2>4. /\ local_tid \in 0 .. MaxTid /\ last_block \in 0 .. NumBlocks
        /\ stored \in [1 .. MaxTid -> SUBSET Nat]
        /\ completed \subseteq 1 .. local_tid /\ fresh \subseteq 1 .. local_tid
        /\ m.peer \in Senders /\ signal_complete \in BOOLEAN /\ ifup \in BOOLEAN
        /\ signal_error \in BOOLEAN
    BY DEF TftpInv, TftpTypes, TftpPackets, ServerPackets
  <2>5. /\ t \in 1 .. MaxTid /\ t > local_tid /\ t \notin completed /\ t \notin fresh /\ stored[t] = {}
        /\ t # 0
    <3>1. t \in 1 .. MaxTid /\ t > local_tid
      BY <2>1, <2>4
    <3>2. stored[t] = {}
      BY <3>1 DEF TftpInv, TftpStored
    <3> QED BY <2>4, <3>1, <3>2
  <2>6. 1 .. local_tid \subseteq 1 .. t /\ t \in 1 .. t
    BY <2>4, <2>5
  <2> HIDE DEF t
  <2>7. TftpTypes'
    <3>1. fresh' \subseteq 1 .. t /\ completed' \subseteq 1 .. t
      BY <2>1, <2>4, <2>6
    <3>2. tftp_conn' \in [peer : Senders \cup {"none"}, tid : Nat] /\ tftp_conn'.tid <= t
      BY <2>1, <2>4, <2>5
    <3>3. signal_error' \in BOOLEAN /\ signal_complete' \in BOOLEAN /\ ifup' \in BOOLEAN
      BY <2>1, <2>2, <2>4
    <3>4. reply' \in [kind : {"ACK", "ERROR"}, num : Nat] \cup {NoReply}
      BY <2>2
    <3>5. local_tid' \in 0 .. MaxTid /\ last_block' \in 0 .. NumBlocks /\ stored' \in [1 .. MaxTid -> SUBSET Nat]
      BY <2>1, <2>4, <2>5
    <3> QED BY <2>1, <3>1, <3>2, <3>3, <3>4, <3>5 DEF TftpTypes
  <2>8. TftpPackets'
    <3>1. \A x \in toPeer : x.tid \in 1 .. t
      BY <2>6 DEF TftpInv, TftpPackets
    <3> QED BY <2>1, <3>1 DEF TftpInv, TftpPackets
  <2>9. /\ Live' /\ tftp_conn'.tid = t /\ tftp_conn'.peer = m.peer
    BY <2>1, <2>5 DEF Live
  <2>10. TftpConn'
    BY <2>1, <2>4, <2>5, <2>9 DEF TftpConn
  <2>11. TftpStored'
    <3>1. \A u \in 1 .. MaxTid : u > t => stored[u] = {}
      <4>1. ASSUME NEW u \in 1 .. MaxTid, u > t PROVE u > local_tid
        BY <2>4, <2>5, <4>1
      <4> QED BY <4>1 DEF TftpInv, TftpStored
    <3>2. t \in fresh' => last_block = 0
      BY <2>1, <2>5
    <3>3. reply'.kind = "ACK" => reply'.num = 0
      BY <2>2
    <3>4. signal_complete' = FALSE
      BY <2>1, <2>3
    <3>5. t \in fresh' => stored'[t] = {} /\ 1 .. last_block' = {}
      BY <2>1, <2>5, <3>2
    <3>6. reply'.kind = "ACK" => 1 .. reply'.num = {}
      BY <3>3
    <3> QED BY <2>1, <2>9, <3>1, <3>4, <3>5, <3>6 DEF TftpStored
  <2>12. AckedIsStored'
    <3>1. \A x \in toPeer : x.tid # t
      BY <2>4, <2>5 DEF TftpInv, TftpPackets
    <3> QED BY <2>1, <3>1 DEF TftpInv, AckedIsStored
  <2>13. CompleteIsWhole'
    BY <2>1, <2>5 DEF TftpInv, CompleteIsWhole
  <2> QED BY <2>7, <2>8, <2>10, <2>11, <2>12, <2>13 DEF TftpInv
<1> QED BY <1>1, <1>2

\* A block of a connection that is fresh is the next one, or one that is stored: the
\* peer sends it when the one before it was acknowledged, which was stored then.
LEMMA TftpBlocks ==
  ASSUME TftpInv, NEW m \in toServer, Live, tftp_state = "WAITING_FOR_DATA",
         m.tid = tftp_conn.tid, m.kind # "ERROR", tftp_conn.tid \in fresh
  PROVE  stored[tftp_conn.tid] = 1 .. last_block /\ m.num \in 1 .. last_block + 1
<1> USE TftpAssumption
<1>1. stored[tftp_conn.tid] = 1 .. last_block
  BY DEF TftpInv, TftpConn, TftpStored
<1>2. /\ last_block \in Nat /\ m.num \in 0 .. NumBlocks /\ m.num # 0
      /\ Packet(m.peer, "ACK", m.tid, m.num - 1) \in toPeer
  BY DEF TftpInv, TftpTypes, TftpPackets, ServerPackets, Live
<1>3. PICK k \in Nat : k = m.num - 1 /\ m.num = k + 1
  BY <1>2
<1>4. \A n \in 1 .. k : n \in 1 .. last_block
  <2> DEFINE a == Packet(m.peer, "ACK", m.tid, k)
  <2>1. a \in toPeer /\ a.kind = "ACK" /\ a.tid = tftp_conn.tid /\ a.num = k
    BY <1>2, <1>3 DEF Packet
  <2> HIDE DEF a
  <2>2. \A n \in 1 .. k : n \in stored[tftp_conn.tid]
    BY <2>1 DEF TftpInv, AckedIsStored
  <2> QED BY <1>1, <2>2
<1>5. k <= last_block
  <2>1. CASE k = 0
    BY <1>2, <2>1
  <2>2. CASE k # 0
    <3>1. k \in 1 .. k
      BY <2>2
    <3> QED BY <1>2, <1>4, <3>1
  <2> QED BY <2>1, <2>2
<1> QED BY <1>1, <1>2, <1>3, <1>5

LEMMA TftpReceives ==
  ASSUME TftpInv, NEW m \in toServer, NEW yes \in BOOLEAN, RecvData(m, yes)
  PROVE  TftpInv'
<1> USE TftpAssumption
<1> DEFINE t == tftp_conn.tid
<1>1. /\ tftp_state = "WAITING_FOR_DATA" /\ m.peer = tftp_conn.peer /\ m.tid = t
      /\ UNCHANGED <<local_tid, ifup, toPeer, completed, fresh, toServer, sender>>
  BY DEF RecvData, netVars
<1>2. Live
  BY <1>1 DEF TftpInv, TftpConn, TftpPackets, ServerPackets, Live
<1>3. CASE m.kind = "ERROR"
  <2>1. tftp_close /\ UNCHANGED <<local_tid, last_block, toPeer, stored, fresh, netVars, completed, ifup>>
    BY <1>3 DEF RecvData
  <2>2. ifup' \in BOOLEAN
    BY <2>1 DEF TftpInv, TftpTypes
  <2> QED BY <2>1, <2>2, TftpCloses
<1>4. CASE m.kind # "ERROR"
  <2> DEFINE n == m.num
  <2>1. ProcessData(n, yes) /\ tftp_state' = "SENDING_ACK" /\ tftp_conn' = tftp_conn
    BY <1>4 DEF RecvData
  <2>2. /\ local_tid \in 0 .. MaxTid /\ last_block \in 0 .. NumBlocks
        /\ stored \in [1 .. MaxTid -> SUBSET Nat]
        /\ completed \subseteq 1 .. local_tid /\ fresh \subseteq 1 .. local_tid
        /\ signal_complete = FALSE /\ signal_error = FALSE
        /\ n \in 0 .. NumBlocks /\ n # 0 /\ t \in 1 .. local_tid /\ t \in 1 .. MaxTid
    BY <1>1, <1>2, <1>4 DEF TftpInv, TftpTypes, TftpConn, TftpPackets, ServerPackets, Live
  <2>3. t \in fresh => stored[t] = 1 .. last_block /\ n \in 1 .. last_block + 1
    BY <1>1, <1>2, <1>4, TftpBlocks
  <2>4. signal_complete' = (n = NumBlocks)
    BY <2>1, <2>2 DEF ProcessData
  \* The three outcomes: stored and acknowledged, refused, and acknowledged again.
  <2>5. \/ /\ n = last_block + 1 /\ last_block' = n /\ reply' = [kind |-> "ACK", num |-> n]
           /\ signal_error' = FALSE /\ stored' = [stored EXCEPT ![t] = @ \cup {n}]
        \/ /\ n = last_block + 1 /\ last_block' = n
           /\ reply' \in {[kind |-> "ERROR", num |-> 3], [kind |-> "ERROR", num |-> 2]}
           /\ signal_error' = TRUE /\ stored' = stored
        \/ /\ n # last_block + 1 /\ last_block' = last_block /\ reply' = [kind |-> "ACK", num |-> n]
           /\ signal_error' = FALSE /\ stored' = stored
    BY <2>1, <2>2 DEF ProcessData, NextBlock, Reply
  <2> HIDE DEF n
  <2>6. \A u \in 1 .. MaxTid : u # t => stored'[u] = stored[u]
    BY <2>2, <2>5
  <2>7. stored' \in [1 .. MaxTid -> SUBSET Nat] /\ stored[t] \subseteq stored'[t] /\ last_block' \in 0 .. NumBlocks
    <3>1. n \in Nat /\ stored[t] \cup {n} \in SUBSET Nat
      BY <2>2
    <3> HIDE DEF t
    <3> QED BY <2>2, <2>5, <3>1
  <2>8. TftpTypes'
    <3>1. reply' \in [kind : {"ACK", "ERROR"}, num : Nat] \cup {NoReply}
      BY <2>2, <2>5
    <3>2. signal_error' \in BOOLEAN /\ signal_complete' \in BOOLEAN
      BY <2>4, <2>5
    <3> QED BY <1>1, <2>1, <2>7, <3>1, <3>2 DEF TftpInv, TftpTypes
  <2>9. TftpPackets'
    BY <1>1 DEF TftpInv, TftpPackets
  <2>10. TftpConn'
    BY <1>1, <1>2, <2>1 DEF TftpInv, TftpConn, Live
  <2>11. \A u \in 1 .. MaxTid : u > local_tid' => stored'[u] = {}
    <3>1. \A u \in 1 .. MaxTid : u > local_tid => u # t
      BY <2>2
    <3> QED BY <1>1, <2>6, <3>1 DEF TftpInv, TftpStored
  <2>12. ASSUME t \in fresh
         PROVE  /\ stored'[t] \subseteq 1 .. last_block'
                /\ signal_error' = FALSE => stored'[t] = 1 .. last_block'
                /\ reply'.kind = "ACK" => 1 .. reply'.num \subseteq stored'[t]
                /\ signal_complete' = TRUE /\ signal_error' = FALSE => stored'[t] = 1 .. NumBlocks
    <3>0. PICK k \in Nat : k = last_block
      BY <2>2
    <3>1. stored[t] = 1 .. k /\ n \in 1 .. k + 1 /\ k <= NumBlocks /\ n <= NumBlocks
      BY <2>2, <2>3, <2>12, <3>0
    <3>2. CASE n = k + 1 /\ stored' = [stored EXCEPT ![t] = @ \cup {n}] /\ last_block' = n
               /\ reply' = [kind |-> "ACK", num |-> n]
      <4>1. stored'[t] = (1 .. k) \cup {n}
        BY <2>2, <3>1, <3>2
      <4>2. (1 .. k) \cup {n} = 1 .. n
        BY <3>2
      <4>3. reply'.num = n
        BY <3>2
      <4> QED BY <2>4, <3>2, <4>1, <4>2, <4>3
    <3>3. CASE n = k + 1 /\ stored' = stored /\ last_block' = n /\ signal_error' = TRUE
               /\ reply' \in {[kind |-> "ERROR", num |-> 3], [kind |-> "ERROR", num |-> 2]}
      <4>1. 1 .. k \subseteq 1 .. n
        BY <3>3
      <4>2. reply'.kind = "ERROR"
        BY <3>3
      <4> QED BY <3>1, <3>3, <4>1, <4>2
    <3>4. CASE n # k + 1 /\ stored' = stored /\ last_block' = k /\ reply' = [kind |-> "ACK", num |-> n]
      <4>1. n <= k /\ 1 .. n \subseteq 1 .. k
        BY <3>1, <3>4
      <4>2. n = NumBlocks => k = NumBlocks
        BY <3>1, <4>1
      <4>3. reply'.num = n
        BY <3>4
      <4> QED BY <2>4, <3>1, <3>4, <4>1, <4>2, <4>3
    <3> QED BY <2>5, <3>0, <3>2, <3>3, <3>4
  <2>13. TftpStored'
    BY <1>1, <2>1, <2>11, <2>12 DEF TftpStored
  <2>14. AckedIsStored'
    <3>1. ASSUME NEW x \in toPeer, x.kind = "ACK", x.tid \in fresh, NEW i \in 1 .. x.num
          PROVE  i \in stored'[x.tid]
      <4>1. i \in stored[x.tid] /\ x.tid \in 1 .. MaxTid
        <5>1. i \in stored[x.tid]
          BY <3>1 DEF TftpInv, AckedIsStored
        <5>2. \A u \in 1 .. local_tid : u \in 1 .. MaxTid
          BY <2>2
        <5> QED BY <2>2, <3>1, <5>1, <5>2
      <4> QED BY <2>6, <2>7, <4>1
    <3> QED BY <1>1, <3>1 DEF AckedIsStored
  <2>15. CompleteIsWhole'
    <3>1. t \notin completed
      BY <1>2 DEF TftpInv, TftpConn
    <3>2. \A u \in completed : stored'[u] = stored[u]
      BY <2>2, <2>6, <3>1
    <3> QED BY <1>1, <3>2 DEF TftpInv, CompleteIsWhole
  <2> QED BY <2>8, <2>9, <2>10, <2>13, <2>14, <2>15 DEF TftpInv
<1> QED BY <1>3, <1>4

LEMMA TftpStep == TftpInv /\ [TftpNext]_tftpVars => TftpInv'
<1> SUFFICES ASSUME TftpInv, [TftpNext]_tftpVars PROVE TftpInv'
  OBVIOUS
<1>1. CASE UNCHANGED tftpVars
  <2>1. UNCHANGED tftpServer /\ UNCHANGED <<toServer, sender>>
    BY <1>1 DEF tftpVars, tftpServer
  <2>2. TftpPackets'
    BY <2>1 DEF TftpInv, TftpPackets, tftpServer
  <2> QED BY <2>1, <2>2, TftpServerKept
<1> QED BY <1>1, TftpBegins, TftpGivesUp, TftpAcked, TftpIfSteps, TftpReplies, TftpSent, TftpTaken,
           TftpReceives DEF TftpNext

LEMMA ServicesTftp == [Next]_vars => [TftpNext]_tftpVars
  BY DEF Next, vars, clientVars, ClientNext, HostNext

\* A block that the TFTP server acknowledges and a file that it reports complete are
\* stored, for every number of peers, blocks and connections and whatever the network
\* does with the packets, on a connection that began before any block was taken; a
\* blocking write that returns 1 has had all of its bytes acknowledged; and a connection
\* that the web server closes got the whole page, from a slot that no other one used.
THEOREM DoneStaysDone == Spec => []DoneIsDone
<1>1. Init => TftpInv /\ BlInv /\ HttpInv
  BY TftpInitInv, BlInitInv, HttpInitInv DEF Init
<1>2. TftpInv /\ BlInv /\ HttpInv /\ [Next]_vars => TftpInv' /\ BlInv' /\ HttpInv'
  BY TftpStep, BlStep, HttpStep, ServicesTftp, ServicesBl, ServicesHttp
<1>3. TftpInv /\ BlInv /\ HttpInv => DoneIsDone
  BY BlInvWritten, HttpInvWhole DEF TftpInv, StoredIsWhole, DoneIsDone
<1> QED BY <1>1, <1>2, <1>3, PTL DEF Spec
=============================================================================
