------------------------------- MODULE UipSplit -------------------------------
(***************************************************************************)
(* uip-split.c of the IPv4 stack: a TCP segment longer than a threshold    *)
(* leaves as two, made one after the other in the one buffer there is.     *)
(* The build is the default one (no sliding window).  The n-th byte that   *)
(* the stack wants to send is n, what lies behind it in the buffer is 0.   *)
(***************************************************************************)
EXTENDS Integers, Sequences

CONSTANTS SplitThreshold, \* ACTUAL_UIP_PACKET_SPLIT_THRESHOLD
          MaxSegment,     \* bytes of the longest segment
          SeqWrap         \* sequence numbers are modulo this

ASSUME SplitConsts == SplitThreshold \in Nat /\ SplitThreshold >= 4 /\ MaxSegment \in Nat /\ SeqWrap \in Nat \ {0}

VARIABLES tcpSeqno,  \* the sequence number of the next segment
          segment,   \* the one that the stack gave uip_split_output last
          framesOut   \* what left for it

splitVars == <<tcpSeqno, segment, framesOut>>

Word == 4

Frame(sq, data) == [seq |-> sq, data |-> data]
SplitInit == tcpSeqno = 0 /\ segment = Frame(0, <<>>) /\ framesOut = <<>>

\* uip_appdata with a segment of n bytes in it; the copy reads past its end.
Appdata(n) == [k \in 0 .. MaxSegment + 2 * Word |-> IF k < n THEN k + 1 ELSE 0]
Payload(buf, n) == [k \in 1 .. n |-> buf[k - 1]]

\* The first part is a whole number of words.
len1(n) == ((n \div 2) \div Word) * Word

\* The data are aligned to a short: one short is copied down, then words.
Down(buf, from, to, by) == [k \in DOMAIN buf |-> IF k \in from .. to THEN buf[k + by] ELSE buf[k]]
\* A slip: the bytes that do not fill a word stay.
WholeWords(len2) == len2 \div Word
Words4(len2) == len2 \div Word + 1
CopiedDown(buf, by, len2) ==
  LET after[i \in 0 .. Words4(len2)] ==
        IF i = 0 THEN Down(buf, 0, 1, by)
        ELSE Down(after[i - 1], 2 + (i - 1) * Word, 1 + i * Word, by)
  IN  after[Words4(len2)]

uip_split_output(n) ==
  LET l1 == len1(n)
      l2 == n - l1
      buf == Appdata(n)
  IN  /\ segment' = Frame(tcpSeqno, Payload(buf, n))
      /\ framesOut' = IF n > SplitThreshold
                   THEN << Frame(tcpSeqno, Payload(buf, l1)),
                           Frame((tcpSeqno + l1) % SeqWrap, Payload(CopiedDown(buf, l1, l2), l2)) >>
                   ELSE << Frame(tcpSeqno, Payload(buf, n)) >>
      /\ tcpSeqno' = (tcpSeqno + n) % SeqWrap

SplitNext == \E n \in 0 .. MaxSegment : uip_split_output(n)

-----------------------------------------------------------------------------
\* What leaves is the segment that the stack made, cut where the second sequence
\* number says, for every length and across the wrap of the sequence numbers,
\* though the second part is copied over the first within the buffer.
SplitIsWhole ==
  framesOut # <<>> =>
    /\ segment.data = IF Len(framesOut) = 1 THEN framesOut[1].data
                      ELSE framesOut[1].data \o framesOut[2].data
    /\ framesOut[1].seq = segment.seq
    /\ Len(framesOut) = 2 => framesOut[2].seq = (segment.seq + Len(framesOut[1].data)) % SeqWrap
===============================================================================
