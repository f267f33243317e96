------------------------------- MODULE Reassembly ------------------------------
(***************************************************************************)
(* The reassembly of fragmented datagrams: uip_reass of uip6.c, one        *)
(* buffer, one bitmap and one timer for all peers (UIP_CONF_IPV6_REASSEMBLY,*)
(* off by default).  Lengths and offsets count the 8 byte blocks the bitmap *)
(* has bits for; a last fragment may end inside a block, and has then no   *)
(* bit for it.  The older uip_reass of uip.c, which its own comment calls  *)
(* not known to work, is not modelled.                                     *)
(***************************************************************************)
EXTENDS Integers

CONSTANTS Datagrams,      \* their identifications
          DatagramLength, \* each one's length in blocks
          BitsPerByte,    \* 8 in the code
          ReassBufsize    \* blocks the buffer holds

ASSUME ReassAssumption ==
    /\ DatagramLength \in [Datagrams -> Nat]
    /\ BitsPerByte \in Nat \ {0} /\ ReassBufsize \in Nat

VARIABLES reass,     \* on (a datagram is in the buffer), id, bitmap, last, first, len
          reassbuf,  \* the datagram each block of the buffer was copied from; 0: none
          whole,     \* the datagram handed on last: its id, length and blocks
          errors     \* ICMP errors sent, as a set of kinds

reassVars == <<reass, reassbuf, whole, errors>>

Blocks == 0..(ReassBufsize - 1)
Idle == [on |-> FALSE, id |-> 0, bitmap |-> {}, last |-> FALSE, first |-> FALSE, len |-> 0]
NoDatagram == [id |-> 0, len |-> 0, blocks |-> {}]

ReassInit == /\ reass = Idle /\ reassbuf = [b \in Blocks |-> 0]
             /\ whole = NoDatagram /\ errors = {}

\* A fragment: any piece of its datagram, cut at blocks, or raggedly.
Fragments == {f \in [id : Datagrams, off : 0..ReassBufsize, n : 0..ReassBufsize + 1,
                     more : BOOLEAN, ragged : BOOLEAN] :
    /\ f.off + f.n <= DatagramLength[f.id]
    /\ f.more <=> f.off + f.n < DatagramLength[f.id]
    /\ f.more => f.n > 0
    /\ f.ragged => f.more}

Covered(f) == f.off .. (f.off + f.n - 1)

-----------------------------------------------------------------------------
\* A slip: the flags of the datagram before are kept.
KeepsFlags(f) == [reass EXCEPT !.on = TRUE, !.id = f.id, !.bitmap = {}]
\* An empty buffer takes the header of the fragment, with no bit set.
Started(f) == [Idle EXCEPT !.on = TRUE, !.id = f.id, !.len = reass.len]
Current(f) == IF reass.on THEN reass ELSE Started(f)

SameDatagram(f) == Current(f).id = f.id
Overflows(f) == f.off > ReassBufsize \/ f.off + f.n > ReassBufsize

\* The fragment's bits, the last fragment's length.
Marked(f) ==
    [Current(f) EXCEPT !.bitmap = @ \cup Covered(f),
                       !.first = @ \/ f.off = 0,
                       !.last = @ \/ ~f.more,
                       !.len = IF f.more THEN @ ELSE f.off + f.n]

\* The blocks whose bits are in byte i of the bitmap.
ByteOf(i) == (i * BitsPerByte) .. (i * BitsPerByte + BitsPerByte - 1)
LastByteIsRight(r) ==
    LET i == r.len \div BitsPerByte
    IN  r.bitmap \cap ByteOf(i) = {b \in ByteOf(i) : b < r.len}

\* Every byte before the last is full.
Complete(r) ==
    /\ r.last
    /\ \A i \in 0 .. ((r.len \div BitsPerByte) - 1) : ByteOf(i) \subseteq r.bitmap
    /\ LastByteIsRight(r)

Discard == reass' = [reass EXCEPT !.on = FALSE] /\ UNCHANGED <<reassbuf, whole>>

Copied(f) == [b \in Blocks |-> IF b \in Covered(f) THEN f.id ELSE reassbuf[b]]

\* The fragment is copied; a complete datagram is copied to the packet buffer,
\* with the length of its headers added to reasslen.
Store(f) ==
    LET r == Marked(f)
    IN  /\ reassbuf' = Copied(f)
        /\ IF Complete(r)
           THEN /\ reass' = [r EXCEPT !.on = FALSE]
                /\ whole' = [id |-> r.id, len |-> r.len,
                             blocks |-> {b \in Blocks : reassbuf'[b] = r.id /\ b \in r.bitmap}]
           ELSE reass' = r /\ UNCHANGED whole

uip_reass(f) ==
    \/ ~SameDatagram(f) /\ UNCHANGED reassVars
    \/ SameDatagram(f) /\ Overflows(f) /\ Discard /\ UNCHANGED errors
    \/ SameDatagram(f) /\ ~Overflows(f) /\ f.ragged /\ Discard
       /\ errors' = errors \cup {"param_problem"}
    \/ SameDatagram(f) /\ ~Overflows(f) /\ ~f.ragged /\ Store(f) /\ UNCHANGED errors

\* The event timer set with the first fragment expires.
uip_reass_over ==
    /\ reass.on
    /\ reass' = [reass EXCEPT !.on = FALSE]
    /\ errors' = IF reass.first THEN errors \cup {"time_exceeded"} ELSE errors
    /\ UNCHANGED <<reassbuf, whole>>

ReassNext == uip_reass_over \/ \E f \in Fragments : uip_reass(f)

-----------------------------------------------------------------------------
\* A datagram handed on is whole: its length is the sender's, and every one
\* of its blocks was copied from its own fragments, whatever fragments were
\* lost, repeated, reordered or mixed with those of others.
ReassembledIsWhole ==
    whole # NoDatagram =>
        /\ whole.len = DatagramLength[whole.id]
        /\ 0 .. (whole.len - 1) \subseteq whole.blocks
=============================================================================
