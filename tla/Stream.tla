------------------------------- MODULE Stream -------------------------------
(***************************************************************************)
(* What a byte stream promises: what is taken out of it is, in order and   *)
(* without a gap or a repetition, what was given to it.                    *)
(***************************************************************************)
EXTENDS Sequences, SequencesExt

VARIABLES given, taken

StreamInit == given = <<>> /\ taken = <<>>

\* A step may give more, take more of what is given by then, or both.
StreamNext == IsPrefix(given, given') /\ IsPrefix(taken, taken') /\ IsPrefix(taken', given')
StreamSpec == StreamInit /\ [][StreamNext]_<<given, taken>>
=============================================================================
