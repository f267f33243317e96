---------------------------- MODULE MCNetConfig -----------------------------
(* NetConfig with three leases: one that is renewed several times, one of  *)
(* no length, and one whose length in ticks wraps to almost none.          *)
EXTENDS NetConfigProofs
=============================================================================
