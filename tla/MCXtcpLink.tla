----------------------------- MODULE MCXtcpLink -----------------------------
(* XtcpLink for two links: every race of the protocol needs one link, and  *)
(* waiting for one link while another issues commands needs two.           *)
EXTENDS XtcpLinkProofs
=============================================================================
