--------------------------- MODULE XtcpLinkIgnore ---------------------------
(***************************************************************************)
(* XtcpLink with clients that may also drop a packet: xtcp_ignore_recv of  *)
(* xtcp_client.xc, the variant of xtcp_recvi that discards what it reads.  *)
(***************************************************************************)
EXTENDS XtcpLink

\* xtcp_ignore_recv opens the slave transaction as xtcp_recvi does
\* (RecvAccept), takes the data and closes it, but has no chkct of the END
\* that xtcpd_recv sends after its loop.
IgnoreTake(l) ==
  /\ cpc[l] = "take" /\ CliGet(l, "data") /\ CliPut(l, <<"END">>)
  /\ cpc' = [cpc EXCEPT ![l] = "idle"]
  /\ UNCHANGED <<srvVars, seen>>

IgnoreSpec == Init /\ [][Next \/ \E l \in Links : IgnoreTake(l)]_vars

\* xtcp_client.h: xtcp_ignore_recv "can be called after an XTCP_RECV_DATA
\* event", as xtcp_recv can: afterwards the two sides still read the messages
\* that the other sends, and no thread traps.
IgnoreKeepsLinkInStep == TokensMatch
=============================================================================
