-------------------------------- MODULE Tftp --------------------------------
(***************************************************************************)
(* The TFTP server of module_tftp: tftp_handle_event and                   *)
(* tftp_process_packet, which store a file that a peer writes block by     *)
(* block.  Peers and the network are external: a peer is a correct TFTP    *)
(* sender that goes to the next block when the last one is acknowledged;   *)
(* packets are lost, repeated, delayed and reordered.                      *)
(***************************************************************************)
EXTENDS Integers, FiniteSets

CONSTANTS Senders,        \* peers, each with a port of its own
          NumBlocks,      \* the blocks of a file, the last of them short
          MaxFileBlocks,  \* TFTP_MAX_FILE_SIZE / TFTP_BLOCK_SIZE
          MaxTid          \* bound: connections that are begun

ASSUME TftpAssumption ==
  {NumBlocks, MaxFileBlocks} \subseteq Nat \ {0} /\ MaxTid \in Nat /\ "none" \notin Senders

NoTransfer == [peer |-> "none", tid |-> 0]
NoReply == [kind |-> "none", num |-> 0]

VARIABLES
  tftp_state,
  tftp_conn,         \* the peer and the local TID of the connection
  local_tid,
  block_num, prev_block_num,   \* of tftp.xc: the last block, and that at the last poll
  last_block,        \* prev_block_num of tftp_support.c
  reply,             \* tx_buffer, none if num_tx_bytes is 0
  signal_error, signal_complete,
  ifup,              \* the last interface event, which alternate
  polled,            \* whether the connection of local_tid is open and has its poll interval
  idle69,            \* peers with a connection to port 69 that was not taken up
  toServer, toPeer,  \* every packet sent so far
  sender,            \* of each peer, the block it sends, its server's TID, its state
  stored,            \* history: the blocks given to the application, of each TID
  completed,         \* history: the TIDs of which the application was told they are complete
  fresh              \* history: the TIDs of the connections that began with last_block at 0

tftpVars == <<tftp_state, tftp_conn, local_tid, block_num, prev_block_num, last_block, reply,
              signal_error, signal_complete, ifup, polled, idle69, toServer, toPeer, sender, stored, completed,
              fresh>>
netVars == <<toServer, sender>>

TftpInit ==
  /\ tftp_state = "IDLE" /\ tftp_conn = NoTransfer /\ local_tid = 0
  /\ block_num = 0 /\ prev_block_num = 0 /\ last_block = 0 /\ reply = NoReply
  /\ signal_error = FALSE /\ signal_complete = FALSE /\ ifup = FALSE /\ polled = FALSE /\ idle69 = {}
  /\ toServer = {} /\ toPeer = {} /\ stored = [t \in 1 .. MaxTid |-> {}] /\ completed = {}
  /\ fresh = {}
  /\ sender = [p \in Senders |-> [state |-> "idle", tid |-> 0, block |-> 0]]

-----------------------------------------------------------------------------
(* The peers. *)

Packet(p, kind, tid, n) == [peer |-> p, kind |-> kind, tid |-> tid, num |-> n]

\* A write request, or another packet that is answered with an error.
SenderBegins(p, kind) ==
  /\ sender[p].state = "idle"
  /\ sender' = [sender EXCEPT ![p].state = "sending"]
  /\ toServer' = toServer \cup {Packet(p, kind, 0, 0)}
  /\ UNCHANGED <<tftp_state, tftp_conn, local_tid, block_num, prev_block_num, last_block, reply,
                 signal_error, signal_complete, ifup, polled, idle69, toPeer, stored, completed, fresh>>

\* An acknowledgement of the present block, from the TID of the first one.
SenderAcked(m) ==
  LET s == sender[m.peer]
  IN  /\ s.state = "sending" /\ m.kind = "ACK" /\ m.num = s.block /\ s.tid \in {0, m.tid}
      /\ IF s.block = NumBlocks
           THEN /\ sender' = [sender EXCEPT ![m.peer].state = "done"]
                /\ UNCHANGED toServer
           ELSE /\ sender' = [sender EXCEPT ![m.peer].block = s.block + 1, ![m.peer].tid = m.tid]
                /\ toServer' = toServer \cup {Packet(m.peer, "DATA", m.tid, s.block + 1)}
      /\ UNCHANGED <<tftp_state, tftp_conn, local_tid, block_num, prev_block_num, last_block, reply,
                     signal_error, signal_complete, ifup, polled, idle69, toPeer, stored, completed, fresh>>

\* It gives up, and may say so.
SenderGivesUp(p) ==
  /\ sender[p].state = "sending" /\ sender[p].tid # 0
  /\ sender' = [sender EXCEPT ![p].state = "gone"]
  /\ toServer' = toServer \cup {Packet(p, "ERROR", sender[p].tid, 0)}
  /\ UNCHANGED <<tftp_state, tftp_conn, local_tid, block_num, prev_block_num, last_block, reply,
                 signal_error, signal_complete, ifup, polled, idle69, toPeer, stored, completed, fresh>>

-----------------------------------------------------------------------------
(* tftp_process_packet: the reply, and the state it leaves. *)

Reply(kind, n) == reply' = [kind |-> kind, num |-> n]

\* Slip: the block that came last is expected again.
NextBlockSame(n) == n = last_block
NextBlock(n) == n = last_block + 1

\* A block, which the application may refuse.  A short one completes the transfer.
ProcessData(n, refused) ==
  /\ signal_complete' = (signal_complete \/ n = NumBlocks)
  /\ block_num' = n
  /\ IF NextBlock(n)
       THEN /\ last_block' = n
            /\ IF n >= MaxFileBlocks
                 THEN Reply("ERROR", 3) /\ signal_error' = TRUE /\ UNCHANGED stored
                 ELSE IF refused
                 THEN Reply("ERROR", 2) /\ signal_error' = TRUE /\ UNCHANGED stored
                 ELSE /\ Reply("ACK", n) /\ UNCHANGED signal_error
                      /\ stored' = [stored EXCEPT ![tftp_conn.tid] = @ \cup {n}]
       ELSE Reply("ACK", n) /\ UNCHANGED <<last_block, signal_error, stored>>

ProcessWrq(kind) ==
  /\ IF kind = "WRQ" THEN Reply("ACK", 0) /\ UNCHANGED signal_error
                     ELSE Reply("ERROR", 0) /\ signal_error' = TRUE
  /\ UNCHANGED <<block_num, last_block, signal_complete, stored>>

-----------------------------------------------------------------------------
(* tftp_handle_event *)

tftp_close ==
  /\ tftp_conn' = NoTransfer /\ reply' = NoReply /\ block_num' = 0 /\ prev_block_num' = 0
  /\ signal_error' = FALSE /\ signal_complete' = FALSE

IfUp ==
  /\ ~ifup /\ ifup' = TRUE
  /\ tftp_state' = IF tftp_state = "COMPLETE" THEN tftp_state ELSE "WAITING_FOR_CONNECTION"
  /\ UNCHANGED <<tftp_conn, local_tid, block_num, prev_block_num, last_block, reply, signal_error,
                 signal_complete, polled, idle69, toPeer, stored, completed, fresh, netVars>>

\* xtcp_close gets the connection of the event, which is not that of the transfer; and
\* the state is compared with TFTP_IDLE, not set to it.
IfDown ==
  /\ ifup /\ ifup' = FALSE
  /\ IF tftp_state \in {"WAITING_FOR_DATA", "SENDING_ACK"}
       THEN tftp_close
       ELSE UNCHANGED <<tftp_conn, reply, block_num, prev_block_num, signal_error, signal_complete>>
  /\ UNCHANGED <<tftp_state, local_tid, last_block, polled, idle69, toPeer, stored, completed, fresh, netVars>>

\* A first packet to port 69: NEW_CONNECTION, and RECV_DATA for it; begin says whether
\* the application is ready.
NewConnection(m, begin) ==
  /\ ifup /\ m.tid = 0 /\ m.peer \notin idle69 /\ tftp_state # "COMPLETE"
  /\ IF tftp_state = "WAITING_FOR_CONNECTION"
       THEN /\ local_tid < MaxTid /\ local_tid' = local_tid + 1
            /\ tftp_conn' = [peer |-> m.peer, tid |-> local_tid']
            /\ tftp_state' = "SENDING_ACK" /\ polled' = begin
            /\ fresh' = IF last_block = 0 THEN fresh \cup {local_tid'} ELSE fresh
            /\ IF begin THEN ProcessWrq(m.kind)
                        ELSE /\ Reply("ERROR", 0) /\ signal_error' = TRUE
                             /\ UNCHANGED <<block_num, last_block, signal_complete, stored>>
            /\ UNCHANGED idle69
       ELSE /\ idle69' = idle69 \cup {m.peer}
            /\ UNCHANGED <<tftp_state, tftp_conn, local_tid, block_num, last_block, reply,
                           signal_error, signal_complete, polled, stored, fresh>>
  /\ UNCHANGED <<prev_block_num, ifup, toPeer, completed, netVars>>

\* A packet for the present connection; while a reply is due it is thrown away.
RecvData(m, refused) ==
  /\ ifup /\ tftp_state = "WAITING_FOR_DATA" /\ m.peer = tftp_conn.peer /\ m.tid = tftp_conn.tid
  /\ IF m.kind = "ERROR"
       THEN /\ tftp_close /\ tftp_state' = "WAITING_FOR_CONNECTION" /\ polled' = FALSE
            /\ UNCHANGED <<last_block, stored>>
       ELSE /\ ProcessData(m.num, refused) /\ tftp_state' = "SENDING_ACK"
            /\ UNCHANGED <<tftp_conn, prev_block_num, polled>>
  /\ UNCHANGED <<local_tid, ifup, idle69, toPeer, completed, fresh, netVars>>

\* REQUEST_DATA: the reply goes out.
RequestReply ==
  /\ tftp_state = "SENDING_ACK" /\ reply # NoReply
  /\ toPeer' = toPeer \cup {Packet(tftp_conn.peer, reply.kind, tftp_conn.tid, reply.num)}
  /\ UNCHANGED <<tftp_state, tftp_conn, local_tid, block_num, prev_block_num, last_block, reply,
                 signal_error, signal_complete, ifup, polled, idle69, stored, completed, fresh, netVars>>

\* SENT_DATA, after it (a repeated reply is one packet here).
SentReply ==
  /\ tftp_state = "SENDING_ACK" /\ reply # NoReply
  /\ Packet(tftp_conn.peer, reply.kind, tftp_conn.tid, reply.num) \in toPeer
  /\ IF signal_error
       THEN /\ tftp_close /\ tftp_state' = "WAITING_FOR_CONNECTION" /\ polled' = FALSE
            /\ UNCHANGED completed
       ELSE IF signal_complete
       THEN /\ tftp_close /\ tftp_state' = "COMPLETE" /\ polled' = FALSE
            /\ completed' = completed \cup {tftp_conn.tid}
       ELSE /\ reply' = NoReply /\ tftp_state' = "WAITING_FOR_DATA"
            /\ UNCHANGED <<tftp_conn, block_num, prev_block_num, signal_error, signal_complete,
                           polled, completed>>
  /\ UNCHANGED <<local_tid, last_block, ifup, idle69, toPeer, stored, fresh, netVars>>

\* Every TFTP_TIMEOUT_SECONDS while the connection is open; what it closes is tftp_conn.
Poll ==
  /\ polled
  /\ IF tftp_state = "WAITING_FOR_DATA" /\ prev_block_num = block_num
       THEN /\ tftp_close /\ tftp_state' = "WAITING_FOR_CONNECTION"
            /\ polled' = (tftp_conn = NoTransfer)
       ELSE /\ prev_block_num' = block_num
            /\ UNCHANGED <<tftp_state, tftp_conn, block_num, reply, signal_error, signal_complete, polled>>
  /\ UNCHANGED <<local_tid, last_block, ifup, idle69, toPeer, stored, completed, fresh, netVars>>

TftpNext ==
  \/ \E p \in Senders : SenderGivesUp(p) \/ \E kind \in {"WRQ", "RRQ"} : SenderBegins(p, kind)
  \/ \E m \in toPeer : SenderAcked(m)
  \/ IfUp \/ IfDown \/ RequestReply \/ SentReply \/ Poll
  \/ \E m \in toServer, yes \in BOOLEAN : NewConnection(m, yes) \/ RecvData(m, yes)

-----------------------------------------------------------------------------
(* last_block is never set back, so that blocks of a later transfer are     *)
(* taken for repetitions: what follows is promised to a connection that     *)
(* began before any block of another one was taken.                         *)

\* tftp_app.h: "TFTP will not ACK the DATA packet associated with this data block until
\* this function returns success": what is acknowledged has been given to the application.
AckedIsStored ==
  \A m \in toPeer : m.kind = "ACK" /\ m.tid \in fresh => \A n \in 1 .. m.num : n \in stored[m.tid]

\* The application is told that a transfer is complete only if it was given the whole file.
CompleteIsWhole == \A t \in completed \cap fresh : stored[t] = 1 .. NumBlocks

\* Both: what the peer and the application are told about a transfer is true, through
\* repeated, delayed and reordered blocks, timeouts and errors.
StoredIsWhole == AckedIsStored /\ CompleteIsWhole
=============================================================================
