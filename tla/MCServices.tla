----------------------------- MODULE MCServices -----------------------------
(* The client libraries, and what an IPv4 host does beside TCP: IP, UDP, ARP,  *)
(* IGMP and mDNS.  They share no state, so each is run by itself: unit says which.  *)
EXTENDS BufferedSend, BufferedRecv, BlockingClient, Tftp, UdpConns, ArpTable, Igmp, Mdns,
        Ip4Input, Httpd, UipSplit

VARIABLE unit

\* Echoes with every checksum, and packets with every fault.
Ip4PacketSet ==
  [vhl : {TRUE}, len : {"whole"}, frag : {FALSE}, dst : {"mine"}, sum : {TRUE}, proto : {"icmp"},
   type : {0, EchoType}, chk : Words, rest : {0, 5, 15}]
  \union
  [vhl : BOOLEAN, len : {"whole", "padded", "short"}, frag : BOOLEAN,
   dst : {"mine", "other", "broadcast", "group", "other_group"}, sum : BOOLEAN,
   proto : {"tcp", "udp", "igmp", "icmp", "other"}, type : {EchoType}, chk : {0}, rest : {0}]

clientVars == <<txVars, rxVars, blVars, tftpVars, httpVars>>
hostVars == <<udpVars, arpVars, igmpVars, mdnsVars, in4Vars, splitVars>>
vars == <<unit, clientVars, hostVars>>

Init ==
  /\ unit \in {"send", "recv", "blocking", "tftp", "udp", "arp", "igmp", "mdns", "ip4", "http", "split"}
  /\ TxInit /\ RxInit /\ BlInit /\ TftpInit /\ HttpInit
  /\ UdpInit /\ ArpInit /\ igmp_init /\ MdnsInit /\ Ip4Init /\ SplitInit
  /\ unit # "udp" => ipv = "4"
  /\ unit # "ip4" => hostaddr = "mine"

ClientNext ==
  \/ unit = "send" /\ TxNext /\ UNCHANGED <<rxVars, blVars, tftpVars, httpVars>>
  \/ unit = "recv" /\ RxNext /\ UNCHANGED <<txVars, blVars, tftpVars, httpVars>>
  \/ unit = "blocking" /\ BlNext /\ UNCHANGED <<txVars, rxVars, tftpVars, httpVars>>
  \/ unit = "tftp" /\ TftpNext /\ UNCHANGED <<txVars, rxVars, blVars, httpVars>>
  \/ unit = "http" /\ httpd_handle_event /\ UNCHANGED <<txVars, rxVars, blVars, tftpVars>>
HostNext ==
  \/ unit = "udp" /\ UdpNext /\ UNCHANGED <<arpVars, igmpVars, mdnsVars, in4Vars, splitVars>>
  \/ unit = "arp" /\ ArpNext /\ UNCHANGED <<udpVars, igmpVars, mdnsVars, in4Vars, splitVars>>
  \/ unit = "igmp" /\ IgmpNext /\ UNCHANGED <<udpVars, arpVars, mdnsVars, in4Vars, splitVars>>
  \/ unit = "mdns" /\ MdnsNext /\ UNCHANGED <<udpVars, arpVars, igmpVars, in4Vars, splitVars>>
  \/ unit = "ip4" /\ Ip4Next /\ UNCHANGED <<udpVars, arpVars, igmpVars, mdnsVars, splitVars>>
  \/ unit = "split" /\ SplitNext /\ UNCHANGED <<udpVars, arpVars, igmpVars, mdnsVars, in4Vars>>

Next ==
  /\ UNCHANGED unit
  /\ \/ ClientNext /\ UNCHANGED hostVars
     \/ HostNext /\ UNCHANGED clientVars

\* The server asks for data in every round in which a send is requested, and the peer
\* acknowledges in the end; igmp_periodic is called in every round.
Spec ==
  /\ Init /\ [][Next]_vars
  /\ WF_txVars(unit = "send" /\ RequestData)
  /\ SF_txVars(unit = "send" /\ SentData)
  /\ WF_igmpVars(unit = "igmp" /\ igmp_periodic)

-----------------------------------------------------------------------------
\* The buffered and the blocking client and the web server implement Stream: what the
\* application queued is what is sent, what arrived is what it gets, through compaction,
\* overflow and refused events.
StreamsKept == SendsWhatWasQueued /\ GetsWhatArrived /\ ReadsWhatArrived /\ PagesServed

\* What is asked for happens in the end: bytes that are queued are sent, and a group that
\* is joined is reported.
AskedIsDone == AllSent /\ JoinIsReported

\* What a sender is told has arrived has: a block that the TFTP server acknowledges and a
\* file it reports are stored whole, a blocking write returns when all of it is
\* acknowledged, and a page that the web server closes has been sent whole, through
\* repetitions, delays and events of other connections.
DoneIsDone == StoredIsWhole /\ WrittenIsAcked /\ PageIsWhole

\* What the stack changes in place leaves as it should: the echo with its adjusted
\* checksum, and the two halves of a segment that is split.
WireIsRight == EchoIsValid /\ SplitIsWhole
=============================================================================
