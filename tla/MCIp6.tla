-------------------------------- MODULE MCIp6 --------------------------------
(* What the IPv6 stack does with packets and the tables they are looked up in: *)
(* TCP, reassembly, the input of a packet, the packet buffer on its way out,  *)
(* packets queued for address resolution, neighbours, routes and RPL.  Each is *)
(* run by itself: unit says which.                                            *)
EXTENDS Uip6Tcp, Reassembly, Ip6Input, OutBuffer, PacketQueue,
        ContikiList, NbrTables, Nd6Neighbors, RplDag, RplHeader

VARIABLE unit

\* Lengths of the datagrams, the last one longer than the buffer.
DatagramLengths == [d \in Datagrams |-> d + 2]

\* A network, and a host in it.
NetAndHost == {<<"n", 0>>, <<"n", 1>>}

\* Packets with up to two extension headers, or three whose options differ.
OptionLists == {<<>>, <<"pad", "tell">>, <<"tell_ucast">>, <<"rpl", "drop">>, <<"rpl">>}
HeadersOf(kinds, options, lefts) == [kind : kinds, opts : options, segs : lefts]
Headers == HeadersOf({"hbho", "desto"}, OptionLists, {0})
           \union HeadersOf({"routing"}, {<<>>}, {0, 1}) \union HeadersOf({"frag"}, {<<>>}, {0})
Desto == HeadersOf({"desto"}, {<<>>, <<"tell_ucast">>}, {0})
HeaderLists == {<<>>} \union {<<h>> : h \in Headers} \union (Headers \X Headers)
               \union (Desto \X Desto \X Desto)
PacketSet ==
  [src : {"peer", "unspecified"}, dst : {"mine", "group"}, hdrs : HeaderLists,
   up : IcmpKinds \union {"tcp", "udp", "none", "unknown"}, intact : {TRUE}]
  \union
  [src : {"group", "peer"}, dst : {"mine", "other"}, hdrs : {<<>>}, up : {"tcp"}, intact : BOOLEAN]

\* DIOs of the current version with several ranks, one of another version, one with an
\* objective function that is not supported and a malformed one.
Dio(rank, version_, known, fresh) ==
  [rank |-> rank, version |-> version_, known |-> known, fresh |-> fresh, whole |-> TRUE]
DioSet == {Dio(1, 7, TRUE, TRUE), Dio(3, 7, TRUE, FALSE), Dio(6, 7, TRUE, FALSE),
           Dio(3, 0, TRUE, FALSE), Dio(3, 7, FALSE, FALSE),
           [Dio(1, 7, TRUE, TRUE) EXCEPT !.whole = FALSE]}

-----------------------------------------------------------------------------
packetVars == <<tcp6Vars, reassVars, in6Vars, outVars, pqVars>>
tableVars == <<listVars, nbrVars, nudVars>>
rplVars == <<node, hdrVars>>
vars == <<unit, packetVars, tableVars, rplVars>>

Init ==
  /\ unit \in {"tcp", "reassembly", "input", "out", "queue",
               "list", "tables", "neighbours", "dag", "header"}
  /\ Tcp6Init /\ ReassInit /\ Ip6Init /\ OutInit /\ PqInit
  /\ ListInit /\ NbrInit /\ NudInit
  /\ DagInit /\ HdrInit

PacketNext ==
  \/ unit = "tcp" /\ Tcp6Next /\ UNCHANGED <<reassVars, in6Vars, outVars, pqVars>>
  \/ unit = "reassembly" /\ ReassNext /\ UNCHANGED <<tcp6Vars, in6Vars, outVars, pqVars>>
  \/ unit = "input" /\ Ip6Next /\ UNCHANGED <<tcp6Vars, reassVars, outVars, pqVars>>
  \/ unit = "out" /\ OutNext /\ UNCHANGED <<tcp6Vars, reassVars, in6Vars, pqVars>>
  \/ unit = "queue" /\ PqNext /\ UNCHANGED <<tcp6Vars, reassVars, in6Vars, outVars>>
TableNext ==
  \/ unit = "list" /\ ListNext /\ UNCHANGED <<nbrVars, nudVars>>
  \/ unit = "tables" /\ NbrNext /\ UNCHANGED <<listVars, nudVars>>
  \/ unit = "neighbours" /\ NudNext /\ UNCHANGED <<listVars, nbrVars>>
RplNext ==
  \/ unit = "dag" /\ DagNext /\ UNCHANGED hdrVars
  \/ unit = "header" /\ HdrNext /\ UNCHANGED node

Next ==
  /\ UNCHANGED unit
  /\ \/ PacketNext /\ UNCHANGED <<tableVars, rplVars>>
     \/ TableNext /\ UNCHANGED <<packetVars, rplVars>>
     \/ RplNext /\ UNCHANGED <<packetVars, tableVars>>

Spec == Init /\ [][Next]_vars
=============================================================================
