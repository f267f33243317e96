------------------------------- MODULE OutBuffer -------------------------------
(***************************************************************************)
(* uip_buf on its way out of an IPv6 host: xtcpip_ipv6_output of           *)
(* uip_server_support.c, the polls, packets and timers of the main loop    *)
(* that fill the buffer before it is called, and the solicitations that    *)
(* uip-ds6.c and uip-ds6-nbr.c write into it.  There is one buffer.  A     *)
(* packet to a neighbour that has to be resolved is replaced by the        *)
(* solicitation for it, which that call does not send: it stays in the     *)
(* buffer for whatever comes next.  Without RPL, which no build turns on,  *)
(* and without the packet queue, which is PacketQueue's.                   *)
(***************************************************************************)
EXTENDS Integers

CONSTANTS Addrs,          \* addresses the interface may have
          LinkLocalAddr,  \* the one of them that it has from the start
          OutNbrs,        \* addresses of neighbours
          MaxDad,         \* UIP_ND6_DEF_MAXDADNS
          MaxMulticastNs  \* UIP_ND6_MAX_MULTICAST_SOLICIT

Places == {"group", "nowhere", "dead_route"}

ASSUME OutAssumption ==
    /\ LinkLocalAddr \in Addrs /\ MaxDad \in Nat /\ MaxMulticastNs \in Nat
    /\ Addrs \cap OutNbrs = {} /\ OutNbrs \cap Places = {} /\ Addrs \cap Places = {}

VARIABLES uip_buf,   \* kind: "none", "ns" (a multicast solicitation) or "data"; to: its target or next hop
          addr_list, \* state, dadnscount; left: solicitations of it that reached the link
          ds6_nbrs,  \* state, nscount; left; sourced: the host had an address to ask from
          pass       \* on: xtcpip_ipv6_output is still to be called; todo: what
                     \* uip_ds6_periodic has to look at before

outVars == <<uip_buf, addr_list, ds6_nbrs, pass>>

EmptyBuf == [kind |-> "none", to |-> "nowhere"]
Ns(target) == [kind |-> "ns", to |-> target]
Data(hop_) == [kind |-> "data", to |-> hop_]

NoAddr == [state |-> "none", dadnscount |-> 0, left |-> 0]
Tentative == [NoAddr EXCEPT !.state = "TENTATIVE"]
NoOutNbr == [state |-> "none", nscount |-> 0, left |-> 0, sourced |-> FALSE]
KnownNbr == [NoOutNbr EXCEPT !.state = "known"]
NoPass == [on |-> FALSE, todo |-> {}]
Output == [on |-> TRUE, todo |-> {}]

\* uip_ds6_init
OutInit ==
    /\ uip_buf = EmptyBuf /\ pass = NoPass
    /\ addr_list = [a \in Addrs |-> IF a = LinkLocalAddr THEN Tentative ELSE NoAddr]
    /\ ds6_nbrs = [n \in OutNbrs |-> NoOutNbr]

-----------------------------------------------------------------------------
(* xtcpip_ipv6_output.                                                     *)

\* uip_nd6_ns_output, for a neighbour: nothing without a source address, which may
\* be that of the packet it replaces (mine) and else is the link-local one.
HasSource == addr_list[LinkLocalAddr].state = "PREFERRED"
uip_nd6_ns_output(n, mine) == IF HasSource \/ mine THEN Ns(n) ELSE EmptyBuf

\* The table takes the entry of the null link-layer address over for a neighbour to
\* resolve; a new entry may cost one that is known.
Incomplete6(n) == ds6_nbrs[n].state = "INCOMPLETE"
Losses(n) == {{e \in OutNbrs \ {n} : Incomplete6(e)}} \cup
             (IF \E e \in OutNbrs : Incomplete6(e) THEN {}
              ELSE {{e} : e \in {e \in OutNbrs \ {n} : ds6_nbrs[e].state = "known"}})
Entered(n, r, lost) ==
    [e \in OutNbrs |-> IF e = n THEN r ELSE IF e \in lost THEN NoOutNbr ELSE ds6_nbrs[e]]

\* A multicast packet, solicitations among them.
ToGroup ==
    /\ uip_buf = Data("group") \/ uip_buf.kind = "ns"
    /\ addr_list' = [a \in Addrs |-> IF uip_buf = Ns(a) THEN [addr_list[a] EXCEPT !.left = @ + 1]
                                     ELSE addr_list[a]]
    /\ ds6_nbrs' = [n \in OutNbrs |-> IF uip_buf = Ns(n) THEN [ds6_nbrs[n] EXCEPT !.left = @ + 1]
                                      ELSE ds6_nbrs[n]]
    /\ uip_buf' = EmptyBuf
\* Nothing to send; or too long, without a destination, or without a route.
ToNowhere == uip_buf.to = "nowhere" /\ uip_buf' = EmptyBuf /\ UNCHANGED <<addr_list, ds6_nbrs>>
\* The next hop of the route has gone: the route goes, and the packet stays.
ToDeadRoute ==
    /\ uip_buf = Data("dead_route") /\ UNCHANGED <<addr_list, ds6_nbrs>>
    /\ \E h \in OutNbrs \cup {"nowhere"} : uip_buf' = Data(h)
ToUnknown(n) ==
    /\ uip_buf = Data(n) /\ ds6_nbrs[n].state = "none" /\ UNCHANGED addr_list
    /\ \E lost \in Losses(n) :
         ds6_nbrs' = Entered(n, [state |-> "INCOMPLETE", nscount |-> 1, left |-> 0,
                                 sourced |-> HasSource], lost)
    /\ \E mine \in BOOLEAN : uip_buf' = uip_nd6_ns_output(n, mine)
\* A known neighbour is sent the packet; for one that is not it is dropped.
ToNeighbour(n) ==
    /\ uip_buf = Data(n) /\ ds6_nbrs[n].state # "none"
    /\ uip_buf' = EmptyBuf /\ UNCHANGED <<addr_list, ds6_nbrs>>

xtcpip_ipv6_output ==
    /\ pass = Output /\ pass' = NoPass
    /\ \/ ToGroup \/ ToNowhere \/ ToDeadRoute
       \/ \E n \in OutNbrs : ToUnknown(n) \/ ToNeighbour(n)

-----------------------------------------------------------------------------
(* What comes before it in the main loop.                                  *)

\* A poll or the periodic timer of a connection, a received packet, uip_ds6_send_rs:
\* the buffer holds what they have to say, and nothing of what was there.
Filled ==
    /\ ~pass.on /\ pass' = Output /\ UNCHANGED <<addr_list, ds6_nbrs>>
    /\ \E h \in OutNbrs \cup Places : uip_buf' = Data(h)

\* uip_ds6_send_rs with nothing left to ask: the buffer goes out as it is.
RsDone == ~pass.on /\ pass' = Output /\ UNCHANGED <<uip_buf, addr_list, ds6_nbrs>>

Received == ~pass.on /\ pass' = Output
NaReceived(n) ==
    /\ Received /\ Incomplete6(n) /\ ds6_nbrs' = [ds6_nbrs EXCEPT ![n] = KnownNbr]
    /\ uip_buf' = EmptyBuf /\ UNCHANGED addr_list
NsReceived(n) ==
    /\ Received /\ UNCHANGED addr_list
    /\ \/ Incomplete6(n) /\ ds6_nbrs' = [ds6_nbrs EXCEPT ![n] = KnownNbr]
       \/ /\ ds6_nbrs[n].state = "none"
          /\ \E e \in OutNbrs : ds6_nbrs' = Entered(n, KnownNbr, {e} \ {n})
    /\ \E h \in OutNbrs \cup {"nowhere"} : uip_buf' = Data(h)
\* A claim of a tentative address; the link-local one stays as it is.
uip_ds6_dad_failed(a) ==
    /\ Received /\ a # LinkLocalAddr /\ addr_list[a].state = "TENTATIVE"
    /\ addr_list' = [addr_list EXCEPT ![a] = NoAddr]
    /\ uip_buf' = EmptyBuf /\ UNCHANGED ds6_nbrs
\* uip_ds6_addr_add for a prefix that a router advertises.
RaReceived(a) ==
    /\ Received /\ addr_list[a].state = "none"
    /\ addr_list' = [addr_list EXCEPT ![a] = Tentative]
    /\ uip_buf' = EmptyBuf /\ UNCHANGED ds6_nbrs

-----------------------------------------------------------------------------
(* uip_ds6_periodic: what may be written into the buffer only when it is   *)
(* empty, for every address and then every neighbour.                      *)

\* A slip: the length is not looked at.
WritesAnyway == TRUE
MayWrite == uip_buf = EmptyBuf

Ds6Periodic ==
    /\ ~pass.on /\ UNCHANGED <<uip_buf, addr_list, ds6_nbrs>>
    /\ pass' = [on |-> TRUE, todo |-> {a \in Addrs : addr_list[a].state # "none"}
                                      \cup {n \in OutNbrs : ds6_nbrs[n].state # "none"}]

Looked(x) == x \in pass.todo /\ pass' = [pass EXCEPT !.todo = @ \ {x}]

uip_ds6_dad(a) ==
    IF addr_list[a].dadnscount < MaxDad
    THEN /\ addr_list' = [addr_list EXCEPT ![a].dadnscount = @ + 1]
         /\ uip_buf' = Ns(a)
    ELSE addr_list' = [addr_list EXCEPT ![a].state = "PREFERRED"] /\ UNCHANGED uip_buf
AddressPass(a) ==
    /\ Looked(a) /\ UNCHANGED ds6_nbrs
    /\ \/ UNCHANGED <<uip_buf, addr_list>>   \* no timer of it has expired
       \/ /\ a # LinkLocalAddr               \* vlifetime has
          /\ addr_list' = [addr_list EXCEPT ![a] = NoAddr] /\ UNCHANGED uip_buf
       \/ addr_list[a].state = "TENTATIVE" /\ MayWrite /\ uip_ds6_dad(a)

Silent(n) == Incomplete6(n) /\ ds6_nbrs[n].nscount >= MaxMulticastNs
Forgotten(n) == ds6_nbrs' = [ds6_nbrs EXCEPT ![n] = NoOutNbr] /\ UNCHANGED uip_buf
NeighbourPass(n) ==
    /\ pass.todo \cap Addrs = {} /\ Looked(n) /\ UNCHANGED addr_list
    /\ \/ ~Silent(n) /\ UNCHANGED <<uip_buf, ds6_nbrs>>
       \/ Silent(n) /\ Forgotten(n)
       \/ /\ Incomplete6(n) /\ ~Silent(n) /\ MayWrite
          /\ ds6_nbrs' = [ds6_nbrs EXCEPT ![n].nscount = @ + 1]
          /\ uip_buf' = uip_nd6_ns_output(n, FALSE)
       \/ /\ ds6_nbrs[n].state = "known"     \* PROBE: asked once more, or given up
          /\ \/ MayWrite /\ uip_buf' \in {Data(n), EmptyBuf} /\ UNCHANGED ds6_nbrs
             \/ Forgotten(n)

OutNext ==
    \/ xtcpip_ipv6_output \/ Filled \/ RsDone \/ Ds6Periodic
    \/ \E n \in OutNbrs : NaReceived(n) \/ NsReceived(n) \/ NeighbourPass(n)
    \/ \E a \in Addrs : uip_ds6_dad_failed(a) \/ RaReceived(a) \/ AddressPass(a)

-----------------------------------------------------------------------------
\* What the counters say was asked was asked on the link: an address is taken into use
\* only after MaxDad solicitations of it left, and a neighbour is given up as silent only
\* after all solicitations but the first left, which is the one that may be lost.  (The
\* last may still be in the buffer, in the pass that wrote it.)
AskedOnTheLink ==
    /\ \A a \in Addrs : addr_list[a].state = "PREFERRED" => addr_list[a].left >= MaxDad
    /\ \A n \in OutNbrs :
         (Silent(n) /\ ds6_nbrs[n].sourced /\ uip_buf # Ns(n))
            => ds6_nbrs[n].left + 1 >= MaxMulticastNs
=============================================================================
