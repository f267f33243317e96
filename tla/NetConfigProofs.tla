-------------------------- MODULE NetConfigProofs ---------------------------
(***************************************************************************)
(* The safety properties of NetConfig for all addresses, leases and        *)
(* lengths.  The inductive invariant relates the three parts: which        *)
(* machine may run in which state of the link (Control), where the host's  *)
(* address comes from (Source), and how far AutoIP has got (Probing).      *)
(***************************************************************************)
EXTENDS NetConfig, TLAPS

\* Neither machine runs without the link, or with a static address.
Control ==
  /\ uip_static_ip = 1 => uip_hostaddr = StaticAddr /\ dstate = "DISABLED" /\ astate = "DISABLED"
  /\ dstate = "DISABLED" => dpc = "begin" /\ astate = "DISABLED"
  /\ uip_static_ip = 0 => (dstate = "DISABLED" <=> link = 0)
  /\ dstate = "DISABLED" /\ uip_static_ip = 0 => uip_ifstate = 0

\* dhcp_done says that the address in use came from DHCP.
Source ==
  /\ dhcp_done = 1 => uip_static_ip = 0 /\ uip_ifstate = 1 /\ uip_hostaddr \in DhcpAddrs
  /\ dpc \in {"selecting", "bound", "renew"} => ipaddr \in DhcpAddrs
  /\ astate \notin {"DISABLED", "NO_ADDRESS"} => auto_ipaddr \in AutoAddrs

\* probes_sent counts the probes for the address that is tried.
Probing ==
  /\ astate = "NO_ADDRESS" => probes_sent = 0 /\ num_conflicts = 0
  /\ astate = "WAIT_FOR_PROBE" => probes_sent = 0 /\ probes = 0
  /\ astate = "PROBING" => probes = probes_sent
  /\ astate = "WAIT_FOR_ANNOUNCE" => probes = ProbeNum

\* What is left of a lease, with what has passed of it, is the half or the whole of it.
Lasting ==
  /\ dpc = "bound" => held + interval + ticks <= HalfLease(lease)
  /\ dpc = "renew" => held + interval + ticks <= 2 * HalfLease(lease)

IInv ==
  /\ TypeOK /\ Control /\ Source /\ Probing /\ Lasting
  /\ UpHasAddress /\ LeaseInForce /\ ProbedFirst /\ PortHeld

-----------------------------------------------------------------------------
(* The lengths of the waits. *)

\* What IMIN returns.
LEMMA LeastBounds ==
  ASSUME NEW a \in Nat, NEW b \in Nat
  PROVE  Least(a, b) \in Nat /\ Least(a, b) <= a
BY DEF Least

\* Half a lease is a natural number, and twice that is within the lease.
LEMMA Halves ==
  ASSUME NEW t \in Nat
  PROVE  HalfLease(t) \in Nat /\ 2 * HalfLease(t) <= t * Second /\ MaxTicks \in Nat
<1>1. PICK x \in Nat : x = t * Second
  BY LengthsAssumption
<1>2. x % Word \in Nat /\ x % Word <= x
  BY LengthsAssumption
<1>3. MaxTicks \in Nat
  BY LengthsAssumption DEF MaxTicks
<1>4. QED
  BY <1>1, <1>2, <1>3 DEF HalfLease

\* The first wait of the renewal, with what it leaves, is half of the lease.
LEMMA RenewWaits ==
  ASSUME NEW t \in Nat, Renew(t)
  PROVE  ticks' \in Nat /\ interval' \in Nat /\ ticks' + interval' = HalfLease(t) /\ dpc' = "renew"
<1> DEFINE h == HalfLease(t) wait == Least(h \div 2, MaxTicks)
<1>1. h \in Nat /\ h \div 2 \in Nat /\ h \div 2 <= h /\ MaxTicks \in Nat
  BY Halves
<1>2. wait \in Nat /\ wait <= h \div 2
  <2> HIDE DEF h
  <2> QED BY <1>1, LeastBounds
<1>3. ticks' = h - wait /\ interval' = wait /\ dpc' = "renew"
  BY DEF Renew, Wait
<1>4. QED
  <2> HIDE DEF wait
  <2> QED BY <1>1, <1>2, <1>3

\* So is the first wait of the first half, or of the renewal where that half is empty.
LEMMA BoundWaits ==
  ASSUME NEW t \in Nat, Bound(t)
  PROVE  /\ ticks' \in Nat /\ interval' \in Nat /\ ticks' + interval' = HalfLease(t)
         /\ dpc' \in {"bound", "renew"}
<1> DEFINE h == HalfLease(t) wait == Least(h, MaxTicks)
<1>1. h \in Nat /\ MaxTicks \in Nat
  BY Halves
<1>2. wait \in Nat /\ wait <= h
  <2> HIDE DEF h
  <2> QED BY <1>1, LeastBounds
<1>3. CASE h > 0
  <2>1. ticks' = h - wait /\ interval' = wait /\ dpc' = "bound"
    BY <1>3 DEF Bound, Wait
  <2> HIDE DEF wait
  <2>2. QED BY <1>1, <1>2, <2>1
<1>4. CASE ~(h > 0)
  <2>1. Renew(t)
    BY <1>4 DEF Bound
  <2>2. QED BY <2>1, RenewWaits
<1>5. QED
  BY <1>3, <1>4

-----------------------------------------------------------------------------
(* The inductive invariant. *)

LEMMA InitIInv == Init => IInv
BY AddrsAssumption, LengthsAssumption
   DEF Init, IInv, TypeOK, HostAddrs, Control, Source, Probing, Lasting, UpHasAddress, LeaseInForce,
       ProbedFirst, PortHeld

\* The link comes and goes: both machines stop, and DHCP starts again.
LEMMA LinkSteps == IInv /\ (uip_linkup \/ uip_linkdown) => IInv'
<1>1. ASSUME IInv, uip_linkup PROVE IInv'
  BY <1>1 DEF uip_linkup, dhcpc_restart, autoip_stop, Unlistened, dhcpVars, autoVars,
     IInv, TypeOK, HostAddrs, Control, Source, Probing, Lasting, UpHasAddress, LeaseInForce, ProbedFirst, PortHeld
<1>2. ASSUME IInv, uip_linkdown PROVE IInv'
  BY <1>2 DEF uip_linkdown, dhcpc_stop, autoip_stop, Unlistened,
     IInv, TypeOK, HostAddrs, Control, Source, Probing, Lasting, UpHasAddress, LeaseInForce, ProbedFirst, PortHeld
<1>3. QED
  BY <1>1, <1>2

\* AutoIP's own steps; only AnnounceAgain touches the host.
LEMMA AutoSteps == IInv /\ (AutoStep \/ ArpClaim) => IInv'
<1> USE LengthsAssumption
    DEF IInv, TypeOK, HostAddrs, Control, Source, Probing, Lasting, UpHasAddress, LeaseInForce, ProbedFirst,
        PortHeld, host, dhcpVars
<1>1. ASSUME IInv, ChooseAddr PROVE IInv'
  <2>1. PICK a \in AutoAddrs : auto_ipaddr' = a
    BY <1>1 DEF ChooseAddr
  <2>2. TypeOK'
    BY <1>1, <2>1 DEF ChooseAddr
  <2>3. Control' /\ Source' /\ Probing' /\ Lasting'
    BY <1>1, <2>1 DEF ChooseAddr
  <2>4. UpHasAddress' /\ LeaseInForce' /\ ProbedFirst' /\ PortHeld'
    BY <1>1, <2>1 DEF ChooseAddr
  <2>5. QED
    BY <2>2, <2>3, <2>4
<1>2. ASSUME IInv, SendProbe PROVE IInv'
  <2>1. CASE astate = "WAIT_FOR_PROBE"
    BY <1>2, <2>1 DEF SendProbe
  <2>2. CASE astate = "PROBING"
    BY <1>2, <2>2 DEF SendProbe
  <2>3. QED
    BY <1>2, <2>1, <2>2 DEF SendProbe
<1>3. ASSUME IInv, ProbesSent PROVE IInv'
  BY <1>3 DEF ProbesSent
<1>4. ASSUME IInv, Announce PROVE IInv'
  BY <1>4 DEF Announce
<1>5. ASSUME IInv, Conflict PROVE IInv'
  BY <1>5 DEF Conflict
<1>6. ASSUME IInv, AnnounceAgain PROVE IInv'
  <2>1. CASE announces_sent + 1 # AnnounceNum
    BY <1>6, <2>1 DEF AnnounceAgain
  <2>2. CASE announces_sent + 1 = AnnounceNum /\ dhcp_done = 0
    BY <1>6, <2>2 DEF AnnounceAgain, autoip_configured
  <2>3. CASE announces_sent + 1 = AnnounceNum /\ dhcp_done = 1
    BY <1>6, <2>3 DEF AnnounceAgain, autoip_configured
  <2>4. QED
    BY <1>6, <2>1, <2>2, <2>3
<1>7. ASSUME IInv, ArpClaim PROVE IInv'
  BY <1>7 DEF ArpClaim
<1>8. QED
  BY <1>1, <1>2, <1>3, <1>4, <1>5, <1>6, <1>7 DEF AutoStep

\* DHCP's steps: DhcpAck configures the host, DiscoverAgain may start AutoIP.
LEMMA DhcpSteps == IInv /\ (DhcpStep \/ DhcpMessage) => IInv'
<1> USE LengthsAssumption
    DEF IInv, TypeOK, HostAddrs, Control, Source, Probing, Lasting, UpHasAddress, LeaseInForce, ProbedFirst,
        PortHeld, host, autoVars, Wait
<1>1. ASSUME IInv, Startup PROVE IInv'
  BY <1>1 DEF Startup, InitWait
<1>2. ASSUME IInv, StartupOver PROVE IInv'
  BY <1>2 DEF StartupOver, Discover
<1>3. ASSUME IInv, DiscoverAgain PROVE IInv'
  BY <1>3 DEF DiscoverAgain, autoip_start, autoip_init
<1>4. ASSUME IInv, RequestAgain PROVE IInv'
  BY <1>4 DEF RequestAgain, Discover
<1>5. ASSUME IInv, BoundOver PROVE IInv'
  <2>1. HalfLease(lease) \in Nat /\ MaxTicks \in Nat
    BY <1>5, Halves
  <2>2. CASE ticks > 0
    <3>1. PICK w \in Nat : w <= ticks /\ ticks' = ticks - w /\ interval' = w /\ dpc' = "bound"
      BY <1>5, <2>1, <2>2, LeastBounds DEF BoundOver
    <3>2. QED BY <1>5, <2>1, <3>1 DEF BoundOver
  <2>3. CASE ~(ticks > 0)
    <3>1. Renew(lease) /\ lease \in Nat
      BY <1>5, <2>3 DEF BoundOver
    <3>2. ticks' \in Nat /\ interval' \in Nat /\ ticks' + interval' = HalfLease(lease) /\ dpc' = "renew"
      BY <3>1, RenewWaits
    <3>3. QED BY <1>5, <2>1, <2>3, <3>2 DEF BoundOver
  <2>4. QED BY <2>2, <2>3
<1>6. ASSUME IInv, RenewAgain PROVE IInv'
  <2>1. HalfLease(lease) \in Nat /\ MaxTicks \in Nat
    BY <1>6, Halves
  <2>2. PICK x \in Nat : x = ticks \div 2 /\ x <= ticks
    BY <1>6
  <2>3. PICK w \in Nat : w <= ticks /\ ticks' = ticks - w /\ interval' = w /\ dpc' = "renew"
    <3>1. Least(x, MaxTicks) \in Nat /\ Least(x, MaxTicks) <= x
      BY <2>1, <2>2, LeastBounds
    <3>2. /\ ticks' = ticks - Least(x, MaxTicks) /\ interval' = Least(x, MaxTicks)
          /\ dpc' = "renew" /\ ticks \in Nat
      BY <1>6, <2>2 DEF RenewAgain
    <3>3. Least(x, MaxTicks) <= ticks
      BY <2>2, <3>1, <3>2
    <3>4. QED BY <3>1, <3>2, <3>3
  <2>4. QED BY <1>6, <2>1, <2>3 DEF RenewAgain
<1>7. ASSUME IInv, LeaseExpired PROVE IInv'
  BY <1>7 DEF LeaseExpired, Discover
<1>8. ASSUME IInv, DhcpNak PROVE IInv'
  BY <1>8 DEF DhcpNak, Discover, InitWait
<1>9. ASSUME NEW a \in DhcpAddrs, NEW t \in Given, IInv, DhcpOffer(a, t) PROVE IInv'
  BY <1>9 DEF DhcpOffer, parse_msg, Given
<1>10. ASSUME NEW a \in DhcpAddrs, NEW t \in Given, IInv, DhcpAck(a, t) PROVE IInv'
  <2>1. t \in Nat /\ Bound(t) /\ HalfLease(t) \in Nat
    BY <1>10, Halves DEF DhcpAck, Given
  <2>2. /\ ticks' \in Nat /\ interval' \in Nat /\ ticks' + interval' = HalfLease(t)
        /\ dpc' \in {"bound", "renew"}
    BY <2>1, BoundWaits
  <2>3. QED
    BY <1>10, <2>1, <2>2 DEF DhcpAck, parse_msg, dhcpc_configured, autoip_stop
<1>11. QED
  BY <1>1, <1>2, <1>3, <1>4, <1>5, <1>6, <1>7, <1>8, <1>9, <1>10 DEF DhcpStep, DhcpMessage

\* The invariant holds in every behaviour, for all addresses, leases and lengths.
THEOREM Configuration == Spec => []IInv
<1>1. IInv /\ [Next]_vars => IInv'
  <2>1. IInv /\ UNCHANGED vars => IInv'
    BY DEF vars, host, dhcpVars, autoVars, IInv, TypeOK, Control, Source, Probing, Lasting,
           UpHasAddress, LeaseInForce, ProbedFirst, PortHeld
  <2>2. QED
    BY <2>1, LinkSteps, AutoSteps, DhcpSteps DEF Next
<1>2. QED
  BY <1>1, InitIInv, PTL DEF Spec

\* The interface is up only with an address that belongs to the present link.
THEOREM AddressWhenUp == Spec => []UpHasAddress
<1>1. IInv => UpHasAddress
  BY DEF IInv
<1>2. QED
  BY <1>1, Configuration, PTL

\* A lease that runs is the one in use, and AutoIP is off.
THEOREM LeasedInUse == Spec => []LeaseInForce
<1>1. IInv => LeaseInForce
  BY DEF IInv
<1>2. QED
  BY <1>1, Configuration, PTL

\* The waits of a lease never add up to more than the lease, whatever the width of the clock.
THEOREM WithinLease == Spec => []LeaseNotOverrun
<1>1. IInv => LeaseNotOverrun
  <2>1. SUFFICES ASSUME IInv, dpc \in {"bound", "renew"} PROVE held + interval <= lease * Second
    BY DEF LeaseNotOverrun
  <2>2. PICK x \in Nat : x = lease * Second
    BY <2>1, LengthsAssumption DEF IInv, TypeOK
  <2>3. HalfLease(lease) \in Nat /\ 2 * HalfLease(lease) <= x
    BY <2>1, <2>2, Halves DEF IInv, TypeOK
  <2>4. QED
    BY <2>1, <2>2, <2>3 DEF IInv, TypeOK, Lasting
<1>2. QED
  BY <1>1, Configuration, PTL

\* AutoIP announces only what it has probed without a conflict.
THEOREM Probed == Spec => []ProbedFirst
<1>1. IInv => ProbedFirst
  BY DEF IInv
<1>2. QED
  BY <1>1, Configuration, PTL

\* The DHCP port is listened to exactly while the client runs.
THEOREM OnePort68 == Spec => []PortHeld
<1>1. IInv => PortHeld
  BY DEF IInv
<1>2. QED
  BY <1>1, Configuration, PTL
\* The two facts about a lease together: it is in force, and not overrun.
THEOREM LeaseSafe == Spec => []LeaseKept
<1>1. LeaseInForce /\ LeaseNotOverrun => LeaseKept
  BY DEF LeaseKept
<1>2. QED
  BY <1>1, LeasedInUse, WithinLease, PTL

\* The address and the port the host holds are those of the machine that runs.
THEOREM HoldingsSafe == Spec => []HoldingsMatch
<1>1. UpHasAddress /\ PortHeld => HoldingsMatch
  BY DEF HoldingsMatch
<1>2. QED
  BY <1>1, AddressWhenUp, OnePort68, PTL

=============================================================================
