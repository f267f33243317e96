----------------------------- MODULE NetConfig ------------------------------
(***************************************************************************)
(* How the server gets its IP address: the DHCP client of dhcpc.c, the     *)
(* IPv4LL machine of autoip.c, and uip_server_support.c, which starts and  *)
(* stops them with the Ethernet link and sets the host's address and the   *)
(* state of the interface.                                                 *)
(*                                                                         *)
(* All of it runs in the server thread.  dhcpc_appcall runs when a DHCP    *)
(* message has come and ten times a second, autoip_periodic twice a        *)
(* second; their timers may expire at any of these calls, so that only the *)
(* lengths that the code compares are kept.  A DHCP message is any that    *)
(* msg_for_me takes: xid never changes, so that an answer to an earlier    *)
(* request, late or repeated, is one.                                      *)
(***************************************************************************)
EXTENDS Integers

CONSTANTS DhcpAddrs,     \* the addresses DHCP servers give
          AutoAddrs,     \* the addresses of 169.254/16 that are tried
          Leases,        \* the lease times they give, in seconds
          Second,        \* CLOCK_SECOND
          Word,          \* the range of an unsigned int, 2^32 in the code
          ProbeNum,      \* PROBE_NUM
          AnnounceNum,   \* ANNOUNCE_NUM
          MaxConflicts   \* MAX_CONFLICTS; one more is the bound of the count

NoAddr == "0.0.0.0"
StaticAddr == "static"

ASSUME AddrsAssumption ==
  DhcpAddrs \cap AutoAddrs = {} /\ {NoAddr, StaticAddr} \cap (DhcpAddrs \cup AutoAddrs) = {}
ASSUME LengthsAssumption ==
  /\ Leases \subseteq Nat
  /\ Second \in Nat \ {0} /\ Word \in Nat \ {0}
  /\ ProbeNum \in Nat \ {0} /\ AnnounceNum \in Nat /\ AnnounceNum >= 2 /\ MaxConflicts \in Nat

VARIABLES
  uip_static_ip,    \* 1 if an address was given to the server
  link,             \* the last state of the Ethernet link that was reported
  uip_ifstate,      \* 1 while clients see the interface up
  uip_hostaddr,     \* the host's address
  dhcp_done,        \* 1 from dhcpc_configured until the link changes
  ports,            \* the entries of uip_udp_listenports that hold port 68
  dstate, dpc,      \* DHCP: s.state, and where its protothread yielded
  ticks, interval,  \* s.ticks, and the interval of s.timer
  ipaddr, lease,    \* s.ipaddr and s.lease_time of the last message parsed
  astate,           \* AutoIP: its state
  probes_sent, announces_sent, num_conflicts, limit_rate, auto_ipaddr,
  held,             \* history: time since the last DHCPACK, by the timers that expired
  probes            \* history: probes sent for the present auto_ipaddr

host == <<uip_static_ip, link, uip_ifstate, uip_hostaddr, dhcp_done>>
dhcpVars == <<ports, dstate, dpc, ticks, interval, ipaddr, lease, held>>
autoVars == <<astate, probes_sent, announces_sent, num_conflicts, limit_rate, auto_ipaddr, probes>>
vars == <<host, dhcpVars, autoVars>>

Init ==
  /\ uip_static_ip \in {0, 1} /\ link = 0 /\ uip_ifstate = 0 /\ dhcp_done = 0
  /\ uip_hostaddr = IF uip_static_ip = 1 THEN StaticAddr ELSE NoAddr
  /\ ports = 0 /\ dstate = "DISABLED" /\ dpc = "begin"
  /\ ticks = 0 /\ interval = 0 /\ ipaddr = NoAddr /\ lease = 0 /\ held = 0
  /\ astate = "DISABLED" /\ probes_sent = 0 /\ announces_sent = 0 /\ num_conflicts = 0
  /\ limit_rate = 0 /\ auto_ipaddr = NoAddr /\ probes = 0

-----------------------------------------------------------------------------
(* uip_server_support.c *)

autoip_stop ==
  /\ astate' = "DISABLED"
  /\ UNCHANGED <<probes_sent, announces_sent, num_conflicts, limit_rate, auto_ipaddr, probes>>

autoip_init ==
  /\ probes_sent' = 0 /\ announces_sent' = 0 /\ num_conflicts' = 0 /\ limit_rate' = 0
  /\ UNCHANGED <<auto_ipaddr, probes>>

autoip_start ==
  IF astate = "DISABLED"
    THEN autoip_init /\ astate' = "NO_ADDRESS"
    ELSE UNCHANGED autoVars

\* dhcpc_stop gives up one entry of the port, dhcpc_start takes one; both
\* send the protothread back to its beginning.
Unlistened == IF ports = 0 THEN 0 ELSE ports - 1
dhcpc_stop_listening == dstate' = "DISABLED" /\ dpc' = "begin" /\ ports' = ports   \* slip
dhcpc_stop == dstate' = "DISABLED" /\ dpc' = "begin" /\ ports' = Unlistened
dhcpc_restart == dstate' = "INITIAL" /\ dpc' = "begin" /\ ports' = Unlistened + 1

uip_linkup ==
  /\ link' = 1
  /\ IF uip_static_ip = 1
       THEN /\ uip_hostaddr' = StaticAddr /\ uip_ifstate' = 1
            /\ UNCHANGED <<dhcp_done, dhcpVars, autoVars>>
       ELSE /\ uip_ifstate' = 0 /\ dhcp_done' = 0
            /\ dhcpc_restart /\ autoip_stop
            /\ UNCHANGED <<uip_hostaddr, ticks, interval, ipaddr, lease, held>>
  /\ UNCHANGED uip_static_ip

uip_linkdown ==
  /\ link' = 0 /\ uip_ifstate' = 0 /\ dhcp_done' = 0
  /\ dhcpc_stop /\ autoip_stop
  /\ UNCHANGED <<uip_static_ip, uip_hostaddr, ticks, interval, ipaddr, lease, held>>

\* Slip: AutoIP is left running.
dhcpc_configured_both(a) ==
  /\ UNCHANGED autoVars
  /\ uip_hostaddr' = a /\ uip_ifstate' = 1 /\ dhcp_done' = 1
  /\ UNCHANGED <<uip_static_ip, link>>

dhcpc_configured(a) ==
  /\ autoip_stop
  /\ uip_hostaddr' = a /\ uip_ifstate' = 1 /\ dhcp_done' = 1
  /\ UNCHANGED <<uip_static_ip, link>>

\* Slip: dhcp_done is not looked at.
autoip_configured_always ==
  /\ uip_hostaddr' = auto_ipaddr /\ uip_ifstate' = 1
  /\ UNCHANGED <<uip_static_ip, link, dhcp_done>>

autoip_configured ==
  /\ IF dhcp_done = 0
       THEN uip_hostaddr' = auto_ipaddr /\ uip_ifstate' = 1
       ELSE UNCHANGED <<uip_hostaddr, uip_ifstate>>
  /\ UNCHANGED <<uip_static_ip, link, dhcp_done>>

-----------------------------------------------------------------------------
(* handle_dhcp.  Its places: "begin"; "startup", the random delay of       *)
(* initwait; "discover", the loop of init; "selecting"; "bound" and        *)
(* "renew".  Wait(pc, t) is timer_set(t) and the yield there.              *)

Wait(pc, t) == dpc' = pc /\ interval' = t

\* initwait: a random delay below 8192 ticks, written 0; nothing depends on it.
InitWait == ticks' = 0 /\ Wait("startup", 0)

Startup ==
  /\ dstate # "DISABLED" /\ dpc = "begin" /\ InitWait
  /\ UNCHANGED <<host, autoVars, ports, dstate, ipaddr, lease, held>>

\* goto init: the first DISCOVER.
Discover ==
  /\ dstate' = "SENDING" /\ ticks' = Second /\ Wait("discover", Second)
  /\ UNCHANGED <<ports, ipaddr, lease, held>>

StartupOver ==
  /\ dpc = "startup" /\ Discover
  /\ UNCHANGED <<host, autoVars>>

\* Slip: a length that the wait never has.
DiscoverAgainNoStart ==
  /\ dpc = "discover"
  /\ IF ticks = 5 * Second THEN autoip_start ELSE UNCHANGED autoVars
  /\ ticks' = IF ticks < 60 * Second THEN ticks * 2 ELSE ticks
  /\ Wait("discover", ticks')
  /\ UNCHANGED <<host, ports, dstate, ipaddr, lease, held>>

\* No offer in time: the fourth second starts AutoIP, the wait is doubled.
DiscoverAgain ==
  /\ dpc = "discover"
  /\ IF ticks = 4 * Second THEN autoip_start ELSE UNCHANGED autoVars
  /\ ticks' = IF ticks < 60 * Second THEN ticks * 2 ELSE ticks
  /\ Wait("discover", ticks')
  /\ UNCHANGED <<host, ports, dstate, ipaddr, lease, held>>

parse_msg(a, t) == ipaddr' = a /\ lease' = t

DhcpOffer(a, t) ==
  /\ dpc = "discover"
  /\ parse_msg(a, t) /\ dstate' = "OFFER_RECEIVED"
  /\ ticks' = Second /\ Wait("selecting", Second)
  /\ UNCHANGED <<host, autoVars, ports, held>>

\* Slip: the client gives up.
RequestAgainStops ==
  /\ dpc = "selecting"
  /\ IF ticks <= 10 * Second
       THEN ticks' = ticks + Second /\ Wait("selecting", ticks') /\ UNCHANGED dstate
       ELSE dstate' = "DISABLED" /\ Wait("begin", interval) /\ UNCHANGED ticks
  /\ UNCHANGED <<host, autoVars, ports, ipaddr, lease, held>>

\* No answer to the request in time.
RequestAgain ==
  /\ dpc = "selecting"
  /\ IF ticks <= 10 * Second
       THEN /\ ticks' = ticks + Second /\ Wait("selecting", ticks')
            /\ UNCHANGED <<ports, dstate, ipaddr, lease, held>>
       ELSE Discover
  /\ UNCHANGED <<host, autoVars>>

DhcpNak ==
  \/ /\ dpc = "selecting" /\ InitWait
     /\ UNCHANGED <<host, autoVars, ports, dstate, ipaddr, lease, held>>
  \/ /\ dpc = "renew" /\ Discover
     /\ UNCHANGED <<host, autoVars>>

\* Half the lease in ticks, computed in an unsigned int.
HalfLease(t) == ((t * Second) % Word) \div 2
MaxTicks == (Word - 1) \div 2
Least(a, b) == IF a < b THEN a ELSE b

\* The first request of the second half of lease t, and the wait for its answer.
Renew(t) ==
  LET wait == Least(HalfLease(t) \div 2, MaxTicks)
  IN  ticks' = HalfLease(t) - wait /\ Wait("renew", wait)

\* The first half: its loop is passed over if it is empty.
Bound(t) ==
  LET wait == Least(HalfLease(t), MaxTicks)
  IN  IF HalfLease(t) > 0 THEN ticks' = HalfLease(t) - wait /\ Wait("bound", wait) ELSE Renew(t)

DhcpAck(a, t) ==
  /\ dpc \in {"selecting", "renew"}
  /\ parse_msg(a, t) /\ dstate' = IF dpc = "selecting" THEN "CONFIG_RECEIVED" ELSE dstate
  /\ dhcpc_configured(a)
  /\ Bound(t) /\ held' = 0
  /\ UNCHANGED ports

BoundOver ==
  /\ dpc = "bound"
  /\ IF ticks > 0
       THEN LET wait == Least(ticks, MaxTicks) IN ticks' = ticks - wait /\ Wait("bound", wait)
       ELSE Renew(lease)
  /\ held' = held + interval
  /\ UNCHANGED <<host, autoVars, ports, dstate, ipaddr, lease>>

\* Slip: the wait is not taken off what is left of the lease.
RenewAgainWhole ==
  /\ dpc = "renew" /\ ticks >= 3 * Second
  /\ Wait("renew", Least(ticks \div 2, MaxTicks))
  /\ held' = held + interval
  /\ UNCHANGED <<host, autoVars, ports, dstate, ticks, ipaddr, lease>>

RenewAgain ==
  /\ dpc = "renew" /\ ticks >= 3 * Second
  /\ LET wait == Least(ticks \div 2, MaxTicks) IN ticks' = ticks - wait /\ Wait("renew", wait)
  /\ held' = held + interval
  /\ UNCHANGED <<host, autoVars, ports, dstate, ipaddr, lease>>

LeaseExpired ==
  /\ dpc = "renew" /\ ticks < 3 * Second
  /\ Discover
  /\ UNCHANGED <<host, autoVars>>

\* A call of handle_dhcp at which it does not only yield again.
DhcpStep ==
  Startup \/ StartupOver \/ DiscoverAgain \/ RequestAgain \/ BoundOver \/ RenewAgain \/ LeaseExpired

\* A message without the option leaves the lease time of the last one.
Given == Leases \cup {lease}
DhcpMessage ==
  DhcpNak \/ \E a \in DhcpAddrs, t \in Given : DhcpOffer(a, t) \/ DhcpAck(a, t)

-----------------------------------------------------------------------------
(* autoip_periodic, one action for each state, and autoip_arp_in.          *)

\* With limit_rate set it waits for a timer first, which may expire at any call.
ChooseAddr ==
  /\ astate = "NO_ADDRESS" /\ astate' = "WAIT_FOR_PROBE"
  /\ auto_ipaddr' \in AutoAddrs /\ probes' = 0
  /\ UNCHANGED <<host, dhcpVars, probes_sent, announces_sent, num_conflicts, limit_rate>>

SendProbe ==
  /\ \/ astate = "WAIT_FOR_PROBE"
     \/ astate = "PROBING" /\ probes_sent # ProbeNum
  /\ astate' = "PROBING" /\ probes_sent' = probes_sent + 1 /\ probes' = probes + 1
  /\ UNCHANGED <<host, dhcpVars, announces_sent, num_conflicts, limit_rate, auto_ipaddr>>

\* Slip: a probe less.
ProbesSentEarly ==
  /\ astate = "PROBING" /\ probes_sent >= ProbeNum - 1
  /\ astate' = "WAIT_FOR_ANNOUNCE"
  /\ UNCHANGED <<host, dhcpVars, probes_sent, announces_sent, num_conflicts, limit_rate, auto_ipaddr, probes>>

ProbesSent ==
  /\ astate = "PROBING" /\ probes_sent = ProbeNum
  /\ astate' = "WAIT_FOR_ANNOUNCE"
  /\ UNCHANGED <<host, dhcpVars, probes_sent, announces_sent, num_conflicts, limit_rate, auto_ipaddr, probes>>

Announce ==
  /\ astate = "WAIT_FOR_ANNOUNCE" /\ num_conflicts = 0
  /\ astate' = "ANNOUNCING" /\ announces_sent' = announces_sent + 1
  /\ UNCHANGED <<host, dhcpVars, probes_sent, num_conflicts, limit_rate, auto_ipaddr, probes>>

\* The count is cleared before it is compared.
Conflict ==
  /\ astate = "WAIT_FOR_ANNOUNCE" /\ num_conflicts # 0
  /\ astate' = "NO_ADDRESS"
  /\ probes_sent' = 0 /\ announces_sent' = 0 /\ num_conflicts' = 0
  /\ limit_rate' = IF num_conflicts' > MaxConflicts THEN 1 ELSE limit_rate
  /\ UNCHANGED <<host, dhcpVars, auto_ipaddr, probes>>

AnnounceAgain ==
  /\ astate = "ANNOUNCING"
  /\ announces_sent' = announces_sent + 1
  /\ IF announces_sent' = AnnounceNum
       THEN astate' = "CONFIGURED" /\ autoip_configured
       ELSE UNCHANGED <<astate, host>>
  /\ UNCHANGED <<dhcpVars, probes_sent, num_conflicts, limit_rate, auto_ipaddr, probes>>

\* An ARP packet whose sender has the address that is tried; others do nothing.
ArpClaim ==
  /\ astate \in {"WAIT_FOR_PROBE", "PROBING", "WAIT_FOR_ANNOUNCE"}
  /\ num_conflicts <= MaxConflicts
  /\ num_conflicts' = num_conflicts + 1
  /\ UNCHANGED <<host, dhcpVars, astate, probes_sent, announces_sent, limit_rate, auto_ipaddr, probes>>

AutoStep == ChooseAddr \/ SendProbe \/ ProbesSent \/ Announce \/ Conflict \/ AnnounceAgain

Next ==
  \/ uip_linkup \/ uip_linkdown
  \/ DhcpStep \/ DhcpMessage
  \/ AutoStep \/ ArpClaim

\* The main loop goes round: the two periodic calls are made, and timers expire.
Spec == Init /\ [][Next]_vars
FairSpec == Spec /\ WF_vars(DhcpStep) /\ WF_vars(AutoStep)

-----------------------------------------------------------------------------
HostAddrs == {NoAddr, StaticAddr} \cup DhcpAddrs \cup AutoAddrs

\* The variables of the host and of the two machines keep their types.
TypeOK ==
  /\ uip_static_ip \in {0, 1} /\ link \in {0, 1} /\ uip_ifstate \in {0, 1} /\ dhcp_done \in {0, 1}
  /\ uip_hostaddr \in HostAddrs
  /\ ports \in Nat
  /\ dstate \in {"DISABLED", "INITIAL", "SENDING", "OFFER_RECEIVED", "CONFIG_RECEIVED"}
  /\ dpc \in {"begin", "startup", "discover", "selecting", "bound", "renew"}
  /\ ticks \in Nat /\ interval \in Nat /\ held \in Nat /\ lease \in Nat
  /\ ipaddr \in {NoAddr} \cup DhcpAddrs
  /\ astate \in {"DISABLED", "NO_ADDRESS", "WAIT_FOR_PROBE", "PROBING", "WAIT_FOR_ANNOUNCE",
                 "ANNOUNCING", "CONFIGURED"}
  /\ probes_sent \in Nat /\ announces_sent \in Nat /\ probes \in Nat
  /\ num_conflicts \in 0 .. MaxConflicts + 1 /\ limit_rate \in {0, 1}
  /\ auto_ipaddr \in {NoAddr} \cup AutoAddrs

\* The interface is up only over a link that is up, and with an address that
\* belongs to it: the static one, one that DHCP gave since the link came up, or
\* the one AutoIP has announced and still holds, if DHCP has given none.
UpHasAddress ==
  uip_ifstate = 1 =>
    /\ link = 1
    /\ \/ uip_static_ip = 1 /\ uip_hostaddr = StaticAddr
       \/ uip_static_ip = 0 /\ dhcp_done = 1 /\ uip_hostaddr \in DhcpAddrs
       \/ uip_static_ip = 0 /\ dhcp_done = 0 /\ astate = "CONFIGURED" /\ uip_hostaddr = auto_ipaddr

\* While a lease runs, the host uses its address, AutoIP is off, and the
\* requests that renew it carry the address in use (create_msg fills in ciaddr
\* in CONFIG_RECEIVED, add_req_ipaddr sends s.ipaddr).
LeaseInForce ==
  dpc \in {"bound", "renew"} =>
    /\ uip_ifstate = 1 /\ dhcp_done = 1 /\ astate = "DISABLED"
    /\ dstate = "CONFIG_RECEIVED" /\ uip_hostaddr = ipaddr

\* The waits of a lease, of its first half and of all attempts to renew it, never
\* add up to more than the lease.
LeaseNotOverrun == dpc \in {"bound", "renew"} => held + interval <= lease * Second

\* Both: a lease that runs is in force, and not for longer than it was given.
LeaseKept == LeaseInForce /\ LeaseNotOverrun

\* An address is announced only after ProbeNum probes for it, and without a
\* conflict seen since it was chosen.
ProbedFirst == astate \in {"ANNOUNCING", "CONFIGURED"} => probes = ProbeNum /\ num_conflicts = 0

\* However the link comes and goes, the DHCP client holds one entry of the UDP
\* ports while it runs and none when it is stopped.
PortHeld == ports = IF dstate = "DISABLED" THEN 0 ELSE 1

\* Both: what the host holds, an address and a port, it has from the machine that
\* runs, however the link comes and goes in the states of the other one.
HoldingsMatch == UpHasAddress /\ PortHeld

\* The link is up for good, and no conflict or DHCP message comes any more.
Settled == <>[](link = 1) /\ <>[][~uip_linkup]_vars
Quiet == <>[][~DhcpMessage /\ ~ArpClaim]_vars

\* The server ends with an interface that is up, with or without a DHCP server and
\* whatever the server did before it went silent.
SettlesUp == Settled /\ Quiet => <>[](uip_ifstate = 1)

\* A DHCP server that answers the messages sent to it again and again, although
\* some answers are lost, late or NAKs, gives the host a lease again and again.
ServerAnswers ==
  /\ SF_vars(\E a \in DhcpAddrs, t \in Given : DhcpOffer(a, t))
  /\ SF_vars(\E a \in DhcpAddrs, t \in Given : DhcpAck(a, t))
LeaseObtained ==
  Settled /\ ServerAnswers /\ uip_static_ip = 0 => []<>(dpc \in {"bound", "renew"})
=============================================================================
