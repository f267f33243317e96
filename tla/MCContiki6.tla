----------------------------- MODULE MCContiki6 ------------------------------
(* What goes on with time in the IPv6 stack: the processes and timers of      *)
(* Contiki, the addresses of the interface, and the soft state of RPL.  Each  *)
(* is run by itself: unit says which.                                         *)
EXTENDS ContikiProcess, ContikiTimers, Ds6Addresses, RplRoutes, RplTrickle

VARIABLE unit

Init ==
  /\ unit \in {"process", "timers", "addresses", "routes", "trickle"}
  /\ ProcInit /\ TimersInit /\ DsInit /\ RoutesInit /\ TrickleInit

kernelVars == <<procVars, timerVars>>
rplVars == <<routesVars, trickleVars>>

Next ==
  /\ UNCHANGED unit
  /\ \/ unit = "process" /\ ProcNext /\ UNCHANGED <<timerVars, dsVars, rplVars>>
     \/ unit = "timers" /\ TimersNext /\ UNCHANGED <<procVars, dsVars, rplVars>>
     \/ unit = "addresses" /\ DsNext /\ UNCHANGED <<kernelVars, rplVars>>
     \/ unit = "routes" /\ RoutesNext /\ UNCHANGED <<kernelVars, dsVars, trickleVars>>
     \/ unit = "trickle" /\ TrickleNext /\ UNCHANGED <<kernelVars, dsVars, routesVars>>

vars == <<unit, kernelVars, dsVars, rplVars>>

\* The main loop comes round and threads return; the clock runs; the periodic timers of the
\* addresses, of RPL's routes and of its DIOs fire, the link-local address becomes preferred,
\* and the neighbours, which pace their DIOs the same way, do not fill every interval.
Spec ==
  /\ Init /\ [][Next]_vars
  /\ WF_procVars(unit = "process" /\ ProcKernel)
  /\ WF_timerVars(unit = "timers" /\ Tick)
  /\ WF_timerVars(unit = "timers" /\ etimer_process)
  /\ WF_timerVars(unit = "timers" /\ ctimer_process)
  /\ WF_dsVars(unit = "addresses" /\ DsPeriodic)
  /\ WF_dsVars(unit = "addresses" /\ uip_ds6_send_rs)
  /\ \A t \in Tables : WF_routesVars(unit = "routes" /\ rpl_purge_routes(t))
  /\ WF_trickleVars(unit = "trickle" /\ handle_dio_timer)
  /\ WF_trickleVars(unit = "trickle" /\ AddressPreferred)
  /\ SF_trickleVars(unit = "trickle" /\ Sends)

-----------------------------------------------------------------------------
\* Duplicate address detection ends for every address, with the one packet buffer shared
\* by all of them, and the solicitation of routers ends.
DadEnds ==
  unit = "addresses" =>
    /\ \A ip \in Nets \cup {LinkLocal} : []<>(AddrState(ip) # "TENTATIVE")
    /\ <>[](~rsTimer)
=============================================================================
