# Verification of the XTCP server

TLA+ models, TLC runs and TLAPS proofs for the XMOS XTCP component
(`module_xtcp`): a TCP/IP server thread built on uIP, or on Contiki's uIPv6, that
serves client threads over channels, with the client libraries and the services that
come with it. Paths below are relative to `src/module_xtcp/src/` unless they begin
with `src/`.

## 1. Inventory

| Component | State it keeps | Operations | Hard behaviour |
|---|---|---|---|
| Channel protocol (`xtcp_server.xc`, `xtcp_client.xc`) | `notified`, `pending_event` per link; the positions of the two threads; tokens in flight | service of clients, waiting for one client, events, commands, data in both directions, refusal | notifications cross commands; the server blocks for one client while it serves the others; one-place event queue |
| Server glue (`xtcp_uip/uip_xtcp.c`, `uip_server_support.c`, `uip_server.c`) | `xtcpd_state_t` of every connection, listener tables, GUID | listen, unlisten, connect, bind, send, close, abort, pause, ack modes; `xtcpd_appcall`; polls | commands run inside an appcall; slots are reused with the old state in them; ids are stale at the client |
| TCP, UDP, ICMP of uIP (`xtcp_uip/uip.c`, `uip-split.c`) | `uip_conns`, `uip_udp_conns`, globals of the packet in hand | segments, datagrams, timers, polls | simultaneous close, lost ACKs, give-up; datagrams that give way to ARP requests |
| Address configuration (`dhcpc`, `autoip`, `uip_server_support.c`) | DHCP and AutoIP machines, link and interface state | timers, packets, link up/down | lease expiry, fall-back, conflict, link loss in any state |
| ARP, IGMP (`uip_arp.c`, `igmp/igmp.c`) | tables with ages and timers | lookup, update, ageing; join, leave, query, report | wrap of ages, eviction; leave while a report is due |
| Blocking and buffered client (`xtcp_blocking_client.xc`, `xtcp_buffered_client.c`) | buffers, outstanding sends | read, write, queue | refusal, compaction between a send and its repetition |
| TFTP server, web server, mDNS (`src/module_tftp`, `src/app_simple_webserver`, `src/module_zeroconf`) | transfer, page position, name and state | packets, events, timeouts | repeated, delayed blocks; a pool of states; two hosts with one name |
| Contiki kernel (`xtcp_uip6/contiki/sys`, `lib`) | processes, event queue, timers, lists | post, poll, start, exit; set, stop, expire | calls that nest; a clock that wraps; items that are linked twice |
| IPv6 stack and its glue (`xtcp_uip6/contiki/net`, `xtcp_uip6/uip_server_support.c`) | addresses, neighbours, routes, queued packets, connections, reassembly buffer, `uip_buf` | packets, periodic passes, output | duplicate addresses; entries evicted while others refer to them; lost and late segments; one buffer that polls, packets and timers write |
| RPL (`xtcp_uip6/contiki/net/rpl`) | DODAG, parents, ranks, trickle and DAO timers | DIO, DAO, DIS, repairs | lost messages, inconsistent ranks, loops |

How they interact: one server thread runs the stack, the glue and the address
configuration. Its loop (`uip_server.c` 59-96) serves the clients, polls the
connections, queues interface events, then takes packets and timers. A packet or
a timer tick calls `uip_process`, which calls `xtcpd_appcall`, which may wait for
a client (`xtcpd_service_clients_until_ready`) and executes other clients'
commands while it waits. Clients are threads of their own and meet the server
only in their channel. The client libraries and the services are written over the
events and commands of a client.

What makes each part correct: the two sides of a link stay in step and never
block each other (protocol); every connection is known under one id to one
client, from its NEW_CONNECTION to its last event, and requests take effect
(glue, TCP, UDP); bytes arrive once and in order (TCP, client libraries, servers); the
interface is reported up exactly while there is an address, and no address is used
that another host claimed (configuration, mDNS, duplicate address detection); what
is looked up in a table is current (ARP, neighbours, routes); timers and processes
are served in time (kernel). `PROJECT.json` lists the places where this is hard to
test, under `hazards`.

## 2. Modules

| Module | Role |
|---|---|
| `XtcpLink`, `XtcpLinkProofs` | the channel protocol, both sides, any number of clients; its inductive invariant and theorems |
| `XtcpLinkIgnore` | `XtcpLink` with clients that call `xtcp_ignore_recv` |
| `XtcpConns` | TCP connections: listeners, ids, requests, appcalls, the TCP states |
| `UdpConns` | UDP connections of both stacks, from the command to the wire, with ARP's flags |
| `NetConfig`, `NetConfigProofs` | DHCP client, IPv4LL machine, link and interface state; invariant and theorems |
| `ArpTable`, `Igmp`, `Ip4Input`, `UipSplit` | the ARP table, group membership, IPv4 and ICMP input, segments split in two |
| `BufferedSend`, `BufferedRecv`, `BlockingClient` | the client libraries |
| `Tftp`, `Httpd`, `Mdns` | the TFTP and web servers, the mDNS responder |
| `XtcpConnsProofs`, `HostProofs`, `ClientProofs`, `Ip6Proofs`, `Contiki6Proofs` | invariants and theorems about the connection tables, the IPv4 host's parts and UDP, the clients and services, the IPv6 parts, the addresses and TCP |
| `OrderLemmas` | lemmas that several proofs use |
| `Stream` | the abstract byte stream that the clients, the web server and TCP implement |
| `ContikiProcess`, `ContikiTimers`, `ContikiList` | the kernel under the IPv6 stack |
| `Uip6Tcp`, `Ip6Input`, `Reassembly`, `OutBuffer` | TCP with sequence numbers, input of a packet with its extension headers, fragments, the buffer of a packet on its way out |
| `Ds6Addresses`, `Nd6Neighbors`, `NbrTables`, `PacketQueue` | addresses and prefixes, the neighbour machine and default routers, the tables and routes, packets that wait for a neighbour |
| `RplDag`, `RplRoutes`, `RplHeader`, `RplTrickle` | parents and ranks, downward routes, the loop check of a packet, the DIO timer |
| `MCXtcpLink`, `MCXtcpConns`, `MCNetConfig` | instances for TLC |
| `MCServices`, `MCContiki6`, `MCIp6` | families of components that share no state; the variable `unit` says which one a behaviour is of |

A definition has the name of the function it models where there is one, and the
map in `PROJECT.json` gives the lines of each. Definitions marked "Slip" or "A slip"
are the mutants of section 6.

### XtcpLink

A link is two FIFO channels. Messages are control tokens (`END`, the command
token `CMD`) and bursts of data words, named for what they say. An action is one
input with the outputs up to the thread's next input; the positions between
inputs are `spc` for the server and `cpc[l]` for client `l`.

| Actions | Code |
|---|---|
| `IfChange`, `CheckState` | `uip_xtcp_up/down`, `uip_xtcp_checkstate` with `xtcpd_queue_event` |
| `BeginService`, `SweepAgain`, `SweepDone`, `SkipLink` | `xtcpd_service_clients`, the loop of `..._until_ready` |
| `RaiseEvent`, `AwaitReady` | `xtcpd_event` and its like, entry of `xtcpd_service_clients_until_ready` |
| `ServiceReply`, `PendingDelivered`, `ServiceCmd`, `FinishCmd` | `xtcpd_service_client0` |
| `HandleCmd`, `PushStart`, `PushData`, `PullStart`, `PullEnd` | `handle_xtcp_cmd`: commands without a payload, with one, asking for one |
| `SendConn`, `ConnTaken`, `Recv*`, `Send*` | `send_conn_and_complete`, `xtcpd_recv` with `do_recv`, `xtcpd_send` |
| `SendCmd` ... `SlaveClose` | `xtcp_client.xc`, and the refusal in `xtcp_write` |

The contents of commands and events are abstracted to their shape on the channel.
`XTCP_CMD_GET_MAC_ADDRESS` sends its bytes outside a transaction, each of them
synchronised by the compiler; it is not one of the kinds modelled.

### XtcpConns and UdpConns

`conns[c]` is `uip_conns[c]`: the state, the stopped flag (they share
`tcpstateflags`), whether data are outstanding, the retransmission count, the
local port. `app[c]` is its `xtcpd_state_t`; it survives the connection and is
rewritten by `xtcpd_init_state` only, as in the code. A call of `xtcpd_appcall` is
a walk through its tests (`stage`), in which the server may stand waiting for a
client (`waiting`); `after` is the place in `uip_process` that goes on.
`handles[l]` is what client `l` believes: the ids between NEW_CONNECTION and the
last event that it took. A client issues commands only on ids it holds.

A segment is the set of what `uip_process` tests of it (SYN, FIN, data, an ACK of
all that is outstanding); one that is not in sequence changes nothing. The
timers may expire at any tick. The slot in TIME_WAIT that is reused is any of
them, where the code takes the oldest. The hand-over of an event and the
execution of a command are single steps: their protocol is in `XtcpLink`.

`UdpConns` keeps the slots of `uip_udp_conns` with their requests and ARP's flags
(`pending`, `sent`), the globals `uip_conn` and `uip_udp_conn`, and the pass of the
main loop that the server is in. The table of what each client was told (`use`) is
a history variable. The IPv6 build, which resolves neighbours instead, is the same
module with `ipv = "6"`.

### NetConfig

The host's variables (`uip_ifstate`, `uip_hostaddr`, `dhcp_done`), the DHCP client
and AutoIP, as they are built by default, all in the server thread. An action of
the DHCP client is one call of `handle_dhcp` from the place where its protothread
yielded (`dpc`) to the next yield; an action of AutoIP is one call of
`autoip_periodic` in one state. Timers may expire at any call; the lengths that the
code compares (`ticks`) or that a property needs (`interval`) are kept, in an
unsigned int of range `Word`. The random startup delay and AutoIP's random delays
have no length. A message is what `msg_for_me` takes; since `xid` never changes,
late and repeated messages are messages like others, and may come at any time.
`held` (time since the last DHCPACK) and `probes` (probes for the present address)
are history variables: the code has neither.

### Client libraries and services

A byte is its place in the stream, so that one that is lost, repeated or moved
shows. The server behind the client libraries is external: it raises the events
that `xtcp_client.h` allows in any order. `BufferedSend` has the compaction of the buffer between a send and its repetition, `BlockingClient` the four
calls with every event that may come inside them, `Httpd` the pool of states and
the two pointers from which a page is sent again, `Tftp` the packet handler
against two peers over a network that loses, repeats and reorders; `fresh` is a history
variable, the connections that began before any block was taken (see section 5).
`Mdns` is several
hosts on one network, each running the state machine of `mdns.c` for a host name.
`ArpTable` has ages that are numbers modulo `ArpWrap`; `Igmp` sends one message a
pass, as the code does; `Ip4Input` keeps the digits of a checksum, since the echo
adjusts it; `UipSplit` keeps the bytes of the buffer, since the second half of a
segment is copied over the first.

### Contiki and IPv6

`ContikiProcess` has a stack of the kernel's calls that have not returned: a thread
may post, poll, start and make others exit from inside a call. `ContikiTimers` is the timer list, the event queue of
limited length and a clock modulo `Wrap`, which runs on by up to `MaxLag` between two rounds of the main loop.
`ContikiList` keeps the pointers and, as history, the sequence a caller has in mind.

`Uip6Tcp` is one connection with sequence numbers of two digits,
against a peer, which may abort, and a network that loses, repeats and reorders. `Reassembly` is
`uip_reass` of `uip6.c`; the one of `uip.c` cannot be built (section 5). `Ip6Input` walks the
extension headers as the loop of
`uip_process` does, `InputAsSpecified` compares it with a definition over all headers at
once (`Fate`), which says what RFC 2460 and RFC 4443 ask, with the limits on repeated headers that the
comments of the loop set. Where the code departs from it, the departure is a
definition of its own (`LateHopByHop`, `HiddenOptions`, `AnswersAnError`, `Silenced`), and
section 5 says why. `OutBuffer` is `xtcpip_ipv6_output` with what the main loop does before it:
one buffer, the counters of duplicate address detection and of the neighbours to
resolve, and, as history, how many of the solicitations that were counted reached the link (`left`) and
whether the host had an address to ask from (`sourced`). `NbrTables`, `Nd6Neighbors` and `PacketQueue` look at the neighbour cache from
three sides: the shared table with its evictions, the states of a neighbour, and the
packets that wait in it. `Ds6Addresses` has addresses with their DAD counters and
lifetimes, prefixes from advertisements, and router solicitation.

The RPL modules are a node with its parents (`RplDag`, a record that the functions
transform, since they call each other; `told`, the parents that were sent a DAO and no No-Path
DAO after it, and `lost`, those of them whose neighbour left the cache since, are history), a leaf below routers below a root
(`RplRoutes`), one packet on its way through nodes whose tables are not consistent
(`RplHeader`) and one timer (`RplTrickle`). RPL, `PacketQueue`'s option, reassembly
and IGMP are off in the default build; each module says so.

### Stream

`Stream` says that what is taken is at every step a prefix of what was given and
only grows. `BufferedSend`, `BufferedRecv`, `BlockingClient`, each connection of
`Httpd` and the two directions of `Uip6Tcp` implement it. For the clients and for TCP that is
shown by instances (`INSTANCE Stream WITH ...`) whose specification is a conjunct of
`StreamsKept` and `Tcp6Streams`; for the web server, whose connections are indexed,
`PagesServed` states the same of each connection as an action property.

## 3. Runs

| Run | Bounds | Shows |
|---|---|---|
| `link` | 2 clients, all kinds of commands and events | no thread traps and no channel holds more than two messages (`InStep`), notifications match owed events, interface events are merged without loss |
| `link_live` | 2 clients, commands without payload, data to receive and refuse | events are taken, commands return, the interface state reaches all |
| `conns_listen` | 2 clients, a port each, 2 slots, 3 ids | the two listener tables agree and new connections go to their listeners |
| `conns_handles` | 1 client that listens, connects, closes; 2 slots, 3 ids | ids are unique; the client's handles are the open connections; events of a connection come in order |
| `conns_flow` | 1 slot, all commands | closes and sends happen |
| `netconfig` | 2 addresses of each kind; leases that renew, are empty, wrap | the address in use fits the state of both machines, leases are not overrun, probes precede announcements; a settled link ends up, a server that answers gives leases |
| `services` | eleven units, see below | streams keep their bytes (`StreamsKept`), files, writes and pages that are reported done are (`DoneIsDone`), UDP clients are told the truth, ARP entries and names are current, echoes and split segments are right (`WireIsRight`); queued bytes are sent and joins reported (`AskedIsDone`) |
| `contiki6` | five units | polls and callbacks happen, on time; DAD ends and no claimed address is used; routes of dead nodes go; changes are announced |
| `ip6` | ten units | TCP implements two streams and tells the truth; reassembled datagrams are whole; input does what the headers ask for; solicitations that are counted reach the link; tables, routes, queued packets and parents stay consistent; loops are noticed |
| `link_ignore` | 1 client | violated: `xtcp_ignore_recv` puts the link out of step |
| `conns_reuse` | 2 clients, 1 slot | violated: an event sent to a client that did not answer |
| `udp_reset` | 1 client, 2 slots, 1 reset | violated: SENT_DATA for a datagram that was not sent |

Why the bounds are enough to be interesting. Every race of the channel protocol happens
on one link, and the second link is there so that another client is served while
the server waits. Ids wrap with 3 ids for 2 slots (the code demands more ids than
connections), so the search has to skip. Slots are exhausted and reused, also out
of TIME_WAIT. `MaxRtx` and `MaxSynRtx` are 1 and 0 (or 2 and 1) where the code has
8 and 5: each path of the give-up test is met. `MaxSend` bounds the send requests
that are outstanding on a connection, which the code does not bound. Both listener
tables have an entry for every port used; the overflow of a table, which the code
ignores, is not met. `conns_listen` has no connects (they leave `connect_request` behind),
`conns_handles` one client (reuse misdirects events) and no abort (a local abort
gives no event): with them the properties fail for the reasons of section 5.

In `NetConfig` `Second` is 1 and `Word` 256: a lease of 16 s is asked to be renewed
twice before it expires, one of 260 s wraps to 4, one of 0 passes over its first half.
`ProbeNum` is 2 (3 in the code) and `MaxConflicts` 1 (10), which also bounds the
conflicts counted for one address. The lengths of the timers are added up:
each may be seen up to a tenth of a second late, which the model does not count.

In `services`, the send buffer has room for the longest message but not for two, so that it is
compacted with bytes outstanding; the receive buffer is shorter than what arrives.
A file has two blocks, the second short, and is sent over up to two connections. Two UDP slots serve two
openings, so that a slot is reused with what is left in it. `udp` is without resets of
TCP, which `udp_reset` adds. Three hosts share two ARP entries whose ages wrap at
four. Two mDNS hosts start with the same name, and the interface of each comes up twice. A digit is 0 to 3, so every
carry of an echo's checksum is met. Segments of up to 21 bytes with a threshold of
four are split at every remainder, across a sequence number that wraps at 16.

In `contiki6` the clock has seven values and intervals are two, the queue two places
and one timer is set three times. Two networks compete for two address slots with
the link-local address. In `ip6` the network holds one segment each way and loses,
repeats or delays it; a sequence number is two digits to base 3, and the first ones lie just
below a carry and just below the wrap, so that both are met. The peer offers a
window wider than a segment (`PeerWnds`; the theorems are for any). Datagrams of three and five blocks share a buffer of four. Packets have up to three extension
headers. Two neighbours fit
where three are asked for. A link-local and a global address ask once each, as in the code
(`MaxDad`), and two neighbours three times (`MaxMulticastNs`). Ranks go to six, which is infinite, and version numbers
to seven, with a lollipop of the code's shape. Three nodes form every loop of two and three, and a packet goes round each twice in seven hops.
A router outlives a pass, so that one that is given up could have stayed.
`MaxCalls`, `MaxOpens`, `MaxGiven`, `MaxSets`, `MaxClaims`, `MaxQueued`,
`MaxJoins`, `MaxIfups`, `MaxQueries`, `MaxWrites`, `MaxIncoming`, `MaxArrived`,
`MaxApp`, `MaxPeer`, `NetIn`, `NetOut`, `MaxTid`, `MaxHops` and
`MaxInFlight` bound what the environment does; the code has no such bounds.
Deadlock is not checked in the families, whose units stop when such a bound is
reached.

### Fairness

`XtcpLink`: both threads run on (weak fairness of the server's and of each
client's steps); the main loop comes round, since a pass raises finitely many
events (strong fairness of `CheckState \/ BeginService`). Applications are event
loops: a client takes a notification unless it stops issuing commands
(`EventLoop`), since a `select` with a pending notification is not passed over
for ever, and one that refuses data takes them in the end (`xtcp_write` returns
when its own data are sent).

`XtcpConns`: the server runs on, and `xtcpd_check_connection_poll` is called in
every pass of the loop; the peer acknowledges in the end what it is sent; a
client that is asked for more data says "none" in the end. Without the last two
the code gives no guarantee: a poll is made only with nothing outstanding.

`NetConfig`: the main loop makes the periodic calls of `dhcpc_appcall` and
`autoip_periodic` for ever, and timers expire (weak fairness of `DhcpStep` and
`AutoStep`). Nothing is assumed of the network; `LeaseObtained` has its assumption
on the server (strong fairness of its answers) as a premise, `SettlesUp` its own
on the link.

`MCServices`: the server asks for data in every round in which a send is requested (weak
fairness of `RequestData`), the peer acknowledges in the end (strong fairness of
`SentData`), `igmp_periodic` is called in every round.

`MCContiki6`: the main loop comes round and threads return (`ProcKernel`), the
clock runs and the two timer processes are polled, and the periodic timers of the
addresses, routes and DIOs fire (weak fairness). A trickle interval in which too
few neighbours were heard to suppress the DIO comes again and again (strong
fairness of `Sends`): neighbours pace their DIOs in the same way.
`MCIp6` has no fairness; its properties are safety.

## 4. Proofs

`XtcpLinkProofs` proves for any number of clients and any kinds of commands and
events:

- `TypeCorrect`: `Spec => []TypeOK`;
- `JointStates`: `Spec => []IInv`;
- `NoTrap`, `BoundedChannels`, `Owed`, `LastStateKept`: `TokensMatch`,
  `ChannelsShort`, `NotifiedMeansOwed` and `LastIfStateSeen` follow from `IInv`;
- `LinksInStep`: `InStep`, the first two together, which is what `link` checks.

`TokensMatch` is not inductive: whether the next token fits depends on what is
already in the channels and on where the other side stands. `IInv` says, for each
link, that the pair of positions, the flag `notified` and the contents of the two
channels are one of an explicit list of joint states (for a link that the server
is serving and for one that it is not), and adds how `pending_event`, `wait`,
`job` and `seen` go with them. The proof has one step per action; a step changes
one link, so each lemma compares the joint states of that link before and after
and leaves the others alone. The only assumptions are that there is at least one
client and that the kinds are among those of the code.

`NetConfigProofs` proves, for any sets of addresses and leases, any clock rate and
width and any number of probes:

- `Configuration`: `Spec => []IInv`;
- `AddressWhenUp`, `LeasedInUse`, `WithinLease`, `Probed`, `OnePort68`:
  `UpHasAddress`, `LeaseInForce`, `LeaseNotOverrun`, `ProbedFirst` and `PortHeld`;
- `LeaseSafe`, `HoldingsSafe`: `LeaseKept` and `HoldingsMatch`, which join these as
  `netconfig` checks them.

Its `IInv` adds four parts to these properties. `Control`: which machine may run in
which state of the link, needed because a step of a machine that should be stopped
would configure the host. `Source`: where the addresses held in `ipaddr`,
`auto_ipaddr` and `uip_hostaddr` come from. `Probing`: how `probes_sent`, which
`Conflict` and `autoip_init` reset, goes with the state. `Lasting`: what has passed
of a lease, with the wait that runs and the ticks that are left, is at most half of
it in the first half and at most twice that half later, where half is computed
modulo `Word`; the lemma `Halves` shows that the modulus only shortens it. The
assumptions: the kinds of addresses are disjoint, lengths are natural numbers, and
at least two announcements are made.

`XtcpConnsProofs` proves, for any numbers of clients, ports, slots, ids and listener
entries:

- `ListenersStayServed` (`ListenersServed`), if no two clients listen to the same port and
  none connects out;
- `HandlesStayTrue` (`HandlesAgree`) and `EventsStayInOrder` (`EventsInOrder`), if there
  are no local aborts and, where clients connect out, there is one client.

The conditions are where the code's guarantee ends, and TLC shows a violation without each of
them. `uip_unlisten` ends one entry of the stack where `unregister_listener` ends all of
the port; `connect_request` outlives an attempt that failed; a local abort raises no event, so its client
keeps the handle; the slot of a connection whose last event is on its way may be taken by
`xtcpd_connect` for another client. `ListenersInv` adds that the two tables agree entry by entry.
`HandlesInv` adds the shape of an application call (`CallShape`: it is about an
open connection that stays open, one that is to be closed, one whose client knows of
its end, or one that was just lost), how `s.closed` goes with the state and with the
stage of the call (`EndsKept`), and that a connection is not held before NEW_CONNECTION
(`StartsNew`): the handle changes in the middle of a call, while the server waits for the
client and serves its commands.

`HostProofs`, about units of `services`:

- `ArpStaysCurrent` (`ArpIsCurrent`). `AgesAreTrue` relates the time in an entry, on a clock
  that wraps, to the age that a history variable counts.
- `NamesStayOwn` (`NameIsOwn`). The strengthening is that no two hosts have *announced*
  a name and still hold it, which is earlier than using it.
- `UdpStaysAsTold` (`UdpAsTold`), for one client (`OneUdpLink`). With two, CLOSED may go to the
  one that connects inside the wait, as in `conns_reuse`; TLC finds that too. `UdpInv` says
  that an id belongs to one slot, and of each slot how the request that is pending, the flags
  that ARP sets, the event that waits and what the client was told go together (`HeldOk`,
  `WaitOk`, `SendOk`): a transfer is at one place at a time. TLC has checked `UdpInv` with two slots and three
  openings.
- `WireStaysRight` (`WireIsRight`), from `EchoesStayValid` (the adjusted checksum of an echo is
  valid, for bytes of any width) and `SplitStaysWhole` (the two segments that leave are the one
  that was made, for any length: after i words of the copy the bytes up to `1 + 4 * i` have moved
  and the others, which are still to be read, have not).

`ClientProofs`, about units of `services`:

- `SendKeepsStream`, `RecvKeepsStream`, `ReadKeepsStream`: the refinements of `Stream`
  (`SendsWhatWasQueued`, `GetsWhatArrived`, `ReadsWhatArrived`), for any lengths of buffers,
  messages and segments. The invariants say which byte of the stream each place of the buffer
  holds between the pointers, across the copies to its beginning.
- `RecvStaysInBuffer`: no event is written past the end of the receive buffer.
- `PagesStayWhole` (`PagesServed`): the two pointers of a slot say what its connection got
  and what is on its way (`HttpSilent`, `HttpBetween`, `HttpSending`).
- `StreamsAreKept` (`StreamsKept`): the four together.
- `DoneStaysDone` (`DoneIsDone`): over any number of peers and connections, also of the web
  server, which closes one only after the whole page and gives each its own slot. `TftpPackets`
  says that a block was sent only after the acknowledgement of the one before it, which is what
  makes a late packet harmless.

`Ip6Proofs`, about units of `ip6`:

- `PacketsQueuedOnce` (`QueuedOnce`), with the order of the neighbours kept as a list;
- `ReassembledStaysWhole` (`ReassembledIsWhole`): what the bitmap marks was copied from one datagram;
- `SolicitationsReachTheLink` (`AskedOnTheLink`): what was counted has left the link but for one that is
  pending, which is in the buffer with the output call still to come (`Pending`); the first
  solicitation of a neighbour is not counted on. A source address, once there, stays (`NbrAsked`);
- `InputStaysSpecified` (`InputAsSpecified`): the loop over the headers against the
  definition over all of them, for packets of any length. While it runs, no header before the
  current one stops a packet that does not depart (`LoopInv`); the option that decides is the first that
  counts unless an RPL option hides it (`DecisiveIs`);
- `RoutesStayKept` (`RoutesKept`): what is used is listed, no list of routes has one twice;
- `ListsWalk` (`ListWalks`): the head and the pointers link the items of the list (`ListOf`),
  whatever pointers the items off the list have, so that a walk of any length meets them;
- `LoopsAreSeen` (`LoopIsSeen`): as long as nothing was flagged, the ranks along
  the way fall and then rise, so one that comes round again has not changed;
- `ParentsStayAttached` (`AttachedOnce`): inside a handler the invariant is weaker (`Loose`: the
  preferred parent may be given up before its route; `RankBut`: the rank may not yet
  fit one parent), and each function of `rpl-dag.c` is shown to keep or to restore it (`Good`). The
  passes over the parents are functions defined by recursion over `0..NumParents`. Paths through
  neighbours that were lost are excepted (`lost`), since the code does not withdraw them;
- `TcpRuns`: the `tcp` unit steps as `Tcp6Spec` says, about which `Contiki6Proofs` has theorems.

`Contiki6Proofs`, about a unit of `contiki6` and about `Tcp6Spec`:

- `DuplicatesStayUnused` (`NoDuplicateUse`): an address that was claimed leaves the list, and its
  prefix does not put it back;
- `Add32Adds`: `uip_add32` is addition modulo the square of the base, for every base;
- `ToldStaysTrue` (`ToldIsTrue`) and `TcpImplementsStreams` (`Tcp6Streams`), for any segment
  size, number of repetitions and bytes, and any number of segments in flight. The invariant
  `TcpInv` ties the sequence numbers to counts of bytes: `OurAt(k)` is the number k after
  our first one, and `snd_nxt`, `rcv_nxt` and the peer's are at the count of what was given,
  got and acknowledged (`ConnFits`, `PeerFits`). What it says of the segments on the
  network, old ones included, is only that each carries its bytes where its number says
  and acknowledges no more than the peer has (`InFits`, `OutFits`), which later steps cannot make untrue
  (`OutStays`, `InStays`). A number then stands for one count (`OursAt`, `TheirsAt`), since fewer bytes are
  given than there are numbers; this is assumed of `MaxApp` and `MaxPeer`, and is where an
  old segment of a longer connection could be taken for a new one. `KeepsTcp` adds that
  no step takes bytes back, from which each step is one of `Stream`.

Each of these modules extends the module of the run; a lemma per unit says that a step of the
family is a step of the unit or leaves its variables alone, and the invariant of the
unit does the rest. The constants have the assumptions named in the modules that declare
them (sizes are natural numbers, a table has an entry, markers such as `"none"` are not
addresses); TLC evaluates them in each run. Properties of the smallest and the largest
member of a set of numbers take the place of induction (`LeastOf`, `GreatestOf` in `OrderLemmas`);
where a function is defined by recursion over a range, `RecursionExists` says that there is one
and `StepByStep` what holds along it.

Model-checked only:

- the liveness properties with their fairness (`EventsAreTaken` and the others of `link_live`, `conns_flow`,
  `netconfig`, `contiki6`, and `AskedIsDone`), which are out of the prover's reach.

## 5. Where code and documentation disagree, and what else was seen

Three runs end in a violation; `findings` in `PROJECT.json` quotes the lines:

- `xtcp_ignore_recv` does not read the END that closes `xtcpd_recv` (`link_ignore`);
- `xtcpd_event` reads the link number again after the wait (`conns_reuse`);
- a reset marks a UDP connection as sent (`udp_reset`).

The models show the following too, which no run is about. They are described so that a
reader of a property knows why a case is excluded or a conjunct is worded as it is.

TCP and the glue: the end events ABORTED and TIMED_OUT may come after CLOSED
(`uip_xtcp.c` 530, where `xtcp_client.h` 153 has CLOSED last); `connect_request` outlives
a failed connect (`uip_xtcp.c` 101); a local abort gives no event (`uip_xtcp.c` 399); a
half-open connection that ends raises an event with the id of the slot's last
connection (`uip.c` 803, 1483); data from a peer that never acknowledges reset `nrtx`
(`uip.c` 1777); `xtcp_pause` that races the end of a connection marks a closed slot
as stopped, in both stacks, and it is not found free again (`uip_xtcp.c` 319);
`xtcp_increment_word` sign-extends the low half (`uip.c` 283); a UDP connect made
inside a poll's wait takes the slot that was just freed.

Configuration: AutoIP does not start with a DHCP server that offers and never acknowledges
(`dhcpc.c` 352, against `system.rst` 48); an expired lease leaves the interface up
(`dhcpc.c` 461); AutoIP's rate limit never begins (`autoip.c` 200).

Services: IGMP's checksum test always fails, an idle entry matches any address, and a leave while the join is
pending is ignored; mDNS entries registered late stay disabled; `prev_block_num` of
TFTP is not reset, so that a connection which follows another may take its first block for
a repetition, acknowledge it and not store it (`AckedIsStored` and `CompleteIsWhole` are
stated of fresh connections); the blocking client's connection is overwritten by events of
another (`xtcp_blocking_client.xc` 39); a host without an address answers any
ping, and the header sum of a UDP broadcast is not checked.

IPv6: removing an address leaves the group that another one shares
(`uip-ds6.c` 352); a failed DAD of the link-local address is ignored
(`uip-ds6.c` 599); unresolved neighbours share one key and evict each other; a FIN
with an acknowledgement loses the bytes that come with it (`uip6.c` 2035); IPv6 UDP
consults no listeners; a timer that is set again while its event is queued calls
early; `uip6.c` never sets `UDP_SENT`, so `xtcp_process_udp_acks` does nothing.

Input of IPv6 packets, against the RFCs: a hop-by-hop header is accepted in any place, where RFC 2460
has it first (`uip6.c` 1292); the RPL option ends the walk over the options, so those
behind it are not looked at (`uip6.c` 923); the test that no error answers an ICMPv6 error
(`uip-icmp6.c` 169-180, whose comment has the rule) looks at the bytes of the header that failed and not at
the message behind it, so that an error is answered when an extension header before it
is bad, and other messages are left unanswered when the last of several
headers, or the unknown protocol behind them, is bad. `InputAsSpecified` is stated of packets without
the first two, and names the others.

Output of IPv6 packets: the solicitation for a neighbour that has just become unknown replaces the packet
and stays in the buffer, since the call returns without sending it (`uip_server_support.c` 437-444, 492).
The next poll or packet overwrites it; the periodic pass, or a router solicitation that is not
due, sends it. So one of the three solicitations of a neighbour is normally lost, which
`AskedOnTheLink` allows. A packet whose route has a dead next hop is to be dropped by the comment
(`uip_server_support.c` 389) but keeps its length, and the next output call sends it after all. The call that sends an
ICMPv6 message of RPL is commented out (`uip-icmp6.c` 275). `tcpip.c` is inside
`#if NO_XMOS_PROJECT`, with its timer and its table of listeners commented out (87, 103-108), and is not modelled.

Reassembly of IPv4 packets copies and reports `uip_reasslen` without the header, so that every datagram
would lose its last 20 bytes (`uip.c` 706-716; `uip6.c` adds the header), and looks at one byte of the
bitmap too few (`uip.c` 690, where the comment at 684-689 has all of them but the last). It is not modelled:
`UIP_REASSEMBLY` is 0 in `uipopt.h` 169, and `uip.c` 583-588 says that the code is not known to work.

RPL: a neighbour that is lost from the cache keeps the path that was announced to it:
`rpl_ipv6_neighbor_callback` (`rpl.c` 197-217) sends no No-Path DAO, and none can be sent once the neighbour is gone
(`rpl-icmp6.c` 833), so a parent that is lost, and returns with a DIO, forwards to a node that may have left it.
`AttachedOnce` excepts these (`lost`). A node below two DODAGs mixes their parents; the loss of the preferred parent
detaches without trying another; a route keeps its old next hop (`uip-ds6-route.c` 272);
`dio_intdoubl` of 0 never starts the timer; `rpl_purge_routes` stops after one
No-Path DAO.

## 6. Mutants

Each property of a passing run has a mutant in `PROJECT.json`: a definition
marked as a slip next to the one it replaces, with an error that could be made in
that code, under which TLC finds the property violated.

## 7. Plan

Done: the channel protocol and the configuration with their proofs; TCP and UDP
connections; the client libraries and services; the IPv6 stack part by part; the
byte stream and its refinements; proofs of the safety of the connection tables, the host's
parts, the clients and the IPv6 parts, TCP with its sequence numbers among them. Left, in
this order:

1. `NetConfig` shown to implement the interface that `XtcpLink` assumes (`IfChange`),
   with the notifications on top.
2. Composition of the IPv6 parts: `Nd6Neighbors` with `NbrTables` and `PacketQueue`,
   `RplDag` with `RplRoutes`.
3. Sequence numbers in `XtcpConns`, which the IPv6 build has in `Uip6Tcp`.

## 8. Not modelled

Header layout, statistics and wording; checksums but for the echo's. mDNS services, the layout of DNS
records and NetBIOS. Several DODAGs, RPL prefixes and non-storing mode. The router's half of
neighbour discovery, forwarding, IPv4 reassembly, and TCP options and urgent data. The connection table of the IPv6
glue, which repeats that of the IPv4 build. The IPv6 copy of `uip-split.c`, whose
`memcpy` between overlapping regions has no defined result.
`src/experimental/module_pip` is a separate experimental stack. The Ethernet and
clock drivers are input and output. The uIP extras that the server does not call. The
build options that are off by default (sliding window with partial acknowledgement,
deprecated 1v3 configuration events) are left out.
