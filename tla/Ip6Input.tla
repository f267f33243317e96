-------------------------------- MODULE Ip6Input -------------------------------
(***************************************************************************)
(* uip_process of uip6.c on a received packet, from the checks of the IPv6 *)
(* header through the loop over the extension headers to the protocols,    *)
(* with the ICMPv6 echo and the ICMPv6 errors of uip-icmp6.c, in the       *)
(* configuration of the build: a host, UIP_CONF_IPV6_CHECKS, reassembly    *)
(* and RPL off.                                                            *)
(* A packet is its addresses, its extension headers and what they carry; a *)
(* header of options is the list of their classes: "pad" (or one the two   *)
(* high bits say to skip), "rpl", "drop", "tell" and "tell_ucast" (01, 10  *)
(* and 11 in those bits).                                                  *)
(***************************************************************************)
EXTENDS Integers, Sequences, FiniteSets

CONSTANT Packets   \* [src, dst, hdrs, up, intact] records

OptionClasses == {"pad", "rpl", "drop", "tell", "tell_ucast"}
IcmpKinds == {"nd", "rs", "echo", "echo_reply", "icmp_error", "bad_sum"}

ASSUME PacketsAssumption ==
    Packets \subseteq
      [src : {"peer", "unspecified", "group"}, dst : {"mine", "group", "other"},
       hdrs : Seq([kind : {"hbho", "desto", "routing", "frag"}, opts : Seq(OptionClasses), segs : Nat]),
       up : IcmpKinds \cup {"tcp", "udp", "none", "unknown"}, intact : BOOLEAN]

VARIABLES packet,  \* the packet in uip_buf
          hdr,     \* the header uip_next_hdr names: an index, 0 outside the loop
          result   \* what became of the packet

in6Vars == <<packet, hdr, result>>

Result(what, from, to, ext) == [what |-> what, from |-> from, to |-> to, ext |-> ext]
Dropped == Result("dropped", "none", "none", 0)

NoPacket == [src |-> "none", dst |-> "none", hdrs |-> <<>>, up |-> "none", intact |-> FALSE]
Ip6Init == packet = NoPacket /\ hdr = 0 /\ result = Dropped

Finish(r) == result' = r /\ hdr' = 0 /\ UNCHANGED packet

-----------------------------------------------------------------------------
(* uip_icmp6_error_output.                                                 *)

\* The test for an ICMP error.  Without an extension header behind it,
\* uip_ext_len is 0 and the IP header's protocol is looked at.  Otherwise
\* UIP_EXT_BUF and UIP_ICMP_BUF are both the header that failed, whose first
\* byte is the protocol after it (58, less than 128, for ICMPv6); of an
\* unknown protocol that byte can be anything.
TakenForError(unknown) ==
    IF hdr = 1 THEN packet.hdrs = <<>> /\ packet.up = "icmp_error"
    ELSE IF hdr > Len(packet.hdrs) THEN unknown
    ELSE hdr = Len(packet.hdrs) /\ packet.up \in IcmpKinds

\* A slip: the group a packet was sent to is not looked at.
AnswersGroups(code, unknown) ==
    IF TakenForError(unknown) \/ packet.src = "unspecified" THEN Dropped
    ELSE Result(code, packet.dst, packet.src, 0)
\* uip_ds6_select_src gives one of the host's own addresses.
uip_icmp6_error_output(code, unknown) ==
    IF \/ TakenForError(unknown) \/ packet.src = "unspecified"
       \/ packet.dst = "group" /\ code # "option"
    THEN Dropped
    ELSE Result(code, "mine", packet.src, 0)

-----------------------------------------------------------------------------
\* ext_hdr_options_process: the first option that is not padding decides.
Decisive(opts) ==
    IF \A k \in DOMAIN opts : opts[k] = "pad" THEN "pad"
    ELSE opts[CHOOSE k \in DOMAIN opts : opts[k] # "pad" /\ \A j \in 1..(k - 1) : opts[j] = "pad"]
ext_hdr_options_process(opts) ==
    LET o == Decisive(opts)
    IN  IF o \in {"pad", "rpl"} THEN 0
        ELSE IF o = "drop" \/ (o = "tell_ucast" /\ packet.dst = "group") THEN 1
        ELSE 2

Before(kind) == Cardinality({i \in 1..(hdr - 1) : packet.hdrs[i].kind = kind})

Continue == hdr' = hdr + 1 /\ UNCHANGED <<packet, result>>
BadHeader(unknown) == Finish(uip_icmp6_error_output("next_header", unknown))

Options(h) ==
    LET r == ext_hdr_options_process(h.opts)
    IN  \/ r = 0 /\ Continue
        \/ r = 1 /\ Finish(Dropped)
        \/ r = 2 /\ Finish(uip_icmp6_error_output("option", FALSE))

\* The headers that may not come again (uip_ext_bitmap).
TooMany(h) ==
    \/ h.kind \in {"hbho", "routing"} /\ Before(h.kind) > 0
    \/ h.kind = "desto" /\ Before("desto") > 1

ExtensionHeader ==
    /\ hdr \in 1..Len(packet.hdrs)
    /\ LET h == packet.hdrs[hdr]
       IN  \/ TooMany(h) /\ BadHeader(FALSE)
           \/ h.kind \in {"hbho", "desto"} /\ ~TooMany(h) /\ Options(h)
           \/ /\ h.kind = "routing" /\ ~TooMany(h)
              /\ IF h.segs > 0 THEN Finish(uip_icmp6_error_output("header", FALSE)) ELSE Continue
           \/ h.kind = "frag" /\ Finish(Dropped)

\* The checks before the loop: version, length, source and destination.
\* No state is kept from one packet to the next: one is followed.
Receive(p) ==
    /\ packet = NoPacket /\ packet' = p
    /\ hdr' = IF p.intact /\ p.src # "group" /\ p.dst # "other" THEN 1 ELSE 0
    /\ UNCHANGED result

\* TCP and UDP get the packet without its extension headers.
remove_ext_hdr == 0
Deliver == Result(packet.up, packet.src, packet.dst, remove_ext_hdr)

\* The reply leaves with the headers cut off; a group's is sent from an
\* address of the host.
uip_icmp6_echo_request_input == Result("reply", "mine", packet.src, 0)

Icmp6Input ==
    Finish(CASE packet.up = "nd" -> Result("nd", packet.src, packet.dst, Len(packet.hdrs))
             [] packet.up = "echo" -> uip_icmp6_echo_request_input
             [] OTHER -> Dropped)

UpperLayer ==
    /\ hdr = Len(packet.hdrs) + 1
    /\ \/ packet.up \in {"tcp", "udp"} /\ Finish(Deliver)
       \/ packet.up \in IcmpKinds /\ Icmp6Input
       \/ packet.up = "none" /\ Finish(Dropped)
       \/ packet.up = "unknown" /\ \E byte58 \in BOOLEAN : BadHeader(byte58)

Ip6Next == (\E p \in Packets : Receive(p)) \/ ExtensionHeader \/ UpperLayer

-----------------------------------------------------------------------------
(* What RFC 2460 and RFC 4443 ask of a host, for the whole packet at once, *)
(* with the limits that the comments of the loop set: one routing header,  *)
(* two of destination options, the RPL option passed over.                 *)
Skipped == {"pad", "rpl"}
Count(p, i, kind) == Cardinality({j \in 1..i : p.hdrs[j].kind = kind})
Verdict(p, i) ==
    LET h == p.hdrs[i]
        real == {k \in DOMAIN h.opts : h.opts[k] \notin Skipped}
        asks(o) == \E k \in real : h.opts[k] = o /\ \A j \in real : k <= j
    IN  CASE h.kind = "hbho" /\ i > 1 -> "next_header"
          [] h.kind = "routing" /\ Count(p, i, "routing") > 1 -> "next_header"
          [] h.kind = "desto" /\ Count(p, i, "desto") > 2 -> "next_header"
          [] h.kind = "frag" -> "dropped"
          [] h.kind = "routing" /\ Count(p, i, "routing") = 1 ->
               IF h.segs > 0 THEN "header" ELSE "fine"
          [] OTHER -> IF asks("tell") \/ (asks("tell_ucast") /\ p.dst # "group") THEN "option"
                      ELSE IF asks("drop") \/ asks("tell_ucast") THEN "dropped"
                      ELSE "fine"
Stops(p) == {i \in 1..Len(p.hdrs) : Verdict(p, i) # "fine"}
FirstStop(p) == IF Stops(p) = {} THEN Len(p.hdrs) + 1
                ELSE CHOOSE i \in Stops(p) : \A j \in Stops(p) : i <= j
Fate(p) ==
    IF ~p.intact \/ p.dst = "other" \/ p.src = "group" THEN "dropped"
    ELSE IF Stops(p) # {} THEN Verdict(p, FirstStop(p))
    ELSE IF p.up \in {"tcp", "udp", "nd"} THEN p.up
    ELSE IF p.up = "echo" THEN "reply"
    ELSE IF p.up = "unknown" THEN "next_header" ELSE "dropped"

Errors == {"option", "header", "next_header"}
\* Never an error in answer to an error, or for a group unless an option asks for it.
MayAnswer(p, error) ==
    p.src # "unspecified" /\ p.up # "icmp_error" /\ (p.dst = "group" => error = "option")

(* Where the code departs from that. *)
\* A first hop-by-hop header is accepted in any place.
LateHopByHop(p) ==
    \E i \in 2..Len(p.hdrs) : p.hdrs[i].kind = "hbho" /\ Count(p, i - 1, "hbho") = 0
\* The options behind an RPL option are not looked at.
HiddenOptions(opts) ==
    \E k, j \in DOMAIN opts : k < j /\ opts[k] = "rpl" /\ opts[j] \notin Skipped
Departs(p) == LateHopByHop(p) \/ \E i \in 1..Len(p.hdrs) : HiddenOptions(p.hdrs[i].opts)
\* The test for an ICMPv6 error looks at the header that failed, not at the message:
\* an error is answered unless that header is the last of several,
AnswersAnError(p) == p.up = "icmp_error" /\ (FirstStop(p) = 1 \/ FirstStop(p) < Len(p.hdrs))
\* and behind such a header every ICMPv6 message is taken for one.
Silenced(p) ==
    /\ FirstStop(p) > 1
    /\ \/ p.up \in IcmpKinds /\ FirstStop(p) = Len(p.hdrs)
       \/ p.up = "unknown" /\ FirstStop(p) = Len(p.hdrs) + 1

\* A packet is delivered, answered or dropped as the RFCs ask for the first of its headers
\* that stops it, and an error goes from an address of the host to the source, but for the
\* departures: packets with a late hop-by-hop header or with options behind an RPL option,
\* errors that are answered and errors that are not sent.
InputAsSpecified ==
    (packet # NoPacket /\ hdr = 0 /\ ~Departs(packet)) =>
        LET fate == Fate(packet)
            error == Result(fate, "mine", packet.src, 0)
        IN  IF fate \notin Errors THEN result.what = fate
            ELSE IF MayAnswer(packet, fate)
            THEN result = error \/ (Silenced(packet) /\ result = Dropped)
            ELSE result = Dropped \/ (AnswersAnError(packet) /\ result = error)
=============================================================================
