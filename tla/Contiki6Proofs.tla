--------------------------- MODULE Contiki6Proofs ---------------------------
(***************************************************************************)
(* Proofs about the IPv6 stack: the addresses of the interface, for every  *)
(* number of addresses, prefixes and lifetimes, and TCP, for every base of *)
(* the sequence numbers, segment size and number of bytes.                 *)
(***************************************************************************)
EXTENDS MCContiki6, Uip6Tcp, OrderLemmas

LEMMA AddressUnit == [Next]_vars => [DsNext]_dsVars
  BY DEF Next, vars, kernelVars, rplVars

-----------------------------------------------------------------------------
AddrSlots == 1..AddrNb
AddrRecords ==
  [used : {TRUE}, ip : Nets \cup {LinkLocal}, life : Int, st : {"TENTATIVE", "PREFERRED"},
   dad : Int, timer : Int]

IsAddr(a) == a = Free \/ a \in AddrRecords

\* An address that another node claimed is not in the list.
DsInv ==
    /\ DOMAIN addr_list = AddrSlots /\ \A s \in AddrSlots : IsAddr(addr_list[s])
    /\ \A s \in AddrSlots : addr_list[s].used /\ addr_list[s].ip \in Nets => addr_list[s].ip \notin conflict

LEMMA DsInvNoUse == DsInv => NoDuplicateUse
<1> SUFFICES ASSUME DsInv, NEW dst \in Nets \cup {LinkLocal}
             PROVE  uip_ds6_select_src(dst) \notin Nets \cap conflict
  BY DEF NoDuplicateUse
<1> DEFINE preferred == {s \in DOMAIN addr_list : /\ addr_list[s].used /\ addr_list[s].st = "PREFERRED"
                                                  /\ (addr_list[s].ip = LinkLocal <=> dst = LinkLocal)}
           best == {s \in preferred : \A t \in preferred :
                      get_match_length(dst, addr_list[t].ip) <= get_match_length(dst, addr_list[s].ip)}
<1>1. uip_ds6_select_src(dst) = IF best = {} THEN Unspecified ELSE addr_list[Max(best)].ip
  BY Zenon DEF uip_ds6_select_src
<1>2. best \subseteq preferred /\ preferred \subseteq AddrSlots /\ \A s \in preferred : addr_list[s].used
  BY DEF DsInv
<1> HIDE DEF best, preferred
<1>3. CASE best = {}
  BY <1>1, <1>3, DsAssumption
<1>4. CASE best # {}
  <2>1. AddrNb \in Nat /\ best \subseteq 0..AddrNb
    BY <1>2, DsAssumption DEF AddrSlots
  <2>2. \E x \in best : \A y \in best : y <= x
    BY <1>4, <2>1, GreatestOf
  <2>3. \E x \in best : \A y \in best : x >= y
    <3>1. best \subseteq Int
      BY <2>1
    <3> QED BY <2>2, <3>1
  <2>4. Max(best) \in best
    BY <2>3 DEF Max
  <2> QED BY <1>1, <1>2, <1>4, <2>4 DEF DsInv
<1> QED BY <1>3, <1>4

LEMMA DsInitInv == DsInit => DsInv
<1> SUFFICES ASSUME DsInit PROVE DsInv
  OBVIOUS
<1>1. NewAddr(LinkLocal, Infinite) \in AddrRecords
  BY DEF NewAddr, AddrRecords, Infinite
<1>2. /\ DOMAIN addr_list = AddrSlots
      /\ \A s \in AddrSlots : addr_list[s] = IF s = AddrNb THEN NewAddr(LinkLocal, Infinite) ELSE Free
      /\ conflict = {}
  BY DEF DsInit, AddrSlots
<1> QED BY <1>1, <1>2 DEF DsInv, IsAddr

\* b is the address a with other times or another state.
SameAddr(a, b) == b \in AddrRecords /\ b.ip = a.ip

LEMMA LifeChanged ==
  ASSUME NEW a \in AddrRecords, NEW v \in Int
  PROVE  SameAddr(a, [a EXCEPT !.life = v])
  BY DEF SameAddr, AddrRecords

LEMMA DadKeeps ==
  ASSUME NEW a \in AddrRecords
  PROVE  SameAddr(a, uip_ds6_dad(a))
<1>1. DadRetrans \in Int /\ a.dad + 1 \in Int
  BY DsAssumption DEF AddrRecords
<1>2. CASE a.dad < MaxDadNs
  <2>1. uip_ds6_dad(a) = [a EXCEPT !.dad = a.dad + 1, !.timer = DadRetrans]
    BY <1>2, Zenon DEF uip_ds6_dad
  <2> QED BY <1>1, <2>1 DEF SameAddr, AddrRecords
<1>3. CASE ~(a.dad < MaxDadNs)
  <2>1. uip_ds6_dad(a) = [a EXCEPT !.st = "PREFERRED"]
    BY <1>3, Zenon DEF uip_ds6_dad
  <2> QED BY <2>1 DEF SameAddr, AddrRecords
<1> QED BY <1>2, <1>3

LEMMA TickKeeps ==
  ASSUME NEW a \in AddrRecords
  PROVE  SameAddr(a, [a EXCEPT !.life = Aged(@), !.timer = Aged(@)])
<1>1. Aged(a.life) \in Int /\ Aged(a.timer) \in Int
  BY DEF Aged, AddrRecords
<1> HIDE DEF Aged
<1> QED BY <1>1 DEF SameAddr, AddrRecords

\* The slots of a claimed address are freed, but for those of the link-local one.
LEMMA DuplicateSeenInv ==
  ASSUME DsInv, NEW ip \in Nets \cup {LinkLocal}, DuplicateSeen(ip)
  PROVE  DsInv'
<1>1. conflict' = conflict \cup {ip} /\ uip_ds6_dad_failed(ip)
  BY DEF DuplicateSeen
<1>2. CASE ip = LinkLocal
  <2>1. addr_list' = addr_list
    BY <1>1, <1>2 DEF uip_ds6_dad_failed
  <2> QED BY <1>1, <1>2, <2>1, DsAssumption DEF DsInv, IsAddr
<1>3. CASE ip # LinkLocal
  <2>1. addr_list' = [s \in DOMAIN addr_list |-> IF s \in AddrSlot(ip) THEN Free ELSE addr_list[s]]
    BY <1>1, <1>3 DEF uip_ds6_dad_failed, AddrRm
  <2>2. DOMAIN addr_list' = AddrSlots
    BY <2>1 DEF DsInv
  <2>3. ASSUME NEW s \in AddrSlots
        PROVE  /\ IsAddr(addr_list'[s])
               /\ addr_list'[s].used /\ addr_list'[s].ip \in Nets => addr_list'[s].ip \notin conflict'
    <3>1. addr_list'[s] = IF s \in AddrSlot(ip) THEN Free ELSE addr_list[s]
      BY <2>1 DEF DsInv
    <3>2. CASE s \in AddrSlot(ip)
      BY <3>1, <3>2 DEF IsAddr, Free
    <3>3. CASE s \notin AddrSlot(ip)
      <4>1. ~(addr_list[s].used /\ addr_list[s].ip = ip)
        BY <3>3 DEF AddrSlot, DsInv
      <4> QED BY <1>1, <3>1, <3>3, <4>1 DEF DsInv
    <3> QED BY <3>2, <3>3
  <2> QED BY <2>2, <2>3 DEF DsInv, IsAddr
<1> QED BY <1>2, <1>3

\* An address is in the list once more, and as if nobody had claimed it.
LEMMA AddrAddInv ==
  ASSUME DsInv, NEW net \in Nets, NEW v \in Int, AddrAdd(net, v)
  PROVE  DsInv'
<1>1. CASE FreeOf(addr_list) = {}
  BY <1>1 DEF AddrAdd, DsInv, IsAddr
<1>2. CASE FreeOf(addr_list) # {}
  <2> DEFINE x == Max(FreeOf(addr_list))
  <2>1. addr_list' = [addr_list EXCEPT ![x] = NewAddr(net, v)] /\ conflict' = conflict \ {net}
    BY <1>2 DEF AddrAdd
  <2>2. NewAddr(net, v) \in AddrRecords /\ NewAddr(net, v).ip = net
    BY DEF NewAddr, AddrRecords
  <2> HIDE DEF x
  <2>3. ASSUME NEW s \in AddrSlots
        PROVE  /\ IsAddr(addr_list'[s])
               /\ addr_list'[s].used /\ addr_list'[s].ip \in Nets => addr_list'[s].ip \notin conflict'
    <3>1. addr_list'[s] = NewAddr(net, v) \/ addr_list'[s] = addr_list[s]
      BY <2>1 DEF DsInv
    <3> QED BY <2>1, <2>2, <3>1 DEF DsInv, IsAddr
  <2>4. DOMAIN addr_list' = AddrSlots
    BY <2>1 DEF DsInv
  <2> QED BY <2>3, <2>4 DEF DsInv, IsAddr
<1> QED BY <1>1, <1>2

LEMMA AutonomousInv ==
  ASSUME DsInv, NEW net \in Nets, NEW v \in Int, Autonomous(net, v)
  PROVE  DsInv'
<1>1. CASE AddrSlot(net) = {}
  BY <1>1, AddrAddInv DEF Autonomous
<1>2. CASE AddrSlot(net) # {}
  <2> DEFINE x == Max(AddrSlot(net))
             w == RenewedLife(addr_list[x].life, v)
  <2>1. addr_list' = [addr_list EXCEPT ![x] = [addr_list[x] EXCEPT !.life = w]] /\ conflict' = conflict
    BY <1>2 DEF Autonomous
  <2>2. x \in AddrSlots /\ addr_list[x].used
    <3>1. AddrNb \in Nat /\ AddrSlot(net) \subseteq 0..AddrNb /\ AddrSlot(net) \subseteq AddrSlots
          /\ \A s \in AddrSlot(net) : addr_list[s].used
      BY DsAssumption DEF AddrSlot, DsInv, AddrSlots
    <3>2. \E y \in AddrSlot(net) : \A z \in AddrSlot(net) : z <= y
      BY <1>2, <3>1, GreatestOf
    <3>3. \E y \in AddrSlot(net) : \A z \in AddrSlot(net) : y >= z
      <4>1. AddrSlot(net) \subseteq Int
        BY <3>1
      <4> QED BY <3>2, <4>1
    <3>4. x \in AddrSlot(net)
      BY <3>3 DEF Max
    <3> QED BY <3>1, <3>4
  <2> HIDE DEF x
  <2>3. addr_list[x] \in AddrRecords
    BY <2>2 DEF DsInv, IsAddr, Free
  <2>4. w \in Int
    BY <2>3, DsAssumption DEF RenewedLife, Infinite, AddrRecords
  <2> HIDE DEF w
  <2>5. SameAddr(addr_list[x], [addr_list[x] EXCEPT !.life = w])
    BY <2>3, <2>4, LifeChanged
  <2>6. ASSUME NEW s \in AddrSlots
        PROVE  /\ IsAddr(addr_list'[s])
               /\ addr_list'[s].used /\ addr_list'[s].ip \in Nets => addr_list'[s].ip \notin conflict'
    <3>1. CASE s = x
      <4>1. SameAddr(addr_list[x], addr_list'[x])
        BY <2>1, <2>2, <2>5 DEF DsInv
      <4> QED BY <2>1, <2>2, <3>1, <4>1 DEF SameAddr, DsInv, IsAddr
    <3>2. CASE s # x
      <4>1. addr_list'[s] = addr_list[s]
        BY <2>1, <3>2 DEF DsInv
      <4> QED BY <2>1, <4>1 DEF DsInv
    <3> QED BY <3>1, <3>2
  <2>7. DOMAIN addr_list' = AddrSlots
    BY <2>1 DEF DsInv
  <2> QED BY <2>6, <2>7 DEF DsInv, IsAddr
<1> QED BY <1>1, <1>2

LEMMA DsPeriodicInv ==
  ASSUME DsInv, DsPeriodic
  PROVE  DsInv'
<1> DEFINE tick(a) == IF a.used THEN [a EXCEPT !.life = Aged(@), !.timer = Aged(@)] ELSE a
           gone == {s \in DOMAIN addr_list : Expired(addr_list[s])}
           pass(s) == IF s \in gone THEN Free
                      ELSE IF DadDue(s) /\ BeforeProbe(s) THEN tick(uip_ds6_dad(addr_list[s]))
                      ELSE tick(addr_list[s])
<1>1. addr_list' = [s \in DOMAIN addr_list |-> pass(s)] /\ conflict' = conflict
  BY Zenon DEF DsPeriodic
<1>2. DOMAIN addr_list' = AddrSlots /\ DOMAIN addr_list = AddrSlots
  BY <1>1 DEF DsInv
<1>3. ASSUME NEW a \in AddrRecords PROVE SameAddr(a, tick(a))
  <2>1. a.used = TRUE
    BY DEF AddrRecords
  <2>2. tick(a) = [a EXCEPT !.life = Aged(@), !.timer = Aged(@)]
    BY <2>1, Zenon
  <2> QED BY <2>2, TickKeeps
<1>4. ASSUME NEW a, a = Free PROVE tick(a) = Free
  BY <1>4 DEF Free
<1> HIDE DEF tick, gone
<1>5. ASSUME NEW s \in AddrSlots
      PROVE  /\ IsAddr(addr_list'[s])
             /\ addr_list'[s].used /\ addr_list'[s].ip \in Nets => addr_list'[s].ip \notin conflict'
  <2> DEFINE a == addr_list[s]
  <2>1. addr_list'[s] = pass(s)
    BY <1>1, <1>2, Zenon
  <2>2. IsAddr(a)
    BY DEF DsInv
  <2>3. CASE a = Free
    <3>1. ~DadDue(s)
      BY <2>3 DEF DadDue, Free
    <3>2. addr_list'[s] = Free
      BY <1>4, <2>1, <2>3, <3>1, Zenon
    <3> QED BY <3>2 DEF IsAddr, Free
  <2>4. CASE a \in AddrRecords
    <3>1. addr_list'[s] = Free \/ addr_list'[s] = tick(uip_ds6_dad(a)) \/ addr_list'[s] = tick(a)
      BY <2>1, Zenon
    <3>2. SameAddr(a, uip_ds6_dad(a)) /\ uip_ds6_dad(a) \in AddrRecords
      BY <2>4, DadKeeps DEF SameAddr
    <3>3. SameAddr(uip_ds6_dad(a), tick(uip_ds6_dad(a))) /\ SameAddr(a, tick(a))
      BY <1>3, <2>4, <3>2, Zenon
    <3>4. addr_list'[s] = Free \/ SameAddr(a, addr_list'[s])
      BY <3>1, <3>2, <3>3, Zenon DEF SameAddr
    <3>5. a.used
      BY <2>4 DEF AddrRecords
    <3>6. a.ip \in Nets => a.ip \notin conflict'
      BY <1>1, <3>5, Zenon DEF DsInv
    <3>7. Free.used = FALSE
      BY DEF Free
    <3> QED BY <3>4, <3>6, <3>7, Zenon DEF SameAddr, IsAddr
  <2> QED BY <2>2, <2>3, <2>4 DEF IsAddr
<1> QED BY <1>2, <1>5 DEF DsInv, IsAddr

LEMMA DsNextInv == DsInv /\ [DsNext]_dsVars => DsInv'
<1> SUFFICES ASSUME DsInv, [DsNext]_dsVars PROVE DsInv'
  OBVIOUS
<1>1. ASSUME UNCHANGED <<addr_list, conflict>> PROVE DsInv'
  BY <1>1 DEF DsInv, IsAddr
<1>2. ASSUME NEW net \in Nets, NEW onlink \in BOOLEAN, NEW auto \in BOOLEAN,
             NEW v \in Validlts \cup {Infinite}, PrefixOption(net, onlink, auto, v)
      PROVE  DsInv'
  <2>1. v \in Int
    BY DsAssumption DEF Infinite
  <2> QED BY <1>1, <1>2, <2>1, AutonomousInv DEF PrefixOption
<1>3. CASE uip_ds6_send_rs
  BY <1>1, <1>3 DEF uip_ds6_send_rs
<1>4. CASE RouterComesOrGoes
  BY <1>1, <1>4 DEF RouterComesOrGoes
<1>5. CASE UNCHANGED dsVars
  BY <1>1, <1>5 DEF dsVars
<1> QED BY <1>2, <1>3, <1>4, <1>5, DuplicateSeenInv, DsPeriodicInv DEF DsNext

\* Nothing leaves from a global address that another node claimed while it was tentative
\* (uip-ds6.c), whatever the order of claims, advertisements and passes, for any number of
\* addresses, prefixes, lifetimes and solicitations.
THEOREM DuplicatesStayUnused == Spec => []NoDuplicateUse
<1>1. Init => DsInv
  BY DsInitInv DEF Init
<1>2. DsInv /\ [Next]_vars => DsInv'
  BY AddressUnit, DsNextInv
<1> QED BY <1>1, <1>2, DsInvNoUse, PTL DEF Spec

-----------------------------------------------------------------------------
(* The sequence numbers of TCP (uip6.c).                                   *)

\* uip_add32 adds sequence numbers modulo the square of the base, for every base:
\* the carry it finds by comparing a digit with what was added to it is the right
\* one, and the overflow of the upper digit is dropped.
THEOREM Add32Adds ==
  ASSUME NEW a \in 0..(Base * Base - 1), NEW n \in 0..(Base * Base - 1)
  PROVE  uip_add32(a, n) = (a + n) % (Base * Base)
<1>1. PICK B \in Nat \ {0}, M \in Nat : B = Base /\ M = Base * Base
  BY Tcp6Assumption
<1>2. PICK ah \in Nat, al \in 0..(B - 1) : ah = a \div B /\ al = a % B /\ a = ah * B + al
  BY <1>1
<1>3. PICK nh \in Nat, nl \in 0..(B - 1) : nh = n \div B /\ nl = n % B /\ n = nh * B + nl
  BY <1>1
<1>4. ah < B /\ nh < B
  <2>1. ASSUME NEW h \in Nat, NEW l \in 0..(B - 1), h * B + l < B * B PROVE h < B
    <3>1. SUFFICES ASSUME h >= B PROVE h * B >= B * B
      BY <2>1
    <3>2. PICK d \in Nat : h = B + d
      BY <3>1
    <3>3. h * B = B * B + d * B /\ d * B >= 0 /\ B * B \in Int /\ d * B \in Int
      BY <3>2
    <3> QED BY <3>3
  <2> QED BY <1>1, <1>2, <1>3, <2>1
<1>5. PICK lo \in 0..(B - 1), cy \in 0..1 :
         /\ lo = (al + nl) % B /\ cy = IF lo < nl THEN 1 ELSE 0
         /\ al + nl = cy * B + lo
  <2>1. CASE al + nl < B
    BY <2>1
  <2>2. CASE al + nl >= B
    <3>1. PICK s \in Nat, r \in 0..(B - 1) : s = al + nl /\ r = al + nl - B /\ s = 1 * B + r
      BY <2>2
    <3>2. s % B = r
      <4>1. s = 1 * B + r /\ 1 \in Nat /\ B \in Nat \ {0}
        BY <1>1, <3>1
      <4> QED BY <4>1, QuotientIs
    <3>3. (al + nl) % B = r /\ r < nl /\ al + nl = 1 * B + r
      BY <3>1, <3>2
    <3> QED BY <3>3
  <2> QED BY <2>1, <2>2
<1>6. PICK hs \in Nat : hs = ah + nh + cy /\ hs < 2 * B
  BY <1>4
<1>7. uip_add32(a, n) = (hs % B) * B + lo
  BY <1>1, <1>2, <1>3, <1>5, <1>6, Zenon DEF uip_add32
<1>8. a + n = hs * B + lo
  BY <1>2, <1>3, <1>5, <1>6
<1>9. M = B * B
  BY <1>1
<1>10. CASE hs < B
  <2>1. hs % B = hs
    BY <1>10
  <2>2. a + n \in 0..(M - 1)
    <3>1. PICK d \in Nat : B = hs + 1 + d
      BY <1>10
    <3>2. B * B = hs * B + B + d * B /\ d * B \in Nat /\ hs * B \in Nat
      BY <3>1
    <3> QED BY <1>8, <1>9, <3>2
  <2>3. (a + n) % M = a + n
    BY <2>2
  <2> QED BY <1>1, <1>7, <1>8, <2>1, <2>3
<1>11. CASE hs >= B
  <2>1. PICK d \in 0..(B - 1) : hs = 1 * B + d
    BY <1>6, <1>11
  <2>2. hs % B = d
    BY <2>1, QuotientIs
  <2>3. d * B + lo \in 0..(M - 1)
    <3>1. PICK e \in Nat : B = d + 1 + e
      OBVIOUS
    <3>2. B * B = d * B + B + e * B /\ e * B \in Nat /\ d * B \in Nat
      BY <3>1
    <3> QED BY <1>9, <3>2
  <2>4. a + n = 1 * M + (d * B + lo)
    <3>1. hs * B = B * B + d * B
      BY <2>1
    <3> QED BY <1>8, <1>9, <3>1
  <2>5. M \in Nat \ {0}
    BY <2>3
  <2>6. PICK r \in 0..(M - 1) : r = d * B + lo
    BY <2>3
  <2>7. (a + n) % M = r
    <3>1. PICK s \in Nat : s = a + n /\ s = 1 * M + r
      BY <2>4, <2>5, <2>6
    <3>2. s % M = r
      BY <3>1, <2>5, 1 \in Nat, QuotientIs
    <3> QED BY <3>1, <3>2
  <2> QED BY <1>1, <1>7, <2>2, <2>6, <2>7
<1> QED BY <1>10, <1>11

-----------------------------------------------------------------------------
(* A TCP connection (uip_process of uip6.c).  Segments carry their bytes   *)
(* where the sequence number says, and both sides count them alike.        *)

\* The place k after the initial sequence number of either side: 0 is the SYN, the n-th byte
\* is at n, and the FIN follows the last one.
SeqAll == Base * Base
OurAt(k) == (Iss + k) % SeqAll
TheirAt(k) == (PeerIss + k) % SeqAll

LEMMA SeqConsts ==
    /\ {Mss, MaxApp, MaxPeer} \subseteq Nat \ {0} /\ SeqAll \in Nat \ {0}
    /\ MaxApp + 2 < SeqAll /\ MaxPeer + 2 < SeqAll /\ Mss + 2 < SeqAll + 1
    /\ Iss \in 0..(SeqAll - 1) /\ PeerIss \in 0..(SeqAll - 1)
<1>1. PICK B \in Nat \ {0} : B = Base /\ B >= 2 /\ Mss < B
  BY Tcp6Assumption
<1>2. PICK M \in Nat : M = SeqAll /\ M = B * B
  BY <1>1 DEF SeqAll
<1>3. M >= 2 * B
  <2>1. PICK e \in Nat : B = 2 + e
    BY <1>1
  <2>2. B * B = 2 * B + e * B /\ e * B \in Nat
    BY <2>1
  <2> QED BY <1>2, <2>2
<1>4. {Mss, MaxApp, MaxPeer} \subseteq Nat \ {0} /\ MaxApp + 2 < M /\ MaxPeer + 2 < M
  BY <1>1, <1>2, Tcp6Assumption
<1>5. Iss = B - 1 /\ PeerIss = M - 2
  BY <1>1, <1>2 DEF Iss, PeerIss
<1> QED BY <1>1, <1>2, <1>3, <1>4, <1>5

OnceRound(M, x) == x % M = IF x < M THEN x ELSE x - M
LEMMA ModOnce ==
  ASSUME NEW M \in Nat \ {0}, NEW x \in 0..(2 * M - 1)
  PROVE  OnceRound(M, x)
<1>1. CASE x < M
  BY <1>1 DEF OnceRound
<1>2. CASE ~(x < M)
  <2>1. PICK r \in 0..(M - 1) : r = x - M /\ x = 1 * M + r
    BY <1>2
  <2>2. x % M = r
    <3>1. x = 1 * M + r /\ 1 \in Nat /\ M \in Nat \ {0} /\ r \in 0..(M - 1)
      BY <2>1
    <3> QED BY <3>1, QuotientIs
  <2> QED BY <1>2, <2>1, <2>2 DEF OnceRound
<1> QED BY <1>1, <1>2

\* A place from c on, for the sequence numbers of one side.
PlaceFits(c, k) ==
    /\ (c + k) % SeqAll \in 0..(SeqAll - 1)
    /\ \A j \in 0..(SeqAll - 1) : (c + k) % SeqAll = (c + j) % SeqAll => k = j
    /\ \A j \in 0..(SeqAll - 1) : k + j < SeqAll => uip_add32((c + k) % SeqAll, j) = (c + (k + j)) % SeqAll

LEMMA PlaceIs ==
  ASSUME NEW c \in 0..(SeqAll - 1), NEW k \in 0..(SeqAll - 1)
  PROVE  PlaceFits(c, k)
<1>1. PICK M \in Nat \ {0} : M = SeqAll
  BY SeqConsts
<1>2. ASSUME NEW j \in 0..(M - 1) PROVE (c + j) % M = IF c + j < M THEN c + j ELSE (c + j) - M
  <2>1. c + j \in 0..(2 * M - 1)
    BY <1>1
  <2>2. OnceRound(M, c + j)
    BY <2>1, ModOnce, Zenon
  <2> QED BY <2>2, Zenon DEF OnceRound
<1>3. PICK p \in 0..(M - 1) : p = (c + k) % M /\ p = IF c + k < M THEN c + k ELSE c + k - M
  BY <1>1, <1>2
<1>4. ASSUME NEW j \in 0..(M - 1), p = (c + j) % M PROVE k = j
  BY <1>1, <1>2, <1>3, <1>4
<1>5. ASSUME NEW j \in 0..(M - 1), k + j < M PROVE uip_add32(p, j) = (c + (k + j)) % M
  <2>1. uip_add32(p, j) = (p + j) % M
    BY <1>1, Add32Adds DEF SeqAll
  <2>2. PICK x \in 0..(2 * M - 1) : x = p + j
    OBVIOUS
  <2>3. x % M = IF x < M THEN x ELSE x - M
    BY ModOnce DEF OnceRound
  <2>4. PICK y \in 0..(M - 1) : y = k + j
    BY <1>1, <1>5
  <2>5. (c + y) % M = IF c + y < M THEN c + y ELSE (c + y) - M
    BY <1>2
  <2>6. x % M = (c + y) % M
    BY <1>1, <1>3, <2>2, <2>3, <2>4, <2>5
  <2> QED BY <2>1, <2>2, <2>4, <2>6, Zenon
<1> QED BY <1>1, <1>3, <1>4, <1>5, Zenon DEF PlaceFits

LEMMA OursAt ==
  ASSUME NEW k \in 0..(SeqAll - 1)
  PROVE  /\ OurAt(k) \in Int /\ \A j \in 0..(SeqAll - 1) : OurAt(k) = OurAt(j) => k = j
         /\ \A j \in 0..(SeqAll - 1) : k + j < SeqAll => uip_add32(OurAt(k), j) = OurAt(k + j)
<1>1. PlaceFits(Iss, k)
  BY SeqConsts, PlaceIs
<1>2. \A x \in 0..(SeqAll - 1) : x \in Int
  BY SeqConsts
<1> QED BY <1>1, <1>2, Zenon DEF PlaceFits, OurAt

LEMMA TheirsAt ==
  ASSUME NEW k \in 0..(SeqAll - 1)
  PROVE  /\ TheirAt(k) \in Int /\ \A j \in 0..(SeqAll - 1) : TheirAt(k) = TheirAt(j) => k = j
         /\ \A j \in 0..(SeqAll - 1) : k + j < SeqAll => uip_add32(TheirAt(k), j) = TheirAt(k + j)
<1>1. PlaceFits(PeerIss, k)
  BY SeqConsts, PlaceIs
<1>2. \A x \in 0..(SeqAll - 1) : x \in Int
  BY SeqConsts
<1> QED BY <1>1, <1>2, Zenon DEF PlaceFits, TheirAt

LEMMA FirstAt == OurAt(0) = Iss /\ TheirAt(0) = PeerIss
<1>1. PICK M \in Nat \ {0} : M = SeqAll /\ Iss \in 0..(M - 1) /\ PeerIss \in 0..(M - 1)
  BY SeqConsts
<1> QED BY <1>1 DEF OurAt, TheirAt

LEMMA PeerSeqIs ==
  ASSUME NEW n \in Nat, n + 1 < SeqAll
  PROVE  PeerSeq(n) = TheirAt(n + 1)
<1>1. 0 \in 0..(SeqAll - 1) /\ 1 + n \in 0..(SeqAll - 1) /\ 0 + (1 + n) = n + 1 /\ n + 1 < SeqAll
  BY SeqConsts
<1>2. uip_add32(TheirAt(0), 1 + n) = TheirAt(n + 1)
  BY <1>1, TheirsAt
<1> QED BY <1>2, FirstAt, Zenon DEF PeerSeq

LEMMA Add32Int ==
  ASSUME NEW a \in Int, NEW n \in Int
  PROVE  uip_add32(a, n) \in Int
<1>1. PICK B \in Nat \ {0} : B = Base
  BY Tcp6Assumption
<1>2. PICK ah \in Int, al \in Int, nh \in Int, nl \in Int : ah = a \div B /\ al = a % B /\ nh = n \div B /\ nl = n % B
  OBVIOUS
<1>3. PICK lo \in Int, cy \in 0..1 : lo = (al + nl) % B /\ cy = IF lo < nl THEN 1 ELSE 0
  OBVIOUS
<1>4. uip_add32(a, n) = ((ah + nh + cy) % B) * B + lo
  BY <1>1, <1>2, <1>3, Zenon DEF uip_add32
<1>5. PICK u \in Int : u = (ah + nh + cy) % B
  OBVIOUS
<1> QED BY <1>4, <1>5

-----------------------------------------------------------------------------
LEMMA BytesAre ==
  ASSUME NEW a \in Nat, NEW n \in Nat
  PROVE  /\ Bytes(a, n) \in Seq(Nat) /\ Len(Bytes(a, n)) = n
         /\ \A i \in 1..n : Bytes(a, n)[i] = a + i
         /\ n = 0 => Bytes(a, n) = <<>>
  BY DEF Bytes

LEMMA SameBytes ==
  ASSUME NEW q \in Seq(Nat), NEW a \in Nat, NEW n \in Nat, Len(q) = n, \A i \in 1..n : q[i] = a + i
  PROVE  q = Bytes(a, n)
<1>1. PICK b : b = Bytes(a, n)
  OBVIOUS
<1>2. b \in Seq(Nat) /\ Len(b) = n /\ \A i \in 1..n : b[i] = a + i
  BY <1>1, BytesAre
<1>3. q = b
  BY <1>2, SeqEqual
<1> QED BY <1>1, <1>3

LEMMA BytesJoin ==
  ASSUME NEW a \in Nat, NEW m \in Nat, NEW n \in Nat
  PROVE  Bytes(a, m) \o Bytes(a + m, n) = Bytes(a, m + n)
<1>1. PICK p, q, r : p = Bytes(a, m) /\ q = Bytes(a + m, n) /\ r = p \o q
  OBVIOUS
<1>2. /\ p \in Seq(Nat) /\ Len(p) = m /\ (\A i \in 1..m : p[i] = a + i)
      /\ q \in Seq(Nat) /\ Len(q) = n /\ (\A i \in 1..n : q[i] = a + m + i)
  <2>1. a + m \in Nat
    OBVIOUS
  <2> QED BY <1>1, <2>1, BytesAre, Zenon
<1>3. r \in Seq(Nat) /\ Len(r) = Len(p) + Len(q)
      /\ \A i \in 1..(Len(p) + Len(q)) : r[i] = IF i <= Len(p) THEN p[i] ELSE q[i - Len(p)]
  <2>1. p \in Seq(Nat) /\ q \in Seq(Nat)
    BY <1>2
  <2>2. /\ p \o q \in Seq(Nat) /\ Len(p \o q) = Len(p) + Len(q)
        /\ \A i \in 1..(Len(p) + Len(q)) : (p \o q)[i] = IF i <= Len(p) THEN p[i] ELSE q[i - Len(p)]
    BY <2>1, ConcatProperties, Zenon
  <2> QED BY <1>1, <2>2, Zenon
<1>4. r \in Seq(Nat) /\ Len(r) = m + n /\ \A i \in 1..(m + n) : r[i] = IF i <= m THEN p[i] ELSE q[i - m]
  BY <1>2, <1>3, Zenon
<1>5. ASSUME NEW i \in 1..(m + n) PROVE r[i] = a + i
  <2>1. CASE i <= m
    <3>1. i \in 1..m
      BY <2>1
    <3> QED BY <1>2, <1>4, <2>1, <3>1
  <2>2. CASE ~(i <= m)
    <3>1. i - m \in 1..n /\ a + m + (i - m) = a + i
      BY <2>2
    <3> QED BY <1>2, <1>4, <2>2, <3>1
  <2> QED BY <2>1, <2>2
<1>6. m + n \in Nat
  OBVIOUS
<1>7. r = Bytes(a, m + n)
  BY <1>4, <1>5, <1>6, SameBytes
<1> QED BY <1>1, <1>7

\* n bytes from the k-th of them on.
PartIs(a, m, k, n) ==
    /\ SubSeq(SubSeq(Bytes(a, m), k + 1, m), 1, n) = Bytes(a + k, n)
    /\ Len(SubSeq(Bytes(a, m), k + 1, m)) = m - k
LEMMA BytesPart ==
  ASSUME NEW a \in Nat, NEW m \in Nat, NEW k \in 0..m, NEW n \in 0..(m - k)
  PROVE  PartIs(a, m, k, n)
<1>1. PICK p, q, r : p = Bytes(a, m) /\ q = SubSeq(p, k + 1, m) /\ r = SubSeq(q, 1, n)
  OBVIOUS
<1>2. p \in Seq(Nat) /\ Len(p) = m /\ \A i \in 1..m : p[i] = a + i
  BY <1>1, BytesAre
<1>3. q \in Seq(Nat) /\ Len(q) = m - k /\ \A i \in 1..(m - k) : q[i] = a + k + i
  BY <1>1, <1>2
<1>4. r \in Seq(Nat) /\ Len(r) = n /\ \A i \in 1..n : r[i] = a + k + i
  <2>1. PICK l \in Nat : l = m - k /\ n \in 0..l
    OBVIOUS
  <2>2. q \in Seq(Nat) /\ Len(q) = l /\ \A i \in 1..l : q[i] = a + k + i
    BY <1>3, <2>1
  <2>3. /\ 1 \in Int /\ n \in Int /\ (\A i \in 1..n : i \in 1..Len(q) /\ 1 + i - 1 = i)
        /\ n - 1 + 1 = n /\ (IF 1 <= n THEN n - 1 + 1 ELSE 0) = n
    BY <2>1, <2>2
  <2>4. r \in Seq(Nat)
    BY <1>1, <2>2, <2>3, SubSeqProperties, ElementOfSeq
  <2>5. Len(r) = (IF 1 <= n THEN n - 1 + 1 ELSE 0) /\ \A i \in 1..(n - 1 + 1) : r[i] = q[1 + i - 1]
    BY <1>1, <2>2, <2>3, SubSeqProperties, ElementOfSeq
  <2>6. \A i \in 1..n : r[i] = q[i]
    BY <2>3, <2>5
  <2> QED BY <2>1, <2>2, <2>3, <2>4, <2>5, <2>6
<1>5. a + k \in Nat /\ n \in Nat
  OBVIOUS
<1>6. r = Bytes(a + k, n)
  BY <1>4, <1>5, SameBytes
<1> QED BY <1>1, <1>3, <1>6 DEF PartIs

LEMMA BytesPrefix ==
  ASSUME NEW m \in Nat, NEW n \in Nat, m <= n
  PROVE  IsPrefix(Bytes(0, m), Bytes(0, n))
<1>1. PICK p, q : p = Bytes(0, m) /\ q = Bytes(0, n)
  OBVIOUS
<1>2. /\ p \in Seq(Nat) /\ Len(p) = m /\ \A i \in 1..m : p[i] = 0 + i
      /\ q \in Seq(Nat) /\ Len(q) = n /\ \A i \in 1..n : q[i] = 0 + i
  BY <1>1, BytesAre
<1> QED BY <1>1, <1>2 DEF IsPrefix

-----------------------------------------------------------------------------
Flags == {"SYN", "ACK", "FIN", "RST"}
Segments == [flags : SUBSET Flags, seq : Int, ack : Int, data : Seq(Nat), wnd : Nat]
AfterClose == {"LAST_ACK", "FIN_WAIT_1", "FIN_WAIT_2", "CLOSING", "TIME_WAIT"}
ConnStates == {"CLOSED", "SYN_SENT", "SYN_RCVD", "ESTABLISHED"} \cup AfterClose
TcpRecords == [st : ConnStates, rcv_nxt : Int, snd_nxt : Int, len : Nat, tmr : Int, nrtx : Int,
                stopped : BOOLEAN, mss : 1..Mss, listening : BOOLEAN]
PeerRecords == [st : {"idle", "syn", "answered", "est", "dead"}, rcv : Int, una : Nat, sent : 0..MaxPeer,
                fin : BOOLEAN, eof : BOOLEAN, got : Seq(Nat)]

\* The client gives no more, the peer p has seen a SYN of ours, and how far p has got.
EndedBy(c) == ~c.listening /\ c.st \in {"CLOSED"} \cup AfterClose
Met(p) == p.st \notin {"idle", "syn"}
Reach(p) == Len(p.got) + IF p.eof THEN 1 ELSE 0

IsBytes(q) == q \in Seq(Nat) /\ q = Bytes(0, Len(q))

\* The connection c, where gv bytes were given, ac acknowledged and gt received.
ConnFits(c, gv, ac, gt, p) ==
    /\ c \in TcpRecords /\ gv \in 0..MaxApp /\ ac \in 0..gv
    /\ IsBytes(gt) /\ Len(gt) <= p.sent
    /\ c.listening => c.st = "CLOSED"
    /\ c.listening \/ c.st \in {"SYN_SENT", "SYN_RCVD"} => c.snd_nxt = OurAt(0) /\ gv = 0 /\ gt = <<>>
    /\ c.st \in {"SYN_SENT", "SYN_RCVD"} => c.len = 1
    /\ c.st = "SYN_RCVD" => c.rcv_nxt = TheirAt(1)
    /\ c.st = "ESTABLISHED" => /\ c.snd_nxt = OurAt(ac + 1) /\ ac + c.len = gv
                               /\ c.rcv_nxt = TheirAt(Len(gt) + 1)
    /\ c.st \in {"LAST_ACK", "FIN_WAIT_1", "CLOSING"} => c.snd_nxt = OurAt(gv + 1)
    /\ c.st = "LAST_ACK" => p.fin /\ Len(gt) = p.sent
    /\ c.st \in {"ESTABLISHED"} \cup AfterClose => Met(p)

PeerFits(p, c, gv) ==
    /\ p \in PeerRecords /\ p.una <= p.sent
    /\ IsBytes(p.got) /\ Len(p.got) <= gv
    /\ p.st \in {"idle", "syn", "answered"} => p.got = <<>> /\ p.sent = 0 /\ ~p.fin /\ ~p.eof
    /\ p.st \in {"answered", "est"} => p.rcv = OurAt(Reach(p) + 1)
    /\ p.eof => EndedBy(c) /\ Len(p.got) = gv

\* A segment to us says where its bytes belong, acknowledges what the peer has at most, and
\* has the FIN behind the last byte.
InFits(s, p) ==
    /\ s \in Segments
    /\ "SYN" \in s.flags => s.seq = TheirAt(0) /\ s.data = <<>>
    /\ "ACK" \in s.flags => Met(p) /\ \E k \in 0..Reach(p) : s.ack = OurAt(k + 1)
    /\ s.data # <<>> \/ "FIN" \in s.flags =>
         \E f \in 0..p.sent : /\ s.seq = TheirAt(f + 1) /\ s.data = Bytes(f, Len(s.data))
                              /\ f + Len(s.data) <= p.sent
                              /\ "FIN" \in s.flags => p.fin /\ f + Len(s.data) = p.sent

\* So does one of ours; a SYNACK that repeats another number is sent when the peer has met us.
OutFits(s, c, gv, p) ==
    /\ s \in Segments
    /\ s.data # <<>> => \E f \in 0..gv : /\ s.seq = OurAt(f + 1) /\ s.data = Bytes(f, Len(s.data))
                                         /\ f + Len(s.data) <= gv
    /\ "FIN" \in s.flags => s.seq = OurAt(gv + 1) /\ EndedBy(c) /\ s.data = <<>>
    /\ s.flags = {"SYN"} => s.seq = OurAt(0)
    /\ s.flags = {"SYN", "ACK"} => s.seq = OurAt(0) \/ Met(p)

TcpInv ==
    /\ ConnFits(conn, given, acked, got, peer)
    /\ PeerFits(peer, conn, given)
    /\ acked <= Len(peer.got)
    /\ \A s \in toUs : InFits(s, peer)
    /\ \A s \in toPeer : OutFits(s, conn, given, peer)

LEMMA TcpInvTold == TcpInv => ToldIsTrue
  BY DEF TcpInv, ToldIsTrue, AckedIsThere, ClosedIsComplete, ConnFits

\* What a step of ours, or one of the peer, may do without a segment on its way losing its sense.
Onward(c, gv, d, hv) == gv <= hv /\ (EndedBy(c) => EndedBy(d) /\ hv = gv)
Grows(p, q) ==
    /\ Met(p) => Met(q)
    /\ p.sent <= q.sent /\ (p.fin => q.fin /\ q.sent = p.sent)
    /\ Len(p.got) <= Len(q.got) /\ Reach(p) <= Reach(q)

LEMMA PeerCounts ==
  ASSUME NEW p \in PeerRecords
  PROVE  p.sent \in Nat /\ p.sent <= MaxPeer /\ Len(p.got) \in Nat /\ Reach(p) \in Nat
<1>1. PICK mx \in Nat : mx = MaxPeer
  BY SeqConsts
<1>2. p.sent \in 0..mx /\ p.got \in Seq(Nat) /\ p.eof \in BOOLEAN
  BY <1>1 DEF PeerRecords
<1>3. p.sent \in Nat /\ p.sent <= mx /\ Len(p.got) \in Nat
  BY <1>2
<1>4. PICK e \in Nat, l \in Nat : e = (IF p.eof THEN 1 ELSE 0) /\ l = Len(p.got)
  BY <1>3
<1>5. Reach(p) = l + e
  BY <1>4, Zenon DEF Reach
<1>6. l + e \in Nat
  OBVIOUS
<1> QED BY <1>1, <1>3, <1>5, <1>6, Zenon

LEMMA OutStays ==
  ASSUME NEW s, NEW c, NEW gv \in Nat, NEW d, NEW hv \in Nat, NEW p, NEW q,
         OutFits(s, c, gv, p), Onward(c, gv, d, hv), Met(p) => Met(q)
  PROVE  OutFits(s, d, hv, q)
<1>1. s.data # <<>> => \E f \in 0..hv : /\ s.seq = OurAt(f + 1) /\ s.data = Bytes(f, Len(s.data))
                                        /\ f + Len(s.data) <= hv
  <2> SUFFICES ASSUME s.data # <<>> PROVE \E f \in 0..hv : /\ s.seq = OurAt(f + 1) /\ s.data = Bytes(f, Len(s.data))
                                                           /\ f + Len(s.data) <= hv
    OBVIOUS
  <2>1. PICK f \in 0..gv : s.seq = OurAt(f + 1) /\ s.data = Bytes(f, Len(s.data)) /\ f + Len(s.data) <= gv
    BY DEF OutFits
  <2>2. PICK l \in Nat : l = Len(s.data)
    BY DEF OutFits, Segments
  <2>3. f \in 0..hv /\ f + Len(s.data) <= hv
    BY <2>1, <2>2 DEF Onward
  <2> QED BY <2>1, <2>3
<1> QED BY <1>1, Zenon DEF OutFits, Onward

LEMMA InStays ==
  ASSUME NEW s, NEW p \in PeerRecords, NEW q \in PeerRecords, InFits(s, p), Grows(p, q)
  PROVE  InFits(s, q)
<1>1. s.data # <<>> \/ "FIN" \in s.flags =>
        \E f \in 0..q.sent : /\ s.seq = TheirAt(f + 1) /\ s.data = Bytes(f, Len(s.data))
                             /\ f + Len(s.data) <= q.sent
                             /\ "FIN" \in s.flags => q.fin /\ f + Len(s.data) = q.sent
  <2> SUFFICES ASSUME s.data # <<>> \/ "FIN" \in s.flags
      PROVE \E f \in 0..q.sent : /\ s.seq = TheirAt(f + 1) /\ s.data = Bytes(f, Len(s.data))
                                 /\ f + Len(s.data) <= q.sent
                                 /\ "FIN" \in s.flags => q.fin /\ f + Len(s.data) = q.sent
    OBVIOUS
  <2>1. PICK f \in 0..p.sent : /\ s.seq = TheirAt(f + 1) /\ s.data = Bytes(f, Len(s.data))
                               /\ f + Len(s.data) <= p.sent
                               /\ "FIN" \in s.flags => p.fin /\ f + Len(s.data) = p.sent
    BY DEF InFits
  <2>2. PICK l \in Nat : l = Len(s.data)
    BY DEF InFits, Segments
  <2>3. PICK n \in Nat, m \in Nat : n = p.sent /\ m = q.sent /\ n <= m
    BY PeerCounts DEF Grows
  <2>4. f \in 0..q.sent /\ f + Len(s.data) <= q.sent
    BY <2>1, <2>2, <2>3
  <2>5. "FIN" \in s.flags => q.fin /\ f + Len(s.data) = q.sent
    BY <2>1, Zenon DEF Grows
  <2> QED BY <2>1, <2>4, <2>5
<1>2. "ACK" \in s.flags => \E k \in 0..Reach(q) : s.ack = OurAt(k + 1)
  <2> SUFFICES ASSUME "ACK" \in s.flags PROVE \E k \in 0..Reach(q) : s.ack = OurAt(k + 1)
    OBVIOUS
  <2>1. PICK k \in 0..Reach(p) : s.ack = OurAt(k + 1)
    BY DEF InFits
  <2>2. PICK n \in Nat, m \in Nat : n = Reach(p) /\ m = Reach(q) /\ n <= m
    BY PeerCounts DEF Grows
  <2>3. k \in 0..Reach(q)
    BY <2>2
  <2> QED BY <2>1, <2>3
<1> QED BY <1>1, <1>2, Zenon DEF InFits, Grows

\* What a step keeps; it takes nothing back.
KeepsTcp == TcpInv' /\ given <= given' /\ peer.sent <= peer'.sent /\ Len(peer.got) <= Len(peer'.got)

\* A step of ours.
SentFits(d, hv, p) == \A s \in toPeer' : s \in toPeer \/ OutFits(s, d, hv, p)
LEMMA OursInv ==
  ASSUME TcpInv, NEW c, NEW gv, NEW p, NEW d, NEW hv, NEW ac, NEW gt,
         c = conn, gv = given, p = peer, peer' = peer, toUs' \subseteq toUs,
         d = conn', hv = given', ac = acked', gt = got',
         ConnFits(d, hv, ac, gt, p), Onward(c, gv, d, hv), ac <= Len(p.got), SentFits(d, hv, p)
  PROVE  KeepsTcp
<1>1. ConnFits(conn, given, acked, got, peer)'
  BY Zenon
<1>2. gv \in Nat /\ hv \in Nat
  BY DEF TcpInv, ConnFits
<1>3. PeerFits(peer, conn, given)'
  <2>1. PeerFits(p, c, gv)
    BY DEF TcpInv
  <2>2. PICK l \in Nat : l = Len(p.got)
    BY <2>1 DEF PeerFits, IsBytes
  <2>3. PeerFits(p, d, hv)
    BY <1>2, <2>1, <2>2 DEF PeerFits, Onward
  <2> QED BY <2>3, Zenon
<1>4. ASSUME NEW s \in toUs' PROVE InFits(s, peer)'
  <2>1. InFits(s, p) /\ p = peer'
    BY <1>4 DEF TcpInv
  <2> QED BY <2>1, Zenon
<1>5. ASSUME NEW s \in toPeer' PROVE OutFits(s, conn, given, peer)'
  <2>1. s \in toPeer => OutFits(s, c, gv, p)
    BY DEF TcpInv
  <2>2. s \in toPeer => OutFits(s, d, hv, p)
    BY <1>2, <2>1, OutStays
  <2>3. OutFits(s, d, hv, p)
    BY <2>2 DEF SentFits
  <2> QED BY <2>3, Zenon
<1>6. acked' <= Len(peer.got)'
  OBVIOUS
<1>7. gv <= hv /\ p.sent <= p.sent /\ Len(p.got) <= Len(p.got)
  <2>1. p \in PeerRecords
    BY DEF TcpInv, PeerFits
  <2>2. PICK a \in Nat, b \in Nat : a = p.sent /\ b = Len(p.got)
    BY <2>1, PeerCounts
  <2>3. a <= a /\ b <= b
    OBVIOUS
  <2> QED BY <2>2, <2>3 DEF Onward
<1>8. given <= given' /\ peer.sent <= peer'.sent /\ Len(peer.got) <= Len(peer'.got)
  BY <1>7, Zenon
<1> QED BY <1>1, <1>3, <1>4, <1>5, <1>6, <1>8, Zenon DEF TcpInv, KeepsTcp

\* A step of the peer.
Posts(q) == \A s \in toUs' : s \in toUs \/ InFits(s, q)
LEMMA PeersInv ==
  ASSUME TcpInv, Ours, toPeer' \subseteq toPeer,
         PeerFits(peer', conn, given), Grows(peer, peer'), Posts(peer')
  PROVE  KeepsTcp
<1>1. PICK c, gv, gt, ac, p, q : c = conn /\ gv = given /\ gt = got /\ ac = acked /\ p = peer /\ q = peer'
  OBVIOUS
<1>2. /\ c = conn' /\ gv = given' /\ gt = got' /\ ac = acked'
      /\ gv \in Nat /\ p \in PeerRecords /\ q \in PeerRecords /\ Grows(p, q)
  BY <1>1 DEF Ours, TcpInv, ConnFits, PeerFits
<1>3. ConnFits(conn, given, acked, got, peer)'
  <2>1. ConnFits(c, gv, ac, gt, p)
    BY <1>1 DEF TcpInv
  <2>2. PICK n \in Nat, m \in Nat, l \in Nat : n = p.sent /\ m = q.sent /\ l = Len(gt)
    BY <1>2, <2>1, PeerCounts DEF ConnFits, IsBytes
  <2>3. ConnFits(c, gv, ac, gt, q)
    BY <1>2, <2>1, <2>2 DEF ConnFits, Grows
  <2> QED BY <1>1, <1>2, <2>3, Zenon
<1>4. PeerFits(peer, conn, given)'
  BY <1>1, <1>2, Zenon
<1>5. acked' <= Len(peer.got)'
  <2>1. ac <= Len(p.got) /\ Len(p.got) <= Len(q.got)
    BY <1>1, <1>2 DEF TcpInv, Grows
  <2>2. PICK n \in Nat, m \in Nat, l \in Nat : n = Len(p.got) /\ m = Len(q.got) /\ l = ac
    BY <1>1, <1>2 DEF PeerRecords, TcpInv, ConnFits
  <2> QED BY <1>1, <1>2, <2>1, <2>2
<1>6. ASSUME NEW s \in toUs' PROVE InFits(s, peer)'
  <2>1. s \in toUs => InFits(s, p)
    BY <1>1 DEF TcpInv
  <2>2. InFits(s, q)
    BY <1>1, <1>2, <2>1, InStays DEF Posts
  <2> QED BY <1>1, <2>2, Zenon
<1>7. ASSUME NEW s \in toPeer' PROVE OutFits(s, conn, given, peer)'
  <2>1. OutFits(s, c, gv, p)
    BY <1>1 DEF TcpInv
  <2>2. Onward(c, gv, c, gv) /\ (Met(p) => Met(q))
    BY <1>2 DEF Onward, Grows
  <2>3. OutFits(s, c, gv, q)
    BY <1>2, <2>1, <2>2, OutStays
  <2> QED BY <1>1, <1>2, <2>3, Zenon
<1>8. given <= given' /\ peer.sent <= peer'.sent /\ Len(peer.got) <= Len(peer'.got)
  <2>1. gv <= gv
    BY <1>2
  <2> QED BY <1>1, <1>2, <2>1, Zenon DEF Grows
<1> QED BY <1>3, <1>4, <1>5, <1>6, <1>7, <1>8, Zenon DEF TcpInv, KeepsTcp

LEMMA EmptyOutFits ==
  ASSUME NEW fl \in SUBSET Flags, NEW sq \in Int, NEW ak \in Int, NEW wd \in Nat, NEW c, NEW gv, NEW p,
         "FIN" \notin fl, fl # {"SYN"}, fl = {"SYN", "ACK"} => sq = OurAt(0) \/ Met(p)
  PROVE  OutFits(Seg(fl, sq, ak, <<>>, wd), c, gv, p)
  BY DEF OutFits, Seg, Segments

LEMMA FinOutFits ==
  ASSUME NEW sq \in Int, NEW ak \in Int, NEW wd \in Nat, NEW c, NEW gv, NEW p,
         sq = OurAt(gv + 1), EndedBy(c)
  PROVE  OutFits(Seg({"FIN", "ACK"}, sq, ak, <<>>, wd), c, gv, p)
  BY DEF OutFits, Seg, Segments, Flags

LEMMA SynOutFits ==
  ASSUME NEW sq \in Int, NEW ak \in Int, NEW wd \in Nat, NEW c, NEW gv, NEW p, sq = OurAt(0)
  PROVE  OutFits(Seg({"SYN"}, sq, ak, <<>>, wd), c, gv, p)
  BY DEF OutFits, Seg, Segments, Flags

LEMMA DataOutFits ==
  ASSUME NEW sq \in Int, NEW ak \in Int, NEW wd \in Nat, NEW c, NEW gv \in Nat, NEW p,
         NEW f \in Nat, NEW n \in Nat, f + n <= gv, sq = OurAt(f + 1)
  PROVE  OutFits(Seg({"ACK"}, sq, ak, Bytes(f, n), wd), c, gv, p)
<1>1. PICK s : s = Seg({"ACK"}, sq, ak, Bytes(f, n), wd)
  OBVIOUS
<1>2. PICK b : b = Bytes(f, n)
  OBVIOUS
<1>3. b \in Seq(Nat) /\ Len(b) = n
  BY <1>2, BytesAre
<1>4. s \in Segments /\ s.flags = {"ACK"} /\ s.seq = sq /\ s.data = b
  BY <1>1, <1>2, <1>3 DEF Seg, Segments, Flags
<1>5. f \in 0..gv /\ s.seq = OurAt(f + 1) /\ s.data = Bytes(f, Len(s.data)) /\ f + Len(s.data) <= gv
  BY <1>2, <1>3, <1>4
<1>6. "FIN" \notin s.flags /\ s.flags # {"SYN"} /\ s.flags # {"SYN", "ACK"}
  BY <1>4
<1> QED BY <1>1, <1>4, <1>5, <1>6 DEF OutFits

Window(c) == IF c.stopped THEN 0 ELSE Mss
LEMMA OutIs ==
  ASSUME NEW c \in TcpRecords, NEW fl, NEW b
  PROVE  /\ Out(c, fl, b) = Seg(fl, c.snd_nxt, c.rcv_nxt, b, Window(c))
         /\ c.snd_nxt \in Int /\ c.rcv_nxt \in Int /\ Window(c) \in Nat
<1>1. Mss \in Nat
  BY SeqConsts
<1> QED BY <1>1 DEF Out, Window, TcpRecords

LEMMA OneSent ==
  ASSUME NEW m, NEW d, NEW hv, NEW p, toPeer' = InFlight(toPeer, m), OutFits(m, d, hv, p)
  PROVE  SentFits(d, hv, p)
  BY DEF SentFits, InFlight

LEMMA NoneSent ==
  ASSUME NEW d, NEW hv, NEW p, Quiet
  PROVE  SentFits(d, hv, p)
  BY DEF SentFits, Quiet

LEMMA EmptySent ==
  ASSUME NEW c \in TcpRecords, NEW fl \in SUBSET Flags, NEW d, NEW hv, NEW p,
         toPeer' = InFlight(toPeer, Out(c, fl, <<>>)),
         "FIN" \notin fl, fl # {"SYN"}, fl = {"SYN", "ACK"} => c.snd_nxt = OurAt(0) \/ Met(p)
  PROVE  SentFits(d, hv, p)
<1>1. PICK m : m = Out(c, fl, <<>>)
  OBVIOUS
<1>2. OutFits(m, d, hv, p)
  BY <1>1, OutIs, EmptyOutFits
<1> QED BY <1>1, <1>2, OneSent

LEMMA ResetSent ==
  ASSUME NEW s \in Segments, NEW d, NEW hv, NEW p, Reset(s)
  PROVE  SentFits(d, hv, p)
<1>1. CASE "RST" \in s.flags
  BY <1>1, NoneSent DEF Reset
<1>2. CASE "RST" \notin s.flags
  <2>1. PICK k \in Int : k = uip_add32(s.seq, 1)
    <3>1. s.seq \in Int /\ 1 \in Int
      BY DEF Segments
    <3>2. uip_add32(s.seq, 1) \in Int
      BY <3>1, Add32Int
    <3> QED BY <3>2
  <2>2. PICK m : m = Seg({"RST", "ACK"}, s.ack, k, <<>>, Mss)
    OBVIOUS
  <2>3. {"RST", "ACK"} \in SUBSET Flags /\ "FIN" \notin {"RST", "ACK"} /\ {"RST", "ACK"} # {"SYN"}
        /\ {"RST", "ACK"} # {"SYN", "ACK"} /\ s.ack \in Int /\ Mss \in Nat
    BY SeqConsts DEF Flags, Segments
  <2>4. OutFits(m, d, hv, p)
    BY <2>2, <2>3, EmptyOutFits
  <2>5. toPeer' = InFlight(toPeer, m)
    BY <1>2, <2>1, <2>2, Zenon DEF Reset
  <2> QED BY <2>4, <2>5, OneSent
<1> QED BY <1>1, <1>2

LEMMA ConnClosed ==
  ASSUME NEW c, NEW gv, NEW ac, NEW gt, NEW p, ConnFits(c, gv, ac, gt, p), ~c.listening,
         NEW d, d = [c EXCEPT !.st = "CLOSED"]
  PROVE  ConnFits(d, gv, ac, gt, p) /\ Onward(c, gv, d, gv)
<1>1. d \in TcpRecords /\ d.st = "CLOSED" /\ d.listening = c.listening
  BY DEF ConnFits, TcpRecords, ConnStates
<1>2. gv \in Int
  BY DEF ConnFits
<1> QED BY <1>1, <1>2 DEF ConnFits, Onward, EndedBy, AfterClose

Unmoved(c, d) == /\ d \in TcpRecords /\ d.st = c.st /\ d.rcv_nxt = c.rcv_nxt /\ d.snd_nxt = c.snd_nxt
                 /\ d.len = c.len /\ d.listening = c.listening
LEMMA ConnUnmoved ==
  ASSUME NEW c, NEW gv, NEW ac, NEW gt, NEW p, ConnFits(c, gv, ac, gt, p), NEW d, Unmoved(c, d)
  PROVE  ConnFits(d, gv, ac, gt, p) /\ Onward(c, gv, d, gv)
<1>1. gv \in Int
  BY DEF ConnFits
<1> QED BY <1>1 DEF ConnFits, Onward, EndedBy, Unmoved

LEMMA Tcp6InitInv == Tcp6Init => TcpInv
<1> SUFFICES ASSUME Tcp6Init PROVE TcpInv
  OBVIOUS
<1>1. PICK c, p : c = conn /\ p = peer
  OBVIOUS
<1>2. <<>> \in Seq(Nat) /\ Len(<<>>) = 0 /\ IsBytes(<<>>)
  BY BytesAre DEF IsBytes
<1>3. 0 \in 0..MaxApp /\ 0 \in 0..MaxPeer /\ 0 \in 0..0 /\ Mss \in 1..Mss /\ Iss \in Int
  BY SeqConsts
<1>4. ConnFits(c, 0, 0, <<>>, p)
  BY <1>1, <1>2, <1>3, FirstAt DEF Tcp6Init, ConnFits, TcpRecords, ConnStates, AfterClose
<1>5. PeerFits(p, c, 0)
  BY <1>1, <1>2, <1>3 DEF Tcp6Init, PeerFits, PeerRecords, EndedBy
<1> QED BY <1>1, <1>2, <1>4, <1>5 DEF Tcp6Init, TcpInv

\* What acknowledges the bytes in transit has reached the peer.
AckedBy(c, s) == "ACK" \in s.flags /\ c.len > 0 /\ s.ack = uip_add32(c.snd_nxt, c.len)

LEMMA EstablishedAck ==
  ASSUME NEW c, NEW gv, NEW ac, NEW gt, NEW p, NEW s, ConnFits(c, gv, ac, gt, p), PeerFits(p, c, gv),
         InFits(s, p), c.st = "ESTABLISHED"
  PROVE  uip_add32(c.snd_nxt, c.len) = OurAt(gv + 1) /\ (AckedBy(c, s) => Len(p.got) = gv)
<1>1. PICK mx \in Nat, M \in Nat \ {0} : mx = MaxApp /\ M = SeqAll /\ mx + 2 < M
  BY SeqConsts
<1>2. /\ gv \in 0..mx /\ ac \in 0..gv /\ c.len \in Nat /\ c.snd_nxt = OurAt(ac + 1) /\ ac + c.len = gv
      /\ ~EndedBy(c)
  BY <1>1 DEF ConnFits, TcpRecords, EndedBy, AfterClose
<1>3. uip_add32(c.snd_nxt, c.len) = OurAt(gv + 1)
  <2>1. PICK a, l \in 0..(M - 1) : a = ac + 1 /\ l = c.len /\ a + l = gv + 1 /\ a \in 0..(M - 1) /\ a + l < M
    <3>1. PICK x \in Nat, y \in Nat, g \in Nat : x = ac /\ y = c.len /\ g = gv /\ g <= mx /\ x + y = g
      BY <1>2
    <3>2. x + 1 \in 0..(M - 1) /\ y \in 0..(M - 1) /\ (x + 1) + y = g + 1 /\ (x + 1) + y < M
      BY <1>1, <3>1
    <3> QED BY <3>1, <3>2
  <2>2. uip_add32(OurAt(a), l) = OurAt(a + l)
    BY <1>1, <2>1, OursAt
  <2> QED BY <1>2, <2>1, <2>2
<1>4. ASSUME AckedBy(c, s) PROVE Len(p.got) = gv
  <2>1. Reach(p) = Len(p.got) /\ Len(p.got) <= gv /\ Len(p.got) \in Nat
    <3>1. ~p.eof /\ Len(p.got) \in Nat /\ Len(p.got) <= gv
      BY <1>2 DEF PeerFits, IsBytes
    <3>2. PICK e, l \in Nat : e = (IF p.eof THEN 1 ELSE 0) /\ l = Len(p.got)
      BY <3>1
    <3>3. Reach(p) = l + e /\ e = 0
      BY <3>1, <3>2, Zenon DEF Reach
    <3>4. l + 0 = l
      OBVIOUS
    <3> QED BY <3>1, <3>2, <3>3, <3>4, Zenon
  <2>2. PICK k \in 0..Reach(p) : s.ack = OurAt(k + 1)
    BY <1>4 DEF AckedBy, InFits
  <2>3. OurAt(k + 1) = OurAt(gv + 1)
    BY <1>3, <1>4, <2>2 DEF AckedBy
  <2>4. k + 1 \in 0..(M - 1) /\ gv + 1 \in 0..(M - 1) /\ k \in Nat /\ k <= Len(p.got)
    BY <1>1, <1>2, <2>1
  <2>5. k + 1 = gv + 1
    BY <1>1, <2>3, <2>4, OursAt
  <2> QED BY <1>2, <2>1, <2>4, <2>5
<1> QED BY <1>3, <1>4

LEMMA SynAck == uip_add32(OurAt(0), 1) = OurAt(1) /\ uip_add32(TheirAt(0), 1) = TheirAt(1)
<1>1. 0 \in 0..(SeqAll - 1) /\ 1 \in 0..(SeqAll - 1) /\ 0 + 1 < SeqAll /\ 0 + 1 = 1
  BY SeqConsts
<1> QED BY <1>1, OursAt, TheirsAt

\* The bytes of a segment that is in order follow those that are there.
NewData(gt, s, p) ==
    /\ IsBytes(gt \o s.data) /\ Len(gt \o s.data) = Len(gt) + Len(s.data) /\ Len(gt) + Len(s.data) <= p.sent
    /\ uip_add32(TheirAt(Len(gt) + 1), Len(s.data)) = TheirAt(Len(gt) + Len(s.data) + 1)
    /\ "FIN" \in s.flags => p.fin /\ Len(gt) + Len(s.data) = p.sent

LEMMA DataFollows ==
  ASSUME NEW p \in PeerRecords, NEW s, InFits(s, p), NEW gt, IsBytes(gt), Len(gt) <= p.sent,
         s.data # <<>> \/ "FIN" \in s.flags => s.seq = TheirAt(Len(gt) + 1)
  PROVE  NewData(gt, s, p)
<1>1. PICK mx \in Nat, M \in Nat \ {0} : mx = MaxPeer /\ M = SeqAll /\ mx + 2 < M
  BY SeqConsts
<1>2. PICK g \in Nat, l \in Nat, n \in Nat : g = Len(gt) /\ l = Len(s.data) /\ n = p.sent /\ n <= mx /\ g <= n
  BY <1>1, PeerCounts DEF InFits, Segments, IsBytes
<1>3. CASE s.data = <<>> /\ "FIN" \notin s.flags
  <2>1. l = 0 /\ gt \o s.data = gt
    BY <1>2, <1>3 DEF IsBytes
  <2>2. g + 1 \in 0..(M - 1) /\ 0 \in 0..(M - 1) /\ (g + 1) + 0 < M /\ (g + 1) + 0 = g + 0 + 1
    BY <1>1, <1>2
  <2>3. uip_add32(TheirAt(g + 1), 0) = TheirAt(g + 0 + 1)
    BY <1>1, <2>2, TheirsAt
  <2>4. g + 0 = g /\ g + 0 <= n
    BY <1>2
  <2> QED BY <1>2, <1>3, <2>1, <2>3, <2>4 DEF NewData
<1>4. CASE s.data # <<>> \/ "FIN" \in s.flags
  <2>1. PICK f \in 0..p.sent : /\ s.seq = TheirAt(f + 1) /\ s.data = Bytes(f, Len(s.data))
                               /\ f + Len(s.data) <= p.sent
                               /\ "FIN" \in s.flags => p.fin /\ f + Len(s.data) = p.sent
    BY <1>4 DEF InFits
  <2>2. f + 1 \in 0..(M - 1) /\ g + 1 \in 0..(M - 1) /\ TheirAt(f + 1) = TheirAt(g + 1)
    BY <1>1, <1>2, <1>4, <2>1
  <2>3. f = g
    <3>1. f + 1 = g + 1
      BY <1>1, <2>2, TheirsAt
    <3> QED BY <1>2, <3>1
  <2>4. gt \o s.data = Bytes(0, g + l)
    <3>1. gt = Bytes(0, g) /\ s.data = Bytes(0 + g, l)
      BY <1>2, <2>1, <2>3 DEF IsBytes
    <3>2. 0 \in Nat
      OBVIOUS
    <3>3. Bytes(0, g) \o Bytes(0 + g, l) = Bytes(0, g + l)
      BY <3>2, BytesJoin
    <3> QED BY <3>1, <3>3, Zenon
  <2>0. PICK h \in Nat : h = g + l
    OBVIOUS
  <2>5. PICK b : b = Bytes(0, h) /\ h = g + l
    BY <2>0
  <2>6. b \in Seq(Nat) /\ Len(b) = h
    BY <2>5, BytesAre
  <2>7. gt \o s.data = b /\ IsBytes(gt \o s.data) /\ Len(gt \o s.data) = g + l
    BY <2>4, <2>5, <2>6 DEF IsBytes
  <2>8. uip_add32(TheirAt(g + 1), l) = TheirAt(g + l + 1)
    <3>1. l \in 0..(M - 1) /\ (g + 1) + l < M /\ (g + 1) + l = g + l + 1
      <4>1. g + l <= n
        BY <1>2, <2>1, <2>3, Zenon
      <4>2. n <= mx /\ mx + 2 < M
        BY <1>1, <1>2
      <4>3. M \in Nat /\ mx \in Nat /\ n \in Nat /\ g \in Nat /\ l \in Nat
        OBVIOUS
      <4> QED BY <4>1, <4>2, <4>3
    <3> QED BY <1>1, <2>2, <3>1, TheirsAt
  <2> QED BY <1>2, <2>1, <2>3, <2>7, <2>8 DEF NewData
<1> QED BY <1>3, <1>4

\* The connection's types, one by one, and what an update leaves.
LEMMA ConnTypes ==
  ASSUME NEW c \in TcpRecords
  PROVE  /\ c.rcv_nxt \in Int /\ c.snd_nxt \in Int /\ c.len \in Nat /\ c.tmr \in Int /\ c.nrtx \in Int
         /\ c.stopped \in BOOLEAN /\ c.mss \in Nat \ {0} /\ c.mss \in 1..Mss /\ c.listening \in BOOLEAN /\ c.st \in ConnStates
<1>1. PICK ms \in Nat : ms = Mss
  BY SeqConsts
<1>2. PICK S, M : S = ConnStates /\ M = 1..Mss
  OBVIOUS
<1>3. /\ c.rcv_nxt \in Int /\ c.snd_nxt \in Int /\ c.len \in Nat /\ c.tmr \in Int /\ c.nrtx \in Int
      /\ c.stopped \in BOOLEAN /\ c.mss \in M /\ c.listening \in BOOLEAN /\ c.st \in S
  BY <1>2 DEF TcpRecords
<1>4. c.mss \in Nat \ {0}
  BY <1>1, <1>2, <1>3
<1> QED BY <1>2, <1>3, <1>4

Opened(c, st, rn, tm) ==
    [c EXCEPT !.st = st, !.rcv_nxt = rn, !.len = 1, !.tmr = tm, !.nrtx = 0, !.listening = FALSE]
IsOpened(d, c, st, rn) ==
    /\ d \in TcpRecords /\ d.st = st /\ d.rcv_nxt = rn /\ d.len = 1 /\ ~d.listening
    /\ d.snd_nxt = c.snd_nxt
LEMMA ConnOpened ==
  ASSUME NEW c \in TcpRecords, NEW st, st \in {"SYN_SENT", "SYN_RCVD"}, NEW rn \in Int, NEW tm \in Int
  PROVE  IsOpened(Opened(c, st, rn, tm), c, st, rn)
<1>1. PICK sv \in ConnStates : sv = st
  BY DEF ConnStates
<1>2. PICK l \in Nat : l = 1
  OBVIOUS
<1>3. PICK z \in Int : z = 0
  OBVIOUS
<1>4. PICK f \in BOOLEAN : f = FALSE
  OBVIOUS
<1>5. PICK d : d = [c EXCEPT !.st = sv, !.rcv_nxt = rn, !.len = l, !.tmr = tm, !.nrtx = z, !.listening = f]
  OBVIOUS
<1>6. /\ d \in TcpRecords /\ d.st = sv /\ d.rcv_nxt = rn /\ d.len = l /\ d.listening = f
      /\ d.snd_nxt = c.snd_nxt
  BY <1>5 DEF TcpRecords
<1>7. d = Opened(c, st, rn, tm)
  BY <1>1, <1>2, <1>3, <1>4, <1>5, Zenon DEF Opened
<1>8. IsOpened(d, c, st, rn)
  BY <1>1, <1>2, <1>4, <1>6 DEF IsOpened
<1> QED BY <1>7, <1>8, Zenon

LEMMA AckSent ==
  ASSUME NEW c \in TcpRecords, NEW d, NEW hv, NEW p, toPeer' = InFlight(toPeer, Out(c, {"ACK"}, <<>>))
  PROVE  SentFits(d, hv, p)
<1>1. {"ACK"} \in SUBSET Flags /\ "FIN" \notin {"ACK"} /\ {"ACK"} # {"SYN"} /\ {"ACK"} # {"SYN", "ACK"}
  BY DEF Flags
<1> QED BY <1>1, EmptySent


\* The bytes that the client gives go out with the connection c.
LEMMA AppsendInv ==
  ASSUME TcpInv, NEW b, b = conn, ~EndedBy(b), NEW c, NEW n \in Nat, NEW fl, NEW gv, NEW ac, NEW gt, NEW p,
         gv = given, p = peer, peer' = peer, toUs' \subseteq toUs, ac = acked', gt = got',
         Appsend(c, n, fl), c.st = "ESTABLISHED", ConnFits(c, gv, ac, gt, p), ac <= Len(p.got),
         n > 0 => c.len = 0, gv + n <= MaxApp
  PROVE  KeepsTcp
<1>1. PICK mx \in Nat : mx = MaxApp
  BY SeqConsts
<1>0. c \in TcpRecords /\ gv \in 0..mx /\ ac \in 0..gv /\ gv + n <= mx
  BY <1>1 DEF ConnFits
<1>2. c \in TcpRecords /\ c.mss \in Nat \ {0} /\ c.len \in Nat /\ gv \in 0..mx /\ ac \in 0..gv /\ gv + n <= mx
  <2>1. c.mss \in Nat \ {0} /\ c.len \in Nat
    BY <1>0, ConnTypes
  <2> QED BY <1>0, <2>1
<1>3. PICK m \in Nat : m = (IF n > c.mss THEN c.mss ELSE n) /\ m <= n
  BY <1>2
<1>4. PICK d : d = IF n > 0 /\ c.len = 0 THEN [c EXCEPT !.len = m, !.nrtx = 0] ELSE [c EXCEPT !.nrtx = 0]
  OBVIOUS
<1>5. PICK hv \in 0..mx : hv = gv + m /\ gv <= hv
  BY <1>1, <1>2, <1>3
<1>6. /\ d = conn' /\ hv = given'
      /\ IF n > 0 THEN toPeer' = InFlight(toPeer, Out(d, {"ACK"}, Bytes(gv, d.len)))
         ELSE IF "NEWDATA" \in fl THEN toPeer' = InFlight(toPeer, Out(d, {"ACK"}, <<>>))
         ELSE Quiet
  BY <1>3, <1>4, <1>5, Zenon DEF Appsend
<1>12. PICK z \in Int : z = 0
  OBVIOUS
<1>7. /\ d \in TcpRecords /\ d.st = c.st /\ d.rcv_nxt = c.rcv_nxt /\ d.snd_nxt = c.snd_nxt
      /\ d.listening = c.listening
      /\ n > 0 => d.len = m /\ c.len = 0
      /\ n = 0 => d.len = c.len /\ hv = gv
  <2>1. CASE n > 0
    <3>1. c.len = 0 /\ d = [c EXCEPT !.len = m, !.nrtx = z]
      BY <1>4, <1>12, <2>1
    <3>2. /\ d \in TcpRecords /\ d.st = c.st /\ d.rcv_nxt = c.rcv_nxt /\ d.snd_nxt = c.snd_nxt
          /\ d.listening = c.listening /\ d.len = m
      BY <1>2, <3>1 DEF TcpRecords
    <3> QED BY <2>1, <3>1, <3>2
  <2>2. CASE n = 0
    <3>1. d = [c EXCEPT !.nrtx = z] /\ m = 0
      BY <1>3, <1>4, <1>12, <2>2
    <3>2. /\ d \in TcpRecords /\ d.st = c.st /\ d.rcv_nxt = c.rcv_nxt /\ d.snd_nxt = c.snd_nxt
          /\ d.listening = c.listening /\ d.len = c.len
      BY <1>2, <3>1 DEF TcpRecords
    <3> QED BY <1>2, <1>5, <2>2, <3>1, <3>2
  <2> QED BY <2>1, <2>2
<1>8. ac + d.len = hv /\ ac \in 0..hv /\ hv \in Nat
  <2>1. ac + c.len = gv
    BY DEF ConnFits
  <2>2. CASE n > 0
    BY <1>2, <1>5, <1>7, <2>1, <2>2
  <2>3. CASE n = 0
    BY <1>2, <1>5, <1>7, <2>1, <2>3
  <2> QED BY <2>2, <2>3
<1>9. ConnFits(d, hv, ac, gt, p)
  <2>1. d.st = "ESTABLISHED" /\ ~d.listening
    BY <1>7 DEF ConnFits
  <2>2. d.snd_nxt = OurAt(ac + 1) /\ d.rcv_nxt = TheirAt(Len(gt) + 1) /\ Met(p) /\ IsBytes(gt) /\ Len(gt) <= p.sent
    BY <1>7 DEF ConnFits
  <2> QED BY <1>1, <1>5, <1>7, <1>8, <2>1, <2>2 DEF ConnFits, AfterClose
<1>10. SentFits(d, hv, p)
  <2>1. CASE n > 0
    <3>1. PICK o : o = Out(d, {"ACK"}, Bytes(gv, d.len))
      OBVIOUS
    <3>2. o = Seg({"ACK"}, d.snd_nxt, d.rcv_nxt, Bytes(gv, m), Window(d))
          /\ d.snd_nxt \in Int /\ d.rcv_nxt \in Int /\ Window(d) \in Nat
      BY <1>7, <2>1, <3>1, OutIs
    <3>3. ac = gv /\ gv \in Nat
      <4>1. ac + c.len = gv
        BY DEF ConnFits
      <4> QED BY <1>2, <1>7, <2>1, <4>1
    <3>4. gv + m <= hv /\ d.snd_nxt = OurAt(gv + 1)
      BY <1>5, <1>7, <1>8, <3>3 DEF ConnFits
    <3>5. OutFits(o, d, hv, p)
      BY <1>8, <3>2, <3>3, <3>4, DataOutFits
    <3> QED BY <1>6, <2>1, <3>1, <3>5, OneSent
  <2>2. CASE ~(n > 0)
    <3>2. CASE "NEWDATA" \in fl
      <4>1. toPeer' = InFlight(toPeer, Out(d, {"ACK"}, <<>>))
        BY <1>6, <2>2, <3>2
      <4> QED BY <1>7, <4>1, AckSent
    <3>3. CASE "NEWDATA" \notin fl
      BY <1>6, <2>2, <3>3, NoneSent
    <3> QED BY <3>2, <3>3
  <2> QED BY <2>1, <2>2
<1>11. Onward(b, gv, d, hv)
  BY <1>5 DEF Onward
<1> QED BY <1>6, <1>9, <1>10, <1>11, OursInv

LEMMA ConnectInv == TcpInv /\ uip_connect => KeepsTcp
<1> SUFFICES ASSUME TcpInv, uip_connect PROVE KeepsTcp
  OBVIOUS
<1>1. PICK c, gv, ac, gt, p : c = conn /\ gv = given /\ ac = acked /\ gt = got /\ p = peer
  OBVIOUS
<1>2. ConnFits(c, gv, ac, gt, p) /\ ac <= Len(p.got) /\ c.listening /\ Rto \in Int
  BY <1>1, Tcp6Assumption DEF TcpInv, uip_connect
<1>3. PICK d : d = [c EXCEPT !.st = "SYN_SENT", !.len = 1, !.tmr = Rto, !.nrtx = 0, !.listening = FALSE]
  OBVIOUS
<1>4. /\ d = conn' /\ gv = given' /\ ac = acked' /\ gt = got' /\ peer' = peer /\ toUs' \subseteq toUs
      /\ toPeer' = InFlight(toPeer, Out(d, {"SYN"}, <<>>))
  BY <1>1, <1>3 DEF uip_connect, Send
<1>5. d \in TcpRecords /\ d.st = "SYN_SENT" /\ d.len = 1 /\ ~d.listening /\ d.snd_nxt = c.snd_nxt
  <2>1. c \in TcpRecords /\ c.rcv_nxt \in Int
    BY <1>2, ConnTypes DEF ConnFits
  <2>2. d = Opened(c, "SYN_SENT", c.rcv_nxt, Rto)
    BY <1>3, <2>1 DEF TcpRecords, Opened
  <2>3. Rto \in Int /\ "SYN_SENT" \in {"SYN_SENT", "SYN_RCVD"}
    BY <1>2
  <2>4. IsOpened(d, c, "SYN_SENT", c.rcv_nxt)
    BY <2>1, <2>2, <2>3, ConnOpened, Zenon
  <2> QED BY <2>4, Zenon DEF IsOpened
<1>6. ConnFits(d, gv, ac, gt, p)
  BY <1>2, <1>5 DEF ConnFits, AfterClose
<1>7. SentFits(d, gv, p)
  <2>1. PICK o : o = Out(d, {"SYN"}, <<>>)
    OBVIOUS
  <2>2. o = Seg({"SYN"}, d.snd_nxt, d.rcv_nxt, <<>>, Window(d))
        /\ d.snd_nxt \in Int /\ d.rcv_nxt \in Int /\ Window(d) \in Nat
    BY <1>5, <2>1, OutIs
  <2>3. d.snd_nxt = OurAt(0)
    BY <1>2, <1>5 DEF ConnFits
  <2>4. OutFits(o, d, gv, p)
    BY <2>2, <2>3, SynOutFits
  <2> QED BY <1>4, <2>1, <2>4, OneSent
<1>8. Onward(c, gv, d, gv)
  BY <1>2 DEF Onward, EndedBy, ConnFits
<1> QED BY <1>1, <1>2, <1>4, <1>6, <1>7, <1>8, OursInv

\* A step that leaves the connection but for its timers, its window or whether it is stopped.
LEMMA UnmovedInv ==
  ASSUME TcpInv, NEW c, c = conn, NEW d, d = conn', Unmoved(c, d), UNCHANGED <<given, acked, got, peer>>,
         toUs' \subseteq toUs, NEW p, p = peer, SentFits(d, given, p)
  PROVE  KeepsTcp
<1>1. PICK gv, ac, gt : gv = given /\ ac = acked /\ gt = got
  OBVIOUS
<1>2. ConnFits(c, gv, ac, gt, p) /\ ac <= Len(p.got)
  BY <1>1 DEF TcpInv
<1>3. ConnFits(d, gv, ac, gt, p) /\ Onward(c, gv, d, gv)
  BY <1>2, ConnUnmoved
<1>4. gv = given' /\ ac = acked' /\ gt = got' /\ SentFits(d, gv, p)
  BY <1>1
<1> QED BY <1>1, <1>2, <1>3, <1>4, OursInv

LEMMA ClosedInv ==
  ASSUME TcpInv, NEW c, c = conn, ~c.listening, conn' = [c EXCEPT !.st = "CLOSED"],
         UNCHANGED <<given, acked, got, peer>>, toUs' \subseteq toUs, NEW p, p = peer,
         \A d : SentFits(d, given, p)
  PROVE  KeepsTcp
<1>1. PICK gv, ac, gt, d : gv = given /\ ac = acked /\ gt = got /\ d = [c EXCEPT !.st = "CLOSED"]
  OBVIOUS
<1>2. ConnFits(c, gv, ac, gt, p) /\ ac <= Len(p.got)
  BY <1>1 DEF TcpInv
<1>3. ConnFits(d, gv, ac, gt, p) /\ Onward(c, gv, d, gv)
  BY <1>1, <1>2, ConnClosed
<1>4. gv = given' /\ ac = acked' /\ gt = got' /\ d = conn' /\ SentFits(d, gv, p)
  BY <1>1
<1> QED BY <1>1, <1>2, <1>3, <1>4, OursInv

LEMMA FoundNoneInv ==
  ASSUME TcpInv, NEW s \in toUs, FoundNone(s)
  PROVE  KeepsTcp
<1>1. PICK c, gv, ac, gt, p : c = conn /\ gv = given /\ ac = acked /\ gt = got /\ p = peer
  OBVIOUS
<1>2. /\ ConnFits(c, gv, ac, gt, p) /\ ac <= Len(p.got) /\ InFits(s, p) /\ Rto \in Int /\ c.st = "CLOSED"
      /\ c \in TcpRecords
  BY <1>1, Tcp6Assumption DEF TcpInv, FoundNone, Found, ConnFits
<1>3. gv = given' /\ ac = acked' /\ gt = got' /\ peer' = peer /\ toUs' \subseteq toUs
  BY <1>1 DEF FoundNone, NoEvent, Took
<1>4. CASE s.flags = {"SYN"} /\ c.listening
  <2>1. PICK d : d = [c EXCEPT !.st = "SYN_RCVD", !.rcv_nxt = uip_add32(s.seq, 1), !.len = 1,
                               !.tmr = Rto, !.nrtx = 0, !.listening = FALSE]
    OBVIOUS
  <2>2. d = conn' /\ toPeer' = InFlight(toPeer, Out(d, {"SYN", "ACK"}, <<>>))
    BY <1>1, <1>4, <2>1 DEF FoundNone, Send
  <2>3. uip_add32(s.seq, 1) = TheirAt(1) /\ TheirAt(1) \in Int
    <3>1. s.seq = TheirAt(0)
      BY <1>2, <1>4 DEF InFits
    <3>2. 1 \in 0..(SeqAll - 1)
      BY SeqConsts
    <3> QED BY <3>1, <3>2, SynAck, TheirsAt
  <2>4. d \in TcpRecords /\ d.st = "SYN_RCVD" /\ d.len = 1 /\ ~d.listening /\ d.snd_nxt = c.snd_nxt
        /\ d.rcv_nxt = TheirAt(1)
    <3>1. Rto \in Int /\ c \in TcpRecords /\ "SYN_RCVD" \in {"SYN_SENT", "SYN_RCVD"}
      BY <1>2
    <3>2. PICK rn \in Int : rn = TheirAt(1) /\ rn = uip_add32(s.seq, 1)
      BY <2>3
    <3>3. d = Opened(c, "SYN_RCVD", rn, Rto)
      BY <2>1, <3>2, Zenon DEF Opened
    <3>4. IsOpened(d, c, "SYN_RCVD", rn)
      BY <3>1, <3>2, <3>3, ConnOpened, Zenon
    <3> QED BY <3>2, <3>4, Zenon DEF IsOpened
  <2>5. ConnFits(d, gv, ac, gt, p) /\ d.snd_nxt = OurAt(0)
    BY <1>2, <1>4, <2>4 DEF ConnFits, AfterClose
  <2>6. {"SYN", "ACK"} \in SUBSET Flags /\ "FIN" \notin {"SYN", "ACK"} /\ {"SYN", "ACK"} # {"SYN"}
    BY DEF Flags
  <2>7. SentFits(d, gv, p)
    BY <2>2, <2>4, <2>5, <2>6, EmptySent
  <2>8. Onward(c, gv, d, gv)
    BY <1>2, <1>4 DEF Onward, EndedBy, ConnFits
  <2> QED BY <1>1, <1>2, <1>3, <2>2, <2>5, <2>7, <2>8, OursInv
<1>5. CASE ~(s.flags = {"SYN"} /\ c.listening)
  <2>1. conn' = conn /\ Reset(s)
    BY <1>1, <1>5 DEF FoundNone
  <2>2. SentFits(c, given, p)
    BY <1>2, <2>1, ResetSent DEF InFits
  <2>3. Unmoved(c, c)
    BY <1>2 DEF Unmoved
  <2> QED BY <1>1, <1>3, <2>1, <2>2, <2>3, UnmovedInv
<1> QED BY <1>4, <1>5

LEMMA GotResetInv ==
  ASSUME TcpInv, NEW s \in toUs, GotReset(s)
  PROVE  KeepsTcp
<1>1. PICK c, p : c = conn /\ p = peer
  OBVIOUS
<1>2. ~c.listening
  BY <1>1 DEF TcpInv, ConnFits, GotReset, Found
<1>3. /\ conn' = [c EXCEPT !.st = "CLOSED"] /\ UNCHANGED <<given, acked, got, peer>> /\ toUs' \subseteq toUs
      /\ Quiet
  BY <1>1 DEF GotReset, Tell, Took
<1>4. \A d : SentFits(d, given, p)
  BY <1>3, NoneSent
<1> QED BY <1>1, <1>2, <1>3, <1>4, ClosedInv

LEMMA GotOldInv ==
  ASSUME TcpInv, NEW s \in toUs, GotOld(s)
  PROVE  KeepsTcp
<1>1. PICK c, p, fl : c = conn /\ p = peer /\ fl = IF "SYN" \in s.flags THEN {"SYN", "ACK"} ELSE {"ACK"}
  OBVIOUS
<1>2. conn' = conn /\ UNCHANGED <<given, acked, got, peer>> /\ toUs' \subseteq toUs
      /\ toPeer' = InFlight(toPeer, Out(c, fl, <<>>)) /\ c.st # "CLOSED"
  BY <1>1 DEF GotOld, Took, NoEvent, Send, Found
<1>3. fl \in SUBSET Flags /\ "FIN" \notin fl /\ fl # {"SYN"}
  BY <1>1 DEF Flags
<1>4. c \in TcpRecords /\ (c.snd_nxt = OurAt(0) \/ Met(p))
  BY <1>1, <1>2 DEF TcpInv, ConnFits, TcpRecords, ConnStates
<1>5. SentFits(c, given, p)
  BY <1>2, <1>3, <1>4, EmptySent
<1>6. Unmoved(c, c)
  BY <1>4 DEF Unmoved
<1> QED BY <1>1, <1>2, <1>5, <1>6, UnmovedInv

\* The connection a after the acknowledgement in s, if there is one in it.
AckLeaves(a, c, s) ==
    /\ a \in TcpRecords /\ a.st = c.st /\ a.rcv_nxt = c.rcv_nxt /\ a.stopped = c.stopped /\ a.listening = c.listening
    /\ AckedBy(c, s) => a.snd_nxt = uip_add32(c.snd_nxt, c.len) /\ a.len = 0
    /\ ~AckedBy(c, s) => a = c

LEMMA AfterAckIs ==
  ASSUME NEW c \in TcpRecords, c = conn, NEW s
  PROVE  AckLeaves(AfterAck(s), c, s) /\ (Acks(s) <=> AckedBy(c, s))
<1>1. PICK sn \in Int : sn = uip_add32(c.snd_nxt, c.len)
  <2>1. c.snd_nxt \in Int /\ c.len \in Int
    BY ConnTypes
  <2> QED BY <2>1, Add32Int
<1>2. PICK z \in Nat, r \in Int : z = 0 /\ r = Rto
  BY Tcp6Assumption
<1>3. Acks(s) <=> AckedBy(c, s)
  BY Zenon DEF Acks, AckedBy
<1>4. CASE AckedBy(c, s)
  <2>1. PICK a : a = [c EXCEPT !.snd_nxt = sn, !.len = z, !.tmr = r]
    OBVIOUS
  <2>2. a = AfterAck(s)
    BY <1>1, <1>2, <1>3, <1>4, <2>1 DEF AfterAck
  <2>3. /\ a \in TcpRecords /\ a.st = c.st /\ a.rcv_nxt = c.rcv_nxt /\ a.stopped = c.stopped
        /\ a.listening = c.listening /\ a.snd_nxt = sn /\ a.len = z
    BY <2>1 DEF TcpRecords
  <2>4. AckLeaves(a, c, s)
    BY <1>1, <1>2, <1>4, <2>3, Zenon DEF AckLeaves
  <2> QED BY <1>3, <2>2, <2>4, Zenon
<1>5. CASE ~AckedBy(c, s)
  <2>1. AfterAck(s) = c
    BY <1>3, <1>5, Zenon DEF AfterAck
  <2>2. AckLeaves(c, c, s)
    BY <1>5, Zenon DEF AckLeaves
  <2> QED BY <1>3, <2>1, <2>2, Zenon
<1> QED BY <1>4, <1>5, Zenon

\* A connection that is opened, or goes on, with these numbers.
LEMMA EstablishedFits ==
  ASSUME NEW d \in TcpRecords, d.st = "ESTABLISHED", ~d.listening, NEW gv \in 0..MaxApp, NEW ac \in 0..gv,
         NEW gt, IsBytes(gt), NEW p, Len(gt) <= p.sent, d.snd_nxt = OurAt(ac + 1), ac + d.len = gv,
         d.rcv_nxt = TheirAt(Len(gt) + 1), Met(p)
  PROVE  ConnFits(d, gv, ac, gt, p)
  BY DEF ConnFits, AfterClose

LEMMA NumOf ==
  ASSUME NEW p \in PeerRecords, NEW s, InFits(s, p)
  PROVE  N(s) \in Nat /\ N(s) = Len(s.data) /\ (N(s) > 0 <=> s.data # <<>>)
<1>1. PICK b \in Seq(Nat) : b = s.data
  BY DEF InFits, Segments
<1>2. Len(b) \in Nat /\ (Len(b) > 0 <=> b # <<>>)
  OBVIOUS
<1> QED BY <1>1, <1>2 DEF N

\* The SYNACK, or its acknowledgement, establishes the connection.
LEMMA EstablishInv ==
  ASSUME TcpInv, NEW c, NEW gt, NEW p, NEW b, c = conn, gt = got', p = peer, peer' = peer, toUs' \subseteq toUs,
         c.st \in {"SYN_SENT", "SYN_RCVD"}, NEW s \in toUs, AckedBy(c, s), AckLeaves(b, c, s),
         NEW rn \in Int, rn = TheirAt(Len(gt) + 1), IsBytes(gt), Len(gt) <= p.sent, NEW fl,
         Appsend([b EXCEPT !.st = "ESTABLISHED", !.rcv_nxt = rn], 0, fl), acked' = acked
  PROVE  KeepsTcp
<1>1. PICK gv, ac, g0 : gv = given /\ ac = acked /\ g0 = got
  OBVIOUS
<1>2. ConnFits(c, gv, ac, g0, p) /\ ac <= Len(p.got) /\ InFits(s, p)
  BY <1>1 DEF TcpInv
<1>3. /\ c \in TcpRecords /\ c.len = 1 /\ ~c.listening /\ c.snd_nxt = OurAt(0) /\ gv = 0 /\ gv \in 0..MaxApp
      /\ ac \in 0..gv
  BY <1>2 DEF ConnFits
<1>13. PICK st \in ConnStates : st = "ESTABLISHED"
  BY DEF ConnStates
<1>4. PICK d : d = [b EXCEPT !.st = st, !.rcv_nxt = rn] /\ st = "ESTABLISHED"
  BY <1>13
<1>5. d \in TcpRecords /\ d.st = st /\ d.rcv_nxt = rn /\ d.snd_nxt = b.snd_nxt /\ d.len = b.len /\ d.listening = b.listening
  <2>1. b \in TcpRecords
    BY DEF AckLeaves
  <2> QED BY <1>4, <2>1 DEF TcpRecords
<1>6. d.snd_nxt = OurAt(1) /\ d.len = 0 /\ ~d.listening /\ d.st = "ESTABLISHED"
  <2>1. b.snd_nxt = uip_add32(OurAt(0), 1) /\ b.len = 0 /\ b.listening = c.listening
    BY <1>3 DEF AckLeaves
  <2> QED BY <1>3, <1>4, <1>5, <2>1, SynAck
<1>7. Met(p)
  BY <1>2 DEF AckedBy, InFits
<1>8. ac = 0 /\ ac + 1 = 1 /\ ac + d.len = gv
  BY <1>3, <1>6
<1>9. ConnFits(d, gv, ac, gt, p)
  BY <1>3, <1>5, <1>6, <1>7, <1>8, EstablishedFits
<1>10. ~EndedBy(c)
  BY DEF EndedBy, AfterClose
<1>11. Appsend(d, 0, fl) /\ ac = acked'
  BY <1>1, <1>4, Zenon
<1>12. 0 \in Nat /\ ~(0 > 0) /\ gv + 0 <= MaxApp
  BY <1>3, SeqConsts
<1> QED BY <1>1, <1>2, <1>6, <1>9, <1>10, <1>11, <1>12, AppsendInv

LEMMA InSynRcvdInv ==
  ASSUME TcpInv, NEW s \in toUs, InSynRcvd(s)
  PROVE  KeepsTcp
<1>1. PICK c, gv, ac, gt, p : c = conn /\ gv = given /\ ac = acked /\ gt = got /\ p = peer
  OBVIOUS
<1>2. /\ ConnFits(c, gv, ac, gt, p) /\ InFits(s, p) /\ c.st = "SYN_RCVD" /\ c \in TcpRecords
      /\ p \in PeerRecords /\ gt = <<>> /\ c.rcv_nxt = TheirAt(1) /\ c.snd_nxt = OurAt(0)
      /\ IsBytes(gt) /\ Len(gt) <= p.sent
  BY <1>1 DEF TcpInv, InSynRcvd, ConnFits, PeerFits
<1>3. peer' = peer /\ toUs' \subseteq toUs
  BY DEF InSynRcvd, InOrder, Took
<1>4. CASE Acks(s)
  <2>1. PICK a : a = AfterAck(s)
    OBVIOUS
  <2>2. AckedBy(c, s) /\ AckLeaves(a, c, s) /\ a.rcv_nxt = TheirAt(1)
    <3>1. AckedBy(c, s) /\ AckLeaves(a, c, s)
      BY <1>1, <1>2, <1>4, <2>1, AfterAckIs, Zenon
    <3> QED BY <1>2, <3>1 DEF AckLeaves
  <2>3. Len(gt) = 0 /\ 0 + 1 = 1
    BY <1>2
  <2>4. s.data # <<>> \/ "FIN" \in s.flags => s.seq = TheirAt(Len(gt) + 1)
    <3> SUFFICES ASSUME s.data # <<>> \/ "FIN" \in s.flags PROVE s.seq = TheirAt(Len(gt) + 1)
      OBVIOUS
    <3>1. N(s) > 0 \/ s.flags \cap {"SYN", "FIN"} # {}
      BY <1>2, NumOf
    <3>2. s.flags # {"SYN"} /\ ~OutOfOrder(s)
      BY <2>2 DEF AckedBy, InSynRcvd, InOrder
    <3>3. s.seq = c.rcv_nxt
      BY <1>1, <1>2, <3>1, <3>2 DEF OutOfOrder
    <3> QED BY <1>2, <2>3, <3>3
  <2>5. NewData(gt, s, p)
    BY <1>2, <2>4, DataFollows
  <2>6. PICK g : g = gt \o s.data
    OBVIOUS
  <2>7. PICK n \in Nat : n = N(s) /\ n = Len(s.data)
    BY <1>2, NumOf
  <2>8. IsBytes(g) /\ Len(g) = n /\ Len(g) <= p.sent /\ uip_add32(TheirAt(1), n) = TheirAt(n + 1)
    <3>1. Len(gt) + Len(s.data) = n /\ Len(gt) + 1 = 1
      BY <2>3, <2>7
    <3> QED BY <2>5, <2>6, <2>7, <3>1 DEF NewData
  <2>9. PICK rn \in Int : rn = uip_add32(a.rcv_nxt, N(s)) /\ rn = TheirAt(Len(g) + 1)
    <3>1. TheirAt(1) \in Int /\ n \in Int
      BY <1>2, <2>7, ConnTypes
    <3>2. uip_add32(TheirAt(1), n) \in Int
      BY <3>1, Add32Int
    <3> QED BY <2>2, <2>7, <2>8, <3>2
  <2>10. /\ Appsend([a EXCEPT !.st = "ESTABLISHED", !.rcv_nxt = rn], 0, IF N(s) > 0 THEN {"NEWDATA"} ELSE {})
         /\ g = got' /\ acked' = acked
    <3>1. /\ Appsend([a EXCEPT !.st = "ESTABLISHED", !.rcv_nxt = uip_add32(@, N(s))], 0, IF N(s) > 0 THEN {"NEWDATA"} ELSE {})
          /\ g = got' /\ acked' = acked
      BY <1>1, <1>4, <2>1, <2>6, Zenon DEF InSynRcvd
    <3> QED BY <2>9, <3>1, Zenon
  <2>11. PICK fl : fl = IF N(s) > 0 THEN {"NEWDATA"} ELSE {}
    OBVIOUS
  <2>12. Appsend([a EXCEPT !.st = "ESTABLISHED", !.rcv_nxt = rn], 0, fl)
    BY <2>10, <2>11, Zenon
  <2>13. c.st \in {"SYN_SENT", "SYN_RCVD"}
    BY <1>2
  <2> QED BY <1>1, <1>3, <2>2, <2>8, <2>9, <2>10, <2>12, <2>13, EstablishInv, Zenon
<1>5. CASE ~Acks(s)
  <2>1. /\ conn' = conn /\ UNCHANGED <<given, acked, got, peer>>
        /\ toPeer' = InFlight(toPeer, Out(c, {"SYN", "ACK"}, <<>>)) \/ Quiet
    BY <1>1, <1>5 DEF InSynRcvd, Send, NoEvent
  <2>2. {"SYN", "ACK"} \in SUBSET Flags /\ "FIN" \notin {"SYN", "ACK"} /\ {"SYN", "ACK"} # {"SYN"}
    BY DEF Flags
  <2>3. SentFits(c, given, p)
    BY <1>2, <2>1, <2>2, EmptySent, NoneSent
  <2>4. Unmoved(c, c)
    BY <1>2 DEF Unmoved
  <2> QED BY <1>1, <1>3, <2>1, <2>3, <2>4, UnmovedInv
<1> QED BY <1>4, <1>5

LEMMA InSynSentInv ==
  ASSUME TcpInv, NEW s \in toUs, InSynSent(s)
  PROVE  KeepsTcp
<1>1. PICK c, gv, ac, gt, p : c = conn /\ gv = given /\ ac = acked /\ gt = got /\ p = peer
  OBVIOUS
<1>2. /\ ConnFits(c, gv, ac, gt, p) /\ InFits(s, p) /\ c.st = "SYN_SENT" /\ c \in TcpRecords
      /\ gt = <<>> /\ IsBytes(gt) /\ Len(gt) <= p.sent /\ ~c.listening
  BY <1>1 DEF TcpInv, InSynSent, ConnFits
<1>3. peer' = peer /\ toUs' \subseteq toUs
  BY DEF InSynSent, InOrder, Took
<1>4. CASE Acks(s) /\ s.flags = {"SYN", "ACK"}
  <2>1. PICK a : a = AfterAck(s)
    OBVIOUS
  <2>2. AckedBy(c, s) /\ AckLeaves(a, c, s)
    BY <1>1, <1>2, <1>4, <2>1, AfterAckIs, Zenon
  <2>3. uip_add32(s.seq, 1) = TheirAt(1)
    BY <1>2, <1>4, SynAck DEF InFits
  <2>4. PICK rn \in Int : rn = uip_add32(s.seq, 1) /\ rn = TheirAt(Len(gt) + 1)
    <3>1. s.seq \in Int /\ 1 \in Int
      BY <1>2 DEF InFits, Segments
    <3>2. uip_add32(s.seq, 1) \in Int
      BY <3>1, Add32Int
    <3>3. Len(gt) + 1 = 1
      BY <1>2
    <3> QED BY <2>3, <3>2, <3>3
  <2>5. /\ Appsend([a EXCEPT !.st = "ESTABLISHED", !.rcv_nxt = rn], 0, {"NEWDATA"})
        /\ gt = got' /\ acked' = acked
    BY <1>1, <1>4, <2>1, <2>4, Zenon DEF InSynSent
  <2>6. c.st \in {"SYN_SENT", "SYN_RCVD"}
    BY <1>2
  <2> QED BY <1>1, <1>2, <1>3, <2>2, <2>4, <2>5, <2>6, EstablishInv, Zenon
<1>5. CASE ~(Acks(s) /\ s.flags = {"SYN", "ACK"})
  <2>1. /\ conn' = [c EXCEPT !.st = "CLOSED"] /\ Reset(s) /\ UNCHANGED <<given, acked, got, peer>>
    BY <1>1, <1>5 DEF InSynSent, Tell
  <2>2. \A d : SentFits(d, given, p)
    BY <1>2, <2>1, ResetSent DEF InFits
  <2> QED BY <1>1, <1>2, <1>3, <2>1, <2>2, ClosedInv
<1> QED BY <1>4, <1>5

LEMMA CanGiveFits ==
  ASSUME NEW c \in TcpRecords, c = conn, NEW gv \in 0..MaxApp, gv = given, NEW n \in CanGive
  PROVE  n \in Nat /\ gv + n <= MaxApp
<1>1. PICK mx \in Nat, ms \in Nat, g \in Nat : mx = MaxApp /\ ms = c.mss /\ g = gv /\ g <= mx
  BY SeqConsts, ConnTypes
<1>2. n \in 0..(IF mx - g < ms THEN mx - g ELSE ms)
  BY <1>1 DEF CanGive
<1>3. n \in Nat /\ g + n <= mx
  BY <1>1, <1>2
<1> QED BY <1>1, <1>3

\* What is known of a segment that an established connection takes.
LEMMA InOrderData ==
  ASSUME NEW c, NEW gv, NEW ac, NEW gt, NEW p, NEW s, c = conn, ConnFits(c, gv, ac, gt, p), p \in PeerRecords,
         InFits(s, p), c.st = "ESTABLISHED", InOrder(s)
  PROVE  NewData(gt, s, p) /\ c.rcv_nxt = TheirAt(Len(gt) + 1)
<1>1. IsBytes(gt) /\ Len(gt) <= p.sent /\ c.rcv_nxt = TheirAt(Len(gt) + 1)
  BY DEF ConnFits
<1>2. s.data # <<>> \/ "FIN" \in s.flags => s.seq = TheirAt(Len(gt) + 1)
  <2> SUFFICES ASSUME s.data # <<>> \/ "FIN" \in s.flags PROVE s.seq = TheirAt(Len(gt) + 1)
    OBVIOUS
  <2>1. N(s) > 0 \/ s.flags \cap {"SYN", "FIN"} # {}
    BY NumOf
  <2>2. s.seq = c.rcv_nxt
    BY <2>1 DEF InOrder, OutOfOrder
  <2> QED BY <1>1, <2>2
<1> QED BY <1>1, <1>2, DataFollows

LEMMA FinSent ==
  ASSUME NEW d \in TcpRecords, NEW hv, NEW p, toPeer' = InFlight(toPeer, Out(d, {"FIN", "ACK"}, <<>>)),
         d.snd_nxt = OurAt(hv + 1), EndedBy(d)
  PROVE  SentFits(d, hv, p)
<1>1. PICK o : o = Out(d, {"FIN", "ACK"}, <<>>)
  OBVIOUS
<1>2. o = Seg({"FIN", "ACK"}, d.snd_nxt, d.rcv_nxt, <<>>, Window(d))
      /\ d.snd_nxt \in Int /\ d.rcv_nxt \in Int /\ Window(d) \in Nat
  BY <1>1, OutIs
<1>3. OutFits(o, d, hv, p)
  BY <1>2, FinOutFits
<1> QED BY <1>1, <1>3, OneSent

LEMMA InEstablishedFinInv ==
  ASSUME TcpInv, NEW s \in toUs, InEstablishedFin(s)
  PROVE  KeepsTcp
<1>1. PICK c, gv, ac, gt, p : c = conn /\ gv = given /\ ac = acked /\ gt = got /\ p = peer
  OBVIOUS
<1>2. /\ ConnFits(c, gv, ac, gt, p) /\ PeerFits(p, c, gv) /\ InFits(s, p) /\ c.st = "ESTABLISHED" /\ c \in TcpRecords
      /\ p \in PeerRecords /\ gv \in 0..MaxApp /\ ac \in 0..gv /\ InOrder(s) /\ "FIN" \in s.flags
      /\ c.snd_nxt = OurAt(ac + 1) /\ ac + c.len = gv /\ ~c.listening /\ Met(p) /\ ac <= Len(p.got)
  BY <1>1 DEF TcpInv, InEstablishedFin, FinSeen, ConnFits, PeerFits
<1>3. gv' = gv /\ given' = gv /\ peer' = peer /\ toUs' \subseteq toUs
  BY <1>1 DEF InEstablishedFin, InOrder, Took, NoEvent
<1>4. PICK a : a = AfterAck(s)
  OBVIOUS
<1>5. AckLeaves(a, c, s) /\ (Acks(s) <=> AckedBy(c, s))
  BY <1>1, <1>2, <1>4, AfterAckIs, Zenon
<1>6. CASE a.len > 0
  <2>1. conn' = a /\ Quiet /\ UNCHANGED <<given, acked, got, peer>>
    BY <1>4, <1>6 DEF InEstablishedFin, NoEvent
  <2>2. a = c
    <3>1. ~(0 > 0)
      OBVIOUS
    <3> QED BY <1>5, <1>6, <3>1, Zenon DEF AckLeaves
  <2>3. Unmoved(c, a) /\ SentFits(a, given, p)
    BY <1>2, <2>1, <2>2, NoneSent DEF Unmoved
  <2> QED BY <1>1, <1>3, <2>1, <2>3, UnmovedInv
<1>7. CASE ~(a.len > 0)
  <2>1. NewData(gt, s, p)
    BY <1>1, <1>2, InOrderData
  <2>2. a \in TcpRecords /\ a.st = "ESTABLISHED" /\ ~a.listening /\ a.rcv_nxt \in Int /\ a.len = 0
    BY <1>2, <1>5, <1>7, ConnTypes DEF AckLeaves
  <2>3. PICK rn \in Int : rn = uip_add32(a.rcv_nxt, 1 + N(s))
    <3>1. N(s) \in Nat
      BY <1>2, NumOf
    <3>2. 1 + N(s) \in Int
      BY <3>1
    <3> QED BY <2>2, <3>2, Add32Int
  <2>4. PICK st \in ConnStates : st = "LAST_ACK"
    BY DEF ConnStates, AfterClose
  <2>5. PICK l \in Nat : l = 1
    OBVIOUS
  <2>6. PICK z \in Int : z = 0
    OBVIOUS
  <2>7. PICK d : d = [a EXCEPT !.st = st, !.len = l, !.nrtx = z, !.rcv_nxt = rn]
    OBVIOUS
  <2>8. PICK g, ac2 : g = gt \o s.data /\ ac2 = IF Acks(s) THEN gv ELSE ac
    OBVIOUS
  <2>9. d = conn' /\ toPeer' = InFlight(toPeer, Out(d, {"FIN", "ACK"}, <<>>)) /\ g = got' /\ ac2 = acked'
    BY <1>1, <1>4, <1>7, <2>3, <2>4, <2>5, <2>6, <2>7, <2>8, Zenon DEF InEstablishedFin, Send
  <2>10. d \in TcpRecords /\ d.st = st /\ d.snd_nxt = a.snd_nxt /\ d.listening = a.listening
    BY <2>2, <2>7 DEF TcpRecords
  <2>11. d.st = "LAST_ACK" /\ ~d.listening /\ EndedBy(d)
    BY <2>2, <2>4, <2>10 DEF EndedBy, AfterClose
  <2>12. a.snd_nxt = OurAt(gv + 1) /\ ac2 \in 0..gv /\ ac2 <= Len(p.got)
    <3>1. CASE Acks(s)
      <4>1. a.snd_nxt = OurAt(gv + 1) /\ Len(p.got) = gv
        BY <1>2, <1>5, <3>1, EstablishedAck DEF AckLeaves
      <4>2. gv \in 0..gv /\ gv <= gv /\ ac2 = gv
        BY <1>2, <2>8, <3>1, SeqConsts
      <4> QED BY <4>1, <4>2
    <3>2. CASE ~Acks(s)
      <4>1. a = c /\ ac2 = ac
        BY <1>5, <2>8, <3>2 DEF AckLeaves
      <4>2. ac = gv
        BY <1>2, <2>2, <4>1, SeqConsts
      <4> QED BY <1>2, <4>1, <4>2
    <3> QED BY <3>1, <3>2
  <2>13. IsBytes(g) /\ Len(g) = p.sent /\ p.fin /\ Len(g) <= p.sent
    <3>1. IsBytes(g) /\ Len(g) = p.sent /\ p.fin
      BY <1>2, <2>1, <2>8 DEF NewData
    <3>2. p.sent \in Nat
      BY <1>2, PeerCounts
    <3> QED BY <3>1, <3>2
  <2>14. ConnFits(d, gv, ac2, g, p)
    BY <1>2, <2>10, <2>11, <2>12, <2>13 DEF ConnFits, AfterClose
  <2>15. SentFits(d, gv, p)
    BY <2>9, <2>10, <2>11, <2>12, FinSent
  <2>16. Onward(c, gv, d, gv)
    <3>1. gv <= gv
      BY <1>2, SeqConsts
    <3> QED BY <2>11, <3>1 DEF Onward
  <2> QED BY <1>1, <1>3, <2>9, <2>12, <2>14, <2>15, <2>16, OursInv
<1> QED BY <1>6, <1>7

LEMMA InEstablishedInv ==
  ASSUME TcpInv, NEW s \in toUs, InEstablished(s)
  PROVE  KeepsTcp
<1>1. PICK c, gv, ac, gt, p : c = conn /\ gv = given /\ ac = acked /\ gt = got /\ p = peer
  OBVIOUS
<1>2. /\ ConnFits(c, gv, ac, gt, p) /\ PeerFits(p, c, gv) /\ InFits(s, p) /\ c.st = "ESTABLISHED" /\ c \in TcpRecords
      /\ p \in PeerRecords /\ gv \in 0..MaxApp /\ ac \in 0..gv /\ InOrder(s)
      /\ c.snd_nxt = OurAt(ac + 1) /\ ac + c.len = gv /\ ~c.listening /\ Met(p) /\ ac <= Len(p.got)
      /\ IsBytes(gt) /\ Len(gt) <= p.sent
  BY <1>1 DEF TcpInv, InEstablished, ConnFits, PeerFits
<1>3. peer' = peer /\ toUs' \subseteq toUs
  BY <1>1 DEF InEstablished, InOrder, Took
<1>4. PICK a : a = AfterAck(s)
  OBVIOUS
<1>5. AckLeaves(a, c, s) /\ (Acks(s) <=> AckedBy(c, s))
  BY <1>1, <1>2, <1>4, AfterAckIs, Zenon
<1>6. NewData(gt, s, p) /\ c.rcv_nxt = TheirAt(Len(gt) + 1)
  BY <1>1, <1>2, InOrderData
<1>7. PICK new \in BOOLEAN : new = (N(s) > 0 /\ ~conn.stopped)
  OBVIOUS
<1>8. PICK ms \in 1..Mss : ms = IF s.wnd = 0 \/ s.wnd > Mss THEN Mss ELSE s.wnd
  <2>1. PICK w \in Nat, m \in Nat \ {0} : w = s.wnd /\ m = Mss
    BY <1>2, SeqConsts DEF InFits, Segments
  <2>2. (IF w = 0 \/ w > m THEN m ELSE w) \in 1..m
    OBVIOUS
  <2> QED BY <2>1, <2>2
<1>9. a \in TcpRecords /\ a.st = "ESTABLISHED" /\ ~a.listening /\ a.rcv_nxt \in Int /\ a.rcv_nxt = c.rcv_nxt
      /\ a.stopped \in BOOLEAN
  BY <1>2, <1>5, ConnTypes DEF AckLeaves
<1>10. PICK rn \in Int : rn = IF new THEN uip_add32(a.rcv_nxt, N(s)) ELSE a.rcv_nxt
  <2>1. N(s) \in Int
    BY <1>2, NumOf
  <2>2. uip_add32(a.rcv_nxt, N(s)) \in Int
    BY <1>9, <2>1, Add32Int
  <2> QED BY <1>9, <2>2
<1>11. PICK e, g, ac2 : /\ e = [a EXCEPT !.mss = ms, !.rcv_nxt = rn]
                        /\ g = (IF new THEN gt \o s.data ELSE gt)
                        /\ ac2 = IF Acks(s) THEN gv ELSE ac
  OBVIOUS
<1>12. e = [AfterAck(s) EXCEPT !.mss = IF s.wnd = 0 \/ s.wnd > Mss THEN Mss ELSE s.wnd,
                               !.rcv_nxt = IF new THEN uip_add32(@, N(s)) ELSE @]
  BY <1>4, <1>8, <1>10, <1>11, Zenon
<1>13. /\ g = got' /\ ac2 = acked'
       /\ IF new \/ Acks(s)
            THEN \E stop \in BOOLEAN, n \in CanGive :
                   /\ stop => new
                   /\ n > 0 => Acks(s) /\ n <= e.mss
                   /\ Appsend([e EXCEPT !.stopped = stop \/ @], n, IF new THEN {"NEWDATA"} ELSE {})
            ELSE conn' = e /\ Quiet /\ UNCHANGED given
  BY <1>1, <1>7, <1>11, <1>12, Zenon DEF InEstablished
<1>14. e \in TcpRecords /\ e.st = a.st /\ e.snd_nxt = a.snd_nxt /\ e.rcv_nxt = rn /\ e.listening = a.listening
       /\ e.len = a.len /\ e.stopped = a.stopped
  BY <1>9, <1>11 DEF TcpRecords
<1>15. a.snd_nxt = OurAt(ac2 + 1) /\ ac2 \in 0..gv /\ ac2 + a.len = gv /\ ac2 <= Len(p.got)
  <2>1. CASE Acks(s)
    <3>1. a.snd_nxt = OurAt(gv + 1) /\ Len(p.got) = gv /\ a.len = 0
      BY <1>2, <1>5, <2>1, EstablishedAck DEF AckLeaves
    <3>2. ac2 = gv
      BY <1>11, <2>1, Zenon
    <3>3. gv \in 0..gv /\ gv <= gv /\ gv + 0 = gv
      BY <1>2, SeqConsts
    <3> QED BY <3>1, <3>2, <3>3
  <2>2. CASE ~Acks(s)
    BY <1>2, <1>5, <1>11, <2>2 DEF AckLeaves
  <2> QED BY <2>1, <2>2
<1>16. IsBytes(g) /\ Len(g) <= p.sent /\ rn = TheirAt(Len(g) + 1)
  <2>1. CASE new
    <3>1. N(s) = Len(s.data) /\ g = gt \o s.data
      BY <1>2, <1>11, <2>1, NumOf
    <3>2. rn = uip_add32(TheirAt(Len(gt) + 1), Len(s.data))
      BY <1>6, <1>9, <1>10, <2>1, <3>1
    <3> QED BY <1>6, <3>1, <3>2 DEF NewData
  <2>2. CASE ~new
    BY <1>2, <1>6, <1>9, <1>10, <1>11, <2>2
  <2> QED BY <2>1, <2>2
<1>17. ~EndedBy(c)
  BY <1>2 DEF EndedBy, AfterClose
<1>18. CASE new \/ Acks(s)
  <2>1. PICK stop \in BOOLEAN, n \in CanGive :
                   /\ n > 0 => Acks(s)
                   /\ Appsend([e EXCEPT !.stopped = stop \/ @], n, IF new THEN {"NEWDATA"} ELSE {})
    BY <1>13, <1>18
  <2>2. PICK fl : fl = IF new THEN {"NEWDATA"} ELSE {}
    OBVIOUS
  <2>3. PICK sp \in BOOLEAN : sp = (stop \/ e.stopped)
    BY <1>9, <1>14
  <2>4. PICK d : d = [e EXCEPT !.stopped = sp]
    OBVIOUS
  <2>5. Appsend(d, n, fl)
    BY <2>1, <2>2, <2>3, <2>4, Zenon
  <2>6. d \in TcpRecords /\ d.st = e.st /\ d.snd_nxt = e.snd_nxt /\ d.rcv_nxt = e.rcv_nxt /\ d.listening = e.listening
        /\ d.len = e.len
    BY <1>14, <2>4 DEF TcpRecords
  <2>7. d.st = "ESTABLISHED" /\ ~d.listening /\ d.snd_nxt = OurAt(ac2 + 1) /\ ac2 + d.len = gv /\ d.rcv_nxt = TheirAt(Len(g) + 1)
    BY <1>9, <1>14, <1>15, <1>16, <2>6, Zenon
  <2>8. ConnFits(d, gv, ac2, g, p)
    BY <1>2, <1>15, <1>16, <2>6, <2>7, EstablishedFits
  <2>9. n > 0 => d.len = 0
    BY <1>5, <1>14, <2>1, <2>6 DEF AckLeaves
  <2>10. n \in Nat /\ gv + n <= MaxApp
    BY <1>1, <1>2, CanGiveFits
  <2> QED BY <1>1, <1>3, <1>13, <1>15, <1>17, <2>5, <2>7, <2>8, <2>9, <2>10, AppsendInv
<1>19. CASE ~(new \/ Acks(s))
  <2>1. conn' = e /\ Quiet /\ gv = given'
    BY <1>1, <1>13, <1>19
  <2>2. e.st = "ESTABLISHED" /\ ~e.listening /\ e.snd_nxt = OurAt(ac2 + 1) /\ ac2 + e.len = gv /\ e.rcv_nxt = TheirAt(Len(g) + 1)
    BY <1>9, <1>14, <1>15, <1>16, Zenon
  <2>3. ConnFits(e, gv, ac2, g, p)
    BY <1>2, <1>14, <1>15, <1>16, <2>2, EstablishedFits
  <2>4. SentFits(e, gv, p)
    BY <2>1, NoneSent
  <2>5. Onward(c, gv, e, gv)
    <3>1. gv <= gv
      BY <1>2, SeqConsts
    <3> QED BY <1>17, <3>1 DEF Onward
  <2> QED BY <1>1, <1>3, <1>13, <1>15, <2>1, <2>3, <2>4, <2>5, OursInv
<1> QED BY <1>18, <1>19

LEMMA InClosingInv ==
  ASSUME TcpInv, NEW s \in toUs, InClosing(s)
  PROVE  KeepsTcp
<1>1. PICK c, gv, ac, gt, p : c = conn /\ gv = given /\ ac = acked /\ gt = got /\ p = peer
  OBVIOUS
<1>2. /\ ConnFits(c, gv, ac, gt, p) /\ InFits(s, p) /\ c \in TcpRecords /\ p \in PeerRecords
      /\ c.st \in {"LAST_ACK", "FIN_WAIT_1", "FIN_WAIT_2", "TIME_WAIT", "CLOSING"}
      /\ gv \in 0..MaxApp /\ ac \in 0..gv /\ ac <= Len(p.got)
  BY <1>1 DEF TcpInv, InClosing, ConnFits, PeerFits
<1>3. given' = gv /\ acked' = ac /\ got' = gt /\ peer' = peer /\ toUs' \subseteq toUs
  BY <1>1 DEF InClosing, InOrder, Took
<1>4. PICK a : a = AfterAck(s)
  OBVIOUS
<1>5. AckLeaves(a, c, s) /\ (Acks(s) <=> AckedBy(c, s))
  BY <1>1, <1>2, <1>4, AfterAckIs, Zenon
<1>6. PICK fin, waits, n, st, c2 :
        /\ fin = ("FIN" \in s.flags)
        /\ waits = (c.st \in {"FIN_WAIT_1", "FIN_WAIT_2"})
        /\ n = (IF waits THEN N(s) + (IF fin THEN 1 ELSE 0) ELSE 0)
        /\ st = (CASE c.st = "LAST_ACK" -> IF Acks(s) THEN "CLOSED" ELSE c.st
                   [] c.st = "FIN_WAIT_1" -> IF fin THEN IF Acks(s) THEN "TIME_WAIT" ELSE "CLOSING"
                                             ELSE IF Acks(s) THEN "FIN_WAIT_2" ELSE c.st
                   [] c.st = "FIN_WAIT_2" -> IF fin THEN "TIME_WAIT" ELSE c.st
                   [] c.st = "CLOSING" -> IF Acks(s) THEN "TIME_WAIT" ELSE c.st
                   [] OTHER -> c.st)
        /\ c2 = [a EXCEPT !.st = st, !.rcv_nxt = uip_add32(@, n),
                          !.tmr = IF st = "TIME_WAIT" /\ c.st # st THEN 0 ELSE @]
  OBVIOUS
<1>7. conn' = c2 /\ (Quiet \/ toPeer' = InFlight(toPeer, Out(c2, {"ACK"}, <<>>)))
  BY <1>1, <1>4, <1>6, Zenon DEF InClosing, Send
<1>8. /\ st \in {"CLOSED"} \cup AfterClose
      /\ st \in {"LAST_ACK", "FIN_WAIT_1", "CLOSING"} =>
           ~Acks(s) /\ c.st \in {"LAST_ACK", "FIN_WAIT_1", "CLOSING"}
      /\ st = "LAST_ACK" => c.st = "LAST_ACK"
  BY <1>2, <1>6 DEF AfterClose
<1>9. n \in Int
  <2>1. PICK m \in Nat, f \in Nat : m = N(s) /\ f = IF fin THEN 1 ELSE 0
    BY <1>2, NumOf
  <2>2. n = IF waits THEN m + f ELSE 0
    BY <1>6, <2>1
  <2> QED BY <2>2
<1>10. a \in TcpRecords /\ a.rcv_nxt \in Int /\ a.tmr \in Int /\ a.listening = c.listening
  BY <1>5, ConnTypes DEF AckLeaves
<1>11. PICK rn \in Int : rn = uip_add32(a.rcv_nxt, n)
  BY <1>9, <1>10, Add32Int
<1>12. PICK tm \in Int : tm = IF st = "TIME_WAIT" /\ c.st # st THEN 0 ELSE a.tmr
  BY <1>10
<1>13. PICK sv \in ConnStates : sv = st
  BY <1>8 DEF ConnStates
<1>14. PICK d : d = [a EXCEPT !.st = sv, !.rcv_nxt = rn, !.tmr = tm] /\ d = c2
  BY <1>6, <1>11, <1>12, <1>13, Zenon
<1>15. d \in TcpRecords /\ d.st = sv /\ d.snd_nxt = a.snd_nxt /\ d.listening = a.listening
  BY <1>10, <1>14 DEF TcpRecords
<1>16. ~c.listening /\ Met(p) /\ c.st \in AfterClose
  BY <1>2 DEF ConnFits, AfterClose
<1>17. EndedBy(d) /\ ~d.listening
  BY <1>8, <1>10, <1>13, <1>15, <1>16 DEF EndedBy
<1>18. d.st \in {"LAST_ACK", "FIN_WAIT_1", "CLOSING"} => d.snd_nxt = OurAt(gv + 1)
  BY <1>2, <1>5, <1>8, <1>13, <1>15 DEF AckLeaves, ConnFits
<1>19. d.st = "LAST_ACK" => p.fin /\ Len(gt) = p.sent
  BY <1>2, <1>8, <1>13, <1>15 DEF ConnFits
<1>20. ConnFits(d, gv, ac, gt, p)
  <2>1. d.st \in {"CLOSED"} \cup AfterClose
    BY <1>8, <1>13, <1>15
  <2> QED BY <1>2, <1>15, <1>16, <1>17, <1>18, <1>19, <2>1 DEF ConnFits, AfterClose
<1>21. SentFits(d, gv, p)
  BY <1>7, <1>14, <1>15, NoneSent, AckSent
<1>22. Onward(c, gv, d, gv)
  <2>1. gv <= gv
    BY <1>2, SeqConsts
  <2> QED BY <1>17, <2>1 DEF Onward
<1> QED BY <1>1, <1>2, <1>3, <1>7, <1>14, <1>20, <1>21, <1>22, OursInv

LEMMA AbortSent ==
  ASSUME NEW c \in TcpRecords, NEW hv, NEW p, Send(c, {"RST", "ACK"})
  PROVE  \A d : SentFits(d, hv, p)
<1>1. {"RST", "ACK"} \in SUBSET Flags /\ "FIN" \notin {"RST", "ACK"} /\ {"RST", "ACK"} # {"SYN"}
      /\ {"RST", "ACK"} # {"SYN", "ACK"}
  BY DEF Flags
<1> QED BY <1>1, EmptySent DEF Send

LEMMA PollInv ==
  ASSUME TcpInv, Poll
  PROVE  KeepsTcp
<1>1. PICK c, gv, ac, gt, p : c = conn /\ gv = given /\ ac = acked /\ gt = got /\ p = peer
  OBVIOUS
<1>2. /\ ConnFits(c, gv, ac, gt, p) /\ c \in TcpRecords /\ c.st = "ESTABLISHED" /\ c.len = 0
      /\ gv \in 0..MaxApp /\ ac \in 0..gv /\ ac <= Len(p.got)
      /\ c.snd_nxt = OurAt(ac + 1) /\ ac + c.len = gv /\ ~c.listening /\ Met(p)
      /\ c.rcv_nxt = TheirAt(Len(gt) + 1) /\ IsBytes(gt) /\ Len(gt) <= p.sent
  BY <1>1 DEF TcpInv, Poll, MayPoll, ConnFits
<1>3. ac = acked' /\ gt = got' /\ peer' = peer /\ toUs' \subseteq toUs
  BY <1>1 DEF Poll
<1>4. ~EndedBy(c)
  BY <1>2 DEF EndedBy, AfterClose
<1>5. ac = gv /\ gv <= gv
  BY <1>2, SeqConsts
<1>6. PICK f \in BOOLEAN : f = FALSE
  OBVIOUS
<1>7. ASSUME NEW n \in CanGive, Appsend(c, n, {}) PROVE KeepsTcp
  <2>1. n \in Nat /\ gv + n <= MaxApp
    BY <1>1, <1>2, CanGiveFits
  <2>2. PICK fl : fl = {}
    OBVIOUS
  <2>3. Appsend(c, n, fl)
    BY <1>7, <2>2, Zenon
  <2> QED BY <1>1, <1>2, <1>3, <1>4, <2>1, <2>3, AppsendInv
<1>8. ASSUME Appsend([c EXCEPT !.stopped = FALSE], 0, {"NEWDATA"}) PROVE KeepsTcp
  <2>1. PICK d, fl : d = [c EXCEPT !.stopped = f] /\ fl = {"NEWDATA"}
    OBVIOUS
  <2>2. Appsend(d, 0, fl)
    BY <1>6, <1>8, <2>1, Zenon
  <2>3. d \in TcpRecords /\ d.st = c.st /\ d.snd_nxt = c.snd_nxt /\ d.rcv_nxt = c.rcv_nxt /\ d.listening = c.listening
        /\ d.len = c.len
    BY <1>2, <2>1 DEF TcpRecords
  <2>4. d.st = "ESTABLISHED" /\ ~d.listening /\ d.snd_nxt = OurAt(ac + 1) /\ ac + d.len = gv /\ d.rcv_nxt = TheirAt(Len(gt) + 1)
    BY <1>2, <2>3, Zenon
  <2>5. ConnFits(d, gv, ac, gt, p)
    BY <1>2, <2>3, <2>4, EstablishedFits
  <2>6. 0 \in Nat /\ ~(0 > 0) /\ gv + 0 <= MaxApp
    BY <1>2, SeqConsts
  <2> QED BY <1>1, <1>2, <1>3, <1>4, <2>2, <2>4, <2>5, <2>6, AppsendInv
<1>9. ASSUME conn' = [c EXCEPT !.st = "FIN_WAIT_1", !.len = 1, !.nrtx = 0, !.stopped = FALSE], given' = given,
             Send(conn', {"FIN", "ACK"})
      PROVE  KeepsTcp
  <2>1. PICK st \in ConnStates : st = "FIN_WAIT_1"
    BY DEF ConnStates, AfterClose
  <2>2. PICK l \in Nat : l = 1
    OBVIOUS
  <2>3. PICK z \in Int : z = 0
    OBVIOUS
  <2>4. PICK d : d = [c EXCEPT !.st = st, !.len = l, !.nrtx = z, !.stopped = f]
    OBVIOUS
  <2>5. d = conn' /\ toPeer' = InFlight(toPeer, Out(d, {"FIN", "ACK"}, <<>>))
    BY <1>6, <1>9, <2>1, <2>2, <2>3, <2>4, Zenon DEF Send
  <2>6. d \in TcpRecords /\ d.st = st /\ d.snd_nxt = c.snd_nxt /\ d.listening = c.listening
    BY <1>2, <2>4 DEF TcpRecords
  <2>7. d.st = "FIN_WAIT_1" /\ ~d.listening /\ EndedBy(d) /\ d.snd_nxt = OurAt(gv + 1)
    BY <1>2, <1>5, <2>1, <2>6 DEF EndedBy, AfterClose
  <2>8. ConnFits(d, gv, ac, gt, p)
    BY <1>2, <2>6, <2>7 DEF ConnFits, AfterClose
  <2>9. SentFits(d, gv, p)
    BY <2>5, <2>6, <2>7, FinSent
  <2>10. Onward(c, gv, d, gv)
    BY <1>5, <2>7 DEF Onward
  <2> QED BY <1>1, <1>2, <1>3, <1>9, <2>5, <2>8, <2>9, <2>10, OursInv
<1>10. ASSUME conn' = [c EXCEPT !.st = "CLOSED"], given' = given, Send(c, {"RST", "ACK"}) PROVE KeepsTcp
  <2>1. \A d : SentFits(d, given, p)
    BY <1>2, <1>10, AbortSent
  <2>2. UNCHANGED <<given, acked, got, peer>>
    BY <1>1, <1>3, <1>10
  <2> QED BY <1>1, <1>2, <1>3, <1>10, <2>1, <2>2, ClosedInv
<1> QED BY <1>1, <1>7, <1>8, <1>9, <1>10, Zenon DEF Poll

LEMMA RetransmitInv ==
  ASSUME TcpInv, Retransmit
  PROVE  KeepsTcp
<1>1. PICK c, gv, ac, gt, p : c = conn /\ gv = given /\ ac = acked /\ gt = got /\ p = peer
  OBVIOUS
<1>2. /\ ConnFits(c, gv, ac, gt, p) /\ c \in TcpRecords /\ c.st \notin {"CLOSED", "TIME_WAIT", "FIN_WAIT_2"}
      /\ gv \in 0..MaxApp /\ ac \in 0..gv /\ ~c.listening
  BY <1>1 DEF TcpInv, Retransmit, ConnFits
<1>3. UNCHANGED <<given, acked, got, peer>> /\ toUs' \subseteq toUs
  BY <1>1 DEF Retransmit
<1>4. ASSUME conn' = [c EXCEPT !.tmr = c.tmr - 1], Quiet PROVE KeepsTcp
  <2>1. PICK tm \in Int : tm = c.tmr - 1
    BY <1>2, ConnTypes
  <2>2. PICK d : d = [c EXCEPT !.tmr = tm]
    OBVIOUS
  <2>3. Unmoved(c, d)
    BY <1>2, <2>2 DEF Unmoved, TcpRecords
  <2>4. d = conn' /\ SentFits(d, given, p)
    BY <1>4, <2>1, <2>2, NoneSent
  <2> QED BY <1>1, <1>3, <2>3, <2>4, UnmovedInv
<1>5. ASSUME conn' = [c EXCEPT !.st = "CLOSED"], Send(c, {"RST", "ACK"}) PROVE KeepsTcp
  <2>1. \A d : SentFits(d, given, p)
    BY <1>2, <1>5, AbortSent
  <2> QED BY <1>1, <1>2, <1>3, <1>5, <2>1, ClosedInv
<1>6. ASSUME conn' = [c EXCEPT !.nrtx = IF @ < MaxRtx THEN @ + 1 ELSE @, !.tmr = Rto],
             \/ c.st = "SYN_RCVD" /\ Send(c, {"SYN", "ACK"})
             \/ c.st = "SYN_SENT" /\ Send(c, {"SYN"})
             \/ c.st = "ESTABLISHED" /\ SendData(c)
             \/ c.st \in {"LAST_ACK", "FIN_WAIT_1", "CLOSING"} /\ Send(c, {"FIN", "ACK"})
      PROVE  KeepsTcp
  <2>1. PICK nr \in Int : nr = IF c.nrtx < MaxRtx THEN c.nrtx + 1 ELSE c.nrtx
    <3>1. c.nrtx \in Int /\ MaxRtx \in Int
      BY <1>2, ConnTypes, Tcp6Assumption
    <3> QED BY <3>1
  <2>2. PICK tm \in Int : tm = Rto
    BY Tcp6Assumption
  <2>3. PICK d : d = [c EXCEPT !.nrtx = nr, !.tmr = tm]
    OBVIOUS
  <2>4. d = conn'
    BY <1>6, <2>1, <2>2, <2>3, Zenon
  <2>5. Unmoved(c, d)
    BY <1>2, <2>3 DEF Unmoved, TcpRecords
  <2>6. c.snd_nxt \in Int /\ c.rcv_nxt \in Int /\ Window(c) \in Nat /\ gv = given
    BY <1>1, <1>2, OutIs
  <2>7. SentFits(d, gv, p)
    <3>1. CASE c.st = "SYN_RCVD" /\ Send(c, {"SYN", "ACK"})
      <4>1. {"SYN", "ACK"} \in SUBSET Flags /\ "FIN" \notin {"SYN", "ACK"} /\ {"SYN", "ACK"} # {"SYN"}
        BY DEF Flags
      <4>2. c.snd_nxt = OurAt(0)
        BY <1>2, <3>1 DEF ConnFits
      <4> QED BY <1>2, <3>1, <4>1, <4>2, EmptySent DEF Send
    <3>2. CASE c.st = "SYN_SENT" /\ Send(c, {"SYN"})
      <4>1. PICK o : o = Out(c, {"SYN"}, <<>>)
        OBVIOUS
      <4>2. o = Seg({"SYN"}, c.snd_nxt, c.rcv_nxt, <<>>, Window(c))
        BY <1>2, <4>1, OutIs
      <4>3. c.snd_nxt = OurAt(0)
        BY <1>2, <3>2 DEF ConnFits
      <4>4. OutFits(o, d, gv, p)
        BY <2>6, <4>2, <4>3, SynOutFits
      <4> QED BY <3>2, <4>1, <4>4, OneSent DEF Send
    <3>3. CASE c.st = "ESTABLISHED" /\ SendData(c)
      <4>0. PICK l \in Nat : l = c.len
        BY <1>2, ConnTypes
      <4>1. PICK o : l = c.len /\ o = Out(c, {"ACK"}, Bytes(ac, l))
        BY <4>0
      <4>2. o = Seg({"ACK"}, c.snd_nxt, c.rcv_nxt, Bytes(ac, l), Window(c))
        BY <1>2, <4>1, OutIs
      <4>3. c.snd_nxt = OurAt(ac + 1) /\ ac + l = gv
        BY <1>2, <3>3, <4>1 DEF ConnFits
      <4>4. gv \in Nat /\ ac \in Nat /\ ac + l <= gv
        BY <1>2, <4>3, SeqConsts
      <4>5. OutFits(o, d, gv, p)
        BY <2>6, <4>2, <4>3, <4>4, DataOutFits
      <4>6. toPeer' = InFlight(toPeer, o)
        BY <1>1, <3>3, <4>1, Zenon DEF SendData
      <4> QED BY <4>5, <4>6, OneSent
    <3>4. CASE c.st \in {"LAST_ACK", "FIN_WAIT_1", "CLOSING"} /\ Send(c, {"FIN", "ACK"})
      <4>1. c.snd_nxt = OurAt(gv + 1)
        BY <1>2, <3>4 DEF ConnFits
      <4>2. EndedBy(d)
        BY <1>2, <2>5, <3>4 DEF EndedBy, Unmoved, AfterClose
      <4>3. PICK o : o = Out(c, {"FIN", "ACK"}, <<>>)
        OBVIOUS
      <4>4. o = Seg({"FIN", "ACK"}, c.snd_nxt, c.rcv_nxt, <<>>, Window(c))
        BY <1>2, <4>3, OutIs
      <4>5. OutFits(o, d, gv, p)
        BY <2>6, <4>1, <4>2, <4>4, FinOutFits
      <4> QED BY <3>4, <4>3, <4>5, OneSent DEF Send
    <3> QED BY <1>6, <3>1, <3>2, <3>3, <3>4
  <2>8. SentFits(d, given, p)
    BY <2>6, <2>7
  <2> QED BY <1>1, <1>3, <2>4, <2>5, <2>8, UnmovedInv
<1>7. CASE conn.tmr > 0
  BY <1>1, <1>4, <1>7 DEF Retransmit
<1>8. CASE ~(conn.tmr > 0) /\ GivenUp
  BY <1>1, <1>5, <1>8 DEF Retransmit
<1>9. CASE ~(conn.tmr > 0) /\ ~GivenUp
  <2>1. c.st \in {"SYN_RCVD", "SYN_SENT", "ESTABLISHED", "LAST_ACK", "FIN_WAIT_1", "CLOSING"}
    <3>1. c.st \in ConnStates
      BY <1>2, ConnTypes
    <3> QED BY <1>2, <3>1 DEF ConnStates, AfterClose
  <2>2. /\ conn' = [c EXCEPT !.nrtx = IF @ < MaxRtx THEN @ + 1 ELSE @, !.tmr = Rto]
        /\ CASE c.st = "SYN_RCVD" -> Send(c, {"SYN", "ACK"})
             [] c.st = "SYN_SENT" -> Send(c, {"SYN"})
             [] c.st = "ESTABLISHED" -> SendData(c)
             [] OTHER -> Send(c, {"FIN", "ACK"})
    BY <1>1, <1>9, Zenon DEF Retransmit
  <2>3. \/ c.st = "SYN_RCVD" /\ Send(c, {"SYN", "ACK"})
        \/ c.st = "SYN_SENT" /\ Send(c, {"SYN"})
        \/ c.st = "ESTABLISHED" /\ SendData(c)
        \/ c.st \in {"LAST_ACK", "FIN_WAIT_1", "CLOSING"} /\ Send(c, {"FIN", "ACK"})
    BY <2>1, <2>2
  <2> QED BY <1>6, <2>2, <2>3, Zenon
<1> QED BY <1>7, <1>8, <1>9

LEMMA WaitOverInv ==
  ASSUME TcpInv, WaitOver
  PROVE  KeepsTcp
<1>1. PICK c, gv, ac, gt, p : c = conn /\ gv = given /\ ac = acked /\ gt = got /\ p = peer
  OBVIOUS
<1>2. /\ ConnFits(c, gv, ac, gt, p) /\ c \in TcpRecords /\ c.st \in {"TIME_WAIT", "FIN_WAIT_2"}
      /\ gv \in 0..MaxApp /\ ~c.listening /\ ac <= Len(p.got)
  BY <1>1 DEF TcpInv, WaitOver, ConnFits
<1>3. gv = given' /\ ac = acked' /\ gt = got' /\ peer' = peer /\ toUs' \subseteq toUs /\ Quiet
  BY <1>1 DEF WaitOver, Quiet
<1>4. PICK tm \in Int : tm = c.tmr + 1
  BY <1>2, ConnTypes
<1>5. PICK st \in ConnStates : st = IF tm = TimeWait THEN "CLOSED" ELSE c.st
  BY <1>2, ConnTypes DEF ConnStates
<1>6. PICK d : d = [c EXCEPT !.tmr = tm, !.st = st]
  OBVIOUS
<1>7. d = conn'
  BY <1>1, <1>4, <1>5, <1>6, Zenon DEF WaitOver
<1>8. d \in TcpRecords /\ d.st = st /\ d.snd_nxt = c.snd_nxt /\ d.listening = c.listening
  BY <1>2, <1>6 DEF TcpRecords
<1>9. d.st \in {"CLOSED", "TIME_WAIT", "FIN_WAIT_2"} /\ ~d.listening /\ EndedBy(d)
  BY <1>2, <1>5, <1>8 DEF EndedBy, AfterClose
<1>10. ConnFits(d, gv, ac, gt, p)
  BY <1>2, <1>8, <1>9 DEF ConnFits, AfterClose
<1>11. SentFits(d, gv, p) /\ Onward(c, gv, d, gv)
  <2>1. gv <= gv
    BY <1>2, SeqConsts
  <2> QED BY <1>3, <1>9, <2>1, NoneSent DEF Onward
<1> QED BY <1>1, <1>2, <1>3, <1>7, <1>10, <1>11, OursInv

-----------------------------------------------------------------------------
LEMMA EmptyInFits ==
  ASSUME NEW fl \in SUBSET Flags, NEW sq \in Int, NEW ak \in Int, NEW wd \in Nat, NEW q, Reach(q) \in Nat,
         "FIN" \notin fl, "SYN" \in fl => sq = TheirAt(0), "ACK" \in fl => Met(q) /\ ak = OurAt(Reach(q) + 1)
  PROVE  InFits(Seg(fl, sq, ak, <<>>, wd), q)
<1>1. PICK r \in Nat : r = Reach(q)
  OBVIOUS
<1>2. PICK s : s = Seg(fl, sq, ak, <<>>, wd)
  OBVIOUS
<1>3. s \in Segments /\ s.flags = fl /\ s.seq = sq /\ s.ack = ak /\ s.data = <<>>
  BY <1>2 DEF Seg, Segments
<1>4. "ACK" \in s.flags => Met(q) /\ \E k \in 0..Reach(q) : s.ack = OurAt(k + 1)
  BY <1>1, <1>3
<1>5. InFits(s, q)
  BY <1>3, <1>4 DEF InFits
<1> QED BY <1>2, <1>5, Zenon

LEMMA OnePosted ==
  ASSUME NEW m, NEW q, toUs' = Incoming(m), InFits(m, q)
  PROVE  Posts(q)
  BY DEF Posts, Incoming

LEMMA NonePosted ==
  ASSUME NEW q, toUs' \subseteq toUs
  PROVE  Posts(q)
  BY DEF Posts

\* The record of the peer after a step.
LEMMA PeerTypes ==
  ASSUME NEW p \in PeerRecords
  PROVE  /\ p.rcv \in Int /\ p.una \in Nat /\ p.sent \in Nat /\ p.sent \in 0..MaxPeer /\ p.fin \in BOOLEAN
         /\ p.eof \in BOOLEAN /\ p.got \in Seq(Nat)
<1>1. PICK M : M = 0..MaxPeer
  OBVIOUS
<1>2. /\ p.rcv \in Int /\ p.una \in Nat /\ p.sent \in M /\ p.fin \in BOOLEAN
      /\ p.eof \in BOOLEAN /\ p.got \in Seq(Nat)
  BY <1>1 DEF PeerRecords
<1> QED BY <1>1, <1>2

PeerStates == {"idle", "syn", "answered", "est", "dead"}
IsMoved(q, p, st, rv) ==
    /\ q \in PeerRecords /\ q.st = st /\ q.rcv = rv /\ q.una = p.una /\ q.sent = p.sent /\ q.fin = p.fin
    /\ q.eof = p.eof /\ q.got = p.got
LEMMA PeerMoved ==
  ASSUME NEW p \in PeerRecords, NEW st, st \in PeerStates, NEW rv \in Int
  PROVE  IsMoved([p EXCEPT !.st = st, !.rcv = rv], p, st, rv) /\ [p EXCEPT !.st = st] = [p EXCEPT !.st = st, !.rcv = p.rcv]
<1>1. PICK q : q = [p EXCEPT !.st = st, !.rcv = rv]
  OBVIOUS
<1>2. IsMoved(q, p, st, rv)
  <2>1. PICK M : M = 0..MaxPeer
    OBVIOUS
  <2> QED BY <1>1, <2>1 DEF PeerRecords, IsMoved, PeerStates
<1>3. [p EXCEPT !.st = st] = [p EXCEPT !.st = st, !.rcv = p.rcv]
  BY DEF PeerRecords
<1> QED BY <1>1, <1>2, <1>3, Zenon

LEMMA SameGrows ==
  ASSUME NEW p \in PeerRecords, NEW q, NEW st, NEW rv, IsMoved(q, p, st, rv), Met(p) => st \notin {"idle", "syn"}
  PROVE  Grows(p, q) /\ Reach(q) = Reach(p)
<1>1. Reach(q) = Reach(p)
  BY Zenon DEF Reach, IsMoved
<1>2. PICK a \in Nat, b \in Nat, r \in Nat : a = p.sent /\ b = Len(p.got) /\ r = Reach(p)
  BY PeerCounts
<1>3. q.sent = a /\ Len(q.got) = b /\ a <= a /\ b <= b /\ r <= r
  BY <1>2 DEF IsMoved
<1> QED BY <1>1, <1>2, <1>3 DEF Grows, Met, IsMoved

LEMMA PeerOpensInv ==
  ASSUME TcpInv, PeerOpens
  PROVE  KeepsTcp
<1>1. PICK c, gv, p, q : c = conn /\ gv = given /\ p = peer /\ q = peer'
  OBVIOUS
<1>2. PeerFits(p, c, gv) /\ p \in PeerRecords /\ p.st \in {"idle", "syn"} /\ gv \in Nat
  BY <1>1 DEF TcpInv, PeerFits, PeerOpens, ConnFits
<1>3. "syn" \in PeerStates /\ p.rcv \in Int
  BY <1>2, PeerTypes DEF PeerStates
<1>4. q = [p EXCEPT !.st = "syn", !.rcv = p.rcv]
  BY <1>1, <1>2, <1>3, PeerMoved DEF PeerOpens
<1>5. IsMoved(q, p, "syn", p.rcv)
  BY <1>2, <1>3, <1>4, PeerMoved, Zenon
<1>6. Grows(p, q) /\ Reach(q) = Reach(p) /\ Reach(q) \in Nat
  <2>1. ~Met(p)
    BY <1>2 DEF Met
  <2>2. Grows(p, q) /\ Reach(q) = Reach(p)
    BY <1>2, <1>5, <2>1, SameGrows
  <2> QED BY <1>2, <2>2, PeerCounts
<1>7. PeerFits(q, c, gv)
  BY <1>2, <1>5 DEF PeerFits, IsMoved
<1>8. Posts(q)
  <2>2. PICK m : m = Seg({"SYN"}, PeerIss, 0, <<>>, Mss)
    OBVIOUS
  <2>3. {"SYN"} \in SUBSET Flags /\ "FIN" \notin {"SYN"} /\ "ACK" \notin {"SYN"}
    BY DEF Flags
  <2>4. PeerIss \in Int /\ 0 \in Int /\ Mss \in Nat /\ PeerIss = TheirAt(0)
    BY SeqConsts, FirstAt
  <2>5. InFits(m, q)
    BY <1>6, <2>2, <2>3, <2>4, EmptyInFits
  <2>6. toUs' = Incoming(m)
    BY <2>2 DEF PeerOpens
  <2> QED BY <2>5, <2>6, OnePosted
<1>9. Ours /\ toPeer' \subseteq toPeer
  BY DEF PeerOpens
<1> QED BY <1>1, <1>6, <1>7, <1>8, <1>9, PeersInv

\* The peer answers with what it has.
LEMMA AckPosted ==
  ASSUME NEW q \in PeerRecords, NEW sq \in Int, NEW fl, fl \in {{"ACK"}, {"RST", "ACK"}, {"SYN", "ACK"}}, NEW wd \in Nat,
         toUs' = Incoming(Seg(fl, sq, q.rcv, <<>>, wd)), Met(q), q.rcv = OurAt(Reach(q) + 1),
         "SYN" \in fl => sq = TheirAt(0)
  PROVE  Posts(q)
<1>1. PICK m : m = Seg(fl, sq, q.rcv, <<>>, wd)
  OBVIOUS
<1>2. fl \in SUBSET Flags /\ "FIN" \notin fl
  BY DEF Flags
<1>3. Reach(q) \in Nat /\ q.rcv \in Int
  BY PeerCounts, PeerTypes
<1>4. InFits(m, q)
  BY <1>1, <1>2, <1>3, EmptyInFits
<1> QED BY <1>1, <1>4, OnePosted

LEMMA PeerSeqOf ==
  ASSUME NEW n \in Nat, n <= MaxPeer + 1
  PROVE  PeerSeq(n) = TheirAt(n + 1) /\ PeerSeq(n) \in Int
<1>1. PICK mx \in Nat, M \in Nat \ {0} : mx = MaxPeer /\ M = SeqAll /\ mx + 2 < M
  BY SeqConsts
<1>2. n + 1 < M /\ n + 1 \in 0..(M - 1)
  BY <1>1
<1> QED BY <1>1, <1>2, PeerSeqIs, TheirsAt

LEMMA PeerAbortsInv ==
  ASSUME TcpInv, PeerAborts
  PROVE  KeepsTcp
<1>1. PICK c, gv, p, q : c = conn /\ gv = given /\ p = peer /\ q = peer'
  OBVIOUS
<1>2. PeerFits(p, c, gv) /\ p \in PeerRecords /\ p.st = "est" /\ p.rcv = OurAt(Reach(p) + 1)
  BY <1>1 DEF TcpInv, PeerFits, PeerAborts
<1>3. "dead" \in PeerStates /\ p.rcv \in Int /\ p.sent \in Nat /\ p.sent \in 0..MaxPeer
  BY <1>2, PeerTypes DEF PeerStates
<1>4. q = [p EXCEPT !.st = "dead", !.rcv = p.rcv]
  BY <1>1, <1>2, <1>3, PeerMoved DEF PeerAborts
<1>5. IsMoved(q, p, "dead", p.rcv)
  BY <1>2, <1>3, <1>4, PeerMoved, Zenon
<1>6. Grows(p, q) /\ Reach(q) = Reach(p)
  BY <1>2, <1>5, SameGrows
<1>7. PeerFits(q, c, gv)
  BY <1>2, <1>5 DEF PeerFits, IsMoved
<1>8. Posts(q)
  <2>1. p.sent <= MaxPeer + 1
    BY <1>3, SeqConsts
  <2>2. PICK sq \in Int : sq = PeerSeq(p.sent)
    BY <1>3, <2>1, PeerSeqOf
  <2>3. toUs' = Incoming(Seg({"RST", "ACK"}, sq, q.rcv, <<>>, 0))
    BY <1>1, <2>2, Zenon DEF PeerAborts, Post
  <2>4. q \in PeerRecords /\ Met(q) /\ q.rcv = OurAt(Reach(q) + 1)
    BY <1>2, <1>5, <1>6 DEF IsMoved, Met
  <2>5. {"RST", "ACK"} \in {{"ACK"}, {"RST", "ACK"}, {"SYN", "ACK"}} /\ "SYN" \notin {"RST", "ACK"} /\ 0 \in Nat
    OBVIOUS
  <2> QED BY <2>2, <2>3, <2>4, <2>5, AckPosted
<1>9. Ours /\ toPeer' \subseteq toPeer
  BY DEF PeerAborts
<1> QED BY <1>1, <1>6, <1>7, <1>8, <1>9, PeersInv

LEMMA LostInv ==
  ASSUME TcpInv, Lost
  PROVE  KeepsTcp
<1>1. peer' = peer /\ Ours /\ toUs' \subseteq toUs /\ toPeer' \subseteq toPeer
  BY DEF Lost
<1>2. PICK p : p = peer /\ p \in PeerRecords
  BY DEF TcpInv, PeerFits
<1>3. PICK a \in Nat, b \in Nat, r \in Nat : a = p.sent /\ b = Len(p.got) /\ r = Reach(p)
  BY <1>2, PeerCounts
<1>4. a <= a /\ b <= b /\ r <= r
  OBVIOUS
<1>5. Grows(p, p)
  BY <1>3, <1>4, Zenon DEF Grows
<1>6. Posts(p)
  BY <1>1, NonePosted
<1>7. PeerFits(peer', conn, given) /\ Grows(peer, peer') /\ Posts(peer')
  BY <1>1, <1>2, <1>5, <1>6 DEF TcpInv
<1> QED BY <1>1, <1>7, PeersInv

LEMMA PeerSendsInv ==
  ASSUME TcpInv, NEW from, from \in {peer.una, peer.sent}, NEW n \in 0..Mss, NEW fin \in BOOLEAN,
         PeerSends(from, n, fin)
  PROVE  KeepsTcp
<1>1. PICK c, gv, p, q : c = conn /\ gv = given /\ p = peer /\ q = peer'
  OBVIOUS
<1>2. PeerFits(p, c, gv) /\ p \in PeerRecords /\ p.st = "est" /\ p.rcv = OurAt(Reach(p) + 1) /\ p.una <= p.sent
  BY <1>1 DEF TcpInv, PeerFits, PeerSends
<1>3. PICK mx \in Nat, ms \in Nat : mx = MaxPeer /\ ms = Mss
  BY SeqConsts
<1>4. PICK f \in Nat, l \in Nat, m \in Nat : f = from /\ l = n /\ m = p.sent /\ f <= m /\ m <= mx /\ f + l <= mx
  <2>1. p.una \in Nat /\ p.sent \in Nat /\ p.sent \in 0..mx
    BY <1>2, <1>3, PeerTypes
  <2>2. from + n <= mx /\ n \in Nat
    BY <1>1, <1>3 DEF PeerSends
  <2>3. from \in Nat /\ from <= p.sent
    BY <1>1, <1>2, <2>1
  <2> QED BY <2>1, <2>2, <2>3
<1>5. PICK z \in 0..MaxPeer : z = (IF f + l > m THEN f + l ELSE m) /\ m <= z /\ f + l <= z
  BY <1>3, <1>4
<1>6. (fin => f + l >= m) /\ (p.fin => f + l <= m)
  BY <1>1, <1>4 DEF PeerSends
<1>7. PICK e \in BOOLEAN : e = (p.fin \/ fin)
  BY <1>2, PeerTypes
<1>15. (f + l <= m => z = m) /\ (f + l >= m => z = f + l)
  BY <1>5
<1>16. (p.fin => e /\ z = m) /\ (fin => e /\ f + l = z)
  BY <1>6, <1>7, <1>15, Zenon
<1>8. q = [p EXCEPT !.sent = z, !.fin = e]
  BY <1>1, <1>4, <1>5, <1>7, Zenon DEF PeerSends
<1>9. /\ q \in PeerRecords /\ q.st = p.st /\ q.rcv = p.rcv /\ q.una = p.una /\ q.sent = z /\ q.fin = e
      /\ q.eof = p.eof /\ q.got = p.got
  <2>1. PICK M : M = 0..MaxPeer
    OBVIOUS
  <2>2. z \in M /\ PeerRecords = [st : PeerStates, rcv : Int, una : Nat, sent : M, fin : BOOLEAN, eof : BOOLEAN, got : Seq(Nat)]
    BY <2>1, Zenon DEF PeerRecords, PeerStates
  <2> QED BY <1>2, <1>8, <2>2
<1>10. Reach(q) = Reach(p)
  BY <1>9, Zenon DEF Reach
<1>11. Grows(p, q)
  <2>1. PICK b \in Nat, r \in Nat : b = Len(p.got) /\ r = Reach(p)
    BY <1>2, PeerCounts
  <2>2. b <= b /\ r <= r /\ p.sent <= q.sent
    BY <1>4, <1>5, <1>9
  <2>3. p.fin => q.fin /\ q.sent = p.sent
    BY <1>4, <1>9, <1>16, Zenon
  <2> QED BY <1>2, <1>9, <1>10, <2>1, <2>2, <2>3 DEF Grows, Met
<1>12. PeerFits(q, c, gv)
  <2>1. q.una <= q.sent
    <3>1. PICK u \in Nat : u = p.una /\ u <= m
      BY <1>2, <1>4, PeerTypes
    <3> QED BY <1>5, <1>9, <3>1
  <2> QED BY <1>2, <1>9, <1>10, <2>1 DEF PeerFits
<1>13. Posts(q)
  <2>1. f <= MaxPeer + 1
    BY <1>3, <1>4
  <2>2. PICK sq \in Int : sq = PeerSeq(f) /\ sq = TheirAt(f + 1)
    BY <2>1, PeerSeqOf
  <2>4. PICK fl : fl = IF fin THEN {"ACK", "FIN"} ELSE {"ACK"}
    OBVIOUS
  <2>5. PICK w \in PeerWnds : Post(fl, PeerSeq(from), Bytes(from, n), w)
    BY <2>4, Zenon DEF PeerSends
  <2>6. PICK b : b = Bytes(f, l)
    OBVIOUS
  <2>7. PICK s : s = Seg(fl, sq, q.rcv, b, w)
    OBVIOUS
  <2>8. toUs' = Incoming(s)
    BY <1>1, <1>4, <2>2, <2>5, <2>6, <2>7, Zenon DEF Post
  <2>9. b \in Seq(Nat) /\ Len(b) = l
    BY <2>6, BytesAre
  <2>10. q.rcv \in Int
    BY <1>9, PeerTypes
  <2>11. fl \in SUBSET Flags /\ "SYN" \notin fl /\ ("FIN" \in fl <=> fin)
    BY <2>4 DEF Flags
  <2>12. s \in Segments /\ s.flags = fl /\ s.seq = sq /\ s.ack = q.rcv /\ s.data = b
    <3>1. w \in Nat
      BY Tcp6Assumption
    <3> QED BY <2>7, <2>9, <2>10, <2>11, <3>1 DEF Seg, Segments
  <2>13. Met(q) /\ \E k \in 0..Reach(q) : s.ack = OurAt(k + 1)
    <3>1. PICK r \in Nat : r = Reach(q)
      BY <1>9, PeerCounts
    <3>2. r \in 0..Reach(q) /\ s.ack = OurAt(r + 1)
      BY <1>2, <1>9, <1>10, <2>12, <3>1
    <3> QED BY <1>2, <1>9, <3>2 DEF Met
  <2>14. \E g \in 0..q.sent : /\ s.seq = TheirAt(g + 1) /\ s.data = Bytes(g, Len(s.data))
                              /\ g + Len(s.data) <= q.sent
                              /\ "FIN" \in s.flags => q.fin /\ g + Len(s.data) = q.sent
    <3>1. f \in 0..q.sent /\ f + l <= q.sent
      BY <1>4, <1>5, <1>9
    <3>2. fin => q.fin /\ f + l = q.sent
      BY <1>9, <1>16, Zenon
    <3> QED BY <2>2, <2>6, <2>9, <2>11, <2>12, <3>1, <3>2
  <2>15. InFits(s, q)
    BY <2>11, <2>12, <2>13, <2>14, Zenon DEF InFits
  <2> QED BY <2>8, <2>15, OnePosted
<1>14. Ours /\ toPeer' \subseteq toPeer
  BY DEF PeerSends
<1> QED BY <1>1, <1>11, <1>12, <1>13, <1>14, PeersInv

LEMMA ChosenIn ==
  ASSUME NEW S, S # {}
  PROVE  (CHOOSE k \in S : TRUE) \in S
  OBVIOUS

\* How far the bytes of the peer are acknowledged stays in them.
LEMMA PeerUnaFits ==
  ASSUME NEW p \in PeerRecords, p = peer, p.una <= p.sent, NEW s
  PROVE  PeerUna(s) \in Nat /\ PeerUna(s) <= p.sent
<1>1. PICK u \in Nat, m \in Nat : u = p.una /\ m = p.sent /\ u <= m
  BY PeerTypes
<1> DEFINE new == {k \in peer.una .. peer.sent : s.ack = PeerSeq(k)}
<1>2. PeerUna(s) = IF new = {} THEN peer.una ELSE CHOOSE k \in new : TRUE
  BY Zenon DEF PeerUna
<1>3. \A v \in new : v \in Nat /\ v <= m
  BY <1>1
<1> HIDE DEF new
<1>4. CASE new = {}
  BY <1>1, <1>2, <1>4
<1>5. CASE new # {}
  <2>1. PeerUna(s) \in new
    BY <1>2, <1>5, ChosenIn, Zenon
  <2> QED BY <1>1, <1>3, <2>1
<1> QED BY <1>4, <1>5

LEMMA PeerSkipIs ==
  ASSUME NEW p, p = peer, NEW s
  PROVE  \/ PeerSkip(s) = -1
         \/ PeerSkip(s) \in 0..Len(s.data) /\ uip_add32(s.seq, PeerSkip(s)) = p.rcv
<1> DEFINE new == {j \in 0 .. Len(s.data) : uip_add32(s.seq, j) = peer.rcv}
<1>1. PeerSkip(s) = IF new = {} THEN -1 ELSE CHOOSE j \in new : TRUE
  BY Zenon DEF PeerSkip
<1>2. \A v \in new : v \in 0..Len(s.data) /\ uip_add32(s.seq, v) = p.rcv
  BY Zenon
<1> HIDE DEF new
<1>3. CASE new = {}
  BY <1>1, <1>3
<1>4. CASE new # {}
  <2>1. PeerSkip(s) \in new
    BY <1>1, <1>4, ChosenIn, Zenon
  <2> QED BY <1>2, <2>1, Zenon
<1> QED BY <1>3, <1>4

\* What is fresh in a segment of ours follows what the peer has.
FreshIs(p, gv, s, k, l, n) ==
    LET g == p.got \o SubSeq(SubSeq(s.data, k + 1, l), 1, n)
    IN  IsBytes(g) /\ Len(g) = Len(p.got) + n /\ Len(p.got) + n <= gv
LEMMA FreshFollows ==
  ASSUME NEW c, NEW gv \in 0..MaxApp, NEW p, NEW q, NEW s, OutFits(s, c, gv, q), p \in PeerRecords, IsBytes(p.got),
         Len(p.got) <= gv, ~p.eof, p.rcv = OurAt(Reach(p) + 1), NEW k \in 0..Len(s.data),
         uip_add32(s.seq, k) = p.rcv, NEW l, l = Len(s.data), NEW n \in 0..(l - k), s.data # <<>>
  PROVE  FreshIs(p, gv, s, k, l, n)
<1>1. PICK mx \in Nat, M \in Nat \ {0} : mx = MaxApp /\ M = SeqAll /\ mx + 2 < M
  BY SeqConsts
<1>2. PICK f \in 0..gv : s.seq = OurAt(f + 1) /\ s.data = Bytes(f, l) /\ f + l <= gv
  BY DEF OutFits
<1>3. l \in Nat
  BY DEF OutFits, Segments
<1>4. PICK h \in Nat : h = Len(p.got) /\ h <= gv
  BY PeerCounts
<1>5. Reach(p) = h
  <2>1. PICK e \in Nat : e = (IF p.eof THEN 1 ELSE 0) /\ e = 0
    OBVIOUS
  <2>2. Reach(p) = h + e
    BY <1>4, <2>1, Zenon DEF Reach
  <2> QED BY <1>4, <2>1, <2>2
<1>6. PICK a \in 0..(M - 1) : a = f + 1
  BY <1>1
<1>7. k \in 0..(M - 1) /\ a + k < M /\ a + k \in 0..(M - 1) /\ h + 1 \in 0..(M - 1)
  BY <1>1, <1>2, <1>3, <1>4, <1>6
<1>8. OurAt(a + k) = OurAt(h + 1)
  <2>1. uip_add32(OurAt(a), k) = OurAt(a + k)
    BY <1>1, <1>7, OursAt
  <2> QED BY <1>2, <1>5, <1>6, <2>1
<1>9. a + k = h + 1
  BY <1>1, <1>7, <1>8, OursAt
<1>10. f + k = h /\ h + n <= gv /\ k \in 0..l
  BY <1>2, <1>3, <1>4, <1>6, <1>9
<1>11. PICK b : b = SubSeq(SubSeq(s.data, k + 1, l), 1, n)
  OBVIOUS
<1>12. b = Bytes(h, n) /\ Len(SubSeq(s.data, k + 1, l)) = l - k
  <2>1. f \in Nat
    OBVIOUS
  <2>2. PartIs(f, l, k, n)
    BY <1>3, <1>10, <2>1, BytesPart, Zenon
  <2>3. SubSeq(SubSeq(s.data, k + 1, l), 1, n) = Bytes(f + k, n) /\ Len(SubSeq(s.data, k + 1, l)) = l - k
    BY <1>2, <2>2, Zenon DEF PartIs
  <2> QED BY <1>10, <1>11, <2>3
<1>13. n \in Nat /\ h + n \in Nat /\ 0 \in Nat
  BY <1>3, <1>4
<1>14. p.got \o b = Bytes(0, h + n)
  <2>1. Bytes(0, h) \o Bytes(0 + h, n) = Bytes(0, h + n)
    BY <1>13, BytesJoin
  <2>2. p.got = Bytes(0, h) /\ 0 + h = h
    BY <1>4 DEF IsBytes
  <2> QED BY <1>12, <2>1, <2>2
<1>15. PICK g : g = p.got \o b
  OBVIOUS
<1>16. IsBytes(g) /\ Len(g) = h + n
  <2>1. g = Bytes(0, h + n)
    BY <1>14, <1>15
  <2>2. g \in Seq(Nat) /\ Len(g) = h + n
    BY <1>13, <2>1, BytesAre
  <2> QED BY <2>1, <2>2 DEF IsBytes
<1>17. IsBytes(g) /\ Len(g) = Len(p.got) + n /\ Len(p.got) + n <= gv
  BY <1>4, <1>10, <1>16
<1> QED BY <1>11, <1>15, <1>17, Zenon DEF FreshIs

\* What the peer takes of a segment: fr is fresh in it, fin says that it has the FIN, and the
\* peer takes n bytes.
TakenFrom(g, p, c, gv, n, fin) ==
    /\ n \in Nat /\ IsBytes(g) /\ Len(g) = Len(p.got) + n /\ Len(p.got) + n <= gv
    /\ fin => n = 0 /\ Len(p.got) = gv /\ EndedBy(c) /\ ~p.eof
    /\ p.eof => n = 0

LEMMA NothingTaken ==
  ASSUME NEW c, NEW gv \in 0..MaxApp, NEW p \in PeerRecords, IsBytes(p.got), Len(p.got) <= gv,
         NEW fr, fr = <<>>, NEW n \in 0..Len(fr), NEW fin,
         fin => Len(p.got) = gv /\ EndedBy(c) /\ ~p.eof
  PROVE  TakenFrom(p.got \o SubSeq(fr, 1, n), p, c, gv, n, fin)
<1>1. n = 0
  OBVIOUS
<1>2. PICK q \in Seq(Nat) : q = p.got
  BY DEF IsBytes
<1>3. SubSeq(fr, 1, n) = <<>>
  BY <1>1
<1>7. q \o <<>> = q
  OBVIOUS
<1>4. p.got \o SubSeq(fr, 1, n) = p.got
  BY <1>2, <1>3, <1>7, Zenon
<1>5. PICK h \in Nat : h = Len(p.got) /\ h <= gv
  BY PeerCounts
<1>6. h + n = h /\ n \in Nat
  BY <1>1
<1> QED BY <1>1, <1>4, <1>5, <1>6 DEF TakenFrom

\* The hypotheses of PeerTakesBytes.
Reads(c, gv, p, q, s, sk, l, fr, fin) ==
  /\ gv \in 0..MaxApp /\ p = peer /\ p \in PeerRecords /\ OutFits(s, c, gv, q)
  /\ IsBytes(p.got) /\ Len(p.got) <= gv /\ p.rcv = OurAt(Reach(p) + 1) /\ sk = PeerSkip(s) /\ l = Len(s.data)
  /\ fr = (IF sk < 0 \/ p.eof THEN <<>> ELSE SubSeq(s.data, sk + 1, l))
  /\ fin = ("FIN" \in s.flags /\ sk = l /\ ~p.eof)

LEMMA PeerTakesBytes ==
  ASSUME NEW c, NEW gv, NEW p, NEW q, NEW s, NEW sk, NEW l, NEW fr, NEW fin, Reads(c, gv, p, q, s, sk, l, fr, fin),
         NEW n \in 0..Len(fr)
  PROVE  TakenFrom(p.got \o SubSeq(fr, 1, n), p, c, gv, n, fin)
<1>0. /\ gv \in 0..MaxApp /\ p = peer /\ p \in PeerRecords /\ OutFits(s, c, gv, q)
      /\ IsBytes(p.got) /\ Len(p.got) <= gv /\ p.rcv = OurAt(Reach(p) + 1) /\ sk = PeerSkip(s) /\ l = Len(s.data)
      /\ fr = (IF sk < 0 \/ p.eof THEN <<>> ELSE SubSeq(s.data, sk + 1, l))
      /\ fin = ("FIN" \in s.flags /\ sk = l /\ ~p.eof)
  BY Zenon DEF Reads
<1>1. PICK mx \in Nat, M \in Nat \ {0} : mx = MaxApp /\ M = SeqAll /\ mx + 2 < M
  BY SeqConsts
<1>2. l \in Nat /\ s.data \in Seq(Nat) /\ s \in Segments
  BY <1>0 DEF OutFits, Segments
<1>3. sk = -1 \/ (sk \in 0..l /\ uip_add32(s.seq, sk) = p.rcv)
  BY <1>0, PeerSkipIs
<1>4. CASE sk < 0 \/ p.eof
  <2>2. ~(l < 0)
    BY <1>0, <1>2
  <2>1. fr = <<>> /\ ~fin
    BY <1>0, <1>4, <2>2, Zenon
  <2> QED BY <1>0, <2>1, NothingTaken
<1>5. CASE ~(sk < 0 \/ p.eof) /\ s.data = <<>>
  <2>1. l = 0 /\ sk = 0 /\ uip_add32(s.seq, sk) = p.rcv
    BY <1>0, <1>3, <1>5
  <2>2. fr = <<>>
    BY <1>0, <1>5, <2>1
  <2>3. fin => Len(p.got) = gv /\ EndedBy(c) /\ ~p.eof
    <3> SUFFICES ASSUME fin PROVE Len(p.got) = gv /\ EndedBy(c) /\ ~p.eof
      OBVIOUS
    <3>1. "FIN" \in s.flags /\ ~p.eof
      BY <1>0
    <3>2. s.seq = OurAt(gv + 1) /\ EndedBy(c)
      BY <1>0, <3>1 DEF OutFits
    <3>3. PICK h \in Nat : h = Len(p.got) /\ h <= gv
      BY <1>0, PeerCounts
    <3>4. Reach(p) = h
      <4>1. PICK e \in Nat : e = (IF p.eof THEN 1 ELSE 0) /\ e = 0
        BY <1>0, <3>1
      <4>2. Reach(p) = h + e
        BY <1>0, <3>3, <4>1, Zenon DEF Reach
      <4> QED BY <1>0, <3>3, <4>1, <4>2
    <3>5. PICK a \in 0..(M - 1), b \in 0..(M - 1) : a = gv + 1 /\ b = h + 1
      BY <1>0, <1>1, <3>3
    <3>6. 0 \in 0..(M - 1) /\ a + 0 < M /\ a + 0 = a
      BY <1>0, <1>1
    <3>7. uip_add32(OurAt(a), 0) = OurAt(a)
      BY <1>0, <1>1, <3>6, OursAt
    <3>8. OurAt(a) = OurAt(b)
      BY <1>0, <2>1, <3>2, <3>4, <3>5, <3>7
    <3>9. a = b
      BY <1>0, <1>1, <3>8, OursAt
    <3> QED BY <1>0, <3>1, <3>2, <3>3, <3>5, <3>9
  <2> QED BY <1>0, <2>2, <2>3, NothingTaken
<1>6. CASE ~(sk < 0 \/ p.eof) /\ s.data # <<>>
  <2>1. sk \in 0..Len(s.data) /\ uip_add32(s.seq, sk) = p.rcv /\ fr = SubSeq(s.data, sk + 1, l) /\ ~p.eof
    <3>1. -1 < 0
      OBVIOUS
    <3> QED BY <1>0, <1>3, <1>6, <3>1, Zenon
  <2>2. ~fin
    BY <1>0, <1>6 DEF OutFits
  <2>3. Len(fr) = l - sk
    BY <1>0, <1>2, <2>1
  <2>4. n \in 0..(l - sk) /\ n \in Nat
    <3>1. n \in 0..(l - sk)
      BY <1>0, <2>3, Zenon
    <3>2. PICK d \in Int : d = l - sk
      BY <1>0, <1>2, <2>1
    <3> QED BY <1>0, <3>1, <3>2
  <2>5. PICK g : g = p.got \o SubSeq(fr, 1, n)
    OBVIOUS
  <2>6. IsBytes(g) /\ Len(g) = Len(p.got) + n /\ Len(p.got) + n <= gv
    <3>1. FreshIs(p, gv, s, sk, l, n)
      BY <1>0, <1>6, <2>1, <2>4, FreshFollows, Zenon
    <3> QED BY <1>0, <2>1, <2>5, <3>1, Zenon DEF FreshIs
  <2>7. TakenFrom(g, p, c, gv, n, fin)
    BY <1>0, <2>1, <2>2, <2>4, <2>6 DEF TakenFrom
  <2> QED BY <1>0, <2>5, <2>7
<1> QED BY <1>0, <1>4, <1>5, <1>6

LEMMA PeerGetsDataInv ==
  ASSUME TcpInv, NEW s \in toPeer, peer.st \in {"est", "answered"}, PeerGetsData(s), toPeer' \subseteq toPeer, Ours
  PROVE  KeepsTcp
<1>1. PICK c, gv, p, q : c = conn /\ gv = given /\ p = peer /\ q = peer'
  OBVIOUS
<1>2. /\ PeerFits(p, c, gv) /\ p \in PeerRecords /\ p.st \in {"est", "answered"} /\ p.rcv = OurAt(Reach(p) + 1)
      /\ p.una <= p.sent /\ gv \in 0..MaxApp /\ OutFits(s, c, gv, p) /\ IsBytes(p.got) /\ Len(p.got) <= gv
  BY <1>1 DEF TcpInv, PeerFits, ConnFits
<1>3. PICK sk, l : sk = PeerSkip(s) /\ l = Len(s.data)
  OBVIOUS
<1>4. PICK fr : fr = IF sk < 0 \/ p.eof THEN <<>> ELSE SubSeq(s.data, sk + 1, l)
  OBVIOUS
<1>5. PICK fin \in BOOLEAN : fin = ("FIN" \in s.flags /\ sk = l /\ ~p.eof)
  OBVIOUS
<1>6. PICK n \in 0..Len(fr) :
        /\ peer' = [peer EXCEPT !.una = PeerUna(s), !.got = @ \o SubSeq(fr, 1, n),
                                !.rcv = uip_add32(@, n + (IF fin THEN 1 ELSE 0)), !.eof = @ \/ fin,
                                !.st = "est"]
        /\ IF s.data # <<>> \/ fin \/ "SYN" \in s.flags
             THEN Post({"ACK"}, PeerSeq(peer.sent + (IF peer.fin THEN 1 ELSE 0)), <<>>, Mss) ELSE UNCHANGED toUs
  <2>1. PeerGetsData(s)
    OBVIOUS
  <2> QED BY <1>1, <1>3, <1>4, <1>5, <2>1, Zenon DEF PeerGetsData
<1>7. PICK g : g = p.got \o SubSeq(fr, 1, n)
  OBVIOUS
<1>8. TakenFrom(g, p, c, gv, n, fin)
  <2>1. TakenFrom(p.got \o SubSeq(fr, 1, n), p, c, gv, n, fin)
    <3>1. Reads(c, gv, p, p, s, sk, l, fr, fin)
      BY <1>1, <1>2, <1>3, <1>4, <1>5, Zenon DEF Reads
    <3> QED BY <1>6, <3>1, PeerTakesBytes, Zenon
  <2> QED BY <1>7, <2>1, Zenon
<1>9. PICK mx \in Nat, M \in Nat \ {0} : mx = MaxApp /\ M = SeqAll /\ mx + 2 < M
  BY SeqConsts
<1>10. PICK h \in Nat, k \in Nat, e \in Nat, j \in Nat :
         h = Len(p.got) /\ k = n /\ e = (IF p.eof THEN 1 ELSE 0) /\ j = IF fin THEN 1 ELSE 0
  BY <1>2, <1>8, PeerCounts DEF TakenFrom
<1>11. PICK eo \in BOOLEAN : eo = (p.eof \/ fin)
  BY <1>2, PeerTypes
<1>12. PICK x \in Nat : x = (IF eo THEN 1 ELSE 0) /\ x = e + j
  <2>1. PICK ef \in BOOLEAN : ef = p.eof
    BY <1>2, PeerTypes
  <2>2. eo = (ef \/ fin) /\ (fin => ~ef)
    BY <1>8, <1>11, <2>1, Zenon DEF TakenFrom
  <2>3. e = (IF ef THEN 1 ELSE 0) /\ j = (IF fin THEN 1 ELSE 0)
    BY <1>10, <2>1, Zenon
  <2>4. (IF eo THEN 1 ELSE 0) = e + j /\ e + j \in Nat
    BY <2>2, <2>3
  <2> QED BY <2>4
<1>13. Reach(p) = h + e
  BY <1>10, Zenon DEF Reach
<1>14. h + k <= gv /\ x <= 1 /\ j <= 1 /\ IsBytes(g) /\ Len(g) = h + k
  BY <1>8, <1>10, <1>12 DEF TakenFrom
<1>15. PICK rv \in Int : rv = uip_add32(p.rcv, n + (IF fin THEN 1 ELSE 0)) /\ rv = OurAt((h + k + x) + 1)
  <2>1. PICK a \in 0..(M - 1), b \in 0..(M - 1) : a = h + e + 1 /\ b = k + j /\ a + b < M /\ a + b = (h + k + x) + 1
    BY <1>2, <1>9, <1>12, <1>14
  <2>2. uip_add32(OurAt(a), b) = OurAt(a + b)
    BY <1>9, <2>1, OursAt
  <2>3. a + b \in 0..(M - 1)
    BY <2>1
  <2>4. OurAt(a + b) \in Int
    BY <1>9, <2>3, OursAt
  <2>5. b = n + (IF fin THEN 1 ELSE 0)
    BY <1>10, <2>1, Zenon
  <2>6. p.rcv = OurAt(a)
    BY <1>2, <1>13, <2>1
  <2> QED BY <2>1, <2>2, <2>4, <2>5, <2>6
<1>16. PICK u \in Nat : u = PeerUna(s) /\ u <= p.sent
  BY <1>1, <1>2, PeerUnaFits
<1>17. PICK st : st = "est"
  OBVIOUS
<1>18. q = [p EXCEPT !.una = u, !.got = g, !.rcv = rv, !.eof = eo, !.st = st]
  BY <1>1, <1>6, <1>7, <1>11, <1>15, <1>16, <1>17, Zenon
<1>19. /\ q \in PeerRecords /\ q.st = st /\ q.rcv = rv /\ q.una = u /\ q.sent = p.sent /\ q.fin = p.fin
       /\ q.eof = eo /\ q.got = g
  <2>1. PICK M0, S : M0 = 0..MaxPeer /\ S = PeerStates
    OBVIOUS
  <2>2. PeerRecords = [st : S, rcv : Int, una : Nat, sent : M0, fin : BOOLEAN, eof : BOOLEAN, got : Seq(Nat)]
    BY <2>1, Zenon DEF PeerRecords, PeerStates
  <2>3. st \in S /\ g \in Seq(Nat)
    BY <1>14, <1>17, <2>1 DEF PeerStates, IsBytes
  <2> QED BY <1>2, <1>18, <2>2, <2>3
<1>20. Reach(q) = h + k + x
  BY <1>12, <1>14, <1>19, Zenon DEF Reach
<1>21. Grows(p, q)
  <2>1. PICK m \in Nat : m = p.sent /\ m <= m
    BY <1>2, PeerTypes
  <2>2. h <= h + k /\ h + e <= h + k + x
    BY <1>12
  <2>3. Met(q)
    BY <1>17, <1>19 DEF Met
  <2> QED BY <1>10, <1>13, <1>14, <1>19, <1>20, <2>1, <2>2, <2>3, Zenon DEF Grows
<1>22. PeerFits(q, c, gv)
  <2>1. q.eof => EndedBy(c) /\ Len(q.got) = gv
    <3>1. CASE p.eof
      <4>1. EndedBy(c) /\ Len(p.got) = gv /\ n = 0
        BY <1>2, <1>8, <3>1 DEF PeerFits, TakenFrom
      <4> QED BY <1>10, <1>14, <1>19, <4>1
    <3>2. CASE fin
      <4>1. EndedBy(c) /\ Len(p.got) = gv /\ n = 0
        BY <1>8, <3>2 DEF TakenFrom
      <4> QED BY <1>10, <1>14, <1>19, <4>1
    <3> QED BY <1>11, <1>19, <3>1, <3>2
  <2>2. q.rcv = OurAt(Reach(q) + 1)
    BY <1>15, <1>19, <1>20
  <2>3. q.una <= q.sent /\ IsBytes(q.got) /\ Len(q.got) <= gv
    BY <1>14, <1>16, <1>19
  <2> QED BY <1>17, <1>19, <2>1, <2>2, <2>3 DEF PeerFits
<1>23. Posts(q)
  <2>1. CASE s.data # <<>> \/ fin \/ "SYN" \in s.flags
    <3>1. PICK v \in Nat : v = p.sent + (IF p.fin THEN 1 ELSE 0) /\ v <= MaxPeer + 1
      <4>1. PICK mp \in Nat, z \in Nat, y \in Nat :
              mp = MaxPeer /\ z = p.sent /\ z <= mp /\ y = (IF p.fin THEN 1 ELSE 0) /\ y <= 1
        BY <1>2, SeqConsts, PeerTypes
      <4>2. z + y \in Nat /\ z + y <= mp + 1
        BY <4>1
      <4> QED BY <4>1, <4>2, Zenon
    <3>2. PICK sq \in Int : sq = PeerSeq(v)
      BY <3>1, PeerSeqOf
    <3>3. PICK w \in Nat : w = Mss
      BY SeqConsts
    <3>4. toUs' = Incoming(Seg({"ACK"}, sq, q.rcv, <<>>, w))
      BY <1>1, <1>6, <2>1, <3>1, <3>2, <3>3, Zenon DEF Post
    <3>5. Met(q) /\ q.rcv = OurAt(Reach(q) + 1)
      BY <1>15, <1>17, <1>19, <1>20 DEF Met
    <3>6. {"ACK"} \in {{"ACK"}, {"RST", "ACK"}, {"SYN", "ACK"}} /\ "SYN" \notin {"ACK"}
      OBVIOUS
    <3> QED BY <1>19, <3>2, <3>3, <3>4, <3>5, <3>6, AckPosted
  <2>2. CASE ~(s.data # <<>> \/ fin \/ "SYN" \in s.flags)
    BY <1>6, <2>2, NonePosted
  <2> QED BY <2>1, <2>2
<1> QED BY <1>1, <1>21, <1>22, <1>23, PeersInv

LEMMA PeerTakesInv ==
  ASSUME TcpInv, NEW s \in toPeer, PeerTakes(s)
  PROVE  KeepsTcp
<1>1. PICK c, gv, p, q : c = conn /\ gv = given /\ p = peer /\ q = peer'
  OBVIOUS
<1>2. PeerFits(p, c, gv) /\ p \in PeerRecords /\ OutFits(s, c, gv, p) /\ s \in Segments /\ p.rcv \in Int
  <2>1. PeerFits(p, c, gv) /\ p \in PeerRecords /\ OutFits(s, c, gv, p)
    BY <1>1 DEF TcpInv, PeerFits
  <2> QED BY <2>1, PeerTypes DEF OutFits
<1>3. Ours /\ toPeer' \subseteq toPeer
  BY DEF PeerTakes
<1>4. ASSUME peer' = [peer EXCEPT !.st = "dead"], UNCHANGED toUs PROVE KeepsTcp
  <2>1. "dead" \in PeerStates
    BY DEF PeerStates
  <2>2. q = [p EXCEPT !.st = "dead", !.rcv = p.rcv]
    BY <1>1, <1>2, <1>4, <2>1, PeerMoved
  <2>3. IsMoved(q, p, "dead", p.rcv)
    BY <1>2, <2>1, <2>2, PeerMoved, Zenon
  <2>4. Grows(p, q) /\ Posts(q)
    BY <1>2, <1>4, <2>3, SameGrows, NonePosted
  <2>5. PeerFits(q, c, gv)
    BY <1>2, <2>3 DEF PeerFits, IsMoved
  <2> QED BY <1>1, <1>3, <2>4, <2>5, PeersInv
<1>5. ASSUME UNCHANGED <<peer, toUs>> PROVE KeepsTcp
  <2>1. PICK a \in Nat, b \in Nat, r \in Nat : a = p.sent /\ b = Len(p.got) /\ r = Reach(p)
    BY <1>2, PeerCounts
  <2>2. a <= a /\ b <= b /\ r <= r
    OBVIOUS
  <2>3. Grows(p, p)
    BY <2>1, <2>2, Zenon DEF Grows
  <2>4. Posts(p)
    BY <1>5, NonePosted
  <2>5. q = p
    BY <1>1, <1>5
  <2> QED BY <1>1, <1>2, <1>3, <2>3, <2>4, <2>5, PeersInv
\* A SYN, or a SYNACK, of ours: the peer knows where our bytes begin.
<1>6. ASSUME NEW st, st \in {"answered", "est"}, p.st \in {"idle", "syn", "answered"},
             peer' = [peer EXCEPT !.st = st, !.rcv = uip_add32(s.seq, 1)], s.seq = OurAt(0),
             NEW fl, NEW sq \in Int, fl \in {{"ACK"}, {"RST", "ACK"}, {"SYN", "ACK"}},
             "SYN" \in fl => sq = TheirAt(0), Post(fl, sq, <<>>, Mss)
      PROVE  KeepsTcp
  <2>1. PICK rv \in Int : rv = uip_add32(s.seq, 1) /\ rv = OurAt(1)
    <3>1. 1 \in 0..(SeqAll - 1)
      BY SeqConsts
    <3> QED BY <1>6, <3>1, SynAck, OursAt
  <2>2. st \in PeerStates
    BY <1>6 DEF PeerStates
  <2>3. IsMoved(q, p, st, rv)
    <3>1. q = [p EXCEPT !.st = st, !.rcv = rv]
      BY <1>1, <1>6, <2>1, Zenon
    <3> QED BY <1>2, <2>2, <3>1, PeerMoved, Zenon
  <2>4. p.got = <<>> /\ p.sent = 0 /\ ~p.fin /\ ~p.eof
    BY <1>2, <1>6 DEF PeerFits
  <2>5. Reach(p) = 0
    <3>1. PICK e \in Nat, l \in Nat : e = (IF p.eof THEN 1 ELSE 0) /\ e = 0 /\ l = Len(p.got) /\ l = 0
      BY <2>4
    <3>2. Reach(p) = l + e
      BY <3>1, Zenon DEF Reach
    <3> QED BY <3>1, <3>2
  <2>6. Grows(p, q) /\ Reach(q) = Reach(p)
    BY <1>2, <1>6, <2>3, SameGrows
  <2>7. q.rcv = OurAt(Reach(q) + 1) /\ Met(q)
    <3>1. Reach(q) + 1 = 1
      BY <2>5, <2>6
    <3> QED BY <1>6, <2>1, <2>3, <3>1 DEF IsMoved, Met
  <2>8. PeerFits(q, c, gv)
    BY <1>2, <2>3, <2>4, <2>7 DEF PeerFits, IsMoved
  <2>9. Posts(q)
    <3>1. PICK w \in Nat : w = Mss
      BY SeqConsts
    <3>2. toUs' = Incoming(Seg(fl, sq, q.rcv, <<>>, w)) /\ q \in PeerRecords
      BY <1>1, <1>6, <2>3, <3>1 DEF Post, IsMoved
    <3> QED BY <1>6, <2>7, <3>2, AckPosted
  <2> QED BY <1>1, <1>3, <2>6, <2>8, <2>9, PeersInv
<1>7. CASE /\ peer.st \in {"idle", "answered"} /\ s.flags = {"SYN"}
           /\ peer' = [peer EXCEPT !.st = "answered", !.rcv = uip_add32(s.seq, 1)]
           /\ Post({"SYN", "ACK"}, PeerIss, <<>>, Mss)
  <2>1. s.seq = OurAt(0)
    BY <1>2, <1>7 DEF OutFits
  <2>2. PeerIss \in Int /\ PeerIss = TheirAt(0)
    BY SeqConsts, FirstAt
  <2>3. {"SYN", "ACK"} \in {{"ACK"}, {"RST", "ACK"}, {"SYN", "ACK"}} /\ "answered" \in {"answered", "est"}
    OBVIOUS
  <2>4. p.st \in {"idle", "syn", "answered"}
    BY <1>1, <1>7
  <2> QED BY <1>6, <1>7, <2>1, <2>2, <2>3, <2>4, Zenon
<1>8. CASE /\ peer.st = "syn" /\ s.flags = {"SYN", "ACK"} /\ s.ack = PeerSeq(0)
           /\ peer' = [peer EXCEPT !.st = "est", !.rcv = uip_add32(s.seq, 1)]
           /\ Post({"ACK"}, PeerSeq(0), <<>>, Mss)
  <2>1. s.seq = OurAt(0)
    BY <1>1, <1>2, <1>8 DEF OutFits, Met
  <2>2. PICK sq \in Int : sq = PeerSeq(0)
    <3>1. 0 \in Nat /\ 0 <= MaxPeer + 1
      BY SeqConsts
    <3> QED BY <3>1, PeerSeqOf
  <2>3. {"ACK"} \in {{"ACK"}, {"RST", "ACK"}, {"SYN", "ACK"}} /\ "est" \in {"answered", "est"} /\ "SYN" \notin {"ACK"}
    OBVIOUS
  <2>4. p.st \in {"idle", "syn", "answered"}
    BY <1>1, <1>8
  <2>5. Post({"ACK"}, sq, <<>>, Mss)
    BY <1>8, <2>2, Zenon
  <2> QED BY <1>6, <1>8, <2>1, <2>2, <2>3, <2>4, <2>5, Zenon
<1>9. CASE peer.st \in {"est", "answered"} /\ PeerGetsData(s)
  BY <1>3, <1>9, PeerGetsDataInv
<1> QED BY <1>4, <1>5, <1>7, <1>8, <1>9, Zenon DEF PeerTakes

LEMMA Tcp6NextInv == TcpInv /\ Tcp6Next => KeepsTcp
<1> SUFFICES ASSUME TcpInv, Tcp6Next PROVE KeepsTcp
  OBVIOUS
<1>1. ASSUME NEW s \in toUs, \/ FoundNone(s) \/ GotReset(s) \/ GotOld(s) \/ InSynRcvd(s) \/ InSynSent(s)
                             \/ InEstablishedFin(s) \/ InEstablished(s) \/ InClosing(s)
      PROVE  KeepsTcp
  BY <1>1, FoundNoneInv, GotResetInv, GotOldInv, InSynRcvdInv, InSynSentInv, InEstablishedFinInv, InEstablishedInv,
     InClosingInv, Zenon
<1>2. ASSUME NEW from \in {peer.una, peer.sent}, NEW n \in 0 .. Mss, NEW fin \in BOOLEAN, PeerSends(from, n, fin)
      PROVE  KeepsTcp
  BY <1>2, PeerSendsInv, Zenon
<1> QED BY <1>1, <1>2, ConnectInv, PollInv, RetransmitInv, WaitOverInv, PeerTakesInv, PeerOpensInv, PeerAbortsInv, LostInv,
           Zenon DEF Tcp6Next

LEMMA Tcp6UnchangedInv == TcpInv /\ UNCHANGED tcp6Vars => TcpInv'
  BY Zenon DEF TcpInv, tcp6Vars

-----------------------------------------------------------------------------
LEMMA Tcp6Always == Tcp6Spec => []TcpInv
<1>1. TcpInv /\ [Tcp6Next]_tcp6Vars => TcpInv'
  BY Tcp6NextInv, Tcp6UnchangedInv DEF KeepsTcp
<1> QED BY <1>1, Tcp6InitInv, PTL DEF Tcp6Spec

\* What the client got so far stays, and the data of a segment follows it.
LEMMA GotStays == Tcp6Next => got' = got \/ \E s \in toUs : got' = got \o s.data
<1> SUFFICES ASSUME Tcp6Next PROVE got' = got \/ \E s \in toUs : got' = got \o s.data
  OBVIOUS
<1> USE DEF NoEvent, Tell, Ours
<1>1. ASSUME NEW s \in toUs, \/ FoundNone(s) \/ GotReset(s) \/ GotOld(s)
      PROVE  got' = got
  BY <1>1, Zenon DEF FoundNone, GotReset, GotOld
<1>2. ASSUME NEW s \in toUs, \/ InSynRcvd(s) \/ InSynSent(s) \/ InClosing(s)
      PROVE  got' = got \/ got' = got \o s.data
  <2>1. CASE InSynRcvd(s)
    BY <2>1, Zenon DEF InSynRcvd
  <2>2. CASE InSynSent(s)
    BY <2>2, Zenon DEF InSynSent
  <2>3. CASE InClosing(s)
    BY <2>3, Zenon DEF InClosing
  <2> QED BY <1>2, <2>1, <2>2, <2>3
<1>3. ASSUME NEW s \in toUs, \/ InEstablishedFin(s) \/ InEstablished(s)
      PROVE  got' = got \/ got' = got \o s.data
  <2>1. CASE InEstablishedFin(s)
    BY <2>1, Zenon DEF InEstablishedFin
  <2>2. CASE InEstablished(s)
    <3>1. got' = (IF N(s) > 0 /\ ~conn.stopped THEN got \o s.data ELSE got)
      BY <2>2, Zenon DEF InEstablished
    <3> QED BY <3>1, Zenon
  <2> QED BY <1>3, <2>1, <2>2
<1>4. ASSUME uip_connect \/ Poll \/ Retransmit \/ WaitOver PROVE got' = got
  BY <1>4, Zenon DEF uip_connect, Poll, Retransmit, WaitOver
<1>5. ASSUME NEW s \in toPeer, PeerTakes(s) PROVE got' = got
  BY <1>5, Zenon DEF PeerTakes
<1>6. ASSUME PeerOpens \/ PeerAborts \/ Lost PROVE got' = got
  BY <1>6, Zenon DEF PeerOpens, PeerAborts, Lost
<1>7. ASSUME NEW from \in {peer.una, peer.sent}, NEW n \in 0 .. Mss, NEW fin \in BOOLEAN, PeerSends(from, n, fin)
      PROVE  got' = got
  BY <1>7, Zenon DEF PeerSends
<1> QED BY <1>1, <1>2, <1>3, <1>4, <1>5, <1>6, <1>7, Zenon DEF Tcp6Next

\* A step of a stream: v follows u, and b bytes are given where a were.
Streams(a, b, u, v) == IsPrefix(Bytes(0, a), Bytes(0, b)) /\ IsPrefix(u, v) /\ IsPrefix(v, Bytes(0, b))
LEMMA BytesStream ==
  ASSUME NEW a \in Nat, NEW b \in Nat, NEW u, NEW v, IsBytes(u), IsBytes(v), a <= b, Len(u) <= Len(v), Len(v) <= b
  PROVE  Streams(a, b, u, v)
<1>1. PICK m, n : m = Len(u) /\ n = Len(v) /\ u = Bytes(0, m) /\ v = Bytes(0, n) /\ m <= n /\ n <= b
  BY Zenon DEF IsBytes
<1>2. m \in Nat /\ n \in Nat
  BY <1>1 DEF IsBytes
<1>3. IsPrefix(Bytes(0, a), Bytes(0, b)) /\ IsPrefix(Bytes(0, m), Bytes(0, n)) /\ IsPrefix(Bytes(0, n), Bytes(0, b))
  BY <1>1, <1>2, BytesPrefix
<1> QED BY <1>1, <1>3, Zenon DEF Streams

LEMMA Tcp6Steps ==
  ASSUME TcpInv, TcpInv', Tcp6Next
  PROVE  ToPeerStream!StreamNext /\ ToAppStream!StreamNext
<1>1. PICK a, b, u, v, x, y, g, h : /\ a = given /\ b = given' /\ u = peer.got /\ v = peer'.got
                                    /\ x = peer.sent /\ y = peer'.sent /\ g = got /\ h = got'
  OBVIOUS
<1>2. a \in Nat /\ b \in Nat /\ IsBytes(u) /\ IsBytes(v) /\ Len(v) <= b /\ IsBytes(g) /\ IsBytes(h) /\ Len(h) <= y
  BY <1>1 DEF TcpInv, ConnFits, PeerFits
<1>3. x \in Nat /\ y \in Nat
  <2>1. peer \in PeerRecords /\ peer' \in PeerRecords
    BY DEF TcpInv, PeerFits
  <2> QED BY <1>1, <2>1, PeerCounts
<1>4. a <= b /\ x <= y /\ Len(u) <= Len(v)
  BY <1>1, Tcp6NextInv, Zenon DEF KeepsTcp
<1>5. Len(g) <= Len(h)
  <2>1. CASE h = g
    BY <1>2, <2>1 DEF IsBytes
  <2>2. CASE \E s \in toUs : h = g \o s.data
    <3>1. PICK s \in toUs : h = g \o s.data
      BY <2>2
    <3>2. PICK d \in Seq(Nat) : d = s.data
      BY DEF TcpInv, InFits, Segments
    <3>3. g \in Seq(Nat)
      BY <1>2 DEF IsBytes
    <3> QED BY <3>1, <3>2, <3>3
  <2> QED BY <1>1, <2>1, <2>2, GotStays
<1>6. Streams(a, b, u, v) /\ Streams(x, y, g, h)
  BY <1>2, <1>3, <1>4, <1>5, BytesStream
<1>7. ToPeerStream!StreamNext
  BY <1>1, <1>6, Zenon DEF Streams, ToPeerStream!StreamNext, ToPeerStream!IsPrefix, IsPrefix
<1>8. ToAppStream!StreamNext
  BY <1>1, <1>6, Zenon DEF Streams, ToAppStream!StreamNext, ToAppStream!IsPrefix, IsPrefix
<1> QED BY <1>7, <1>8

\* What the client is told about the connection is true of the peer (uip_process), for
\* every base of the sequence numbers, any segment size, number of repetitions and bytes,
\* over a network that loses, repeats and reorders segments: UIP_ACKDATA is only for bytes
\* that the peer has, and UIP_CLOSE by the peer only after all that it sent.
THEOREM ToldStaysTrue == Tcp6Spec => []ToldIsTrue
  BY Tcp6Always, TcpInvTold, PTL

\* TCP of uip6.c implements two byte streams, one each way, under the same conditions: no
\* byte is lost, repeated or out of its place, however segments are lost, repeated and
\* reordered and whatever part of one the peer takes.
THEOREM TcpImplementsStreams == Tcp6Spec => Tcp6Streams
<1>1. Tcp6Init => ToPeerStream!StreamInit /\ ToAppStream!StreamInit
  <2> SUFFICES ASSUME Tcp6Init PROVE ToPeerStream!StreamInit /\ ToAppStream!StreamInit
    OBVIOUS
  <2>1. Bytes(0, 0) = <<>>
    BY BytesAre
  <2>2. given = 0 /\ got = <<>> /\ peer.sent = 0 /\ peer.got = <<>>
    BY DEF Tcp6Init
  <2> QED BY <2>1, <2>2, Zenon DEF ToPeerStream!StreamInit, ToAppStream!StreamInit
<1>2. TcpInv /\ TcpInv' /\ [Tcp6Next]_tcp6Vars =>
        /\ [ToPeerStream!StreamNext]_<<Bytes(0, given), peer.got>>
        /\ [ToAppStream!StreamNext]_<<Bytes(0, peer.sent), got>>
  <2>1. CASE UNCHANGED tcp6Vars
    BY <2>1, Zenon DEF tcp6Vars
  <2>2. ASSUME TcpInv, TcpInv', Tcp6Next PROVE ToPeerStream!StreamNext /\ ToAppStream!StreamNext
    BY <2>2, Tcp6Steps
  <2> QED BY <2>1, <2>2, Zenon
<1> QED BY <1>1, <1>2, Tcp6Always, PTL DEF Tcp6Spec, Tcp6Streams, ToPeerStream!StreamSpec, ToAppStream!StreamSpec

=============================================================================
