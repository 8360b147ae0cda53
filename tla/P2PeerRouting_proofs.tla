------------------------ MODULE P2PeerRouting_proofs ------------------------
(***************************************************************************)
(* Why routing cannot loop, for any hubs, any links between them, in any   *)
(* order, up or down.  Each hop of a network makes Rank smaller: down the  *)
(* tree the address gets nearer, up the tree the hub gets shorter, and a   *)
(* hub goes up only with an address that is not below it.  A mount starts  *)
(* again in the network it leads to.                                       *)
(*                                                                         *)
(* HopBound is inductive once every queue is known to hold messages.  IInv *)
(* says what else they are: Fit for the hub that holds them and, on a      *)
(* wire, Sent.  A Fit message is Addressed, which gives RightHub, and      *)
(* Signed, so that what a hub passes on is what the gate at the other end  *)
(* asks for: GateHonest.                                                   *)
(*                                                                         *)
(* Conserved is not about one queue but about all of them: Single says     *)
(* that the copies of a posted letter, counted over every site, are one or *)
(* the letter has ended.  A step changes the counts at two sites at most,  *)
(* and the history by what they lose.  A site is a pump, one end of a      *)
(* connection, or the queue of a dialler's connection that is down, where  *)
(* mail waits for the next session.  Standing says that what ends as lost  *)
(* does so after a failure only.                                           *)
(*                                                                         *)
(* CastOnce needs a tree of hubs.  Until a hub takes it a cast is Whole,   *)
(* one copy like a letter; from then on it has Spread: a hub has one copy  *)
(* before it at most, none once it has handled one, and what it has came   *)
(* from the hub next to it on the only path from the first.  OneLive is    *)
(* what links that come and go leave of that path: of the sessions of two  *)
(* hubs the dialler lists one, the acceptor that one and older ones.       *)
(***************************************************************************)
EXTENDS P2PeerRouting, SequenceTheorems, FiniteSetTheorems, WellFoundedInduction, TLAPS

Kinds == {"App", "Ask", "Answer", "BCast", "UCast", "Exception"}

Messages ==
    [kind : Kinds, id : Mail, src : Addr, dst : Addr, scope : Addr \cup {NoAddr},
     att : {NoAddr} \cup (Addr \X Addr \X Addr), hops : Int, budget : Int]

\* The messages that have not come further than their address allows.
Near(h) == {m \in Messages : Closer(h, m)}

LinksOf(h) == {l \in Links : h \in Ends(l)}

\* A message is on its way to the hub its mail names, or back.
Addressed(m) ==
    /\ m.kind \notin {"Answer", "Exception"} => m.id.kind = m.kind /\ Named(m.src) = m.id.src
    /\ m.kind \in {"App", "Ask"} => Named(m.dst) = Named(m.id.dst)
    /\ m.kind = "Answer" =>
         m.id.kind = "Ask" /\ Named(m.dst) = m.id.src /\ Named(m.src) = Named(m.id.dst)
    /\ m.kind = "Exception" =>
         Named(m.dst) = m.id.src \/ (m.id.kind = "Ask" /\ Named(m.dst) = Named(m.id.dst))

\* An attestation says what the message says, and a hub above both signed it.
Genuine(m) ==
    m.att # NoAddr =>
      m.att[2] = m.src /\ m.att[3] = ScopeOrDestin(m) /\ IsRable(m.att[1], m.src)

\* Hub h answers for the source, or a hub before it did and the way is down.
Attested(m) == RelayAuth => m.att # NoAddr
Vouched(h, m) == IsRable(h, m.src) \/ (IsRable(h, m.dst) /\ Attested(m))

\* The kinds a gate may refuse: a request turned round, a cast up.
Turned == {"Answer", "UCast"}
Signed(h, m) == m.kind \in Turned \/ (Genuine(m) /\ Vouched(h, m))

\* What hub h may hold, and what it may have sent on a link.
Fit(h)     == {m \in Near(h) : Addressed(m) /\ Signed(h, m)}
Sent(l, h) == {m \in Fit(Peer(l, h)) :
                 m.kind \in Turned \/ GateAppMsgInbound(l, Peer(l, h), m)}

ConsInv == DOMAIN cons = Hubs /\ \A h \in Hubs : cons[h] \in Seq(LinksOf(h))
PumpInv == DOMAIN pump = Hubs /\ \A h \in Hubs : pump[h] \in Seq(Fit(h))
WireInv ==
    /\ DOMAIN wire = Links
    /\ \A l \in Links : /\ DOMAIN wire[l] = Ends(l)
                        /\ \A h \in Ends(l) : wire[l][h] \in Seq(Sent(l, h))
PendInv ==
    /\ down \subseteq Links /\ DOMAIN pend = Links
    /\ \A l \in Links : pend[l] \in Seq(Sent(l, l.dials))

IInv == ConsInv /\ PumpInv /\ WireInv /\ PendInv

-----------------------------------------------------------------------------
(* The algebra of addresses.                                               *)

LEMMA AddrLen == \A a \in Addr : Len(a) \in Nat /\ Len(a) > 0
  BY EmptySeq, LenProperties DEF Addr, NoAddr

\* A prefix that is not the address itself is shorter.
LEMMA PrefixShorter ==
    ASSUME NEW a \in Addr, NEW d \in Addr, IsRable(a, d), a # d
    PROVE  Len(a) < Len(d)
<1> SUFFICES ASSUME Len(a) = Len(d) PROVE FALSE
  BY AddrLen DEF IsRable, IsPrefix
<1>1. SubSeq(a, 1, Len(a)) = a /\ SubSeq(d, 1, Len(d)) = d
  BY SubSeqFull DEF Addr
<1> QED BY <1>1 DEF IsRable, IsPrefix

\* Prefixes of prefixes are prefixes.
LEMMA PrefixEntries ==
    ASSUME NEW a \in Addr, NEW d \in Addr
    PROVE  IsRable(a, d) <=> Len(a) <= Len(d) /\ \A i \in 1 .. Len(a) : a[i] = d[i]
<1>1. ASSUME Len(a) <= Len(d)
      PROVE  /\ Len(SubSeq(a, 1, Len(a))) = Len(a) /\ Len(SubSeq(d, 1, Len(a))) = Len(a)
             /\ SubSeq(a, 1, Len(a)) \in Seq(Hop) /\ SubSeq(d, 1, Len(a)) \in Seq(Hop)
             /\ \A i \in 1 .. Len(a) : SubSeq(a, 1, Len(a))[i] = a[i] /\ SubSeq(d, 1, Len(a))[i] = d[i]
  BY <1>1, AddrLen DEF Addr
<1>2. ASSUME Len(a) <= Len(d), \A i \in 1 .. Len(a) : a[i] = d[i]
      PROVE  SubSeq(a, 1, Len(a)) = SubSeq(d, 1, Len(a))
  BY <1>1, <1>2, SeqEqual
<1> QED BY <1>1, <1>2 DEF IsRable, IsPrefix

LEMMA PrefixTransitive ==
    ASSUME NEW a \in Addr, NEW b \in Addr, NEW d \in Addr, IsRable(a, b), IsRable(b, d)
    PROVE  IsRable(a, d)
BY PrefixEntries, AddrLen

LEMMA RankType == \A h, d \in Addr : Rank(h, d) \in Nat
  BY AddrLen, PrefixShorter DEF Rank

\* What the first pass of RouteP2PeerMsg tests makes the rank smaller.
LEMMA HopCloser ==
    ASSUME NEW h \in Addr, NEW c \in Addr, NEW d \in Addr, h # d,
           \/ c = d
           \/ IsChild(h, c) /\ IsRable(c, d)
           \/ IsChild(c, h) /\ ~IsRable(h, d)
    PROVE  Rank(c, d) < Rank(h, d)
<1>1. CASE c = d
  BY <1>1, AddrLen, PrefixShorter DEF Rank
<1>2. CASE IsChild(h, c) /\ IsRable(c, d)
  <2>1. IsRable(h, c) /\ h # c
    BY <1>2 DEF IsChild, IsStrictPrefix, IsRable
  <2>2. IsRable(h, d) /\ Len(h) < Len(c)
    BY <1>2, <2>1, PrefixTransitive, PrefixShorter
  <2> QED BY <1>2, <2>2, AddrLen, PrefixShorter DEF Rank
<1>3. CASE IsChild(c, h) /\ ~IsRable(h, d)
  <2>1. Len(c) < Len(h)
    BY <1>3, PrefixShorter DEF IsChild, IsStrictPrefix, IsRable
  <2> QED BY <1>3, <2>1, AddrLen DEF Rank
<1> QED BY <1>1, <1>2, <1>3

\* Among the places of its colons an address has a first and a last.
LEMMA LeastOf ==
    ASSUME NEW T, T \subseteq Nat, T # {}
    PROVE  \E i \in T : \A j \in T : i <= j
<1>1. PICK i \in T : \A j \in T : ~ <<j, i>> \in OpToRel(<, Nat)
  BY WFMin, NatLessThanWellFounded
<1>2. ASSUME NEW j \in T PROVE i <= j
  <2>1. i \in Nat /\ j \in Nat
    OBVIOUS
  <2>2. <<j, i>> \in Nat \X Nat /\ <<j, i>>[1] = j /\ <<j, i>>[2] = i
    BY <2>1
  <2>3. ASSUME j < i PROVE <<j, i>> \in OpToRel(<, Nat)
    BY <2>2, <2>3, Zenon DEF OpToRel
  <2>4. ~ (j < i)
    BY <1>1, <2>3, Zenon
  <2> QED BY <2>1, <2>4
<1> QED BY <1>2

LEMMA FirstColonIsFirst ==
    ASSUME NEW a \in Addr, HasVNet(a)
    PROVE  /\ FirstColon(a) \in Colons(a) /\ FirstColon(a) \in 2 .. Len(a)
           /\ a[FirstColon(a)][1] = Colon
           /\ \A j \in Colons(a) : FirstColon(a) <= j
<1>1. Colons(a) \subseteq Nat /\ Colons(a) # {}
  BY AddrLen DEF Colons, HasVNet
<1>2. \E i \in Colons(a) : \A j \in Colons(a) : i <= j
  BY <1>1, LeastOf
<1>3. FirstColon(a) \in Colons(a) /\ \A j \in Colons(a) : FirstColon(a) <= j
  BY <1>2 DEF FirstColon
<1> QED BY <1>3 DEF Colons

LEMMA LastColonIsLast ==
    ASSUME NEW a \in Addr, HasVNet(a)
    PROVE  /\ LastColon(a) \in 2 .. Len(a) /\ a[LastColon(a)][1] = Colon
           /\ \A j \in Colons(a) : j <= LastColon(a)
<1> DEFINE n == Len(a)
           T == {k \in Nat : n - k \in Colons(a)}
<1>1. n \in Nat /\ Colons(a) \subseteq 2 .. n /\ Colons(a) # {}
  BY AddrLen DEF Colons, HasVNet
<1>2. PICK c \in Colons(a) : TRUE
  BY <1>1
<1>3. n - c \in T
  <2>1. n - c \in Nat /\ n - (n - c) = c
    BY <1>1
  <2> QED BY <2>1
<1>4. PICK k \in T : \A j \in T : k <= j
  BY <1>3, LeastOf
<1>5. n - k \in Colons(a)
  OBVIOUS
<1>6. ASSUME NEW j \in Colons(a) PROVE j <= n - k
  <2>1. n - j \in Nat /\ n - (n - j) = j
    BY <1>1
  <2>2. k <= n - j
    BY <1>4, <2>1
  <2> QED BY <1>1, <2>2
<1>7. LastColon(a) \in Colons(a) /\ \A j \in Colons(a) : j <= LastColon(a)
  BY <1>5, <1>6 DEF LastColon
<1> QED BY <1>7 DEF Colons

LEMMA BoundedEntries ==
    ASSUME NEW b \in {Dot, Colon}, NEW a \in Seq(Hop), Len(a) > 0
    PROVE  /\ Bounded(b, a) \in Seq(Hop) /\ Len(Bounded(b, a)) = Len(a)
           /\ Bounded(b, a)[1] = <<b, a[1][2]>>
           /\ \A i \in 2 .. Len(a) : Bounded(b, a)[i] = a[i]
<1>1. Len(a) \in Nat /\ a # <<>> /\ a[1] \in Hop
  BY LenProperties, ElementOfSeq, EmptySeq
<1>2. /\ Tail(a) \in Seq(Hop) /\ Len(Tail(a)) = Len(a) - 1
      /\ \A i \in 1 .. Len(a) - 1 : Tail(a)[i] = a[i + 1]
  BY <1>1, HeadTailProperties
<1> DEFINE x == <<b, a[1][2]>>
<1>3. x \in Hop
  BY <1>1 DEF Hop
<1> HIDE DEF x
<1>4. <<x>> \in Seq(Hop) /\ Len(<<x>>) = 1 /\ <<x>>[1] = x
  BY <1>3
<1> DEFINE t == Tail(a)
<1> HIDE DEF t
<1>5. /\ <<x>> \o t \in Seq(Hop) /\ Len(<<x>> \o t) = 1 + Len(t)
      /\ \A i \in 1 .. 1 + Len(t) : (<<x>> \o t)[i] = IF i <= 1 THEN <<x>>[i] ELSE t[i - 1]
  BY <1>2, <1>4, ConcatProperties DEF t
<1>6. Bounded(b, a) = <<x>> \o t
  BY DEF Bounded, x, t
<1>7. Len(t) = Len(a) - 1 /\ \A i \in 1 .. Len(a) - 1 : t[i] = a[i + 1]
  BY <1>2 DEF t
<1>8. (<<x>> \o t)[1] = x
  BY <1>1, <1>4, <1>5, <1>7
<1>9. ASSUME NEW i \in 2 .. Len(a) PROVE (<<x>> \o t)[i] = a[i]
  <2>1. i \in 1 .. 1 + Len(t) /\ ~(i <= 1) /\ i - 1 \in 1 .. Len(a) - 1 /\ (i - 1) + 1 = i
    BY <1>1, <1>7
  <2> QED BY <1>5, <1>7, <2>1
<1> QED BY <1>1, <1>5, <1>6, <1>7, <1>8, <1>9 DEF x

\* p:s is p, then s behind a colon.
LEMMA WireSrcEntries ==
    ASSUME NEW p \in Addr, NEW s \in Addr
    PROVE  /\ VNetWireSrc(p, s) \in Addr /\ Len(VNetWireSrc(p, s)) = Len(p) + Len(s)
           /\ \A i \in 1 .. Len(p) : VNetWireSrc(p, s)[i] = p[i]
           /\ VNetWireSrc(p, s)[Len(p) + 1] = <<Colon, s[1][2]>>
           /\ \A i \in 2 .. Len(s) : VNetWireSrc(p, s)[Len(p) + i] = s[i]
<1> DEFINE b == Bounded(Colon, s)
           w == VNetWireSrc(p, s)
<1>1. /\ p \in Seq(Hop) /\ s \in Seq(Hop) /\ Len(p) \in Nat /\ Len(s) \in Nat
      /\ Len(p) > 0 /\ Len(s) > 0 /\ p[1][1] = Dot
  BY AddrLen DEF Addr
<1>2. /\ b \in Seq(Hop) /\ Len(b) = Len(s) /\ b[1] = <<Colon, s[1][2]>>
      /\ \A i \in 2 .. Len(s) : b[i] = s[i]
  BY <1>1, BoundedEntries
<1>3. w = p \o b
  BY DEF VNetWireSrc
<1> HIDE DEF b, w
<1>4. /\ p \o b \in Seq(Hop) /\ Len(p \o b) = Len(p) + Len(b)
      /\ \A i \in 1 .. Len(p) + Len(b) : (p \o b)[i] = IF i <= Len(p) THEN p[i] ELSE b[i - Len(p)]
  <2>1. p \in Seq(Hop) /\ b \in Seq(Hop)
    BY <1>1, <1>2
  <2> QED BY <2>1, ConcatProperties
<1>5. /\ w \in Seq(Hop) /\ Len(w) = Len(p) + Len(b)
      /\ \A i \in 1 .. Len(p) + Len(b) : w[i] = IF i <= Len(p) THEN p[i] ELSE b[i - Len(p)]
  BY <1>3, <1>4
<1>6. \A i \in 1 .. Len(p) : w[i] = p[i]
  BY <1>1, <1>2, <1>5
<1>7. ASSUME NEW i \in 1 .. Len(s) PROVE w[Len(p) + i] = b[i]
  <2>1. Len(p) + i \in 1 .. Len(p) + Len(b) /\ ~(Len(p) + i <= Len(p)) /\ (Len(p) + i) - Len(p) = i
    BY <1>1, <1>2
  <2> QED BY <1>5, <2>1
<1>8. w \in Addr
  <2>1. w # <<>>
    BY <1>1, <1>2, <1>5, EmptySeq
  <2>2. w[1][1] = Dot
    BY <1>1, <1>6
  <2> QED BY <1>5, <2>1, <2>2 DEF Addr, NoAddr
<1> QED BY <1>1, <1>2, <1>5, <1>6, <1>7, <1>8 DEF w

LEMMA WireSrcIsAddr ==
    ASSUME NEW p \in Addr, NEW s \in Addr
    PROVE  VNetWireSrc(p, s) \in Addr
BY WireSrcEntries

\* What an address is from its k-th hop on.
LEMMA InsideEntries ==
    ASSUME NEW d \in Addr, NEW k \in 1 .. Len(d)
    PROVE  /\ Inside(d, k) \in Addr /\ Len(Inside(d, k)) = Len(d) - k + 1
           /\ Inside(d, k)[1] = <<Dot, d[k][2]>>
           /\ \A i \in 2 .. Len(d) - k + 1 : Inside(d, k)[i] = d[k + i - 1]
<1> DEFINE n == Len(d)
           t == SubSeq(d, k, n)
<1>1. d \in Seq(Hop) /\ n \in Nat /\ n > 0
  BY AddrLen DEF Addr
<1>2. \A i \in 1 .. n : d[i] \in Hop
  BY <1>1, ElementOfSeq
<1>3. /\ t \in Seq(Hop) /\ Len(t) = n - k + 1
      /\ \A i \in 1 .. n - k + 1 : t[i] = d[k + i - 1]
  BY <1>1, <1>2, SubSeqProperties
<1> HIDE DEF t
<1>4. Len(t) > 0 /\ t[1] = d[k]
  <2>1. 1 \in 1 .. n - k + 1 /\ k + 1 - 1 = k
    BY <1>1
  <2> QED BY <1>1, <1>3, <2>1
<1>5. /\ Bounded(Dot, t) \in Seq(Hop) /\ Len(Bounded(Dot, t)) = Len(t)
      /\ Bounded(Dot, t)[1] = <<Dot, t[1][2]>>
      /\ \A i \in 2 .. Len(t) : Bounded(Dot, t)[i] = t[i]
  BY <1>3, <1>4, BoundedEntries
<1>6. Inside(d, k) = Bounded(Dot, t)
  BY DEF Inside, t
<1>7. Bounded(Dot, t) \in Addr
  BY <1>4, <1>5, EmptySeq DEF Addr, NoAddr
<1> QED BY <1>1, <1>3, <1>4, <1>5, <1>6, <1>7

LEMMA WireDstIsAddr ==
    ASSUME NEW h, NEW d \in Addr
    PROVE  VNetWireDst(h, d) \in Addr
<1>1. CASE HasVNet(d)
  <2>1. FirstColon(d) \in 1 .. Len(d)
    BY <1>1, FirstColonIsFirst, AddrLen
  <2> QED BY <2>1, InsideEntries DEF VNetWireDst, GetVNetAddr
<1>2. CASE ~HasVNet(d)
  BY <1>2 DEF VNetWireDst
<1> QED BY <1>1, <1>2

-----------------------------------------------------------------------------
(* The hub an address names.                                               *)

LEMMA InsideAll == \A d \in Addr : Inside(d, 1) = d
<1> SUFFICES ASSUME NEW d \in Addr PROVE Inside(d, 1) = d
  OBVIOUS
<1>1. d \in Seq(Hop) /\ Len(d) \in Nat /\ 1 \in 1 .. Len(d) /\ d[1][1] = Dot
  BY AddrLen DEF Addr
<1>2. d[1] \in Hop
  BY <1>1, ElementOfSeq
<1>3. d[1] = <<Dot, d[1][2]>>
  BY <1>1, <1>2 DEF Hop
<1>4. /\ Inside(d, 1) \in Seq(Hop) /\ Len(Inside(d, 1)) = Len(d)
      /\ Inside(d, 1)[1] = d[1] /\ \A i \in 2 .. Len(d) : Inside(d, 1)[i] = d[i]
  <2>1. /\ Inside(d, 1) \in Addr /\ Len(Inside(d, 1)) = Len(d) - 1 + 1
        /\ Inside(d, 1)[1] = <<Dot, d[1][2]>>
        /\ \A i \in 2 .. Len(d) - 1 + 1 : Inside(d, 1)[i] = d[1 + i - 1]
    BY <1>1, InsideEntries
  <2>2. \A i \in 2 .. Len(d) : i \in 2 .. Len(d) - 1 + 1 /\ 1 + i - 1 = i
    BY <1>1
  <2> QED BY <1>1, <1>3, <2>1, <2>2 DEF Addr
<1>5. \A i \in 1 .. Len(d) : Inside(d, 1)[i] = d[i]
  BY <1>1, <1>4
<1> QED BY <1>1, <1>4, <1>5, SeqEqual

\* The place where the network of the hub begins, in an address.
Begins(d, k) ==
    /\ k \in 1 .. Len(d) /\ (k = 1 \/ d[k][1] = Colon)
    /\ \A j \in k + 1 .. Len(d) : d[j][1] # Colon

LEMMA NamedBegins ==
    ASSUME NEW d \in Addr
    PROVE  \E k : Begins(d, k) /\ Named(d) = Inside(d, k)
<1>1. Len(d) \in Nat /\ Len(d) > 0
  BY AddrLen
<1>2. CASE HasVNet(d)
  <2> DEFINE k == LastColon(d)
  <2>1. k \in 2 .. Len(d) /\ d[k][1] = Colon /\ \A j \in Colons(d) : j <= k
    BY <1>2, LastColonIsLast
  <2> HIDE DEF k
  <2>2. \A j \in k + 1 .. Len(d) : d[j][1] # Colon
    BY <1>1, <2>1 DEF Colons
  <2>3. Begins(d, k)
    BY <1>1, <2>1, <2>2 DEF Begins
  <2>4. Named(d) = Inside(d, k)
    BY <1>2 DEF Named, k
  <2> QED BY <2>3, <2>4
<1>3. CASE ~HasVNet(d)
  <2>1. Begins(d, 1)
    BY <1>1, <1>3 DEF Begins, HasVNet, Colons
  <2>2. Named(d) = Inside(d, 1)
    BY <1>3, InsideAll DEF Named
  <2> QED BY <2>1, <2>2
<1> QED BY <1>2, <1>3

LEMMA BeginsNamed ==
    ASSUME NEW d \in Addr, NEW k, Begins(d, k)
    PROVE  Named(d) = Inside(d, k)
<1>1. PICK m : Begins(d, m) /\ Named(d) = Inside(d, m)
  BY NamedBegins
<1>2. Len(d) \in Nat /\ Len(d) > 0
  BY AddrLen
<1>3. k = m
  BY <1>1, <1>2 DEF Begins
<1> QED BY <1>1, <1>3

LEMMA NamedIsPlain ==
    ASSUME NEW d \in Addr
    PROVE  Named(d) \in Addr /\ ~HasVNet(Named(d))
<1>1. PICK k : Begins(d, k) /\ Named(d) = Inside(d, k)
  BY NamedBegins
<1>2. Len(d) \in Nat /\ k \in 1 .. Len(d)
  BY <1>1, AddrLen DEF Begins
<1>3. /\ Inside(d, k) \in Addr /\ Len(Inside(d, k)) = Len(d) - k + 1
      /\ \A i \in 2 .. Len(d) - k + 1 : Inside(d, k)[i] = d[k + i - 1]
  BY <1>2, InsideEntries
<1>4. ASSUME NEW i \in 2 .. Len(d) - k + 1 PROVE Inside(d, k)[i][1] # Colon
  <2>1. k + i - 1 \in k + 1 .. Len(d)
    BY <1>2
  <2> QED BY <1>1, <1>3, <2>1 DEF Begins
<1> QED BY <1>1, <1>3, <1>4 DEF HasVNet, Colons

LEMMA PlainIsNamed ==
    ASSUME NEW d \in Addr, ~HasVNet(d)
    PROVE  Named(d) = d
BY DEF Named

\* Behind a qualifier the same hub is named.
LEMMA NamedWireSrc ==
    ASSUME NEW p \in Addr, NEW s \in Addr
    PROVE  Named(VNetWireSrc(p, s)) = Named(s)
<1> DEFINE w == VNetWireSrc(p, s)
           n == Len(p)
<1>1. PICK k : Begins(s, k) /\ Named(s) = Inside(s, k)
  BY NamedBegins
<1>2. /\ n \in Nat /\ Len(s) \in Nat /\ n > 0 /\ k \in 1 .. Len(s)
  BY <1>1, AddrLen DEF Begins
<1>3. /\ w \in Addr /\ Len(w) = n + Len(s) /\ w[n + 1] = <<Colon, s[1][2]>>
      /\ \A i \in 2 .. Len(s) : w[n + i] = s[i]
  BY WireSrcEntries
<1> HIDE DEF w, n
<1>4. ASSUME NEW i \in 1 .. Len(s) PROVE w[n + i][2] = s[i][2]
  <2>1. CASE i = 1
    BY <1>3, <2>1
  <2>2. CASE i # 1
    <3>1. i \in 2 .. Len(s)
      BY <1>2, <2>2
    <3> QED BY <1>3, <3>1
  <2> QED BY <2>1, <2>2
<1>5. w[n + k][1] = Colon
  BY <1>1, <1>2, <1>3 DEF Begins
<1>6. ASSUME NEW j \in n + k + 1 .. Len(w) PROVE w[j][1] # Colon
  <2>1. j - n \in k + 1 .. Len(s) /\ j - n \in 2 .. Len(s) /\ n + (j - n) = j
    BY <1>2, <1>3
  <2> QED BY <1>1, <1>3, <2>1 DEF Begins
<1>7. Begins(w, n + k)
  BY <1>2, <1>3, <1>5, <1>6 DEF Begins
<1>8. Named(w) = Inside(w, n + k)
  BY <1>3, <1>7, BeginsNamed
<1>9. Inside(w, n + k) = Inside(s, k)
  <2> DEFINE e == Inside(w, n + k)
             f == Inside(s, k)
  <2>0. n + k \in 1 .. Len(w)
    BY <1>2, <1>3
  <2>1. /\ e \in Addr /\ Len(e) = Len(w) - (n + k) + 1 /\ e[1] = <<Dot, w[n + k][2]>>
        /\ \A i \in 2 .. Len(w) - (n + k) + 1 : e[i] = w[n + k + i - 1]
    BY <1>3, <2>0, InsideEntries
  <2>2. /\ f \in Addr /\ Len(f) = Len(s) - k + 1 /\ f[1] = <<Dot, s[k][2]>>
        /\ \A i \in 2 .. Len(s) - k + 1 : f[i] = s[k + i - 1]
    BY <1>2, InsideEntries
  <2> HIDE DEF e, f
  <2>3. Len(e) = Len(f) /\ Len(e) \in Nat
    BY <1>2, <1>3, <2>1, <2>2
  <2>4. e[1] = f[1]
    BY <1>2, <1>4, <2>1, <2>2
  <2>5. ASSUME NEW i \in 2 .. Len(e) PROVE e[i] = f[i]
    <3>1. i \in 2 .. Len(w) - (n + k) + 1 /\ i \in 2 .. Len(s) - k + 1
      BY <2>1, <2>2, <2>3, <2>5
    <3>2. n + k + i - 1 = n + (k + i - 1) /\ k + i - 1 \in 2 .. Len(s)
      BY <1>2, <3>1
    <3>3. e[i] = w[n + (k + i - 1)] /\ f[i] = s[k + i - 1]
      BY <2>1, <2>2, <3>1, <3>2
    <3> QED BY <1>3, <3>2, <3>3
  <2>6. \A i \in 1 .. Len(e) : e[i] = f[i]
    BY <2>3, <2>4, <2>5
  <2>7. e \in Seq(Hop) /\ f \in Seq(Hop)
    BY <2>1, <2>2 DEF Addr
  <2> QED BY <2>3, <2>6, <2>7, SeqEqual DEF e, f
<1> QED BY <1>1, <1>8, <1>9 DEF w

\* Through a mount the same hub is named.
LEMMA NamedWireDst ==
    ASSUME NEW h, NEW d \in Addr
    PROVE  Named(VNetWireDst(h, d)) = Named(d)
<1>1. CASE ~(HasVNet(d) /\ GetVNet(d) = h)
  BY <1>1 DEF VNetWireDst
<1>2. CASE HasVNet(d) /\ GetVNet(d) = h
  <2> DEFINE f == FirstColon(d)
             e == Inside(d, f)
  <2>0. VNetWireDst(h, d) = e
    BY <1>2 DEF VNetWireDst, GetVNetAddr
  <2>1. PICK k : Begins(d, k) /\ Named(d) = Inside(d, k)
    BY NamedBegins
  <2>2. Len(d) \in Nat /\ k \in 1 .. Len(d)
    BY <2>1, AddrLen DEF Begins
  <2>3. f \in 2 .. Len(d) /\ d[f][1] = Colon /\ \A j \in Colons(d) : f <= j
    BY <1>2, FirstColonIsFirst
  <2> HIDE DEF f
  <2>12. f \in 1 .. Len(d)
    BY <2>2, <2>3
  <2>4. /\ e \in Addr /\ Len(e) = Len(d) - f + 1 /\ e[1] = <<Dot, d[f][2]>>
        /\ \A i \in 2 .. Len(d) - f + 1 : e[i] = d[f + i - 1]
    BY <2>12, InsideEntries
  <2> HIDE DEF e
  <2>5. f <= k
    BY <2>1, <2>2, <2>3 DEF Begins, Colons
  <2> DEFINE m == k - f + 1
  <2>6. m \in 1 .. Len(e) /\ f + m - 1 = k /\ m \in Int /\ (m = 1 => f = k)
    BY <2>2, <2>3, <2>4, <2>5
  <2> HIDE DEF m
  <2>7. m = 1 \/ e[m][1] = Colon
    <3>1. CASE m # 1
      <4>1. m \in 2 .. Len(d) - f + 1 /\ k # 1
        BY <2>2, <2>3, <2>4, <2>6, <3>1
      <4>2. e[m] = d[k]
        BY <2>4, <2>6, <4>1
      <4> QED BY <2>1, <4>1, <4>2 DEF Begins
    <3> QED BY <3>1
  <2>8. ASSUME NEW j \in m + 1 .. Len(e) PROVE e[j][1] # Colon
    <3>1. j \in 2 .. Len(d) - f + 1 /\ f + j - 1 \in k + 1 .. Len(d)
      BY <2>2, <2>3, <2>4, <2>6
    <3> QED BY <2>1, <2>4, <3>1 DEF Begins
  <2>9. Begins(e, m)
    BY <2>6, <2>7, <2>8 DEF Begins
  <2>10. Named(e) = Inside(e, m)
    BY <2>4, <2>9, BeginsNamed
  <2>11. Inside(e, m) = Inside(d, k)
    <3> DEFINE x == Inside(e, m)
               y == Inside(d, k)
    <3>1. /\ x \in Addr /\ Len(x) = Len(e) - m + 1 /\ x[1] = <<Dot, e[m][2]>>
          /\ \A i \in 2 .. Len(e) - m + 1 : x[i] = e[m + i - 1]
      BY <2>4, <2>6, InsideEntries
    <3>2. /\ y \in Addr /\ Len(y) = Len(d) - k + 1 /\ y[1] = <<Dot, d[k][2]>>
          /\ \A i \in 2 .. Len(d) - k + 1 : y[i] = d[k + i - 1]
      BY <2>2, InsideEntries
    <3> HIDE DEF x, y
    <3>3. Len(x) = Len(y) /\ Len(x) \in Nat
      <4>1. Len(e) = Len(d) - f + 1 /\ f + m - 1 = k
        BY <2>4, <2>6
      <4>2. f \in Int /\ m \in Int /\ k \in Int /\ Len(d) \in Int /\ k <= Len(d)
        BY <2>2, <2>3, <2>6
      <4>3. Len(e) - m + 1 = Len(d) - k + 1 /\ Len(d) - k + 1 \in Nat
        BY <4>1, <4>2
      <4> QED BY <3>1, <3>2, <4>3
    <3>4. e[m][2] = d[k][2]
      <4>1. CASE m = 1
        <5>1. e[m] = <<Dot, d[k][2]>>
          BY <2>4, <2>6, <4>1
        <5> QED BY <5>1
      <4>2. CASE m # 1
        <5>1. m \in 2 .. Len(d) - f + 1
          BY <2>2, <2>3, <2>4, <2>6, <4>2
        <5> QED BY <2>4, <2>6, <5>1
      <4> QED BY <4>1, <4>2
    <3>5. ASSUME NEW i \in 2 .. Len(x) PROVE x[i] = y[i]
      <4>1. i \in 2 .. Len(e) - m + 1 /\ i \in 2 .. Len(d) - k + 1
        BY <3>1, <3>2, <3>3
      <4>2. m + i - 1 \in 2 .. Len(d) - f + 1 /\ f + (m + i - 1) - 1 = k + i - 1
        BY <2>2, <2>3, <2>4, <2>6, <4>1
      <4>3. x[i] = e[m + i - 1] /\ y[i] = d[k + i - 1]
        BY <3>1, <3>2, <4>1
      <4>4. e[m + i - 1] = d[f + (m + i - 1) - 1]
        BY <2>4, <4>2
      <4> QED BY <4>2, <4>3, <4>4
    <3>8. x[1] = y[1]
      BY <3>1, <3>2, <3>4
    <3>6. \A i \in 1 .. Len(x) : x[i] = y[i]
      BY <3>3, <3>5, <3>8
    <3>7. x \in Seq(Hop) /\ y \in Seq(Hop)
      BY <3>1, <3>2 DEF Addr
    <3> QED BY <3>3, <3>6, <3>7, SeqEqual DEF x, y
  <2> QED BY <2>0, <2>1, <2>10, <2>11
<1> QED BY <1>1, <1>2

\* An address qualified by a hub is below it, in the network mounted there.
LEMMA QualifiedIsBelow ==
    ASSUME NEW p \in Addr, NEW s \in Addr, ~HasVNet(p)
    PROVE  DstMounted(p, VNetWireSrc(p, s)) /\ IsRable(p, VNetWireSrc(p, s))
<1> DEFINE w == VNetWireSrc(p, s)
           n == Len(p)
<1>1. n \in Nat /\ Len(s) \in Nat /\ n > 0 /\ Len(s) > 0 /\ p \in Seq(Hop)
  BY AddrLen DEF Addr
<1>2. /\ w \in Addr /\ Len(w) = n + Len(s) /\ w[n + 1] = <<Colon, s[1][2]>>
      /\ \A i \in 1 .. n : w[i] = p[i]
  BY WireSrcEntries
<1> HIDE DEF w
<1>3. IsRable(p, w)
  BY <1>1, <1>2, PrefixEntries
<1>4. n + 1 \in Colons(w)
  BY <1>1, <1>2 DEF Colons
<1>5. \A i \in 2 .. n : p[i][1] # Colon
  BY DEF HasVNet, Colons
<1>6. HasVNet(w)
  BY <1>4 DEF HasVNet
<1>7. FirstColon(w) \in 2 .. Len(w) /\ w[FirstColon(w)][1] = Colon /\ FirstColon(w) <= n + 1
  BY <1>2, <1>4, <1>6, FirstColonIsFirst
<1>8. FirstColon(w) - 1 = n
  <2>1. CASE FirstColon(w) <= n
    <3>1. FirstColon(w) \in 2 .. n /\ FirstColon(w) \in 1 .. n
      BY <1>1, <1>7, <2>1
    <3> QED BY <1>2, <1>5, <1>7, <3>1
  <2>2. CASE ~(FirstColon(w) <= n)
    BY <1>1, <1>7, <2>2
  <2> QED BY <2>1, <2>2
<1>9. SubSeq(w, 1, n) = p
  <2> DEFINE t == SubSeq(w, 1, n)
  <2>1. \A i \in 1 .. n : w[i] \in Hop
    BY <1>1, <1>2, ElementOfSeq
  <2>2. /\ t \in Seq(Hop) /\ Len(t) = n /\ \A i \in 1 .. n : t[i] = w[i]
    <3>1. /\ t \in Seq(Hop) /\ Len(t) = IF 1 <= n THEN n - 1 + 1 ELSE 0
          /\ \A i \in 1 .. n - 1 + 1 : t[i] = w[1 + i - 1]
      BY <1>1, <2>1, SubSeqProperties
    <3>2. \A i \in 1 .. n : i \in 1 .. n - 1 + 1 /\ 1 + i - 1 = i
      BY <1>1
    <3> QED BY <1>1, <3>1, <3>2
  <2> HIDE DEF t
  <2>3. t = p
    BY <1>1, <1>2, <2>2, SeqEqual
  <2> QED BY <2>3 DEF t
<1>10. GetVNet(w) = p
  BY <1>8, <1>9 DEF GetVNet
<1> QED BY <1>3, <1>6, <1>10 DEF DstMounted, w

-----------------------------------------------------------------------------
(* What the steps make of a message.                                       *)

LEMMA ArrivesNear ==
    ASSUME NEW m \in Messages, NEW at \in Addr
    PROVE  Arrives(m, at) \in Near(at)
<1> DEFINE r == Rank(at, m.dst)
<1>1. r \in Int
  BY RankType DEF Messages
<1> HIDE DEF r
<1>2. [m EXCEPT !.hops = 0, !.budget = r] \in Messages
  <2>1. [m EXCEPT !.hops = 0] \in Messages
    BY DEF Messages
  <2> QED BY <1>1, <2>1 DEF Messages
<1>3. /\ [m EXCEPT !.hops = 0, !.budget = r].hops = 0
      /\ [m EXCEPT !.hops = 0, !.budget = r].budget = r
      /\ [m EXCEPT !.hops = 0, !.budget = r].dst = m.dst
  BY DEF Messages
<1>4. Arrives(m, at) = [m EXCEPT !.hops = 0, !.budget = r]
  BY DEF Arrives, r
<1>5. Closer(at, Arrives(m, at))
  BY <1>1, <1>3, <1>4 DEF Closer, r
<1> QED BY <1>2, <1>4, <1>5 DEF Near

LEMMA MessageNear ==
    ASSUME NEW k \in Kinds, NEW id \in Mail, NEW src \in Addr, NEW dst \in Addr, NEW at \in Addr
    PROVE  Message(k, id, src, dst, at) \in Near(at)
<1>1. Rank(at, dst) \in Int
  BY RankType
<1> QED BY <1>1 DEF Message, Near, Messages, Closer

LEMMA AttestKeeps ==
    ASSUME NEW h \in Addr, NEW m \in Messages
    PROVE  /\ Attest(h, m) \in Messages
           /\ Attest(h, m).dst = m.dst /\ Attest(h, m).hops = m.hops
           /\ Attest(h, m).budget = m.budget
<1>1. CASE RelayAuth /\ m.att = NoAddr /\ IsRable(h, m.src)
  <2>1. ScopeOrDestin(m) \in Addr
    BY DEF ScopeOrDestin, IsFannedOut, Messages
  <2>2. <<h, m.src, ScopeOrDestin(m)>> \in Addr \X Addr \X Addr
    BY <2>1 DEF Messages
  <2>3. Attest(h, m) = [m EXCEPT !.att = <<h, m.src, ScopeOrDestin(m)>>]
    BY <1>1 DEF Attest
  <2> HIDE DEF Addr
  <2> DEFINE a == <<h, m.src, ScopeOrDestin(m)>>
  <2> HIDE DEF a
  <2>4. a \in Addr \X Addr \X Addr /\ Attest(h, m) = [m EXCEPT !.att = a]
    BY <2>2, <2>3 DEF a
  <2> QED BY <2>4 DEF Messages
<1>2. CASE ~(RelayAuth /\ m.att = NoAddr /\ IsRable(h, m.src))
  BY <1>2 DEF Attest
<1> QED BY <1>1, <1>2

LEMMA AttestNear ==
    ASSUME NEW h \in Addr, NEW at \in Addr, NEW m \in Near(at)
    PROVE  Attest(h, m) \in Near(at)
<1>1. m \in Messages /\ Closer(at, m)
  BY DEF Near
<1> QED BY <1>1, AttestKeeps DEF Near, Closer

LEMMA PeerIsHub ==
    ASSUME NEW l \in Links, NEW h \in Ends(l)
    PROVE  h \in Hubs /\ h \in Addr /\ Peer(l, h) \in Ends(l) /\ Peer(l, h) \in Hubs
           /\ Peer(l, h) \in Addr /\ Peer(l, Peer(l, h)) = h
BY LinksAssumption, HubsAssumption DEF Ends, Peer

\* A message that is sent on a link brings its address nearer, or starts
\* anew in the network the link leads to.
LEMMA OnWireNear ==
    ASSUME NEW l \in Links, NEW h \in Ends(l), NEW m \in Near(h), h # m.dst,
           l.mount \/ Takes(h, l, m.dst), Carries(h, l, m)
    PROVE  OnWire(h, l, m) \in Near(Peer(l, h))
<1> DEFINE p == Peer(l, h)
<1>0. /\ m \in Messages /\ Closer(h, m) /\ m.dst \in Addr /\ m.src \in Addr
      /\ h \in Addr /\ p \in Addr
  BY PeerIsHub DEF Near, Messages
<1>1. CASE l.mount
  <2> DEFINE s == VNetWireSrc(p, m.src)
             d == VNetWireDst(h, m.dst)
  <2>1. s \in Addr /\ d \in Addr
    BY <1>0, WireSrcIsAddr, WireDstIsAddr
  <2> HIDE DEF s, d
  <2>2. [m EXCEPT !.dst = d, !.src = s, !.att = NoAddr] \in Messages
    BY <1>0, <2>1 DEF Messages
  <2> QED BY <1>0, <1>1, <2>2, ArrivesNear DEF OnWire, VNetMountOut, s, d
<1>2. CASE ~l.mount
  <2>1. \/ p = m.dst
        \/ IsChild(h, p) /\ IsRable(p, m.dst)
        \/ IsChild(p, h) /\ ~IsRable(h, m.dst)
    BY <1>2 DEF Takes, ConAddr
  <2>2. Rank(p, m.dst) < Rank(h, m.dst)
    BY <1>0, <2>1, HopCloser
  <2>3. Rank(p, m.dst) \in Nat /\ Rank(h, m.dst) \in Nat
    BY <1>0, RankType
  <2>4. [m EXCEPT !.hops = @ + 1] \in Near(p)
    BY <1>0, <2>2, <2>3 DEF Near, Messages, Closer
  <2> QED BY <1>0, <1>2, <2>4, AttestNear DEF OnWire
<1> QED BY <1>1, <1>2

LEMMA CopyNear ==
    ASSUME NEW l \in Links, NEW h \in Ends(l), NEW m \in Messages
    PROVE  Copy(h, l, m) \in Near(Peer(l, h))
<1> DEFINE sc == ScopeOrDestin(m)
           c  == ConAddr(l, h)
<1>1. sc \in Addr
  BY DEF ScopeOrDestin, IsFannedOut, Messages
<1>2. c \in Addr
  BY PeerIsHub, WireSrcIsAddr DEF ConAddr
<1> HIDE DEF sc, c
<1>3. [m EXCEPT !.scope = sc, !.dst = c] \in Messages
  BY <1>1, <1>2 DEF Messages
<1> QED BY <1>3, PeerIsHub, ArrivesNear DEF Copy, sc, c

-----------------------------------------------------------------------------
(* What a hub may hold, and what it sends.                                 *)

LEMMA RableReflexive == \A a \in Addr : IsRable(a, a)
BY PrefixEntries, AddrLen

LEMMA HubIsPlain == \A h \in Hubs : h \in Addr /\ ~HasVNet(h) /\ Named(h) = h
BY HubsAssumption, PlainIsNamed

LEMMA ScopeIsAddr ==
    ASSUME NEW m \in Messages
    PROVE  ScopeOrDestin(m) \in Addr
BY DEF ScopeOrDestin, IsFannedOut, Messages

\* The first signature stays; where there is none, the hub's own is genuine.
LEMMA AttestFields ==
    ASSUME NEW h \in Addr, NEW m \in Messages, NEW r, r = Attest(h, m)
    PROVE  /\ r.kind = m.kind /\ r.id = m.id /\ r.src = m.src /\ r.dst = m.dst
           /\ r.scope = m.scope
           /\ Genuine(m) => Genuine(r)
           /\ IsRable(h, m.src) \/ Attested(m) => Attested(r)
<1> DEFINE a == <<h, m.src, ScopeOrDestin(m)>>
<1>1. CASE RelayAuth /\ m.att = NoAddr /\ IsRable(h, m.src)
  <2>1. r = [m EXCEPT !.att = a]
    BY <1>1 DEF Attest
  <2>2. a[1] = h /\ a[2] = m.src /\ a[3] = ScopeOrDestin(m) /\ a # NoAddr
    BY DEF NoAddr
  <2> HIDE DEF a
  <2>3. /\ r.kind = m.kind /\ r.id = m.id /\ r.src = m.src /\ r.dst = m.dst
        /\ r.scope = m.scope /\ r.att = a
    BY <2>1 DEF Messages
  <2>4. ScopeOrDestin(r) = ScopeOrDestin(m)
    BY <2>3 DEF ScopeOrDestin, IsFannedOut
  <2>5. Genuine(r)
    BY <1>1, <2>2, <2>3, <2>4 DEF Genuine
  <2>6. Attested(r)
    BY <2>2, <2>3 DEF Attested
  <2> QED BY <2>3, <2>5, <2>6
<1>2. CASE ~(RelayAuth /\ m.att = NoAddr /\ IsRable(h, m.src))
  <2>1. r = m
    BY <1>2 DEF Attest
  <2> QED BY <1>2, <2>1 DEF Attested
<1> QED BY <1>1, <1>2

\* What a link's gate asks of a message is what the sender knows of it.
LEMMA GateAdmits ==
    ASSUME NEW l \in Links, NEW h \in Ends(l), ~l.mount, NEW m \in Messages, Genuine(m),
           IsRable(h, m.src) \/ (IsRable(h, Peer(l, h)) /\ Attested(m)),
           NEW r, r = Attest(h, m)
    PROVE  Genuine(r) /\ Attested(r) /\ GateAppMsgInbound(l, Peer(l, h), r)
<1>1. h \in Addr /\ Peer(l, Peer(l, h)) = h
  BY PeerIsHub
<1>2. Genuine(r) /\ Attested(r) /\ r.src = m.src
  BY <1>1, AttestFields
<1>3. GateRelayInbound(r)
  BY <1>2 DEF GateRelayInbound, Genuine, Attested
<1> QED BY <1>1, <1>2, <1>3 DEF GateAppMsgInbound

\* A message that has just been made.
LEMMA MessageFit ==
    ASSUME NEW k \in Kinds, NEW id \in Mail, NEW src \in Addr, NEW dst \in Addr, NEW at \in Addr,
           IsRable(at, src), NEW m, m = Message(k, id, src, dst, at), Addressed(m)
    PROVE  m \in Fit(at)
<1>1. m \in Near(at)
  BY MessageNear
<1>2. m.att = NoAddr /\ m.src = src
  BY DEF Message
<1>3. Signed(at, m)
  BY <1>2 DEF Signed, Genuine, Vouched
<1> QED BY <1>1, <1>3 DEF Fit

\* To be addressed is a matter of the kind and of the hubs that are named.
LEMMA StillAddressed ==
    ASSUME NEW m, NEW r, Addressed(m), r.kind = m.kind, r.id = m.id,
           Named(r.src) = Named(m.src), Named(r.dst) = Named(m.dst) \/ m.kind \in {"BCast", "UCast"}
    PROVE  Addressed(r)
BY DEF Addressed

LEMMA MountOutSent ==
    ASSUME NEW l \in Links, NEW h \in Ends(l), NEW m \in Fit(h), l.mount,
           NEW r, r = VNetMountOut(h, l, m)
    PROVE  r.kind = m.kind /\ r.id = m.id /\ (r \in Near(Peer(l, h)) => r \in Sent(l, h))
<1> DEFINE p == Peer(l, h)
           s == VNetWireSrc(p, m.src)
           d == VNetWireDst(h, m.dst)
<1>1. m \in Messages /\ m.src \in Addr /\ m.dst \in Addr /\ Addressed(m) /\ p \in Hubs
  BY PeerIsHub DEF Fit, Near, Messages
<1>2. p \in Addr /\ ~HasVNet(p)
  BY <1>1, HubIsPlain
<1>3. DstMounted(p, s) /\ IsRable(p, s)
  BY <1>1, <1>2, QualifiedIsBelow
<1>4. Named(s) = Named(m.src) /\ Named(d) = Named(m.dst)
  BY <1>1, <1>2, NamedWireSrc, NamedWireDst
<1>5. r = Arrives([m EXCEPT !.dst = d, !.src = s, !.att = NoAddr], p)
  BY DEF VNetMountOut
<1> HIDE DEF p, s, d
<1>6. r.kind = m.kind /\ r.id = m.id /\ r.src = s /\ r.dst = d /\ r.att = NoAddr
  BY <1>1, <1>5 DEF Arrives, Messages
<1>7. Addressed(r)
  BY <1>1, <1>4, <1>6, StillAddressed
<1>8. Signed(p, r)
  BY <1>3, <1>6 DEF Signed, Genuine, Vouched
<1>9. GateAppMsgInbound(l, p, r)
  BY <1>3, <1>6 DEF GateAppMsgInbound
<1> QED BY <1>6, <1>7, <1>8, <1>9 DEF Sent, Fit, p

\* Down, a hub that answers for the source or a signature comes along; up, the
\* hub above answers for whatever the hub below does.
LEMMA OnWireSent ==
    ASSUME NEW l \in Links, NEW h \in Ends(l), NEW m \in Fit(h), h # m.dst,
           l.mount \/ Takes(h, l, m.dst), Carries(h, l, m), NEW r, r = OnWire(h, l, m)
    PROVE  r \in Sent(l, h) /\ r.kind = m.kind /\ r.id = m.id
<1> DEFINE p == Peer(l, h)
<1>0. /\ m \in Near(h) /\ m \in Messages /\ m.dst \in Addr /\ m.src \in Addr
      /\ Addressed(m) /\ Signed(h, m) /\ h \in Addr /\ p \in Addr
  BY PeerIsHub DEF Fit, Near, Messages
<1>1. r \in Near(p)
  BY <1>0, OnWireNear
<1>2. CASE l.mount
  BY <1>1, <1>2, MountOutSent DEF OnWire
<1>3. CASE ~l.mount
  <2> DEFINE e == [m EXCEPT !.hops = @ + 1]
  <2>1. /\ e \in Messages /\ e.kind = m.kind /\ e.id = m.id /\ e.src = m.src /\ e.dst = m.dst
        /\ e.scope = m.scope /\ e.att = m.att
    BY <1>0 DEF Messages
  <2>2. r = Attest(h, e)
    BY <1>3 DEF OnWire
  <2> HIDE DEF e
  <2>3. /\ r.kind = m.kind /\ r.id = m.id /\ r.src = m.src /\ r.dst = m.dst
    BY <1>0, <2>1, <2>2, AttestFields
  <2>4. Addressed(r)
    BY <1>0, <2>3, StillAddressed
  <2>5. CASE m.kind \in Turned
    BY <1>1, <2>3, <2>4, <2>5 DEF Sent, Fit, Signed, p
  <2>6. CASE m.kind \notin Turned
    <3>1. Genuine(m) /\ Vouched(h, m)
      BY <1>0, <2>6 DEF Signed
    <3>2. Genuine(e) /\ (Attested(e) <=> Attested(m))
      <4>1. ScopeOrDestin(e) = ScopeOrDestin(m)
        BY <2>1 DEF ScopeOrDestin, IsFannedOut
      <4> QED BY <2>1, <3>1, <4>1 DEF Genuine, Attested
    <3>3. \/ p = m.dst
          \/ IsChild(h, p) /\ IsRable(p, m.dst)
          \/ IsChild(p, h) /\ ~IsRable(h, m.dst)
      BY <1>3 DEF Takes, ConAddr
    <3>4. IsRable(h, m.src) \/ (IsRable(h, p) /\ Attested(m))
      <4>1. CASE IsRable(h, m.src)
        BY <4>1
      <4>2. CASE ~IsRable(h, m.src)
        <5>1. IsRable(h, m.dst) /\ Attested(m)
          BY <3>1, <4>2 DEF Vouched
        <5>2. IsRable(h, p)
          BY <3>3, <5>1 DEF IsChild, IsStrictPrefix, IsRable
        <5> QED BY <5>1, <5>2
      <4> QED BY <4>1, <4>2
    <3>5. Genuine(r) /\ Attested(r) /\ GateAppMsgInbound(l, p, r)
      BY <1>3, <2>1, <2>2, <3>2, <3>4, GateAdmits
    <3>6. Vouched(p, r)
      <4>1. CASE p = m.dst \/ IsRable(p, m.dst)
        BY <1>0, <2>3, <3>5, <4>1, RableReflexive DEF Vouched
      <4>2. CASE IsChild(p, h) /\ ~IsRable(h, m.dst)
        <5>1. IsRable(h, m.src) /\ IsRable(p, h)
          BY <3>1, <4>2 DEF Vouched, IsChild, IsStrictPrefix, IsRable
        <5>2. IsRable(p, m.src)
          BY <1>0, <5>1, PrefixTransitive
        <5> QED BY <2>3, <5>2 DEF Vouched
      <4> QED BY <3>3, <4>1, <4>2
    <3> QED BY <1>1, <2>3, <2>4, <3>5, <3>6 DEF Sent, Fit, Signed, p
  <2> QED BY <2>3, <2>5, <2>6
<1> QED BY <1>2, <1>3

\* A copy of a cast goes down with the signature, or up without a question.
\* A mount carries no casts.
LEMMA CopySent ==
    ASSUME NEW l \in Links, NEW h \in Ends(l), NEW m \in Fit(h), m.kind \in {"BCast", "UCast"},
           FansOut(h, l, m.kind), Carries(h, l, Copy(h, l, m)), m.dst = h,
           NEW r, r = Attest(h, Copy(h, l, m))
    PROVE  r \in Sent(l, h) /\ r.id = m.id /\ r.kind = m.kind /\ r.dst = Peer(l, h) /\ ~l.mount
<1> DEFINE p == Peer(l, h)
           e == Copy(h, l, m)
           b == [m EXCEPT !.scope = ScopeOrDestin(m), !.dst = ConAddr(l, h)]
<1>0. /\ m \in Messages /\ m.src \in Addr
      /\ Addressed(m) /\ Signed(h, m) /\ h \in Addr /\ p \in Addr /\ ScopeOrDestin(m) \in Addr
  BY PeerIsHub, ScopeIsAddr DEF Fit, Near, Messages
<1>1. e \in Near(p)
  BY <1>0, CopyNear
<1>2. /\ e \in Messages /\ e.kind = m.kind /\ e.id = m.id /\ e.src = m.src
      /\ e.scope = ScopeOrDestin(m) /\ e.dst = ConAddr(l, h) /\ e.att = m.att
  <2>1. b.kind = m.kind /\ b.id = m.id /\ b.src = m.src /\ b.scope = ScopeOrDestin(m)
        /\ b.dst = ConAddr(l, h) /\ b.att = m.att
    BY <1>0 DEF Messages
  <2>2. e = Arrives(b, p)
    BY DEF Copy
  <2> HIDE DEF b
  <2> QED BY <1>1, <2>1, <2>2 DEF Arrives, Near
<1> HIDE DEF e
<1>3. IsFannedOut(e)
  BY <1>0, <1>2 DEF IsFannedOut, Addr
<1>4. ~l.mount
  BY <1>3 DEF Carries, MountCarries, e
<1>5. ConAddr(l, h) = p
  BY <1>4 DEF ConAddr
<1>6. r.kind = m.kind /\ r.id = m.id /\ r.src = m.src /\ r.dst = p
  BY <1>0, <1>2, <1>5, AttestFields DEF e
<1>7. Addressed(r) /\ r \in Near(p)
  BY <1>0, <1>1, <1>6, AttestNear, StillAddressed DEF e
<1>8. CASE m.kind = "UCast"
  BY <1>4, <1>6, <1>7, <1>8 DEF Sent, Fit, Signed, Turned, p
<1>9. CASE m.kind = "BCast"
  <2>1. Genuine(m) /\ Vouched(h, m)
    BY <1>0, <1>9 DEF Signed, Turned
  <2>2. Genuine(e) /\ (Attested(e) <=> Attested(m))
    <3>1. ScopeOrDestin(e) = ScopeOrDestin(m)
      BY <1>2, <1>3 DEF ScopeOrDestin
    <3> QED BY <1>2, <2>1, <3>1 DEF Genuine, Attested
  <2>3. IsRable(h, p)
    BY <1>5, <1>9 DEF FansOut, IsChild, IsStrictPrefix, IsRable
  <2>4. IsRable(h, e.src) \/ (IsRable(h, p) /\ Attested(e))
    BY <1>2, <2>1, <2>2, <2>3 DEF Vouched
  <2>5. Genuine(r) /\ Attested(r) /\ GateAppMsgInbound(l, p, r)
    BY <1>2, <1>4, <2>2, <2>4, GateAdmits DEF e
  <2>6. Vouched(p, r)
    BY <1>0, <1>6, <2>5, RableReflexive DEF Vouched
  <2> QED BY <1>4, <1>6, <1>7, <2>5, <2>6 DEF Sent, Fit, Signed, p
<1> QED BY <1>0, <1>8, <1>9 DEF Fit, Addressed

\* What a hub makes of a message it cannot place, has no handler for, or turns.
LEMMA ReportFit ==
    ASSUME NEW h \in Hubs, NEW m \in Fit(h), m.kind # "Exception", NEW r, r = Report(h, m)
    PROVE  r \in Fit(h) /\ r.id = m.id /\ r.kind = "Exception"
<1>1. /\ m.id \in Mail /\ m.src \in Addr /\ h \in Addr /\ Addressed(m) /\ m.kind \in Kinds
  BY HubIsPlain DEF Fit, Near, Messages
<1>2. r.kind = "Exception" /\ r.id = m.id /\ r.dst = m.src
  BY DEF Report, Message
<1>3. Addressed(r)
  BY <1>1, <1>2 DEF Addressed, Kinds
<1>4. IsRable(h, h)
  BY <1>1, RableReflexive
<1>5. r = Message("Exception", m.id, h, m.src, h) /\ "Exception" \in Kinds
  BY DEF Report, Kinds
<1>6. r \in Fit(h)
  BY <1>1, <1>3, <1>4, <1>5, MessageFit
<1> QED BY <1>2, <1>6

LEMMA UnknownFit ==
    ASSUME NEW h \in Hubs, NEW m \in Fit(h), m.kind = "App", m.dst = h, NEW r, r = Unknown(h, m)
    PROVE  r \in Fit(h) /\ r.id = m.id /\ r.kind = "Exception"
<1>1. /\ m.id \in Mail /\ m.src \in Addr /\ h \in Addr /\ Addressed(m)
  BY HubIsPlain DEF Fit, Near, Messages
<1>2. r.kind = "Exception" /\ r.id = m.id /\ r.dst = m.src
  BY DEF Unknown, Message
<1>3. Addressed(r)
  BY <1>1, <1>2 DEF Addressed
<1>4. IsRable(h, h)
  BY <1>1, RableReflexive
<1>5. r = Message("Exception", m.id, h, m.src, h) /\ "Exception" \in Kinds
  BY DEF Unknown, Kinds
<1>6. r \in Fit(h)
  BY <1>1, <1>3, <1>4, <1>5, MessageFit
<1> QED BY <1>2, <1>6

LEMMA ReflectedFit ==
    ASSUME NEW h \in Hubs, NEW m \in Fit(h), m.kind = "Ask",
           NEW r, r = Arrives([m EXCEPT !.kind = "Answer", !.src = m.dst, !.dst = m.src], h)
    PROVE  r \in Fit(h) /\ r.id = m.id /\ r.kind = "Answer"
<1> DEFINE b == [m EXCEPT !.kind = "Answer", !.src = m.dst, !.dst = m.src]
<1>1. m \in Messages /\ h \in Addr /\ Addressed(m)
  BY HubIsPlain DEF Fit, Near
<1>2. b \in Messages /\ b.kind = "Answer" /\ b.id = m.id /\ b.src = m.dst /\ b.dst = m.src
  BY <1>1 DEF Messages, Kinds
<1> HIDE DEF b
<1>3. r = Arrives(b, h)
  BY DEF b
<1>4. r \in Near(h) /\ r.kind = "Answer" /\ r.id = m.id /\ r.src = m.dst /\ r.dst = m.src
  <2>1. r \in Near(h)
    BY <1>1, <1>2, <1>3, ArrivesNear
  <2>2. r.kind = b.kind /\ r.id = b.id /\ r.src = b.src /\ r.dst = b.dst
    BY <1>2, <1>3 DEF Arrives, Messages
  <2> QED BY <1>2, <2>1, <2>2
<1>5. Addressed(r)
  BY <1>1, <1>4 DEF Addressed
<1> QED BY <1>4, <1>5 DEF Fit, Signed, Turned

LEMMA PostedFit ==
    ASSUME NEW id \in Mail, NEW r, r = Message(id.kind, id, id.src, id.dst, id.src)
    PROVE  r \in Fit(id.src) /\ r.id = id /\ r.kind = id.kind
<1>1. /\ id.kind \in {"App", "Ask", "BCast", "UCast"} /\ id.src \in Hubs /\ id.dst \in Addr
      /\ id.src \in Addr /\ Named(id.src) = id.src
  BY MailAssumption, HubIsPlain
<1>2. r.kind = id.kind /\ r.id = id /\ r.src = id.src /\ r.dst = id.dst
  BY DEF Message
<1>3. Addressed(r)
  BY <1>1, <1>2 DEF Addressed
<1>4. IsRable(id.src, id.src) /\ id.kind \in Kinds
  BY <1>1, RableReflexive DEF Kinds
<1> QED BY <1>1, <1>2, <1>3, <1>4, MessageFit

-----------------------------------------------------------------------------
(* Counting the copies of a message.                                       *)

LEMMA CopiesType ==
    ASSUME NEW S, NEW q \in Seq(S), NEW id
    PROVE  Copies(q, id) \in Nat /\ (Copies(q, id) = 0 <=> \A i \in 1 .. Len(q) : q[i].id # id)
<1> DEFINE T == {i \in 1 .. Len(q) : q[i].id = id}
<1>1. DOMAIN q = 1 .. Len(q) /\ Len(q) \in Nat
  BY LenProperties
<1>2. IsFiniteSet(1 .. Len(q))
  BY <1>1, FS_Interval
<1>3. IsFiniteSet(T)
  BY <1>2, FS_Subset
<1>4. Cardinality(T) \in Nat /\ (Cardinality(T) = 0 <=> T = {})
  BY <1>3, FS_EmptySet, FS_CardinalityType
<1> QED BY <1>1, <1>4 DEF Copies

LEMMA CopiesConcat ==
    ASSUME NEW S, NEW p \in Seq(S), NEW q \in Seq(S), NEW id
    PROVE  Copies(p \o q, id) = Copies(p, id) + Copies(q, id)
<1> DEFINE n == Len(p)
           k == Len(q)
           r == p \o q
           T == {i \in 1 .. n : p[i].id = id}
           U == {i \in 1 .. k : q[i].id = id}
           V == {i \in n + 1 .. n + k : r[i].id = id}
           W == {i \in 1 .. n + k : r[i].id = id}
<1>0. /\ r \in Seq(S) /\ Len(r) = n + k
      /\ \A i \in 1 .. n + k : r[i] = IF i <= n THEN p[i] ELSE q[i - n]
  BY ConcatProperties
<1>1. n \in Nat /\ k \in Nat /\ DOMAIN p = 1 .. n /\ DOMAIN q = 1 .. k /\ DOMAIN r = 1 .. n + k
  BY <1>0, LenProperties
<1>2. (\A i \in 1 .. n : r[i] = p[i]) /\ \A i \in 1 .. k : r[n + i] = q[i]
  <2>1. \A i \in 1 .. n : i \in 1 .. n + k /\ i <= n
    BY <1>1
  <2>2. \A i \in 1 .. k : n + i \in 1 .. n + k /\ ~(n + i <= n) /\ (n + i) - n = i
    BY <1>1
  <2> HIDE DEF r, n, k
  <2> QED BY <1>0, <2>1, <2>2
<1>3. Copies(p, id) = Cardinality(T) /\ Copies(q, id) = Cardinality(U) /\ Copies(r, id) = Cardinality(W)
  BY <1>1 DEF Copies
<1> HIDE DEF n, k, r
<1>4. IsFiniteSet(T) /\ IsFiniteSet(U) /\ IsFiniteSet(V)
  <2>1. IsFiniteSet(1 .. n) /\ IsFiniteSet(1 .. k)
    BY <1>1, FS_Interval
  <2>2. IsFiniteSet(n + 1 .. n + k)
    <3>1. n + 1 \in Int /\ n + k \in Int
      BY <1>1
    <3> QED BY <3>1, FS_Interval
  <2>3. T \in SUBSET (1 .. n) /\ U \in SUBSET (1 .. k) /\ V \in SUBSET (n + 1 .. n + k)
    OBVIOUS
  <2> QED BY <2>1, <2>2, <2>3, FS_Subset
<1>5. Cardinality(U) = Cardinality(V)
  <2> DEFINE f == [i \in U |-> n + i]
  <2>1. f \in Bijection(U, V)
    <3>1. f \in [U -> V]
      BY <1>1, <1>2
    <3>2. f \in Injection(U, V)
      BY <1>1, <3>1 DEF Injection, IsInjective
    <3>3. \A j \in V : \E i \in U : f[i] = j
      <4> TAKE j \in V
      <4>1. j - n \in 1 .. k /\ n + (j - n) = j
        BY <1>1
      <4>2. j - n \in U
        BY <1>2, <4>1
      <4> QED BY <4>1, <4>2
    <3> QED BY <3>1, <3>2, <3>3 DEF Bijection, Surjection
  <2> QED BY <1>4, <2>1, FS_Bijection DEF ExistsBijection
<1>6. W = T \cup V /\ T \cap V = {}
  BY <1>1, <1>2
<1> HIDE DEF T, U, V, W
<1>7. Cardinality(W) = Cardinality(T) + Cardinality(V)
  <2>1. Cardinality(T \cup V) = Cardinality(T) + Cardinality(V) - Cardinality(T \cap V)
    BY <1>4, FS_Union
  <2>2. Cardinality(T \cap V) = 0 /\ Cardinality(T) \in Nat /\ Cardinality(V) \in Nat
    BY <1>4, <1>6, FS_EmptySet, FS_CardinalityType
  <2> QED BY <1>6, <2>1, <2>2
<1> QED BY <1>3, <1>5, <1>7 DEF r

LEMMA CopiesOne ==
    ASSUME NEW m, NEW id
    PROVE  Copies(<<m>>, id) = (IF m.id = id THEN 1 ELSE 0) /\ Copies(<<>>, id) = 0
<1>1. {i \in DOMAIN <<m>> : <<m>>[i].id = id} = IF m.id = id THEN {1} ELSE {}
  OBVIOUS
<1>2. {i \in DOMAIN <<>> : <<>>[i].id = id} = {}
  OBVIOUS
<1> QED BY <1>1, <1>2, FS_EmptySet, FS_Singleton DEF Copies

LEMMA CopiesAppend ==
    ASSUME NEW S, NEW q \in Seq(S), NEW m \in S, NEW id
    PROVE  Copies(Append(q, m), id) = Copies(q, id) + (IF m.id = id THEN 1 ELSE 0)
<1>1. Append(q, m) = q \o <<m>> /\ <<m>> \in Seq(S)
  BY AppendIsConcat
<1>2. Copies(q \o <<m>>, id) = Copies(q, id) + Copies(<<m>>, id)
  BY <1>1, CopiesConcat
<1>3. Copies(<<m>>, id) = IF m.id = id THEN 1 ELSE 0
  BY CopiesOne
<1> QED BY <1>1, <1>2, <1>3

LEMMA CopiesSplit ==
    ASSUME NEW S, NEW q \in Seq(S), NEW n \in 0 .. Len(q), NEW id
    PROVE  /\ SubSeq(q, 1, n) \in Seq(S) /\ SubSeq(q, n + 1, Len(q)) \in Seq(S)
           /\ Copies(q, id) = Copies(SubSeq(q, 1, n), id) + Copies(SubSeq(q, n + 1, Len(q)), id)
<1> DEFINE k == Len(q)
           a == SubSeq(q, 1, n)
           b == SubSeq(q, n + 1, k)
<1>1. k \in Nat /\ \A i \in 1 .. k : q[i] \in S
  BY LenProperties, ElementOfSeq
<1>2. a \in Seq(S) /\ b \in Seq(S)
  BY <1>1, SubSeqProperties
<1>3. a \o b = SubSeq(q, 1, k)
  <2>1. 1 \in 1 .. k + 1 /\ n \in 1 - 1 .. k /\ k \in n .. k
    BY <1>1
  <2> QED BY <2>1, ConcatAdjacentSubSeq
<1>4. SubSeq(q, 1, k) = q
  BY SubSeqFull
<1> HIDE DEF a, b, k
<1>5. Copies(a \o b, id) = Copies(a, id) + Copies(b, id)
  BY <1>2, CopiesConcat
<1> QED BY <1>2, <1>3, <1>4, <1>5 DEF a, b, k

LEMMA CopiesTail ==
    ASSUME NEW S, NEW q \in Seq(S), q # <<>>, NEW id
    PROVE  Copies(q, id) = Copies(Tail(q), id) + (IF Head(q).id = id THEN 1 ELSE 0)
<1>1. 1 \in 0 .. Len(q) /\ 1 + 1 = 2
  BY EmptySeq
<1>2. Copies(q, id) = Copies(SubSeq(q, 1, 1), id) + Copies(SubSeq(q, 2, Len(q)), id)
  BY <1>1, CopiesSplit
<1>3. SubSeq(q, 2, Len(q)) = Tail(q)
  BY TailIsSubSeq
<1>4. SubSeq(q, 1, 1) = <<Head(q)>>
  <2> DEFINE a == SubSeq(q, 1, 1)
  <2>1. Len(q) \in Nat /\ Len(q) >= 1 /\ q[1] \in S /\ Head(q) = q[1] /\ Head(q) \in S
    BY EmptySeq, ElementOfSeq, HeadTailProperties
  <2>2. a \in Seq(S) /\ Len(a) = 1 /\ a[1] = q[1]
    <3>1. \A i \in 1 .. 1 : q[i] \in S
      BY <2>1
    <3>2. /\ a \in Seq(S) /\ Len(a) = IF 1 <= 1 THEN 1 - 1 + 1 ELSE 0
          /\ \A i \in 1 .. 1 - 1 + 1 : a[i] = q[1 + i - 1]
      BY <3>1, SubSeqProperties
    <3> QED BY <3>2
  <2> HIDE DEF a
  <2>3. <<Head(q)>> \in Seq(S) /\ Len(<<Head(q)>>) = 1 /\ <<Head(q)>>[1] = Head(q)
    BY <2>1
  <2>4. a = <<Head(q)>>
    BY <2>1, <2>2, <2>3, SeqEqual
  <2> QED BY <2>4 DEF a
<1>5. Copies(Tail(q), id) \in Nat
  BY HeadTailProperties, CopiesType
<1> DEFINE c == Copies(Tail(q), id)
           d == Copies(<<Head(q)>>, id)
<1>6. d = IF Head(q).id = id THEN 1 ELSE 0
  BY CopiesOne
<1>7. Copies(q, id) = d + c
  BY <1>2, <1>3, <1>4
<1>8. c \in Nat /\ d \in Nat
  BY <1>5, <1>6
<1> HIDE DEF c, d
<1>9. d + c = c + d
  BY <1>8
<1> QED BY <1>6, <1>7, <1>9 DEF c

-----------------------------------------------------------------------------
(* The queues.                                                             *)

LEMMA FitIsNear == \A h : Fit(h) \subseteq Near(h) /\ Fit(h) \subseteq Messages
BY DEF Fit, Near

LEMMA SentIsFit ==
    \A l, h : Sent(l, h) \subseteq Fit(Peer(l, h)) /\ Sent(l, h) \subseteq Messages
BY FitIsNear DEF Sent

LEMMA HeadIsFit ==
    ASSUME PumpInv, NEW h \in Hubs, pump[h] # <<>>
    PROVE  /\ h \in Addr
           /\ Head(pump[h]) \in Fit(h) /\ Head(pump[h]) \in Messages
           /\ Tail(pump[h]) \in Seq(Fit(h))
<1>1. pump[h] \in Seq(Fit(h)) /\ h \in Addr
  BY HubsAssumption DEF PumpInv
<1>2. Head(pump[h]) \in Fit(h) /\ Tail(pump[h]) \in Seq(Fit(h))
  BY <1>1, HeadTailProperties
<1> QED BY <1>1, <1>2 DEF Fit, Near

LEMMA PumpPut ==
    ASSUME PumpInv, NEW h \in Hubs, NEW q \in Seq(Fit(h)), pump' = [pump EXCEPT ![h] = q]
    PROVE  PumpInv'
BY DEF PumpInv

LEMMA WirePut ==
    ASSUME WireInv, NEW l \in Links, NEW h \in Ends(l), NEW q \in Seq(Sent(l, h)),
           wire' = [wire EXCEPT ![l][h] = q]
    PROVE  WireInv'
BY DEF WireInv

\* A link from which both directions are emptied, or cut short.
LEMMA WireCut ==
    ASSUME WireInv, NEW l \in Links, NEW w,
           DOMAIN w = Ends(l), \A h \in Ends(l) : w[h] \in Seq(Sent(l, h)),
           wire' = [wire EXCEPT ![l] = w]
    PROVE  WireInv'
BY DEF WireInv

LEMMA DialsIsEnd ==
    ASSUME NEW l \in Links
    PROVE  /\ l.dials \in Ends(l) /\ l.accepts \in Ends(l) /\ l.dials # l.accepts
           /\ l.dials \in Hubs /\ l.accepts \in Hubs
           /\ Peer(l, l.dials) = l.accepts /\ Peer(l, l.accepts) = l.dials
BY LinksAssumption DEF Ends, Peer

LEMMA PendPut ==
    ASSUME PendInv, NEW l \in Links, NEW q \in Seq(Sent(l, l.dials)),
           pend' = [pend EXCEPT ![l] = q], down' \subseteq Links
    PROVE  PendInv'
BY DEF PendInv

LEMMA LeavesKeeps ==
    ASSUME ConsInv, PendInv, NEW h \in Hubs, NEW l \in Links, Leaves(h, l)
    PROVE  ConsInv' /\ down' \subseteq Links
<1>1. CASE UNCHANGED cons /\ down' = down \cup {l}
  BY <1>1 DEF ConsInv, PendInv
<1>2. CASE UNCHANGED down /\ \E i \in DOMAIN cons[h] : cons' = [cons EXCEPT ![h] = RemoveAt(@, i)]
  <2>1. PICK i \in DOMAIN cons[h] : cons' = [cons EXCEPT ![h] = RemoveAt(@, i)]
    BY <1>2
  <2>2. cons[h] \in Seq(LinksOf(h)) /\ i \in 1 .. Len(cons[h])
    BY <2>1, LenProperties DEF ConsInv
  <2> DEFINE front == SubSeq(cons[h], 1, i - 1)
             back  == SubSeq(cons[h], i + 1, Len(cons[h]))
  <2>3. \A j \in 1 .. Len(cons[h]) : cons[h][j] \in LinksOf(h)
    BY <2>2, ElementOfSeq
  <2>4. front \in Seq(LinksOf(h)) /\ back \in Seq(LinksOf(h))
    BY <2>2, <2>3, SubSeqProperties
  <2> HIDE DEF front, back
  <2>5. front \o back \in Seq(LinksOf(h))
    BY <2>4, ConcatProperties
  <2>6. RemoveAt(cons[h], i) \in Seq(LinksOf(h))
    BY <2>5 DEF RemoveAt, front, back
  <2>7. ConsInv'
    BY <2>1, <2>6 DEF ConsInv
  <2> QED BY <1>2, <2>7 DEF PendInv
<1> QED BY <1>1, <1>2 DEF Leaves

\* The sessions of one dialler's connection carry the same.
LEMMA TwinsSend ==
    ASSUME NEW l \in Links, NEW k \in Links, Twins(l, k)
    PROVE  /\ Ends(l) = Ends(k) /\ \A h : Peer(l, h) = Peer(k, h)
           /\ Sent(l, l.dials) = Sent(k, k.dials)
<1>1. Ends(l) = Ends(k) /\ (\A h : Peer(l, h) = Peer(k, h)) /\ l.mount = k.mount /\ l.dials = k.dials
  BY DEF Twins, Ends, Peer
<1>2. \A h, m : GateAppMsgInbound(l, h, m) <=> GateAppMsgInbound(k, h, m)
  BY <1>1 DEF GateAppMsgInbound
<1> QED BY <1>1, <1>2 DEF Sent

LEMMA SetToSeqCovers ==
    ASSUME NEW S, IsFiniteSet(S)
    PROVE  SetToSeq(S) \in Seq(S) /\ ToSet(SetToSeq(S)) = S /\ IsInjective(SetToSeq(S))
<1> DEFINE n == Cardinality(S)
           I == 1 .. n
           f == SetToSeq(S)
<1>1. n \in Nat /\ ExistsBijection(I, S)
  BY FS_CardinalityType
<1>2. PICK g \in [I -> S] : IsInjective(g)
  BY <1>1 DEF ExistsBijection, Bijection, Injection, IsInjective
<1>3. f \in [I -> S] /\ IsInjective(f)
  BY <1>2 DEF SetToSeq
<1> HIDE DEF f
<1>4. f \in Seq(S) /\ Len(f) = n
  BY <1>1, <1>3, IsASeq
<1>5. IsFiniteSet(I) /\ Cardinality(I) = Cardinality(S)
  BY <1>1, FS_Interval
<1> HIDE DEF n, I
<1>6. f \in Surjection(I, S)
  BY <1>3, <1>5, FS_Injection DEF Injection
<1>7. \A t \in S : \E i \in I : f[i] = t
  BY <1>6 DEF Surjection
<1>8. ToSet(f) = S
  BY <1>3, <1>7 DEF ToSet
<1> QED BY <1>3, <1>4, <1>8 DEF f

-----------------------------------------------------------------------------
LEMMA InitIInv == Init => IInv
<1> SUFFICES ASSUME Init PROVE IInv
  OBVIOUS
<1>1. ASSUME NEW h \in Hubs PROVE cons[h] \in Seq(LinksOf(h))
  <2> DEFINE S == {l \in Up : h \in Ends(l)}
  <2>1. IsFiniteSet(S) /\ S \subseteq LinksOf(h)
    BY LinksAssumption, FS_Subset DEF LinksOf
  <2>2. SetToSeq(S) \in Seq(S)
    BY <2>1, SetToSeqCovers
  <2>3. SetToSeq(S) \in Seq(LinksOf(h))
    BY <2>1, <2>2, SeqMonotonic
  <2> QED BY <2>3 DEF Init
<1>2. ConsInv
  BY <1>1 DEF Init, ConsInv
<1>3. PumpInv /\ WireInv /\ PendInv
  BY EmptySeq DEF Init, PumpInv, WireInv, PendInv
<1> QED BY <1>2, <1>3 DEF IInv

LEMMA InitLists ==
    ASSUME Init, NEW h \in Hubs
    PROVE  ToSet(cons[h]) = {l \in Up : h \in Ends(l)} /\ IsInjective(cons[h])
<1>1. IsFiniteSet({l \in Up : h \in Ends(l)})
  BY LinksAssumption, FS_Subset
<1>2. cons[h] = SetToSeq({l \in Up : h \in Ends(l)})
  BY DEF Init
<1> QED BY <1>1, <1>2, SetToSeqCovers

\* Where a message is only taken from the pump.
LEMMA TakenKeeps ==
    ASSUME IInv, NEW h \in Hubs, pump[h] # <<>>, pump' = [pump EXCEPT ![h] = Tail(@)],
           UNCHANGED links
    PROVE  IInv'
<1>1. PumpInv'
  BY HeadIsFit, PumpPut DEF IInv
<1> QED BY <1>1 DEF IInv, ConsInv, WireInv, PendInv, links

\* Where it is replaced by another for the same pump.
LEMMA ReplacedKeeps ==
    ASSUME IInv, NEW h \in Hubs, pump[h] # <<>>, NEW r \in Fit(h),
           pump' = [pump EXCEPT ![h] = Append(Tail(@), r)], UNCHANGED links
    PROVE  IInv'
<1>1. Append(Tail(pump[h]), r) \in Seq(Fit(h))
  BY HeadIsFit, AppendProperties DEF IInv
<1>2. PumpInv'
  BY <1>1, PumpPut DEF IInv
<1> QED BY <1>2 DEF IInv, ConsInv, WireInv, PendInv, links

LEMMA PostKeeps ==
    ASSUME IInv, NEW id \in Mail, Post(id)
    PROVE  IInv'
<1> DEFINE m == Message(id.kind, id, id.src, id.dst, id.src)
<1>1. m \in Fit(id.src)
  BY PostedFit
<1> HIDE DEF m
<1>2. id.src \in Hubs /\ Append(pump[id.src], m) \in Seq(Fit(id.src))
  BY <1>1, MailAssumption, AppendProperties DEF IInv, PumpInv
<1>3. pump' = [pump EXCEPT ![id.src] = Append(pump[id.src], m)]
  BY DEF Post, m
<1>4. PumpInv'
  BY <1>2, <1>3, PumpPut DEF IInv
<1> QED BY <1>4 DEF IInv, ConsInv, WireInv, PendInv, Post, links

\* What a hub's connection has taken, for the wire or to keep.
Handed(h, l, r) ==
    \/ wire' = [wire EXCEPT ![l][h] = Append(@, r)] /\ UNCHANGED pend /\ Open(h, l)
    \/ h = l.dials /\ pend' = [pend EXCEPT ![l] = Append(@, r)] /\ UNCHANGED wire

\* A hub sends on one of its links, and what it sends may be sent there.
LEMMA ForwardSends ==
    ASSUME IInv, NEW h \in Hubs, Forward(h)
    PROVE  /\ pump[h] # <<>>
           /\ \E l \in LinksOf(h) : \E r \in Sent(l, h) :
                /\ r.id = Head(pump[h]).id /\ r.kind = Head(pump[h]).kind
                /\ Handed(h, l, r)
<1> DEFINE m == Head(pump[h])
<1>1. pump[h] # <<>> /\ m.dst # h
  BY DEF Forward, Away
<1>2. m \in Fit(h) /\ h \in Addr
  BY <1>1, HeadIsFit DEF IInv
<1>3. PICK i \in FirstOf(Routes(h, m.dst)) :
        /\ Carries(h, cons[h][i], m)
        /\ PostToCon(h, cons[h][i], OnWire(h, cons[h][i], m))
  BY DEF Forward
<1> DEFINE l == cons[h][i]
           r == OnWire(h, l, m)
<1>4. i \in DOMAIN cons[h] /\ (l.mount \/ Takes(h, l, m.dst))
  BY <1>3 DEF FirstOf, Routes, FirstPass, SecondPass
<1>5. l \in Links /\ h \in Ends(l) /\ l \in LinksOf(h) /\ Listed(h, l)
  <2>1. cons[h] \in Seq(LinksOf(h)) /\ i \in 1 .. Len(cons[h])
    BY <1>4, LenProperties DEF IInv, ConsInv
  <2>2. l \in LinksOf(h)
    BY <2>1, ElementOfSeq
  <2>3. Listed(h, l)
    BY <1>4 DEF Listed, ToSet
  <2> QED BY <2>2, <2>3 DEF LinksOf
<1>6. Carries(h, l, m) /\ PostToCon(h, l, r)
  BY <1>3
<1> HIDE DEF m, l, r
<1>7. r \in Sent(l, h) /\ r.kind = m.kind /\ r.id = m.id
  BY <1>1, <1>2, <1>4, <1>5, <1>6, OnWireSent DEF r
<1>8. Handed(h, l, r)
  BY <1>5, <1>6 DEF PostToCon, Handed, Open
<1> QED BY <1>1, <1>5, <1>7, <1>8 DEF m

LEMMA ForwardKeeps ==
    ASSUME IInv, NEW h \in Hubs, Forward(h)
    PROVE  IInv'
<1>0. PICK l \in LinksOf(h) : \E r \in Sent(l, h) : Handed(h, l, r)
  BY ForwardSends
<1>1. PICK r \in Sent(l, h) : Handed(h, l, r)
  BY <1>0
<1>2. l \in Links /\ h \in Ends(l)
  BY DEF LinksOf
<1>3. ASSUME wire' = [wire EXCEPT ![l][h] = Append(@, r)], UNCHANGED pend
      PROVE  WireInv' /\ PendInv'
  <2>1. Append(wire[l][h], r) \in Seq(Sent(l, h))
    BY <1>2, AppendProperties DEF IInv, WireInv
  <2>2. WireInv'
    BY <1>2, <1>3, <2>1, WirePut DEF IInv
  <2> QED BY <1>3, <2>2 DEF IInv, PendInv, Forward
<1>4. ASSUME h = l.dials, pend' = [pend EXCEPT ![l] = Append(@, r)], UNCHANGED wire
      PROVE  WireInv' /\ PendInv'
  <2>1. Append(pend[l], r) \in Seq(Sent(l, l.dials))
    BY <1>2, <1>4, AppendProperties DEF IInv, PendInv
  <2>2. down' \subseteq Links
    BY DEF IInv, PendInv, Forward
  <2>3. PendInv'
    BY <1>2, <1>4, <2>1, <2>2, PendPut DEF IInv
  <2> QED BY <1>4, <2>3 DEF IInv, WireInv, Forward
<1>5. WireInv' /\ PendInv'
  BY <1>1, <1>3, <1>4 DEF Handed, IInv
<1>6. pump[h] # <<>>
  BY ForwardSends
<1>7. PumpInv'
  BY <1>6, HeadIsFit, PumpPut DEF IInv, Forward
<1> QED BY <1>5, <1>7 DEF IInv, ConsInv, Forward

LEMMA FanOutKeeps ==
    ASSUME IInv, NEW h \in Hubs, FanOut(h)
    PROVE  IInv'
<1> DEFINE m  == Head(pump[h])
           to == {l \in ToSet(cons[h]) : Open(h, l) /\ FansOut(h, l, m.kind)}
<1>1. pump[h] # <<>> /\ m.kind \in {"BCast", "UCast"} /\ m.dst = h
  BY DEF FanOut, Here
<1>2. m \in Fit(h) /\ h \in Addr
  BY <1>1, HeadIsFit DEF IInv
<1>3. to \subseteq LinksOf(h) /\ \A l \in to : FansOut(h, l, m.kind)
  BY ElementOfSeq, LenProperties DEF IInv, ConsInv, ToSet
<1>4. wire' = [l \in Links |-> IF l \in to /\ Carries(h, l, Copy(h, l, m))
                               THEN [wire[l] EXCEPT ![h] = Append(@, Attest(h, Copy(h, l, m)))]
                               ELSE wire[l]]
  BY DEF FanOut
<1> HIDE DEF m, to
<1>5. ASSUME NEW l \in to, Carries(h, l, Copy(h, l, m))
      PROVE  /\ l \in Links /\ h \in Ends(l)
             /\ Append(wire[l][h], Attest(h, Copy(h, l, m))) \in Seq(Sent(l, h))
  <2>1. l \in Links /\ h \in Ends(l) /\ FansOut(h, l, m.kind)
    BY <1>3 DEF LinksOf
  <2>2. Attest(h, Copy(h, l, m)) \in Sent(l, h)
    BY <1>1, <1>2, <1>5, <2>1, CopySent
  <2> QED BY <2>1, <2>2, AppendProperties DEF IInv, WireInv
<1>6. WireInv'
  <2>1. DOMAIN wire' = Links
    BY <1>4
  <2>2. ASSUME NEW l \in Links
        PROVE  /\ DOMAIN wire'[l] = Ends(l)
               /\ \A k \in Ends(l) : wire'[l][k] \in Seq(Sent(l, k))
    <3>1. DOMAIN wire[l] = Ends(l) /\ \A k \in Ends(l) : wire[l][k] \in Seq(Sent(l, k))
      BY DEF IInv, WireInv
    <3>2. CASE l \in to /\ Carries(h, l, Copy(h, l, m))
      BY <1>4, <1>5, <3>1, <3>2
    <3>3. CASE ~(l \in to /\ Carries(h, l, Copy(h, l, m)))
      BY <1>4, <3>1, <3>3
    <3> QED BY <3>2, <3>3
  <2> QED BY <2>1, <2>2 DEF WireInv
<1>7. PumpInv'
  BY <1>1, HeadIsFit, PumpPut DEF IInv, FanOut
<1> QED BY <1>6, <1>7 DEF IInv, ConsInv, PendInv, FanOut

LEMMA ReadKeeps ==
    ASSUME IInv, NEW l \in Links, NEW h \in Ends(l), Read(h, l)
    PROVE  IInv'
<1> DEFINE p == Peer(l, h)
           m == Head(wire[l][p])
<1>1. h \in Hubs /\ p \in Ends(l) /\ Peer(l, p) = h
  BY PeerIsHub
<1>2. wire[l][p] \in Seq(Sent(l, p)) /\ wire[l][p] # <<>>
  BY <1>1 DEF IInv, WireInv, Read
<1>3. m \in Sent(l, p) /\ Tail(wire[l][p]) \in Seq(Sent(l, p))
  BY <1>2, HeadTailProperties
<1>7. m \in Fit(h)
  BY <1>1, <1>3, SentIsFit
<1>4. /\ pump' = [pump EXCEPT ![h] = Append(pump[h], m)]
      /\ wire' = [wire EXCEPT ![l][p] = Tail(wire[l][p])]
  BY DEF Read
<1> HIDE DEF m, p
<1>5. PumpInv'
  BY <1>1, <1>4, <1>7, AppendProperties, PumpPut DEF IInv, PumpInv
<1>6. WireInv'
  BY <1>1, <1>3, <1>4, WirePut DEF IInv
<1> QED BY <1>5, <1>6 DEF IInv, ConsInv, PendInv, Read

LEMMA ShutKeeps ==
    ASSUME IInv, NEW l \in Links, NEW h \in Ends(l), Shut(h, l)
    PROVE  IInv'
<1>0. wire[l][h] \in Seq(Sent(l, h))
  BY DEF IInv, WireInv
<1>1. PICK n \in 0 .. (IF Open(Peer(l, h), l) THEN Len(wire[l][h]) ELSE 0) :
        wire' = [wire EXCEPT ![l] = [k \in DOMAIN @ |->
                   IF k = h THEN SubSeq(@[h], 1, n) ELSE <<>>]]
  BY DEF Shut
<1> DEFINE w == [k \in Ends(l) |-> IF k = h THEN SubSeq(wire[l][h], 1, n) ELSE <<>>]
<1>2. wire' = [wire EXCEPT ![l] = w]
  BY <1>1 DEF IInv, WireInv
<1>3. n \in 0 .. Len(wire[l][h])
  BY <1>0, <1>1, LenProperties
<1>4. SubSeq(wire[l][h], 1, n) \in Seq(Sent(l, h))
  BY <1>0, <1>3, SubSeqProperties, ElementOfSeq
<1>5. DOMAIN w = Ends(l) /\ \A k \in Ends(l) : w[k] \in Seq(Sent(l, k))
  BY <1>4, EmptySeq
<1> HIDE DEF w
<1>6. WireInv'
  BY <1>2, <1>5, WireCut DEF IInv
<1>7. ConsInv' /\ down' \subseteq Links
  BY PeerIsHub, LeavesKeeps DEF IInv, Shut
<1> QED BY <1>6, <1>7 DEF IInv, PumpInv, PendInv, Shut

LEMMA RedialKeeps ==
    ASSUME IInv, NEW l \in Links, NEW k \in Links, Redial(l, k)
    PROVE  IInv'
<1> DEFINE d == k.dials
           a == k.accepts
<1>1. /\ d \in Hubs /\ a \in Hubs /\ d # a /\ d \in Ends(k)
      /\ k \in LinksOf(d) /\ k \in LinksOf(a)
  BY DialsIsEnd DEF LinksOf
<1>2. l.dials = d /\ l.accepts = a /\ Sent(l, l.dials) = Sent(k, d)
  BY TwinsSend DEF Redial, Twins
<1>3. PICK i \in DOMAIN cons[d] : cons' = [cons EXCEPT ![d][i] = k, ![a] = Append(@, k)]
  BY <1>2 DEF Redial
<1>4. cons[d] \in Seq(LinksOf(d)) /\ Append(cons[a], k) \in Seq(LinksOf(a))
  BY <1>1, AppendProperties DEF IInv, ConsInv
<1> HIDE DEF d, a
<1>5. [cons[d] EXCEPT ![i] = k] \in Seq(LinksOf(d))
  BY <1>1, <1>4, ExceptSeq
<1>6. ConsInv'
  BY <1>1, <1>3, <1>4, <1>5 DEF IInv, ConsInv
<1>7. WireInv'
  <2>1. pend[l] \in Seq(Sent(k, d))
    BY <1>2 DEF IInv, PendInv, d
  <2>2. wire' = [wire EXCEPT ![k][d] = pend[l]]
    BY DEF Redial, d
  <2> QED BY <1>1, <2>1, <2>2, WirePut DEF IInv
<1>8. PendInv'
  BY EmptySeq, PendPut DEF IInv, PendInv, Redial
<1> QED BY <1>6, <1>7, <1>8 DEF IInv, PumpInv, Redial

LEMMA RedialFailsKeeps ==
    ASSUME IInv, NEW l \in Links, RedialFails(l)
    PROVE  IInv'
<1>1. PendInv'
  BY EmptySeq, PendPut DEF IInv, PendInv, RedialFails
<1> QED BY <1>1 DEF IInv, ConsInv, PumpInv, WireInv, RedialFails

\* What a hub cannot place, has no handler for or turns round it replaces.
LEMMA ReplacedBy ==
    ASSUME IInv, NEW h \in Hubs, Undeliverable(h) \/ NotHandled(h) \/ Reflect(h)
    PROVE  /\ pump[h] # <<>>
           /\ \E r \in Fit(h) : /\ r.id = Head(pump[h]).id
                                /\ Reflect(h) \/ r.kind = "Exception"
                                /\ pump' = [pump EXCEPT ![h] = Append(Tail(@), r)]
<1> DEFINE m == Head(pump[h])
<1>1. pump[h] # <<>>
  BY DEF Undeliverable, NotHandled, Reflect, Away, Here
<1>2. m \in Fit(h)
  BY <1>1, HeadIsFit DEF IInv
<1>3. CASE Undeliverable(h)
  <2>1. Report(h, m) \in Fit(h) /\ Report(h, m).id = m.id /\ Report(h, m).kind = "Exception"
    BY <1>2, <1>3, ReportFit DEF Undeliverable
  <2> QED BY <1>1, <1>3, <2>1 DEF Undeliverable
<1>4. CASE NotHandled(h)
  <2>1. Unknown(h, m) \in Fit(h) /\ Unknown(h, m).id = m.id /\ Unknown(h, m).kind = "Exception"
    BY <1>2, <1>4, UnknownFit DEF NotHandled, Here
  <2> QED BY <1>1, <1>4, <2>1 DEF NotHandled
<1>5. CASE Reflect(h)
  <2> DEFINE r == Arrives([m EXCEPT !.kind = "Answer", !.src = m.dst, !.dst = m.src], h)
  <2>1. r \in Fit(h) /\ r.id = m.id
    BY <1>2, <1>5, ReflectedFit DEF Reflect, Here
  <2>2. pump' = [pump EXCEPT ![h] = Append(Tail(@), r)]
    BY <1>5 DEF Reflect
  <2> HIDE DEF r
  <2> QED BY <1>1, <1>5, <2>1, <2>2
<1> QED BY <1>3, <1>4, <1>5

LEMMA DispatchKeeps ==
    ASSUME IInv, NEW h \in Hubs, Dispatch(h)
    PROVE  IInv'
<1>1. CASE Forward(h)
  BY <1>1, ForwardKeeps
<1>2. CASE MountRefuses(h)
  BY <1>2, TakenKeeps DEF MountRefuses, Away
<1>3. CASE Undeliverable(h) \/ NotHandled(h) \/ Reflect(h)
  <2>1. UNCHANGED links
    BY <1>3 DEF Undeliverable, NotHandled, Reflect
  <2> QED BY <1>3, <2>1, ReplacedBy, ReplacedKeeps
<1>4. CASE EndOfTheLine(h)
  BY <1>4, TakenKeeps DEF EndOfTheLine, Away
<1>5. CASE Handle(h)
  BY <1>5, TakenKeeps DEF Handle, Here
<1>6. CASE FanOut(h)
  BY <1>6, FanOutKeeps
<1> QED BY <1>1, <1>2, <1>3, <1>4, <1>5, <1>6 DEF Dispatch

LEMMA NextKeeps == IInv /\ [Next]_vars => IInv'
<1> SUFFICES ASSUME IInv, [Next]_vars PROVE IInv'
  OBVIOUS
<1>1. ASSUME NEW id \in Mail, Post(id) PROVE IInv'
  BY <1>1, PostKeeps
<1>2. ASSUME NEW h \in Hubs, Dispatch(h) PROVE IInv'
  BY <1>2, DispatchKeeps
<1>3. ASSUME NEW l \in Links, NEW k \in Links, Redial(l, k) PROVE IInv'
  BY <1>3, RedialKeeps
<1>4. ASSUME NEW l \in Links, RedialFails(l) PROVE IInv'
  BY <1>4, RedialFailsKeeps
<1>5. ASSUME NEW l \in Links, NEW h \in Ends(l), Read(h, l) PROVE IInv'
  BY <1>5, ReadKeeps
<1>6. ASSUME NEW l \in Links, NEW h \in Ends(l), Close(h, l) PROVE IInv'
  BY <1>6, ShutKeeps DEF Close, Refuse, Drop, SeeClose
<1>7. CASE UNCHANGED vars
  BY <1>7 DEF vars, IInv, ConsInv, PumpInv, WireInv, PendInv
<1> QED BY <1>1, <1>2, <1>3, <1>4, <1>5, <1>6, <1>7 DEF Next

\* What the queues hold, entry by entry.
LEMMA Queued ==
    ASSUME IInv
    PROVE  /\ \A h \in Hubs : \A i \in DOMAIN pump[h] : pump[h][i] \in Fit(h)
           /\ \A l \in Links : \A h \in Ends(l) : \A i \in DOMAIN wire[l][h] :
                wire[l][h][i] \in Sent(l, h)
           /\ \A l \in Links : \A i \in DOMAIN pend[l] : pend[l][i] \in Sent(l, l.dials)
<1>1. ASSUME NEW h \in Hubs, NEW i \in DOMAIN pump[h] PROVE pump[h][i] \in Fit(h)
  <2>1. pump[h] \in Seq(Fit(h))
    BY DEF IInv, PumpInv
  <2> QED BY <2>1, ElementOfSeq, LenProperties
<1>2. ASSUME NEW l \in Links, NEW h \in Ends(l), NEW i \in DOMAIN wire[l][h]
      PROVE  wire[l][h][i] \in Sent(l, h)
  <2>1. wire[l][h] \in Seq(Sent(l, h))
    BY DEF IInv, WireInv
  <2> QED BY <2>1, ElementOfSeq, LenProperties
<1>3. ASSUME NEW l \in Links, NEW i \in DOMAIN pend[l] PROVE pend[l][i] \in Sent(l, l.dials)
  <2>1. pend[l] \in Seq(Sent(l, l.dials))
    BY DEF IInv, PendInv
  <2> QED BY <2>1, ElementOfSeq, LenProperties
<1> QED BY <1>1, <1>2, <1>3

LEMMA WireOfMessages ==
    ASSUME IInv, NEW l \in Links, NEW h \in Ends(l)
    PROVE  wire[l][h] \in Seq(Messages)
<1>1. wire[l][h] \in Seq(Sent(l, h)) /\ Sent(l, h) \subseteq Messages
  BY SentIsFit DEF IInv, WireInv
<1> QED BY <1>1, SeqMonotonic

LEMMA PendOfMessages ==
    ASSUME IInv, NEW l \in Links
    PROVE  pend[l] \in Seq(Messages)
<1>1. pend[l] \in Seq(Sent(l, l.dials)) /\ Sent(l, l.dials) \subseteq Messages
  BY SentIsFit DEF IInv, PendInv
<1> QED BY <1>1, SeqMonotonic

LEMMA PumpOfMessages ==
    ASSUME IInv, NEW h \in Hubs
    PROVE  pump[h] \in Seq(Messages)
<1>1. pump[h] \in Seq(Fit(h)) /\ Fit(h) \subseteq Messages
  BY FitIsNear DEF IInv, PumpInv
<1> QED BY <1>1, SeqMonotonic

LEMMA IInvBounds == IInv => HopBound
BY Queued, FitIsNear, SentIsFit, DialsIsEnd DEF HopBound, Near

LEMMA FitIsMessage == \A h : \A m \in Fit(h) : MessageOK(m)
BY DEF Fit, Near, Messages, MessageOK, Addr, Kinds

LEMMA IInvTypes == IInv => TypeOK
<1>1. ASSUME IInv, NEW h \in Hubs PROVE cons[h] \in Seq(Links)
  <2>1. cons[h] \in Seq(LinksOf(h)) /\ LinksOf(h) \subseteq Links
    BY <1>1 DEF IInv, ConsInv, LinksOf
  <2> QED BY <2>1
<1>2. IInv => down \subseteq Links
  BY DEF IInv, PendInv
<1> QED BY <1>1, <1>2, Queued, SentIsFit, FitIsMessage DEF TypeOK

-----------------------------------------------------------------------------
(* Where messages end.                                                     *)

\* What may become of mail, and at which hubs.
Outcome(id) ==
    {e \in [how : {"lost", "barred", "dropped", "handled", "told"}, at : Hubs] :
       /\ e.how = "handled" /\ id.kind = "App" => e.at = Named(id.dst)
       /\ e.how = "handled" /\ id.kind = "Ask" => e.at = id.src
       /\ e.how = "told" => e.at = id.src \/ (id.kind = "Ask" /\ e.at = Named(id.dst))
       /\ e.how = "lost" => Failed}

EndsInv == DOMAIN ends = Mail /\ \A id \in Mail : ends[id] \in Seq(Outcome(id))

\* As long as nothing has failed links stand at both ends, and none is lost.
Standing ==
    /\ drops \in Nat
    /\ \/ Failed
       \/ down = {} /\ \A l \in Links : \A h \in Ends(l) : Listed(h, l) => Listed(Peer(l, h), l)

\* How much longer the history of mail id becomes.
LEMMA EndedGrows ==
    ASSUME NEW how, NEW h, NEW S, NEW q \in Seq(S), Ended(how, h, q), NEW id \in Mail,
           NEW T, ends[id] \in Seq(T), Copies(q, id) # 0 => [how |-> how, at |-> h] \in T
    PROVE  ends'[id] \in Seq(T) /\ Len(ends'[id]) = Len(ends[id]) + Copies(q, id)
<1> DEFINE n == Copies(q, id)
           e == [how |-> how, at |-> h]
           f == [i \in 1 .. n |-> e]
           o == ends[id]
<1>1. n \in Nat
  BY CopiesType
<1>2. o \in Seq(T)
  OBVIOUS
<1>3. ends'[id] = o \o f
  BY DEF Ended
<1>4. n # 0 => e \in T
  OBVIOUS
<1> HIDE DEF n, e, o
<1>5. f \in Seq(T) /\ Len(f) = n
  <2>1. CASE n = 0
    <3>1. 1 .. n = {}
      BY <2>1
    <3>2. f = <<>>
      BY <3>1
    <3> QED BY <2>1, <3>2, EmptySeq
  <2>2. CASE n # 0
    BY <1>1, <1>4, <2>2
  <2> QED BY <2>1, <2>2
<1> HIDE DEF f
<1>6. o \o f \in Seq(T) /\ Len(o \o f) = Len(o) + Len(f)
  BY <1>2, <1>5, ConcatProperties
<1> QED BY <1>3, <1>5, <1>6 DEF n, o

LEMMA EndedLonger ==
    ASSUME EndsInv, NEW how, NEW h, NEW S, NEW q \in Seq(S), Ended(how, h, q), NEW id \in Mail
    PROVE  Len(ends'[id]) = Len(ends[id]) + Copies(q, id)
<1> DEFINE T == Outcome(id) \cup {[how |-> how, at |-> h]}
<1>1. ends[id] \in Seq(T)
  <2>1. ends[id] \in Seq(Outcome(id)) /\ Outcome(id) \subseteq T
    BY DEF EndsInv
  <2> QED BY <2>1, SeqMonotonic
<1>2. [how |-> how, at |-> h] \in T
  OBVIOUS
<1> HIDE DEF T
<1> QED BY <1>1, <1>2, EndedGrows

LEMMA EndedKeeps ==
    ASSUME EndsInv, NEW how, NEW h, NEW S, NEW q \in Seq(S), Ended(how, h, q), Failed => Failed',
           \A id \in Mail : \A i \in 1 .. Len(q) :
             q[i].id = id => [how |-> how, at |-> h] \in Outcome(id)'
    PROVE  EndsInv'
<1>1. ASSUME NEW id \in Mail PROVE ends'[id] \in Seq(Outcome(id)')
  <2>1. Copies(q, id) # 0 => [how |-> how, at |-> h] \in Outcome(id)'
    BY CopiesType
  <2>2. ends[id] \in Seq(Outcome(id)) /\ Outcome(id) \subseteq Outcome(id)'
    BY DEF EndsInv, Outcome
  <2>3. ends[id] \in Seq(Outcome(id)')
    BY <2>2, SeqMonotonic
  <2> QED BY <2>1, <2>3, EndedGrows
<1>2. DOMAIN ends' = Mail
  BY DEF Ended
<1> QED BY <1>1, <1>2 DEF EndsInv

\* Mail may be lost anywhere, once something has failed.
LEMMA LostKeeps ==
    ASSUME EndsInv, NEW h \in Hubs, NEW S, NEW q \in Seq(S), Ended("lost", h, q), Failed'
    PROVE  EndsInv'
<1>1. \A id \in Mail : [how |-> "lost", at |-> h] \in Outcome(id)'
  BY DEF Outcome
<1> QED BY <1>1, EndedKeeps

\* The one message at the head of a pump.
LEMMA OneEndedKeeps ==
    ASSUME EndsInv, NEW how, NEW h, NEW m, NEW id, m.id = id, Ended(how, h, <<m>>), Failed => Failed',
           [how |-> how, at |-> h] \in Outcome(id)'
    PROVE  EndsInv'
<1> DEFINE q == <<m>>
<1>1. q \in Seq({m}) /\ Len(q) = 1 /\ q[1] = m
  OBVIOUS
<1>2. Ended(how, h, q)
  OBVIOUS
<1> HIDE DEF q
<1>3. \A k \in Mail : \A i \in 1 .. Len(q) :
        q[i].id = k => [how |-> how, at |-> h] \in Outcome(k)'
  BY <1>1
<1> QED BY <1>1, <1>2, <1>3, EndedKeeps

\* What has failed has failed, and a close is seen only after a failure.
LEMMA Failing ==
    ASSUME Standing, [Next]_vars
    PROVE  /\ drops' \in Nat /\ (Failed => Failed')
           /\ \A l \in Links : RedialFails(l) \/ (\E h \in Ends(l) : Close(h, l)) => Failed'
<1>1. ASSUME NEW id \in Mail, Post(id) PROVE UNCHANGED <<refused, drops>>
  BY <1>1 DEF Post
<1>2. ASSUME NEW h \in Hubs, Dispatch(h) PROVE UNCHANGED <<refused, drops>>
  BY <1>2 DEF Dispatch, Forward, MountRefuses, Undeliverable, EndOfTheLine, Handle, NotHandled,
              Reflect, FanOut
<1>3. ASSUME NEW l \in Links, NEW k \in Links, Redial(l, k) PROVE UNCHANGED <<refused, drops>>
  BY <1>3 DEF Redial
<1>4. ASSUME NEW l \in Links, RedialFails(l) PROVE drops' = drops + 1 /\ UNCHANGED refused
  BY <1>4 DEF RedialFails
<1>5. ASSUME NEW l \in Links, NEW h \in Ends(l), Read(h, l) PROVE UNCHANGED <<refused, drops>>
  BY <1>5 DEF Read
<1>6. ASSUME NEW l \in Links, NEW h \in Ends(l), Refuse(h, l)
      PROVE  UNCHANGED drops /\ refused \subseteq refused' /\ refused' # {}
  BY <1>6 DEF Refuse
<1>7. ASSUME NEW l \in Links, NEW h \in Ends(l), Drop(h, l)
      PROVE  drops' = drops + 1 /\ UNCHANGED refused
  BY <1>7 DEF Drop
<1>8. ASSUME NEW l \in Links, NEW h \in Ends(l), SeeClose(h, l)
      PROVE  UNCHANGED <<refused, drops>> /\ Failed
  BY <1>8 DEF SeeClose, Standing, Open
<1>9. drops \in Nat
  BY DEF Standing
<1>10. drops' \in {drops, drops + 1} /\ refused \subseteq refused'
  <2>1. CASE UNCHANGED vars
    BY <2>1 DEF vars
  <2>2. CASE Next
    BY <1>1, <1>2, <1>3, <1>4, <1>5, <1>6, <1>7, <1>8, <2>2 DEF Next, Close
  <2> QED BY <2>1, <2>2
<1>11. drops' \in Nat /\ (Failed => Failed')
  BY <1>9, <1>10 DEF Failed
<1>12. ASSUME NEW l \in Links, RedialFails(l) PROVE Failed'
  BY <1>4, <1>9, <1>12 DEF Failed
<1>13. ASSUME NEW l \in Links, NEW h \in Ends(l), Close(h, l) PROVE Failed'
  BY <1>6, <1>7, <1>8, <1>9, <1>11, <1>13 DEF Failed, Close
<1> QED BY <1>11, <1>12, <1>13

LEMMA StandingStep == Standing /\ [Next]_vars => Standing'
<1> SUFFICES ASSUME Standing, [Next]_vars, ~Failed' PROVE Standing'
  BY Failing DEF Standing
<1>0. down = {} /\ drops' \in Nat
  BY Failing DEF Standing
<1>1. ASSUME UNCHANGED <<cons, down>> PROVE Standing'
  BY <1>0, <1>1, Failing DEF Standing, Listed
<1>2. ASSUME NEW id \in Mail, Post(id) PROVE Standing'
  BY <1>1, <1>2 DEF Post, links
<1>3. ASSUME NEW h \in Hubs, Dispatch(h) PROVE Standing'
  BY <1>1, <1>3 DEF Dispatch, Forward, MountRefuses, Undeliverable, EndOfTheLine, Handle,
                    NotHandled, Reflect, FanOut, links
<1>4. ASSUME NEW l \in Links, NEW h \in Ends(l), Read(h, l) PROVE Standing'
  BY <1>1, <1>4 DEF Read
<1>5. ASSUME NEW l \in Links, NEW k \in Links, Redial(l, k) PROVE Standing'
  BY <1>0, <1>5 DEF Redial
<1>6. CASE UNCHANGED vars
  BY <1>1, <1>6 DEF vars
<1> QED BY <1>2, <1>3, <1>4, <1>5, <1>6, Failing DEF Next

LEMMA StandingInit == Init => Standing
<1> SUFFICES ASSUME Init PROVE Standing
  OBVIOUS
<1>1. ASSUME NEW l \in Links, NEW h \in Ends(l), Listed(h, l) PROVE Listed(Peer(l, h), l)
  BY <1>1, PeerIsHub, InitLists DEF Listed
<1> QED BY <1>1 DEF Init, Standing

LEMMA EndsStep == IInv /\ EndsInv /\ Standing /\ [Next]_vars => EndsInv'
<1> SUFFICES ASSUME IInv, EndsInv, Standing, [Next]_vars PROVE EndsInv'
  OBVIOUS
<1>0. ASSUME UNCHANGED ends PROVE EndsInv'
  <2> SUFFICES ASSUME NEW id \in Mail PROVE ends[id] \in Seq(Outcome(id)')
    BY <1>0 DEF EndsInv
  <2>1. ends[id] \in Seq(Outcome(id)) /\ Outcome(id) \subseteq Outcome(id)'
    BY Failing DEF EndsInv, Outcome
  <2> QED BY <2>1, SeqMonotonic
<1>1. ASSUME NEW id \in Mail, Post(id) PROVE EndsInv'
  BY <1>0, <1>1 DEF Post
<1>2. ASSUME NEW h \in Hubs, Dispatch(h) PROVE EndsInv'
  <2> DEFINE m == Head(pump[h])
  <2> PICK id : id = m.id
    OBVIOUS
  <2>0. ASSUME pump[h] # <<>>
        PROVE  m \in Fit(h) /\ id \in Mail /\ m.dst \in Addr /\ Addressed(m) /\ Named(h) = h
    BY <2>0, HeadIsFit, HubIsPlain DEF IInv, Fit, Messages
  <2>1. CASE Forward(h) \/ Undeliverable(h) \/ NotHandled(h) \/ Reflect(h)
    BY <1>0, <2>1 DEF Forward, Undeliverable, NotHandled, Reflect
  <2>2. CASE MountRefuses(h)
    <3>1. Ended("barred", h, <<m>>)
      BY <2>2 DEF MountRefuses
    <3>2. [how |-> "barred", at |-> h] \in Outcome(id)'
      BY DEF Outcome
    <3> QED BY <3>1, <3>2, OneEndedKeeps, Failing
  <2>3. CASE EndOfTheLine(h)
    <3>1. Ended("dropped", h, <<m>>)
      BY <2>3 DEF EndOfTheLine
    <3>2. [how |-> "dropped", at |-> h] \in Outcome(id)'
      BY DEF Outcome
    <3> QED BY <3>1, <3>2, OneEndedKeeps, Failing
  <2>4. CASE Handle(h)
    <3>1. pump[h] # <<>> /\ m.dst = h /\ m.kind \in {"App", "Answer", "Exception"}
      BY <2>4 DEF Handle, Here
    <3>2. id \in Mail /\ id = m.id /\ Addressed(m) /\ Named(m.dst) = h
      BY <2>0, <3>1
    <3>3. CASE m.kind = "Exception"
      <4>1. Ended("told", h, <<m>>)
        BY <2>4, <3>3 DEF Handle
      <4>2. [how |-> "told", at |-> h] \in Outcome(id)'
        BY <3>2, <3>3 DEF Outcome, Addressed
      <4> QED BY <4>1, <4>2, OneEndedKeeps, Failing
    <3>4. CASE m.kind # "Exception"
      <4>1. Ended("handled", h, <<m>>)
        BY <2>4, <3>4 DEF Handle
      <4>2. [how |-> "handled", at |-> h] \in Outcome(id)'
        BY <3>1, <3>2, <3>4 DEF Outcome, Addressed
      <4> QED BY <4>1, <4>2, OneEndedKeeps, Failing
    <3> QED BY <3>3, <3>4
  <2>5. CASE FanOut(h)
    <3>1. pump[h] # <<>> /\ m.kind \in {"BCast", "UCast"} /\ Ended("handled", h, <<m>>)
      BY <2>5 DEF FanOut, Here
    <3>2. id.kind = m.kind
      BY <2>0, <3>1 DEF Addressed
    <3>3. [how |-> "handled", at |-> h] \in Outcome(id)'
      BY <3>1, <3>2 DEF Outcome
    <3> QED BY <3>1, <3>3, OneEndedKeeps, Failing
  <2> QED BY <1>2, <2>1, <2>2, <2>3, <2>4, <2>5 DEF Dispatch
<1>3. ASSUME NEW l \in Links, NEW k \in Links, Redial(l, k) PROVE EndsInv'
  BY <1>0, <1>3 DEF Redial
<1>4. ASSUME NEW l \in Links, RedialFails(l) PROVE EndsInv'
  <2>1. Ended("lost", l.dials, pend[l]) /\ pend[l] \in Seq(Messages) /\ l.dials \in Hubs
    BY <1>4, PendOfMessages, DialsIsEnd DEF RedialFails
  <2> QED BY <1>4, <2>1, LostKeeps, Failing
<1>5. ASSUME NEW l \in Links, NEW h \in Ends(l), Read(h, l) PROVE EndsInv'
  BY <1>0, <1>5 DEF Read
<1>6. ASSUME NEW l \in Links, NEW h \in Ends(l), Close(h, l) PROVE EndsInv'
  <2> DEFINE p == Peer(l, h)
  <2>0. h \in Hubs /\ p \in Ends(l) /\ Failed' /\ Shut(h, l)
    BY <1>6, PeerIsHub, Failing DEF Close, Refuse, Drop, SeeClose
  <2>1. wire[l][h] \in Seq(Messages) /\ wire[l][p] \in Seq(Messages)
    BY <2>0, WireOfMessages
  <2>2. PICK n \in 0 .. (IF Open(p, l) THEN Len(wire[l][h]) ELSE 0) :
          Ended("lost", h, SubSeq(wire[l][h], n + 1, Len(wire[l][h])) \o wire[l][p])
    BY <2>0 DEF Shut
  <2>3. n \in 0 .. Len(wire[l][h])
    BY <2>1, <2>2, LenProperties
  <2>4. SubSeq(wire[l][h], n + 1, Len(wire[l][h])) \in Seq(Messages)
    BY <2>1, <2>3, CopiesSplit
  <2>5. SubSeq(wire[l][h], n + 1, Len(wire[l][h])) \o wire[l][p] \in Seq(Messages)
    BY <2>1, <2>4, ConcatProperties
  <2> QED BY <2>0, <2>2, <2>5, LostKeeps
<1>7. CASE UNCHANGED vars
  BY <1>0, <1>7 DEF vars
<1> QED BY <1>1, <1>2, <1>3, <1>4, <1>5, <1>6, <1>7 DEF Next

LEMMA EndsInit == Init => EndsInv
BY EmptySeq DEF Init, EndsInv

LEMMA EndsAreRight == EndsInv => RightHub
<1> SUFFICES ASSUME EndsInv, NEW id \in Mail, NEW i \in DOMAIN ends[id]
             PROVE  ends[id][i] \in Outcome(id)
  BY DEF RightHub, Outcome
<1>1. ends[id] \in Seq(Outcome(id))
  BY DEF EndsInv
<1> QED BY <1>1, ElementOfSeq, LenProperties

\* A gate refuses only what is not in its own sender's power to vouch for.
LEMMA GateStep == IInv /\ GateHonest /\ [Next]_vars => GateHonest'
<1> SUFFICES ASSUME IInv, GateHonest, [Next]_vars PROVE GateHonest'
  OBVIOUS
<1>0. ASSUME UNCHANGED refused PROVE GateHonest'
  BY <1>0 DEF GateHonest
<1>1. ASSUME NEW id \in Mail, Post(id) PROVE GateHonest'
  BY <1>0, <1>1 DEF Post
<1>2. ASSUME NEW h \in Hubs, Dispatch(h) PROVE GateHonest'
  BY <1>0, <1>2 DEF Dispatch, Forward, MountRefuses, Undeliverable, EndOfTheLine, Handle,
                    NotHandled, Reflect, FanOut
<1>3. ASSUME NEW l \in Links, NEW h \in Ends(l), Refuse(h, l) PROVE GateHonest'
  <2> DEFINE p == Peer(l, h)
             m == Head(wire[l][p])
  <2>1. p \in Ends(l) /\ Peer(l, p) = h
    BY PeerIsHub
  <2>2. wire[l][p] \in Seq(Sent(l, p)) /\ wire[l][p] # <<>> /\ ~GateAppMsgInbound(l, h, m)
    BY <1>3, <2>1 DEF IInv, WireInv, Refuse
  <2>3. m \in Sent(l, p)
    BY <2>2, HeadTailProperties
  <2>4. m.kind \in Turned
    BY <2>1, <2>2, <2>3 DEF Sent
  <2>5. refused' = refused \cup {m.kind}
    BY <1>3 DEF Refuse
  <2> QED BY <2>4, <2>5 DEF GateHonest, Turned
<1>4. ASSUME NEW l \in Links, NEW h \in Ends(l), Drop(h, l) \/ SeeClose(h, l) PROVE GateHonest'
  BY <1>0, <1>4 DEF Drop, SeeClose
<1>5. ASSUME NEW l \in Links, \/ RedialFails(l) \/ \E k \in Links : Redial(l, k)
                              \/ \E h \in Ends(l) : Read(h, l)
      PROVE  GateHonest'
  BY <1>0, <1>5 DEF Redial, RedialFails, Read
<1>6. CASE UNCHANGED vars
  BY <1>0, <1>6 DEF vars
<1> QED BY <1>1, <1>2, <1>3, <1>4, <1>5, <1>6 DEF Next, Close

-----------------------------------------------------------------------------
(* No message is doubled, or lost while nothing has failed.                *)

\* The copies of mail id at each site; the sole one, or none as yet.
Held(id) == [s \in Sites |-> Copies(Queue(s), id)]

Idle(f, n) == n = 0 /\ \A s \in Sites : f[s] = 0
Sole(f, n) ==
    \/ n = 0 /\ \E s \in Sites : f[s] = 1 /\ \A t \in Sites \ {s} : f[t] = 0
    \/ n = 1 /\ \A s \in Sites : f[s] = 0

\* Mail that is handed from hub to hub, and never copied.
Letters == {id \in Mail : id.kind \in {"App", "Ask"}}

Single(id)  == Sole(Held(id), Len(ends[id]))
Nowhere(id) == Idle(Held(id), Len(ends[id]))

OneOf(id) == IF id \in posted THEN Single(id) ELSE Nowhere(id)
OneInv == posted \subseteq Mail /\ \A id \in Letters : OneOf(id)

\* What waits at a hub, or is on its way to it, is in the hub's set of F.
AllIn(F) ==
    /\ \A h \in Hubs : pump[h] \in Seq(F[h])
    /\ \A l \in Links : \A h \in Ends(l) : wire[l][h] \in Seq(F[Peer(l, h)])
    /\ \A l \in Links : pend[l] \in Seq(F[l.accepts])

\* What has been reported is a report, wherever it is.
Told(id) == {m \in Messages : m.id = id => m.kind = "Exception"}
AllTold(id) == AllIn([h \in Hubs |-> Told(id)])

Said(id) ==
    \/ reports[id] = 0
    \/ reports[id] = 1 /\ id \in posted /\ AllTold(id)
SaidInv == DOMAIN reports = Mail /\ \A id \in Letters : Said(id)

PumpSite(h)    == <<"pump", h>>
WireSite(l, h) == <<"wire", l, h>>
PendSite(l)    == <<"pend", l>>

LEMMA SitesAre ==
    /\ \A h \in Hubs : PumpSite(h) \in Sites
    /\ \A l \in Links : \A h \in Ends(l) : WireSite(l, h) \in Sites
    /\ \A l \in Links : PendSite(l) \in Sites
    /\ \A s \in Sites : \/ \E h \in Hubs : s = PumpSite(h)
                        \/ \E l \in Links : \E h \in Ends(l) : s = WireSite(l, h)
                        \/ \E l \in Links : s = PendSite(l)
    /\ \A h, l, k : PumpSite(h) # WireSite(l, k)
    /\ \A l, m, k : PendSite(l) # WireSite(m, k) /\ PendSite(l) # PumpSite(k)
    /\ \A h, k : PumpSite(h) = PumpSite(k) => h = k
    /\ \A h, k : PendSite(h) = PendSite(k) => h = k
    /\ \A l, h, m, k : WireSite(l, h) = WireSite(m, k) => l = m /\ h = k
<1>1. ASSUME NEW s \in {"wire"} \X Links \X Hubs, s[3] \in Ends(s[2])
      PROVE  \E l \in Links : \E h \in Ends(l) : s = WireSite(l, h)
  <2>1. s = <<s[1], s[2], s[3]>> /\ s[1] = "wire" /\ s[2] \in Links
    OBVIOUS
  <2> QED BY <1>1, <2>1 DEF WireSite
<1>2. ASSUME NEW l \in Links, NEW h \in Ends(l)
      PROVE  WireSite(l, h) \in {s \in {"wire"} \X Links \X Hubs : s[3] \in Ends(s[2])}
  <2>1. h \in Hubs
    BY PeerIsHub
  <2> QED BY <2>1 DEF WireSite
<1> QED BY <1>1, <1>2 DEF Sites, PumpSite, WireSite, PendSite

LEMMA QueuesAre ==
    /\ \A h : Queue(PumpSite(h)) = pump[h]
    /\ \A l, h : Queue(WireSite(l, h)) = wire[l][h]
    /\ \A l : Queue(PendSite(l)) = pend[l]
BY DEF Queue, PumpSite, WireSite, PendSite

LEMMA QueuesNext ==
    /\ \A h : Queue(PumpSite(h))' = pump'[h]
    /\ \A l, h : Queue(WireSite(l, h))' = wire'[l][h]
    /\ \A l : Queue(PendSite(l))' = pend'[l]
BY DEF Queue, PumpSite, WireSite, PendSite

QueuesOK == \A s \in Sites : Queue(s) \in Seq(Messages)

LEMMA QueuesTyped == IInv => QueuesOK
BY SitesAre, QueuesAre, PumpOfMessages, WireOfMessages, PendOfMessages DEF QueuesOK

LEMMA QueuesTypedNext == IInv' => QueuesOK'
BY QueuesTyped, PTL

LEMMA HeldAt ==
    ASSUME QueuesOK, NEW id
    PROVE  \A s \in Sites : Held(id)[s] = Copies(Queue(s), id) /\ Held(id)[s] \in Nat
BY CopiesType DEF Held, QueuesOK

\* Sites that are not touched.
LEMMA Elsewhere ==
    ASSUME NEW T, \A h \in Hubs : PumpSite(h) \notin T => pump'[h] = pump[h],
           \A l \in Links : \A h \in Ends(l) : WireSite(l, h) \notin T => wire'[l][h] = wire[l][h],
           \A l \in Links : PendSite(l) \notin T => pend'[l] = pend[l]
    PROVE  \A s \in Sites \ T : Queue(s)' = Queue(s)
<1> SUFFICES ASSUME NEW s \in Sites \ T PROVE Queue(s)' = Queue(s)
  OBVIOUS
<1>1. CASE \E h \in Hubs : s = PumpSite(h)
  BY <1>1 DEF Queue, PumpSite
<1>2. CASE \E l \in Links : \E h \in Ends(l) : s = WireSite(l, h)
  BY <1>2 DEF Queue, WireSite
<1>3. CASE \E l \in Links : s = PendSite(l)
  BY <1>3 DEF Queue, PendSite
<1> QED BY <1>1, <1>2, <1>3, SitesAre

LEMMA MovedBetween ==
    ASSUME NEW f, NEW g, \A s \in Sites : f[s] \in Nat /\ g[s] \in Nat,
           NEW a \in Sites, NEW b \in Sites, a # b, \A s \in Sites \ {a, b} : g[s] = f[s],
           NEW n \in Nat, NEW k \in Nat, g[a] + g[b] + k = f[a] + f[b]
    PROVE  (Sole(f, n) => Sole(g, n + k)) /\ (Idle(f, n) => Idle(g, n + k))
<1> DEFINE fa == f[a]
           fb == f[b]
           ga == g[a]
           gb == g[b]
<1>0. fa \in Nat /\ fb \in Nat /\ ga \in Nat /\ gb \in Nat /\ ga + gb + k = fa + fb
  OBVIOUS
<1>1. ASSUME Idle(f, n) PROVE Idle(g, n + k)
  <2>1. fa = 0 /\ fb = 0 /\ n = 0
    BY <1>1 DEF Idle
  <2> HIDE DEF fa, fb, ga, gb
  <2>2. ga = 0 /\ gb = 0 /\ k = 0
    BY <1>0, <2>1
  <2> QED BY <1>1, <2>2 DEF Idle, ga, gb
<1>2. ASSUME Sole(f, n) PROVE Sole(g, n + k)
  <2>1. CASE n = 1 /\ \A s \in Sites : f[s] = 0
    <3>1. fa = 0 /\ fb = 0
      BY <2>1
    <3> HIDE DEF fa, fb, ga, gb
    <3>2. ga = 0 /\ gb = 0 /\ k = 0
      BY <1>0, <3>1
    <3> QED BY <2>1, <3>2 DEF Sole, ga, gb
  <2>2. ASSUME n = 0, NEW s \in Sites, f[s] = 1, \A t \in Sites \ {s} : f[t] = 0
        PROVE  Sole(g, n + k)
    <3>1. CASE s \notin {a, b}
      <4>1. fa = 0 /\ fb = 0
        BY <2>2, <3>1
      <4> HIDE DEF fa, fb, ga, gb
      <4>2. ga = 0 /\ gb = 0 /\ k = 0
        BY <1>0, <4>1
      <4>3. g[s] = 1 /\ \A t \in Sites \ {s} : g[t] = 0
        BY <2>2, <3>1, <4>2 DEF ga, gb
      <4> QED BY <2>2, <4>2, <4>3 DEF Sole
    <3>2. CASE s \in {a, b}
      <4>1. fa + fb = 1
        BY <2>2, <3>2
      <4>2. \A t \in Sites \ {a, b} : g[t] = 0
        BY <2>2, <3>2
      <4> HIDE DEF fa, fb, ga, gb
      <4>3. \/ ga = 1 /\ gb = 0 /\ k = 0
            \/ ga = 0 /\ gb = 1 /\ k = 0
            \/ ga = 0 /\ gb = 0 /\ k = 1
        BY <1>0, <4>1
      <4> QED BY <2>2, <4>2, <4>3 DEF Sole, ga, gb
    <3> QED BY <3>1, <3>2
  <2> QED BY <1>2, <2>1, <2>2 DEF Sole
<1> QED BY <1>1, <1>2

LEMMA MovedAt ==
    ASSUME NEW f, NEW g, \A s \in Sites : f[s] \in Nat /\ g[s] \in Nat,
           NEW a \in Sites, \A s \in Sites \ {a} : g[s] = f[s],
           NEW n \in Nat, NEW k \in Nat, g[a] + k = f[a]
    PROVE  (Sole(f, n) => Sole(g, n + k)) /\ (Idle(f, n) => Idle(g, n + k))
<1> DEFINE fa == f[a]
           ga == g[a]
<1>0. fa \in Nat /\ ga \in Nat /\ ga + k = fa
  OBVIOUS
<1>1. ASSUME fa = 0 PROVE ga = 0 /\ k = 0
  <2> HIDE DEF fa, ga
  <2> QED BY <1>0, <1>1
<1>2. ASSUME fa = 1 PROVE (ga = 1 /\ k = 0) \/ (ga = 0 /\ k = 1)
  <2> HIDE DEF fa, ga
  <2> QED BY <1>0, <1>2
<1>3. ASSUME Idle(f, n) PROVE Idle(g, n + k)
  BY <1>1, <1>3 DEF Idle
<1>4. ASSUME n = 1, \A s \in Sites : f[s] = 0 PROVE Sole(g, n + k)
  BY <1>1, <1>4 DEF Sole
<1>5. ASSUME n = 0, NEW s \in Sites, f[s] = 1, \A t \in Sites \ {s} : f[t] = 0
      PROVE  Sole(g, n + k)
  <2>1. CASE s = a
    BY <1>2, <1>5, <2>1 DEF Sole
  <2>2. CASE s # a
    <3>1. ga = 0 /\ k = 0
      BY <1>1, <1>5, <2>2
    <3>2. g[s] = 1 /\ \A t \in Sites \ {s} : g[t] = 0
      BY <1>5, <2>2, <3>1
    <3> QED BY <1>5, <3>1, <3>2 DEF Sole
  <2> QED BY <2>1, <2>2
<1> QED BY <1>3, <1>4, <1>5 DEF Sole

LEMMA HeldNext ==
    ASSUME QueuesOK', NEW id, NEW s \in Sites, NEW q, Queue(s)' = q
    PROVE  Held(id)'[s] = Copies(q, id) /\ Held(id)'[s] \in Nat
<1>1. q \in Seq(Messages)
  BY DEF QueuesOK
<1>2. Held(id)'[s] = Copies(q, id)
  BY DEF Held, Copies
<1> QED BY <1>1, <1>2, CopiesType

\* The counts at two sites, at one, or at none change.
LEMMA TwoSites ==
    ASSUME QueuesOK, QueuesOK', EndsInv, NEW id \in Mail,
           NEW a \in Sites, NEW b \in Sites, a # b, NEW p, Queue(a)' = p, NEW q, Queue(b)' = q,
           \A s \in Sites \ {a, b} : Queue(s)' = Queue(s), NEW k \in Nat,
           Copies(p, id) + Copies(q, id) + k = Copies(Queue(a), id) + Copies(Queue(b), id),
           Len(ends'[id]) = Len(ends[id]) + k
    PROVE  (Single(id) => Single(id)') /\ (Nowhere(id) => Nowhere(id)')
<1> DEFINE f == Held(id)
           g == Held(id)'
           n == Len(ends[id])
<1>1. \A s \in Sites : f[s] = Copies(Queue(s), id) /\ f[s] \in Nat
  BY HeldAt
<1>2. g[a] = Copies(p, id) /\ g[b] = Copies(q, id) /\ g[a] \in Nat /\ g[b] \in Nat
  BY HeldNext
<1>3. \A s \in Sites \ {a, b} : g[s] = f[s]
  BY <1>1, HeldNext
<1>4. n \in Nat /\ Len(ends'[id]) = n + k
  BY LenProperties DEF EndsInv
<1>5. (Single(id) <=> Sole(f, n)) /\ (Nowhere(id) <=> Idle(f, n))
  BY DEF Single, Nowhere
<1>6. (Single(id)' <=> Sole(g, Len(ends'[id]))) /\ (Nowhere(id)' <=> Idle(g, Len(ends'[id])))
  BY DEF Single, Nowhere, Sole, Idle
<1> HIDE DEF f, g, n
<1>7. \A s \in Sites : f[s] \in Nat /\ g[s] \in Nat
  BY <1>1, <1>2, <1>3
<1>8. g[a] + g[b] + k = f[a] + f[b]
  BY <1>1, <1>2
<1>9. (Sole(f, n) => Sole(g, n + k)) /\ (Idle(f, n) => Idle(g, n + k))
  BY <1>3, <1>4, <1>7, <1>8, MovedBetween
<1> QED BY <1>4, <1>5, <1>6, <1>9

LEMMA OneSite ==
    ASSUME QueuesOK, QueuesOK', EndsInv, NEW id \in Mail, NEW a \in Sites, NEW p, Queue(a)' = p,
           \A s \in Sites \ {a} : Queue(s)' = Queue(s), NEW k \in Nat,
           Copies(p, id) + k = Copies(Queue(a), id), Len(ends'[id]) = Len(ends[id]) + k
    PROVE  (Single(id) => Single(id)') /\ (Nowhere(id) => Nowhere(id)')
<1> DEFINE f == Held(id)
           g == Held(id)'
           n == Len(ends[id])
<1>1. \A s \in Sites : f[s] = Copies(Queue(s), id) /\ f[s] \in Nat
  BY HeldAt
<1>2. g[a] = Copies(p, id) /\ g[a] \in Nat
  BY HeldNext
<1>3. \A s \in Sites \ {a} : g[s] = f[s]
  BY <1>1, HeldNext
<1>4. n \in Nat /\ Len(ends'[id]) = n + k
  BY LenProperties DEF EndsInv
<1>5. (Single(id) <=> Sole(f, n)) /\ (Nowhere(id) <=> Idle(f, n))
  BY DEF Single, Nowhere
<1>6. (Single(id)' <=> Sole(g, Len(ends'[id]))) /\ (Nowhere(id)' <=> Idle(g, Len(ends'[id])))
  BY DEF Single, Nowhere, Sole, Idle
<1> HIDE DEF f, g, n
<1>7. \A s \in Sites : f[s] \in Nat /\ g[s] \in Nat
  BY <1>1, <1>2, <1>3
<1>8. g[a] + k = f[a]
  BY <1>1, <1>2
<1>9. (Sole(f, n) => Sole(g, n + k)) /\ (Idle(f, n) => Idle(g, n + k))
  BY <1>3, <1>4, <1>7, <1>8, MovedAt
<1> QED BY <1>4, <1>5, <1>6, <1>9

LEMMA NoSite ==
    ASSUME QueuesOK, QueuesOK', NEW id \in Mail, ends'[id] = ends[id],
           \A s \in Sites : \E q : Queue(s)' = q /\ Copies(q, id) = Copies(Queue(s), id)
    PROVE  (Single(id) => Single(id)') /\ (Nowhere(id) => Nowhere(id)')
<1> DEFINE f == Held(id)
           g == Held(id)'
           n == Len(ends[id])
<1>1. \A s \in Sites : f[s] = Copies(Queue(s), id)
  BY HeldAt
<1>2. \A s \in Sites : g[s] = f[s]
  BY <1>1, HeldNext
<1>3. (Single(id) <=> Sole(f, n)) /\ (Nowhere(id) <=> Idle(f, n))
  BY DEF Single, Nowhere
<1>4. (Single(id)' <=> Sole(g, n)) /\ (Nowhere(id)' <=> Idle(g, n))
  BY DEF Single, Nowhere, Sole, Idle
<1> HIDE DEF f, g, n
<1> QED BY <1>2, <1>3, <1>4 DEF Sole, Idle

Stays(id) == (Single(id) => Single(id)') /\ (Nowhere(id) => Nowhere(id)')

\* A step that has nothing to do with mail id.
Untouched(id) ==
    /\ ends'[id] = ends[id]
    /\ \A s \in Sites : \E q : Queue(s)' = q /\ Copies(q, id) = Copies(Queue(s), id)

LEMMA UntouchedStays ==
    ASSUME IInv, IInv', NEW id \in Mail, Untouched(id)
    PROVE  Stays(id)
BY QueuesTyped, QueuesTypedNext, NoSite DEF Untouched, Stays

\* A message that ends at the hub that holds it.
LEMMA TakenStays ==
    ASSUME IInv, IInv', EndsInv, NEW h \in Hubs, pump[h] # <<>>,
           pump' = [pump EXCEPT ![h] = Tail(@)], UNCHANGED <<wire, pend>>,
           NEW how, Ended(how, h, <<Head(pump[h])>>), NEW id \in Mail
    PROVE  Stays(id)
<1> DEFINE m == Head(pump[h])
           a == PumpSite(h)
           k == IF m.id = id THEN 1 ELSE 0
<1>1. QueuesOK /\ QueuesOK'
  BY QueuesTyped, QueuesTypedNext
<1>2. pump[h] \in Seq(Messages) /\ a \in Sites /\ Queue(a) = pump[h] /\ DOMAIN pump = Hubs
  BY PumpOfMessages, SitesAre, QueuesAre DEF IInv, PumpInv
<1>3. Queue(a)' = Tail(pump[h])
  BY <1>2, QueuesNext
<1>4. \A s \in Sites \ {a} : Queue(s)' = Queue(s)
  <2>1. \A j \in Hubs : PumpSite(j) \notin {a} => pump'[j] = pump[j]
    BY <1>2
  <2>2. \A l \in Links : \A j \in Ends(l) : WireSite(l, j) \notin {a} => wire'[l][j] = wire[l][j]
    OBVIOUS
  <2> HIDE DEF a
  <2> QED BY <2>1, <2>2, Elsewhere
<1>5. Copies(pump[h], id) = Copies(Tail(pump[h]), id) + k
  BY <1>2, CopiesTail
<1>6. Len(ends'[id]) = Len(ends[id]) + k
  <2>1. <<m>> \in Seq({m})
    OBVIOUS
  <2>2. Len(ends'[id]) = Len(ends[id]) + Copies(<<m>>, id)
    BY <2>1, EndedLonger
  <2> QED BY <2>2, CopiesOne
<1>7. k \in Nat
  OBVIOUS
<1> HIDE DEF a, k
<1> QED BY <1>1, <1>2, <1>3, <1>4, <1>5, <1>6, <1>7, OneSite DEF Stays

\* A message that is replaced by another about the same mail.
LEMMA ReplacedStays ==
    ASSUME IInv, IInv', NEW h \in Hubs, pump[h] # <<>>, NEW r \in Messages,
           r.id = Head(pump[h]).id, pump' = [pump EXCEPT ![h] = Append(Tail(@), r)],
           UNCHANGED <<wire, pend, ends>>, NEW id \in Mail
    PROVE  Stays(id)
<1> DEFINE t == Tail(pump[h])
           q == Append(t, r)
           k == IF r.id = id THEN 1 ELSE 0
<1>1. QueuesOK /\ QueuesOK' /\ ends'[id] = ends[id]
  BY QueuesTyped, QueuesTypedNext
<1>2. pump[h] \in Seq(Messages) /\ DOMAIN pump = Hubs /\ t \in Seq(Messages)
  BY PumpOfMessages, HeadTailProperties DEF IInv, PumpInv
<1>3. Copies(q, id) = Copies(pump[h], id)
  <2>1. Copies(pump[h], id) = Copies(t, id) + k
    BY <1>2, CopiesTail
  <2>2. Copies(q, id) = Copies(t, id) + k
    BY <1>2, CopiesAppend
  <2> QED BY <2>1, <2>2
<1>4. pump'[h] = q /\ \A j \in Hubs \ {h} : pump'[j] = pump[j]
  BY <1>2
<1> HIDE DEF q
<1>5. ASSUME NEW s \in Sites PROVE \E x : Queue(s)' = x /\ Copies(x, id) = Copies(Queue(s), id)
  <2>1. CASE s = PumpSite(h)
    <3>1. Queue(s)' = q /\ Queue(s) = pump[h]
      BY <1>4, <2>1, QueuesAre, QueuesNext
    <3> QED BY <1>3, <3>1
  <2>2. CASE s # PumpSite(h)
    <3> DEFINE T == {PumpSite(h)}
    <3>1. \A j \in Hubs : PumpSite(j) \notin T => pump'[j] = pump[j]
      BY <1>4
    <3>2. \A l \in Links : \A j \in Ends(l) : WireSite(l, j) \notin T => wire'[l][j] = wire[l][j]
      OBVIOUS
    <3>3. s \in Sites \ T
      BY <2>2
    <3> HIDE DEF T
    <3>4. Queue(s)' = Queue(s)
      BY <3>1, <3>2, <3>3, Elsewhere
    <3> QED BY <3>4
  <2> QED BY <2>1, <2>2
<1> QED BY <1>1, <1>5, NoSite DEF Stays

\* A message that goes from a pump to a wire, or from a wire to a pump.
LEMMA HandedStays ==
    ASSUME IInv, IInv', EndsInv, NEW a \in Sites, NEW b \in Sites, a # b,
           NEW r \in Messages, Queue(a) # <<>>, r.id = Head(Queue(a)).id,
           NEW p, p = Tail(Queue(a)), Queue(a)' = p,
           NEW q, q = Append(Queue(b), r), Queue(b)' = q,
           \A s \in Sites \ {a, b} : Queue(s)' = Queue(s), UNCHANGED ends, NEW id \in Mail
    PROVE  Stays(id)
<1> DEFINE k == IF r.id = id THEN 1 ELSE 0
           u == Queue(a)
           v == Queue(b)
<1>1. QueuesOK /\ QueuesOK'
  BY QueuesTyped, QueuesTypedNext
<1>2. u \in Seq(Messages) /\ v \in Seq(Messages)
  BY <1>1 DEF QueuesOK
<1>3. Copies(u, id) = Copies(p, id) + k /\ Copies(q, id) = Copies(v, id) + k
  <2>1. u # <<>> /\ p = Tail(u) /\ Head(u).id = r.id /\ q = Append(v, r)
    OBVIOUS
  <2> HIDE DEF u, v
  <2>2. Copies(u, id) = Copies(Tail(u), id) + (IF Head(u).id = id THEN 1 ELSE 0)
    BY <1>2, <2>1, CopiesTail
  <2>3. Copies(Append(v, r), id) = Copies(v, id) + (IF r.id = id THEN 1 ELSE 0)
    BY <1>2, CopiesAppend
  <2> QED BY <2>1, <2>2, <2>3
<1>4. Copies(p, id) \in Nat /\ Copies(v, id) \in Nat /\ k \in Nat
  <2>1. u # <<>> /\ p = Tail(u)
    OBVIOUS
  <2> HIDE DEF u, v
  <2>2. Tail(u) \in Seq(Messages)
    BY <1>2, <2>1, HeadTailProperties
  <2>3. p \in Seq(Messages)
    BY <2>1, <2>2
  <2> QED BY <1>2, <2>3, CopiesType
<1>5. ends[id] \in Seq(Outcome(id)) /\ Len(ends[id]) \in Nat /\ ends'[id] = ends[id]
  BY LenProperties DEF EndsInv
<1>6. Len(ends'[id]) = Len(ends[id]) + 0
  BY <1>5
<1> DEFINE cu == Copies(u, id)
           cv == Copies(v, id)
           cp == Copies(p, id)
           cq == Copies(q, id)
<1>7. cu = cp + k /\ cq = cv + k /\ cp \in Nat /\ cv \in Nat /\ k \in Nat
  BY <1>3, <1>4
<1> HIDE DEF k, cu, cv, cp, cq
<1>8. cp + cq + 0 = cu + cv
  BY <1>7
<1>9. 0 \in Nat
  OBVIOUS
<1>10. Copies(p, id) + Copies(q, id) + 0 = Copies(Queue(a), id) + Copies(Queue(b), id)
  BY <1>8 DEF cu, cv, cp, cq
<1> HIDE DEF u, v
<1> QED BY <1>1, <1>6, <1>9, <1>10, TwoSites DEF Stays

LEMMA ForwardStays ==
    ASSUME IInv, IInv', EndsInv, NEW h \in Hubs, Forward(h), NEW id \in Mail
    PROVE  Stays(id)
<1>0. PICK l \in LinksOf(h) : \E r \in Sent(l, h) : r.id = Head(pump[h]).id /\ Handed(h, l, r)
  BY ForwardSends
<1>1. PICK r \in Sent(l, h) : r.id = Head(pump[h]).id /\ Handed(h, l, r)
  BY <1>0
<1>2. l \in Links /\ h \in Ends(l) /\ r \in Messages /\ pump[h] # <<>>
  BY ForwardSends, SentIsFit DEF LinksOf
<1> DEFINE a == PumpSite(h)
           p == Tail(pump[h])
<1>3. pump'[h] = p /\ (\A j \in Hubs \ {h} : pump'[j] = pump[j]) /\ UNCHANGED ends
  BY DEF Forward, IInv, PumpInv
<1>4. a \in Sites /\ Queue(a) = pump[h] /\ Queue(a)' = p
  BY <1>3, SitesAre, QueuesAre, QueuesNext
<1>5. ASSUME wire' = [wire EXCEPT ![l][h] = Append(@, r)], UNCHANGED pend PROVE Stays(id)
  <2> DEFINE b == WireSite(l, h)
             q == Append(wire[l][h], r)
  <2>1. b \in Sites /\ a # b /\ Queue(b) = wire[l][h]
    BY <1>2, SitesAre, QueuesAre
  <2>2. /\ wire'[l][h] = q
        /\ \A k \in Links : \A j \in Ends(k) : ~(k = l /\ j = h) => wire'[k][j] = wire[k][j]
    BY <1>2, <1>5 DEF IInv, WireInv
  <2>3. Queue(b)' = q
    BY <2>2, QueuesNext
  <2>4. \A s \in Sites \ {a, b} : Queue(s)' = Queue(s)
    <3>1. \A j \in Hubs : PumpSite(j) \notin {a, b} => pump'[j] = pump[j]
      BY <1>3
    <3>2. \A k \in Links : \A j \in Ends(k) : WireSite(k, j) \notin {a, b} => wire'[k][j] = wire[k][j]
      BY <2>2
    <3> HIDE DEF a, b
    <3> QED BY <1>5, <3>1, <3>2, Elsewhere
  <2>5. /\ Queue(a) # <<>> /\ r.id = Head(Queue(a)).id /\ p = Tail(Queue(a))
        /\ q = Append(Queue(b), r)
    BY <1>1, <1>2, <1>4, <2>1
  <2> HIDE DEF a, b, p, q
  <2> QED BY <1>2, <1>3, <1>4, <2>1, <2>3, <2>4, <2>5, HandedStays
<1>6. ASSUME pend' = [pend EXCEPT ![l] = Append(@, r)], UNCHANGED wire PROVE Stays(id)
  <2> DEFINE b == PendSite(l)
             q == Append(pend[l], r)
  <2>1. b \in Sites /\ a # b /\ Queue(b) = pend[l]
    BY <1>2, SitesAre, QueuesAre
  <2>2. pend'[l] = q /\ \A k \in Links \ {l} : pend'[k] = pend[k]
    BY <1>2, <1>6 DEF IInv, PendInv
  <2>3. Queue(b)' = q
    BY <2>2, QueuesNext
  <2>4. \A s \in Sites \ {a, b} : Queue(s)' = Queue(s)
    <3>1. \A j \in Hubs : PumpSite(j) \notin {a, b} => pump'[j] = pump[j]
      BY <1>3
    <3>2. \A k \in Links : PendSite(k) \notin {a, b} => pend'[k] = pend[k]
      BY <2>2
    <3> HIDE DEF a, b
    <3> QED BY <1>6, <3>1, <3>2, Elsewhere
  <2>5. /\ Queue(a) # <<>> /\ r.id = Head(Queue(a)).id /\ p = Tail(Queue(a))
        /\ q = Append(Queue(b), r)
    BY <1>1, <1>2, <1>4, <2>1
  <2> HIDE DEF a, b, p, q
  <2> QED BY <1>2, <1>3, <1>4, <2>1, <2>3, <2>4, <2>5, HandedStays
<1> QED BY <1>1, <1>5, <1>6 DEF Handed

LEMMA ReadStays ==
    ASSUME IInv, IInv', EndsInv, NEW l \in Links, NEW h \in Ends(l), Read(h, l), NEW id \in Mail
    PROVE  Stays(id)
<1> DEFINE o == Peer(l, h)
           r == Head(wire[l][o])
           a == WireSite(l, o)
           b == PumpSite(h)
           p == Tail(wire[l][o])
           q == Append(pump[h], r)
<1>1. h \in Hubs /\ o \in Ends(l)
  BY PeerIsHub
<1>2. /\ wire[l][o] # <<>> /\ UNCHANGED <<pend, ends>>
      /\ pump' = [pump EXCEPT ![h] = Append(@, r)] /\ wire' = [wire EXCEPT ![l][o] = Tail(@)]
  BY DEF Read
<1> HIDE DEF o
<1>3. a \in Sites /\ b \in Sites /\ a # b /\ Queue(b) = pump[h] /\ Queue(a) = wire[l][o]
  BY <1>1, SitesAre, QueuesAre
<1>4. pump'[h] = q /\ \A j \in Hubs \ {h} : pump'[j] = pump[j]
  BY <1>1, <1>2 DEF IInv, PumpInv
<1>5. /\ wire'[l][o] = p
      /\ \A k \in Links : \A j \in Ends(k) : ~(k = l /\ j = o) => wire'[k][j] = wire[k][j]
  BY <1>1, <1>2 DEF IInv, WireInv
<1>6. Queue(a)' = p /\ Queue(b)' = q
  BY <1>4, <1>5, QueuesNext
<1>7. \A s \in Sites \ {a, b} : Queue(s)' = Queue(s)
  <2>1. \A j \in Hubs : PumpSite(j) \notin {a, b} => pump'[j] = pump[j]
    BY <1>4
  <2>2. \A k \in Links : \A j \in Ends(k) : WireSite(k, j) \notin {a, b} => wire'[k][j] = wire[k][j]
    BY <1>5
  <2> HIDE DEF a, b
  <2> QED BY <1>2, <2>1, <2>2, Elsewhere
<1>8. r \in Messages
  <2>1. wire[l][o] \in Seq(Messages)
    BY <1>1, WireOfMessages
  <2> QED BY <1>2, <2>1, HeadTailProperties
<1>9. /\ Queue(a) # <<>> /\ r.id = Head(Queue(a)).id /\ p = Tail(Queue(a))
      /\ q = Append(Queue(b), r)
  BY <1>2, <1>3
<1> HIDE DEF a, b, p, q, r
<1> QED BY <1>2, <1>3, <1>6, <1>7, <1>8, <1>9, HandedStays

\* A link that is closed loses what is on it, and every loss is entered.
LEMMA CutStays ==
    ASSUME IInv, IInv', EndsInv, NEW l \in Links, NEW h \in Ends(l), UNCHANGED <<pump, pend>>,
           NEW p, wire'[l][h] = p, NEW q, wire'[l][Peer(l, h)] = q,
           \A k \in Links \ {l} : wire'[k] = wire[k],
           NEW id \in Mail, NEW k \in Nat, Len(ends'[id]) = Len(ends[id]) + k,
           Copies(p, id) + Copies(q, id) + k
             = Copies(wire[l][h], id) + Copies(wire[l][Peer(l, h)], id)
    PROVE  Stays(id)
<1> DEFINE o == Peer(l, h)
           a == WireSite(l, h)
           b == WireSite(l, o)
<1>1. o \in Ends(l) /\ h # o /\ Ends(l) = {h, o}
  BY PeerIsHub, LinksAssumption DEF Ends, Peer
<1>2. QueuesOK /\ QueuesOK'
  BY QueuesTyped, QueuesTypedNext
<1> DEFINE c == Copies(wire[l][h], id) + Copies(wire[l][o], id)
<1>0. Copies(p, id) + Copies(q, id) + k = c /\ wire'[l][o] = q
  OBVIOUS
<1> HIDE DEF o
<1>3. a \in Sites /\ b \in Sites /\ a # b /\ Queue(a) = wire[l][h] /\ Queue(b) = wire[l][o]
  BY <1>1, SitesAre, QueuesAre
<1>4. Queue(a)' = p /\ Queue(b)' = q
  BY <1>0, QueuesNext
<1>5. \A s \in Sites \ {a, b} : Queue(s)' = Queue(s)
  <2>1. \A j \in Hubs : PumpSite(j) \notin {a, b} => pump'[j] = pump[j]
    OBVIOUS
  <2>2. \A m \in Links : \A j \in Ends(m) : WireSite(m, j) \notin {a, b} => wire'[m][j] = wire[m][j]
    BY <1>1
  <2> HIDE DEF a, b
  <2> QED BY <2>1, <2>2, Elsewhere
<1>6. Copies(p, id) + Copies(q, id) + k = Copies(Queue(a), id) + Copies(Queue(b), id)
  BY <1>0, <1>3
<1> HIDE DEF a, b
<1> QED BY <1>2, <1>3, <1>4, <1>5, <1>6, TwoSites DEF Stays

LEMMA ShutStays ==
    ASSUME IInv, IInv', EndsInv, NEW l \in Links, NEW h \in Ends(l), Shut(h, l), NEW id \in Mail
    PROVE  Stays(id)
<1> DEFINE o == Peer(l, h)
           x == wire[l][h]
           y == wire[l][o]
<1>1. o \in Ends(l) /\ o # h
  BY PeerIsHub, LinksAssumption DEF Ends, Peer
<1>2. x \in Seq(Messages) /\ y \in Seq(Messages)
  BY <1>1, WireOfMessages
<1>3. PICK n \in 0 .. (IF Open(o, l) THEN Len(x) ELSE 0) :
        /\ wire' = [wire EXCEPT ![l] = [j \in DOMAIN @ |-> IF j = h THEN SubSeq(@[h], 1, n) ELSE <<>>]]
        /\ Ended("lost", h, SubSeq(x, n + 1, Len(x)) \o y)
  BY DEF Shut
<1>4. n \in 0 .. Len(x)
  BY <1>2, <1>3, LenProperties
<1> DEFINE p == SubSeq(x, 1, n)
           z == SubSeq(x, n + 1, Len(x))
           k == Copies(z \o y, id)
           cx == Copies(x, id)
           cy == Copies(y, id)
           cz == Copies(z, id)
           cp == Copies(p, id)
           c0 == Copies(<<>>, id)
<1>5. p \in Seq(Messages) /\ z \in Seq(Messages) /\ cx = cp + cz
  BY <1>2, <1>4, CopiesSplit
<1>6. z \o y \in Seq(Messages) /\ k = cz + cy
  <2>1. y \in Seq(Messages) /\ z \in Seq(Messages)
    BY <1>2, <1>5
  <2> HIDE DEF y, z
  <2>2. z \o y \in Seq(Messages)
    BY <2>1, ConcatProperties
  <2>3. Copies(z \o y, id) = Copies(z, id) + Copies(y, id)
    BY <2>1, CopiesConcat
  <2> QED BY <2>2, <2>3
<1>7. Len(ends'[id]) = Len(ends[id]) + k
  <2> DEFINE w == z \o y
  <2>1. Ended("lost", h, w) /\ w \in Seq(Messages)
    BY <1>3, <1>6
  <2> HIDE DEF w
  <2>2. Len(ends'[id]) = Len(ends[id]) + Copies(w, id)
    BY <2>1, EndedLonger
  <2> QED BY <2>2 DEF w
<1>8. wire'[l][h] = p /\ wire'[l][o] = <<>> /\ (\A j \in Links \ {l} : wire'[j] = wire[j])
      /\ UNCHANGED <<pump, pend>>
  BY <1>1, <1>3 DEF Shut, IInv, WireInv
<1>9. k \in Nat /\ cp \in Nat /\ cz \in Nat /\ cy \in Nat /\ c0 = 0
  BY <1>2, <1>5, <1>6, CopiesType, CopiesOne
<1> HIDE DEF p, z, k, cx, cy, cz, cp, c0
<1>10. cp + c0 + k = cx + cy
  BY <1>5, <1>6, <1>9
<1>11. Copies(p, id) + Copies(<<>>, id) + k = Copies(wire[l][h], id) + Copies(wire[l][Peer(l, h)], id)
  BY <1>10 DEF cx, cy, cp, c0
<1> QED BY <1>7, <1>8, <1>9, <1>11, CutStays

\* What waited for a session leaves with it.
LEMMA RedialStays ==
    ASSUME IInv, IInv', EndsInv, NEW l \in Links, NEW k \in Links, Redial(l, k), NEW id \in Mail
    PROVE  Stays(id)
<1> DEFINE d == k.dials
           a == PendSite(l)
           b == WireSite(k, d)
           q == pend[l]
<1>1. d \in Ends(k)
  BY DialsIsEnd
<1>2. /\ wire' = [wire EXCEPT ![k][d] = q] /\ pend' = [pend EXCEPT ![l] = <<>>]
      /\ wire[k][d] = <<>> /\ UNCHANGED <<pump, ends>>
  BY <1>1 DEF Redial
<1>3. QueuesOK /\ QueuesOK'
  BY QueuesTyped, QueuesTypedNext
<1> HIDE DEF d
<1>4. a \in Sites /\ b \in Sites /\ a # b /\ Queue(a) = q /\ Queue(b) = <<>>
  BY <1>1, <1>2, SitesAre, QueuesAre
<1>5. pend'[l] = <<>> /\ \A j \in Links \ {l} : pend'[j] = pend[j]
  BY <1>2 DEF IInv, PendInv
<1>6. /\ wire'[k][d] = q
      /\ \A i \in Links : \A j \in Ends(i) : ~(i = k /\ j = d) => wire'[i][j] = wire[i][j]
  BY <1>1, <1>2 DEF IInv, WireInv
<1>7. Queue(a)' = <<>> /\ Queue(b)' = q
  BY <1>5, <1>6, QueuesNext
<1>8. \A s \in Sites \ {a, b} : Queue(s)' = Queue(s)
  <2>1. \A j \in Hubs : PumpSite(j) \notin {a, b} => pump'[j] = pump[j]
    BY <1>2
  <2>2. \A i \in Links : \A j \in Ends(i) : WireSite(i, j) \notin {a, b} => wire'[i][j] = wire[i][j]
    BY <1>6
  <2>3. \A i \in Links : PendSite(i) \notin {a, b} => pend'[i] = pend[i]
    BY <1>5
  <2> HIDE DEF a, b
  <2> QED BY <2>1, <2>2, <2>3, Elsewhere
<1>9. q \in Seq(Messages) /\ Copies(q, id) \in Nat /\ Copies(<<>>, id) = 0
  BY PendOfMessages, CopiesType, CopiesOne
<1>10. Len(ends'[id]) = Len(ends[id]) + 0 /\ 0 \in Nat
  BY <1>2, LenProperties DEF EndsInv
<1> DEFINE c  == Copies(q, id)
           c0 == Copies(<<>>, id)
<1>11. c0 + c + 0 = c + c0
  <2> HIDE DEF c, c0
  <2> QED BY <1>9 DEF c, c0
<1>12. Copies(<<>>, id) + Copies(q, id) + 0 = Copies(Queue(a), id) + Copies(Queue(b), id)
  BY <1>4, <1>11
<1> HIDE DEF a, b, q, c, c0
<1> QED BY <1>3, <1>4, <1>7, <1>8, <1>10, <1>12, TwoSites DEF Stays

LEMMA RedialFailsStays ==
    ASSUME IInv, IInv', EndsInv, NEW l \in Links, RedialFails(l), NEW id \in Mail
    PROVE  Stays(id)
<1> DEFINE a == PendSite(l)
           q == pend[l]
           k == Copies(q, id)
<1>1. QueuesOK /\ QueuesOK'
  BY QueuesTyped, QueuesTypedNext
<1>2. a \in Sites /\ Queue(a) = q /\ q \in Seq(Messages) /\ k \in Nat
  BY SitesAre, QueuesAre, PendOfMessages, CopiesType
<1>3. /\ Ended("lost", l.dials, q) /\ pend' = [pend EXCEPT ![l] = <<>>]
      /\ UNCHANGED <<pump, wire>>
  BY DEF RedialFails
<1>4. pend'[l] = <<>> /\ \A j \in Links \ {l} : pend'[j] = pend[j]
  BY <1>3 DEF IInv, PendInv
<1>5. Queue(a)' = <<>>
  BY <1>4, QueuesNext
<1>6. \A s \in Sites \ {a} : Queue(s)' = Queue(s)
  <2>1. \A i \in Links : PendSite(i) \notin {a} => pend'[i] = pend[i]
    BY <1>4
  <2> HIDE DEF a
  <2> QED BY <1>3, <2>1, Elsewhere
<1>7. Len(ends'[id]) = Len(ends[id]) + k
  BY <1>2, <1>3, EndedLonger
<1>8. Copies(<<>>, id) + k = Copies(Queue(a), id)
  <2>1. Copies(<<>>, id) = 0 /\ Copies(Queue(a), id) = k
    BY <1>2, CopiesOne
  <2> HIDE DEF k, a
  <2> QED BY <1>2, <2>1
<1> HIDE DEF a, q, k
<1> QED BY <1>1, <1>2, <1>5, <1>6, <1>7, <1>8, OneSite DEF Stays

\* What ends is not mail id.
LEMMA OtherEnds ==
    ASSUME EndsInv, NEW how, NEW h, NEW m, Ended(how, h, <<m>>), NEW id \in Mail, m.id # id
    PROVE  ends'[id] = ends[id]
<1> DEFINE e == [how |-> how, at |-> h]
<1>1. Copies(<<m>>, id) = 0
  BY CopiesOne
<1>2. ends'[id] = ends[id] \o [i \in 1 .. Copies(<<m>>, id) |-> e]
  BY DEF Ended
<1>3. [i \in 1 .. 0 |-> e] = <<>>
  <2>1. 1 .. 0 = {}
    OBVIOUS
  <2> QED BY <2>1
<1>4. ends[id] \o <<>> = ends[id]
  BY ConcatEmptySeq DEF EndsInv
<1> QED BY <1>1, <1>2, <1>3, <1>4

\* A cast copies itself and nothing else.
LEMMA FanOutElsewhere ==
    ASSUME IInv, EndsInv, NEW h \in Hubs, FanOut(h), NEW id \in Mail, Head(pump[h]).id # id
    PROVE  Untouched(id)
<1> DEFINE m == Head(pump[h])
           c(l) == Attest(h, Copy(h, l, m))
           to == {l \in ToSet(cons[h]) : Open(h, l) /\ FansOut(h, l, m.kind)}
<1>1. /\ pump[h] # <<>> /\ m.kind \in {"BCast", "UCast"} /\ m.dst = h
      /\ pump' = [pump EXCEPT ![h] = Tail(@)] /\ Ended("handled", h, <<m>>)
  BY DEF FanOut, Here
<1>2. m \in Fit(h) /\ m.id # id
  BY <1>1, HeadIsFit DEF IInv
<1>3. to \subseteq LinksOf(h) /\ \A l \in to : FansOut(h, l, m.kind)
  BY ElementOfSeq, LenProperties DEF IInv, ConsInv, ToSet
<1>4. wire' = [l \in Links |-> IF l \in to /\ Carries(h, l, Copy(h, l, m))
                               THEN [wire[l] EXCEPT ![h] = Append(@, c(l))] ELSE wire[l]]
  BY DEF FanOut
<1> HIDE DEF m, to
<1>5. ends'[id] = ends[id]
  BY <1>1, <1>2, OtherEnds
<1>6. ASSUME NEW s \in Sites PROVE \E x : Queue(s)' = x /\ Copies(x, id) = Copies(Queue(s), id)
  <2>1. ASSUME NEW j \in Hubs, s = PumpSite(j)
        PROVE  \E x : Queue(s)' = x /\ Copies(x, id) = Copies(Queue(s), id)
    <3>1. Queue(s)' = pump'[j] /\ Queue(s) = pump[j]
      BY <2>1, QueuesAre, QueuesNext
    <3>2. CASE j # h
      <4>1. pump'[j] = pump[j]
        BY <1>1, <2>1, <3>2 DEF IInv, PumpInv
      <4> QED BY <3>1, <4>1
    <3>3. CASE j = h
      <4>1. pump'[h] = Tail(pump[h]) /\ pump[h] \in Seq(Messages)
        BY <1>1, PumpOfMessages DEF IInv, PumpInv
      <4>2. Copies(pump[h], id) = Copies(Tail(pump[h]), id) + 0
        BY <1>1, <1>2, <4>1, CopiesTail DEF m
      <4>3. Copies(Tail(pump[h]), id) \in Nat
        BY <1>1, <4>1, HeadTailProperties, CopiesType
      <4>4. Copies(pump[h], id) = Copies(Tail(pump[h]), id)
        BY <4>2, <4>3
      <4> QED BY <3>1, <3>3, <4>1, <4>4
    <3> QED BY <3>2, <3>3
  <2>2. ASSUME NEW l \in Links, NEW j \in Ends(l), s = WireSite(l, j)
        PROVE  \E x : Queue(s)' = x /\ Copies(x, id) = Copies(Queue(s), id)
    <3>1. Queue(s)' = wire'[l][j] /\ Queue(s) = wire[l][j]
      BY <2>2, QueuesAre, QueuesNext
    <3>2. CASE j = h /\ l \in to /\ Carries(h, l, Copy(h, l, m))
      <4>1. wire'[l][j] = Append(wire[l][j], c(l)) /\ wire[l][j] \in Seq(Messages)
        BY <1>4, <3>2, <2>2, WireOfMessages DEF IInv, WireInv
      <4>2. c(l) \in Messages /\ c(l).id = m.id
        <5>1. FansOut(h, l, m.kind) /\ h \in Ends(l)
          BY <1>3, <2>2, <3>2
        <5>2. c(l) \in Sent(l, h) /\ c(l).id = m.id
          BY <1>1, <1>2, <3>2, <5>1, CopySent DEF m
        <5> QED BY <5>2, SentIsFit
      <4> HIDE DEF c
      <4>3. Copies(Append(wire[l][j], c(l)), id) = Copies(wire[l][j], id) + 0
        BY <1>2, <4>1, <4>2, CopiesAppend
      <4>4. Copies(wire[l][j], id) \in Nat
        BY <4>1, CopiesType
      <4>5. Copies(Append(wire[l][j], c(l)), id) = Copies(wire[l][j], id)
        BY <4>3, <4>4
      <4>6. Copies(wire'[l][j], id) = Copies(wire[l][j], id)
        BY <4>1, <4>5
      <4> QED BY <3>1, <4>6
    <3>3. CASE ~(j = h /\ l \in to /\ Carries(h, l, Copy(h, l, m)))
      <4>1. wire'[l][j] = wire[l][j]
        BY <1>4, <2>2, <3>3 DEF IInv, WireInv
      <4> QED BY <3>1, <4>1
    <3> QED BY <3>2, <3>3
  <2>3. ASSUME NEW l \in Links, s = PendSite(l)
        PROVE  \E x : Queue(s)' = x /\ Copies(x, id) = Copies(Queue(s), id)
    <3>1. Queue(s)' = pend'[l] /\ Queue(s) = pend[l]
      BY <2>3, QueuesAre, QueuesNext
    <3>2. UNCHANGED pend
      BY DEF FanOut
    <3> QED BY <3>1, <3>2
  <2> QED BY <2>1, <2>2, <2>3, SitesAre
<1> QED BY <1>5, <1>6 DEF Untouched

LEMMA FitIsMessages == \A h : Fit(h) \subseteq Messages
BY DEF Fit, Near

\* What an application posts is there once, and nothing else moves.
LEMMA PostMakesOne ==
    ASSUME IInv, IInv', EndsInv, NEW new \in Mail, Post(new), NEW id \in Mail, OneOf(id)
    PROVE  OneOf(id)'
<1> DEFINE h == new.src
           m == Message(new.kind, new, new.src, new.dst, new.src)
           a == PumpSite(h)
           q == Append(pump[h], m)
           k == IF m.id = id THEN 1 ELSE 0
<1>1. h \in Hubs
  BY MailAssumption
<1>2. m \in Messages /\ m.id = new
  BY PostedFit, FitIsMessages
<1>3. /\ new \notin posted /\ posted' = posted \cup {new}
      /\ pump' = [pump EXCEPT ![h] = q] /\ UNCHANGED <<wire, pend, ends>>
  BY DEF Post, links
<1>4. QueuesOK /\ QueuesOK' /\ pump[h] \in Seq(Messages) /\ DOMAIN pump = Hubs
  BY <1>1, QueuesTyped, QueuesTypedNext, PumpOfMessages DEF IInv, PumpInv
<1> HIDE DEF h, m
<1>5. Copies(q, id) = Copies(pump[h], id) + k
  BY <1>2, <1>4, CopiesAppend
<1>6. a \in Sites /\ Queue(a) = pump[h] /\ Queue(a)' = q
  BY <1>1, <1>3, <1>4, SitesAre, QueuesAre, QueuesNext
<1>7. \A s \in Sites \ {a} : Queue(s)' = Queue(s)
  <2>1. \A j \in Hubs : PumpSite(j) \notin {a} => pump'[j] = pump[j]
    BY <1>3, <1>4
  <2>2. \A l \in Links : \A j \in Ends(l) : WireSite(l, j) \notin {a} => wire'[l][j] = wire[l][j]
    BY <1>3
  <2> HIDE DEF a
  <2> QED BY <1>3, <2>1, <2>2, Elsewhere
<1> HIDE DEF a, q
<1>8. CASE id # new
  <2>1. Copies(pump[h], id) \in Nat /\ k = 0
    BY <1>2, <1>4, <1>8, CopiesType
  <2> HIDE DEF k
  <2>2. Copies(q, id) = Copies(pump[h], id)
    BY <1>5, <2>1
  <2>3. \A s \in Sites : \E x : Queue(s)' = x /\ Copies(x, id) = Copies(Queue(s), id)
    BY <1>6, <1>7, <2>2
  <2>4. Stays(id)
    BY <1>1, <1>3, <1>4, <2>3, NoSite DEF Stays
  <2> QED BY <1>3, <1>8, <2>4 DEF OneOf, Stays
<1>9. CASE id = new
  <2> DEFINE f == Held(id)
             g == Held(id)'
  <2>1. \A s \in Sites : f[s] = Copies(Queue(s), id)
    BY <1>4, HeldAt
  <2>2. g[a] = Copies(q, id) /\ \A s \in Sites \ {a} : g[s] = Copies(Queue(s), id)
    BY <1>4, <1>6, <1>7, HeldNext
  <2>3. Len(ends[id]) = 0 /\ \A s \in Sites : f[s] = 0
    BY <1>3, <1>9 DEF OneOf, Nowhere, Idle
  <2>4. Copies(pump[h], id) = 0 /\ k = 1
    BY <1>2, <1>6, <1>9, <2>1, <2>3
  <2> HIDE DEF k
  <2>5. Copies(q, id) = 1
    BY <1>5, <2>4
  <2> HIDE DEF f, g
  <2>6. g[a] = 1 /\ \A s \in Sites \ {a} : g[s] = 0
    BY <2>1, <2>2, <2>3, <2>5
  <2>7. Len(ends'[id]) = 0
    BY <1>3, <2>3
  <2>8. Sole(g, Len(ends'[id]))
    BY <1>6, <2>6, <2>7 DEF Sole
  <2>9. Single(id)'
    BY <2>8 DEF Single, Sole, g
  <2> QED BY <1>3, <1>9, <2>9 DEF OneOf
<1> QED BY <1>8, <1>9

\* The hub does not take mail id for a cast.
LEMMA DispatchStays ==
    ASSUME IInv, IInv', EndsInv, NEW h \in Hubs, Dispatch(h), NEW id \in Mail,
           FanOut(h) => Head(pump[h]).id # id
    PROVE  Stays(id)
<1>1. CASE Forward(h)
  BY <1>1, ForwardStays
<1>2. CASE MountRefuses(h)
  BY <1>2, TakenStays DEF MountRefuses, Away, links
<1>3. CASE Undeliverable(h) \/ NotHandled(h) \/ Reflect(h)
  <2>1. UNCHANGED <<wire, pend, ends>>
    BY <1>3 DEF Undeliverable, NotHandled, Reflect, links
  <2> QED BY <1>3, <2>1, ReplacedBy, ReplacedStays, FitIsMessages
<1>4. CASE EndOfTheLine(h)
  BY <1>4, TakenStays DEF EndOfTheLine, Away, links
<1>5. CASE Handle(h)
  BY <1>5, TakenStays DEF Handle, Here, links
<1>6. CASE FanOut(h)
  BY <1>6, FanOutElsewhere, UntouchedStays
<1> QED BY <1>1, <1>2, <1>3, <1>4, <1>5, <1>6 DEF Dispatch

\* A step that leaves every queue alone.
LEMMA StillStays ==
    ASSUME IInv, IInv', UNCHANGED <<pump, wire, pend, ends>>, NEW id \in Mail
    PROVE  Stays(id)
<1>1. \A s \in Sites : Queue(s)' = Queue(s)
  BY DEF Queue
<1>2. Untouched(id)
  BY <1>1 DEF Untouched
<1> QED BY <1>2, UntouchedStays

LEMMA OneKept ==
    ASSUME IInv, IInv', EndsInv, [Next]_vars, NEW id \in Mail, OneOf(id),
           \A h \in Hubs : FanOut(h) => Head(pump[h]).id # id
    PROVE  OneOf(id)'
<1>1. ASSUME UNCHANGED posted, Stays(id) PROVE OneOf(id)'
  BY <1>1 DEF OneOf, Stays
<1>2. ASSUME NEW new \in Mail, Post(new) PROVE OneOf(id)'
  BY <1>2, PostMakesOne
<1>3. ASSUME NEW h \in Hubs, Dispatch(h) PROVE OneOf(id)'
  <2>1. UNCHANGED posted
    BY <1>3 DEF Dispatch, Forward, MountRefuses, Undeliverable, EndOfTheLine, Handle,
                NotHandled, Reflect, FanOut
  <2> QED BY <1>1, <1>3, <2>1, DispatchStays
<1>4. ASSUME NEW l \in Links, RedialFails(l) \/ \E k \in Links : Redial(l, k) PROVE OneOf(id)'
  <2>1. UNCHANGED posted
    BY <1>4 DEF Redial, RedialFails
  <2> QED BY <1>1, <1>4, <2>1, RedialStays, RedialFailsStays
<1>5. ASSUME NEW l \in Links, NEW h \in Ends(l), Read(h, l) PROVE OneOf(id)'
  <2>1. UNCHANGED posted
    BY <1>5 DEF Read
  <2> QED BY <1>1, <1>5, <2>1, ReadStays
<1>6. ASSUME NEW l \in Links, NEW h \in Ends(l), Close(h, l) PROVE OneOf(id)'
  <2>1. UNCHANGED posted
    BY <1>6 DEF Close, Refuse, Drop, SeeClose, Shut
  <2>2. Shut(h, l)
    BY <1>6 DEF Close, Refuse, Drop, SeeClose
  <2> QED BY <1>1, <2>1, <2>2, ShutStays
<1>7. CASE UNCHANGED vars
  BY <1>1, <1>7, StillStays DEF vars
<1> QED BY <1>2, <1>3, <1>4, <1>5, <1>6, <1>7 DEF Next

\* Only a post changes what was posted.
LEMMA PostedStep ==
    ASSUME [Next]_vars
    PROVE  UNCHANGED posted \/ \E id \in Mail : posted' = posted \cup {id}
<1>1. ASSUME NEW id \in Mail, Post(id) PROVE posted' = posted \cup {id}
  BY <1>1 DEF Post
<1>2. ASSUME NEW h \in Hubs, Dispatch(h) PROVE UNCHANGED posted
  BY <1>2 DEF Dispatch, Forward, MountRefuses, Undeliverable, EndOfTheLine, Handle,
              NotHandled, Reflect, FanOut
<1>3. ASSUME NEW l \in Links, RedialFails(l) \/ \E k \in Links : Redial(l, k)
      PROVE  UNCHANGED posted
  BY <1>3 DEF Redial, RedialFails
<1>4. ASSUME NEW l \in Links, NEW h \in Ends(l), Read(h, l) \/ Close(h, l) PROVE UNCHANGED posted
  BY <1>4 DEF Read, Close, Refuse, Drop, SeeClose, Shut
<1>5. CASE UNCHANGED vars
  BY <1>5 DEF vars
<1> QED BY <1>1, <1>2, <1>3, <1>4, <1>5 DEF Next

LEMMA PostedIsMail == posted \subseteq Mail /\ [Next]_vars => posted' \subseteq Mail
BY PostedStep

\* A letter is not a cast.
LEMMA OneStep == IInv /\ IInv' /\ EndsInv /\ OneInv /\ [Next]_vars => OneInv'
<1> SUFFICES ASSUME IInv, IInv', EndsInv, OneInv, [Next]_vars PROVE OneInv'
  OBVIOUS
<1>1. ASSUME NEW id \in Letters PROVE OneOf(id)'
  <2>1. ASSUME NEW h \in Hubs, FanOut(h) PROVE Head(pump[h]).id # id
    <3> DEFINE m == Head(pump[h])
    <3>1. pump[h] # <<>> /\ m.kind \in {"BCast", "UCast"}
      BY <2>1 DEF FanOut, Here
    <3>2. m \in Fit(h)
      BY <3>1, HeadIsFit DEF IInv
    <3> HIDE DEF m
    <3>3. m.id.kind = m.kind
      BY <3>1, <3>2 DEF Fit, Addressed
    <3>4. m.id # id
      BY <1>1, <3>1, <3>3 DEF Letters
    <3> QED BY <3>4 DEF m
  <2>2. id \in Mail /\ OneOf(id)
    BY <1>1 DEF Letters, OneInv
  <2> QED BY <2>1, <2>2, OneKept
<1>2. posted' \subseteq Mail
  BY PostedIsMail DEF OneInv
<1> QED BY <1>1, <1>2 DEF OneInv, Letters

LEMMA OneInit == Init => OneInv
<1> SUFFICES ASSUME Init PROVE OneInv
  OBVIOUS
<1>1. \A s \in Sites : Queue(s) = <<>>
  <2>1. \A h \in Hubs : pump[h] = <<>>
    BY DEF Init
  <2>2. \A l \in Links : \A h \in Ends(l) : wire[l][h] = <<>>
    BY DEF Init
  <2>3. \A l \in Links : pend[l] = <<>>
    BY DEF Init
  <2> QED BY <2>1, <2>2, <2>3, SitesAre, QueuesAre
<1>2. ASSUME NEW id \in Letters PROVE Nowhere(id)
  <2>1. \A s \in Sites : Held(id)[s] = 0
    BY <1>1, CopiesOne DEF Held
  <2>2. Len(ends[id]) = 0
    BY DEF Init, Letters
  <2> QED BY <2>1, <2>2 DEF Nowhere, Idle
<1> QED BY <1>2 DEF OneInv, OneOf, Init

-----------------------------------------------------------------------------
(* One report.                                                             *)

LEMMA SeqKept ==
    ASSUME NEW S, NEW q \in Seq(S), q # <<>>
    PROVE  Head(q) \in S /\ Tail(q) \in Seq(S)
BY HeadTailProperties

\* Where there is no copy of it there is nothing left to report.
LEMMA NoneIsTold ==
    ASSUME NEW id, NEW q \in Seq(Messages), Copies(q, id) = 0
    PROVE  q \in Seq(Told(id))
<1>1. \A i \in 1 .. Len(q) : q[i] \in Messages /\ q[i].id # id
  BY CopiesType, ElementOfSeq
<1>2. \A i \in 1 .. Len(q) : q[i] \in Told(id)
  BY <1>1 DEF Told
<1> QED BY <1>2, LenProperties, IsASeq

LEMMA PutIn ==
    ASSUME IInv, NEW F, AllIn(F), NEW h \in Hubs, NEW q \in Seq(F[h]),
           pump' = [pump EXCEPT ![h] = q], UNCHANGED <<wire, pend>>
    PROVE  AllIn(F)'
BY DEF AllIn, IInv, PumpInv

LEMMA TakenIn ==
    ASSUME IInv, NEW F, AllIn(F), NEW h \in Hubs, pump[h] # <<>>,
           pump' = [pump EXCEPT ![h] = Tail(@)], UNCHANGED <<wire, pend>>
    PROVE  AllIn(F)'
<1>1. Tail(pump[h]) \in Seq(F[h])
  BY SeqKept DEF AllIn
<1> QED BY <1>1, PutIn

LEMMA ReplacedIn ==
    ASSUME IInv, NEW F, AllIn(F), NEW h \in Hubs, pump[h] # <<>>, NEW r \in F[h],
           pump' = [pump EXCEPT ![h] = Append(Tail(@), r)], UNCHANGED <<wire, pend>>
    PROVE  AllIn(F)'
<1> DEFINE t == Tail(pump[h])
<1>1. t \in Seq(F[h]) /\ pump' = [pump EXCEPT ![h] = Append(t, r)]
  BY SeqKept DEF AllIn
<1> HIDE DEF t
<1>2. Append(t, r) \in Seq(F[h])
  BY <1>1, AppendProperties
<1> QED BY <1>1, <1>2, PutIn

LEMMA ForwardIn ==
    ASSUME IInv, NEW F, AllIn(F), NEW h \in Hubs, Forward(h),
           \A l \in LinksOf(h) : \A r \in Messages :
             r.id = Head(pump[h]).id /\ r.kind = Head(pump[h]).kind => r \in F[Peer(l, h)]
    PROVE  AllIn(F)'
<1>0. PICK l \in LinksOf(h) : \E r \in Sent(l, h) :
        r.id = Head(pump[h]).id /\ r.kind = Head(pump[h]).kind /\ Handed(h, l, r)
  BY ForwardSends
<1>1. PICK r \in Sent(l, h) :
        r.id = Head(pump[h]).id /\ r.kind = Head(pump[h]).kind /\ Handed(h, l, r)
  BY <1>0
<1>2. r \in F[Peer(l, h)] /\ l \in Links /\ h \in Ends(l) /\ pump[h] # <<>>
  BY <1>1, ForwardSends, SentIsFit DEF LinksOf
<1>3. ASSUME wire' = [wire EXCEPT ![l][h] = Append(@, r)], UNCHANGED pend
      PROVE  /\ \A k \in Links : \A j \in Ends(k) : wire'[k][j] \in Seq(F[Peer(k, j)])
             /\ \A k \in Links : pend'[k] \in Seq(F[k.accepts])
  <2>1. wire[l][h] \in Seq(F[Peer(l, h)])
    BY <1>2 DEF AllIn
  <2>2. Append(wire[l][h], r) \in Seq(F[Peer(l, h)])
    BY <1>2, <2>1, AppendProperties
  <2> QED BY <1>2, <1>3, <2>2 DEF AllIn, IInv, WireInv
<1>4. ASSUME h = l.dials, pend' = [pend EXCEPT ![l] = Append(@, r)], UNCHANGED wire
      PROVE  /\ \A k \in Links : \A j \in Ends(k) : wire'[k][j] \in Seq(F[Peer(k, j)])
             /\ \A k \in Links : pend'[k] \in Seq(F[k.accepts])
  <2>1. pend[l] \in Seq(F[l.accepts]) /\ r \in F[l.accepts]
    BY <1>2, <1>4, DialsIsEnd DEF AllIn
  <2>2. Append(pend[l], r) \in Seq(F[l.accepts])
    BY <2>1, AppendProperties
  <2> QED BY <1>2, <1>4, <2>2 DEF AllIn, IInv, PendInv
<1>5. Tail(pump[h]) \in Seq(F[h]) /\ pump' = [pump EXCEPT ![h] = Tail(@)]
  BY <1>2, SeqKept DEF AllIn, Forward
<1>6. \A j \in Hubs : pump'[j] \in Seq(F[j])
  BY <1>5 DEF AllIn, IInv, PumpInv
<1> QED BY <1>1, <1>3, <1>4, <1>6 DEF AllIn, Handed

LEMMA FanOutIn ==
    ASSUME IInv, NEW F, AllIn(F), NEW h \in Hubs, FanOut(h),
           \A l \in LinksOf(h) : \A r \in Messages :
             /\ r.id = Head(pump[h]).id /\ r.kind = Head(pump[h]).kind /\ r.dst = Peer(l, h)
             => r \in F[Peer(l, h)]
    PROVE  AllIn(F)'
<1> DEFINE m == Head(pump[h])
           c(l) == Attest(h, Copy(h, l, m))
           to == {l \in ToSet(cons[h]) : Open(h, l) /\ FansOut(h, l, m.kind)}
<1>1. /\ pump[h] # <<>> /\ m.kind \in {"BCast", "UCast"} /\ m.dst = h
      /\ pump' = [pump EXCEPT ![h] = Tail(@)]
      /\ wire' = [l \in Links |-> IF l \in to /\ Carries(h, l, Copy(h, l, m))
                                  THEN [wire[l] EXCEPT ![h] = Append(@, c(l))] ELSE wire[l]]
  BY DEF FanOut, Here
<1>2. m \in Fit(h) /\ Tail(pump[h]) \in Seq(F[h])
  BY <1>1, HeadIsFit, SeqKept DEF IInv, AllIn
<1>3. to \subseteq LinksOf(h) /\ \A l \in to : FansOut(h, l, m.kind)
  BY ElementOfSeq, LenProperties DEF IInv, ConsInv, ToSet
<1>4. \A l \in LinksOf(h) : \A r \in Messages :
        r.id = m.id /\ r.kind = m.kind /\ r.dst = Peer(l, h) => r \in F[Peer(l, h)]
  OBVIOUS
<1> HIDE DEF m, to
<1>5. ASSUME NEW l \in Links, NEW j \in Ends(l) PROVE wire'[l][j] \in Seq(F[Peer(l, j)])
  <2>1. wire[l][j] \in Seq(F[Peer(l, j)])
    BY DEF AllIn
  <2>2. CASE j = h /\ l \in to /\ Carries(h, l, Copy(h, l, m))
    <3>1. FansOut(h, l, m.kind) /\ h \in Ends(l) /\ l \in LinksOf(h)
      BY <1>3, <1>5, <2>2
    <3>2. c(l) \in Sent(l, h) /\ c(l).id = m.id /\ c(l).kind = m.kind /\ c(l).dst = Peer(l, h)
      BY <1>1, <1>2, <2>2, <3>1, CopySent
    <3>3. c(l) \in F[Peer(l, h)]
      BY <1>4, <3>1, <3>2, SentIsFit
    <3>4. wire'[l][j] = Append(wire[l][j], c(l))
      BY <1>1, <1>5, <2>2 DEF IInv, WireInv
    <3> HIDE DEF c
    <3>5. Append(wire[l][j], c(l)) \in Seq(F[Peer(l, j)])
      BY <2>1, <2>2, <3>3, AppendProperties
    <3> QED BY <3>4, <3>5
  <2>3. CASE ~(j = h /\ l \in to /\ Carries(h, l, Copy(h, l, m)))
    <3>1. wire'[l][j] = wire[l][j]
      BY <1>1, <1>5, <2>3 DEF IInv, WireInv
    <3> QED BY <2>1, <3>1
  <2> QED BY <2>2, <2>3
<1>6. \A j \in Hubs : pump'[j] \in Seq(F[j])
  BY <1>1, <1>2 DEF AllIn, IInv, PumpInv
<1>7. UNCHANGED pend
  BY DEF FanOut
<1> QED BY <1>5, <1>6, <1>7 DEF AllIn

\* A hub that deals with other mail.
LEMMA OtherMailIn ==
    ASSUME IInv, NEW id \in Mail, NEW F,
           \A k \in Hubs : \A r \in Messages : r.id # id => r \in F[k],
           AllIn(F), NEW h \in Hubs, Dispatch(h), Head(pump[h]).id # id
    PROVE  AllIn(F)'
<1>0. pump[h] # <<>>
  BY DEF Dispatch, Forward, MountRefuses, Undeliverable, EndOfTheLine, Handle,
         NotHandled, Reflect, FanOut, Away, Here
<1>1. \A l \in LinksOf(h) : \A r \in Messages : r.id = Head(pump[h]).id => r \in F[Peer(l, h)]
  BY PeerIsHub DEF LinksOf
<1>2. CASE Forward(h)
  BY <1>1, <1>2, ForwardIn
<1>3. CASE MountRefuses(h) \/ EndOfTheLine(h) \/ Handle(h)
  <2>1. pump' = [pump EXCEPT ![h] = Tail(@)] /\ UNCHANGED <<wire, pend>>
    BY <1>3 DEF MountRefuses, EndOfTheLine, Handle, links
  <2> QED BY <1>0, <2>1, TakenIn
<1>4. CASE Undeliverable(h) \/ NotHandled(h) \/ Reflect(h)
  <2>1. PICK r \in Fit(h) :
          r.id = Head(pump[h]).id /\ pump' = [pump EXCEPT ![h] = Append(Tail(@), r)]
    BY <1>4, ReplacedBy
  <2>2. r \in F[h]
    BY <2>1, FitIsMessages
  <2>3. UNCHANGED <<wire, pend>>
    BY <1>4 DEF Undeliverable, NotHandled, Reflect, links
  <2> QED BY <1>0, <2>1, <2>2, <2>3, ReplacedIn
<1>5. CASE FanOut(h)
  BY <1>1, <1>5, FanOutIn
<1> QED BY <1>2, <1>3, <1>4, <1>5 DEF Dispatch

LEMMA ReadIn ==
    ASSUME IInv, NEW l \in Links, NEW h \in Ends(l), Read(h, l), NEW F, AllIn(F)
    PROVE  AllIn(F)'
<1> DEFINE o == Peer(l, h)
           m == Head(wire[l][o])
<1>1. o \in Ends(l) /\ h \in Hubs /\ Peer(l, o) = h
  BY PeerIsHub, LinksAssumption DEF Ends, Peer
<1>2. /\ wire[l][o] # <<>>
      /\ pump' = [pump EXCEPT ![h] = Append(@, m)] /\ wire' = [wire EXCEPT ![l][o] = Tail(@)]
  BY DEF Read
<1> HIDE DEF o
<1>3. m \in F[h] /\ Tail(wire[l][o]) \in Seq(F[h])
  BY <1>1, <1>2, SeqKept DEF AllIn
<1> HIDE DEF m
<1>4. Append(pump[h], m) \in Seq(F[h])
  <2>1. pump[h] \in Seq(F[h])
    BY <1>1 DEF AllIn
  <2> QED BY <1>3, <2>1, AppendProperties
<1>5. \A j \in Hubs : pump'[j] \in Seq(F[j])
  BY <1>2, <1>4 DEF AllIn, IInv, PumpInv
<1>6. \A k \in Links : \A j \in Ends(k) : wire'[k][j] \in Seq(F[Peer(k, j)])
  BY <1>1, <1>2, <1>3 DEF AllIn, IInv, WireInv
<1>7. UNCHANGED pend
  BY DEF Read
<1> QED BY <1>5, <1>6, <1>7 DEF AllIn

LEMMA CloseIn ==
    ASSUME IInv, NEW l \in Links, NEW h \in Ends(l), Close(h, l), NEW F, AllIn(F)
    PROVE  AllIn(F)'
<1>0. Shut(h, l)
  BY DEF Close, Refuse, Drop, SeeClose
<1>1. PICK n \in 0 .. (IF Open(Peer(l, h), l) THEN Len(wire[l][h]) ELSE 0) :
        wire' = [wire EXCEPT ![l] = [k \in DOMAIN @ |->
                   IF k = h THEN SubSeq(@[h], 1, n) ELSE <<>>]]
  BY <1>0 DEF Shut
<1>2. ASSUME NEW j \in Ends(l) PROVE wire'[l][j] \in Seq(F[Peer(l, j)])
  <2> DEFINE S == F[Peer(l, j)]
  <2>1. wire[l][j] \in Seq(S) /\ <<>> \in Seq(S)
    BY EmptySeq DEF AllIn
  <2> HIDE DEF S
  <2> SUFFICES wire'[l][j] \in Seq(S)
    BY DEF S
  <2>2. wire'[l][j] = IF j = h THEN SubSeq(wire[l][h], 1, n) ELSE <<>>
    BY <1>1, <1>2 DEF IInv, WireInv
  <2>3. CASE j = h
    <3>1. n \in 0 .. Len(wire[l][h])
      BY <1>1, <2>1, <2>3, LenProperties
    <3>2. SubSeq(wire[l][h], 1, n) \in Seq(S)
      BY <2>1, <2>3, <3>1, SubSeqProperties, ElementOfSeq
    <3> QED BY <2>2, <2>3, <3>2
  <2> QED BY <2>1, <2>2, <2>3
<1>3. UNCHANGED <<pump, pend>> /\ \A k \in Links \ {l} : wire'[k] = wire[k]
  BY <1>0, <1>1 DEF Shut, IInv, WireInv
<1>4. \A k \in Links : \A j \in Ends(k) : wire'[k][j] \in Seq(F[Peer(k, j)])
  BY <1>2, <1>3 DEF AllIn
<1> QED BY <1>3, <1>4 DEF AllIn

LEMMA RedialIn ==
    ASSUME IInv, NEW l \in Links, NEW k \in Links, Redial(l, k), NEW F, AllIn(F)
    PROVE  AllIn(F)'
<1> DEFINE d == k.dials
<1>1. d \in Ends(k) /\ Peer(k, d) = l.accepts
  BY DialsIsEnd DEF Redial, Twins
<1>2. /\ wire' = [wire EXCEPT ![k][d] = pend[l]] /\ pend' = [pend EXCEPT ![l] = <<>>]
      /\ UNCHANGED pump
  BY DEF Redial
<1> HIDE DEF d
<1>3. pend[l] \in Seq(F[Peer(k, d)])
  BY <1>1 DEF AllIn
<1>4. \A i \in Links : \A j \in Ends(i) : wire'[i][j] \in Seq(F[Peer(i, j)])
  BY <1>1, <1>2, <1>3 DEF AllIn, IInv, WireInv
<1>5. \A i \in Links : pend'[i] \in Seq(F[i.accepts])
  BY <1>2, EmptySeq DEF AllIn, IInv, PendInv
<1> QED BY <1>2, <1>4, <1>5 DEF AllIn

LEMMA RedialFailsIn ==
    ASSUME IInv, NEW l \in Links, RedialFails(l), NEW F, AllIn(F)
    PROVE  AllIn(F)'
<1>1. \A i \in Links : pend'[i] \in Seq(F[i.accepts])
  BY EmptySeq DEF AllIn, IInv, PendInv, RedialFails
<1> QED BY <1>1 DEF AllIn, RedialFails

\* What applications post is new.
LEMMA PostIn ==
    ASSUME IInv, NEW new \in Mail, Post(new), NEW F, AllIn(F), NEW id \in posted,
           \A k \in Hubs : \A r \in Messages : r.id # id => r \in F[k]
    PROVE  AllIn(F)'
<1> DEFINE h == new.src
           m == Message(new.kind, new, new.src, new.dst, new.src)
<1>1. /\ h \in Hubs /\ m \in Messages /\ m.id = new /\ new # id
      /\ pump' = [pump EXCEPT ![h] = Append(@, m)] /\ UNCHANGED <<wire, pend>>
  BY MailAssumption, PostedFit, FitIsMessages DEF Post, links
<1> HIDE DEF h, m
<1>2. m \in F[h]
  BY <1>1
<1>3. Append(pump[h], m) \in Seq(F[h])
  <2>1. pump[h] \in Seq(F[h])
    BY <1>1 DEF AllIn
  <2> QED BY <1>2, <2>1, AppendProperties
<1> QED BY <1>1, <1>3, PutIn

\* What a step that does not concern mail id leaves as it is, hub by hub.
LEMMA StepIn ==
    ASSUME IInv, [Next]_vars, NEW F, AllIn(F), NEW id \in Mail, id \in posted,
           \A k \in Hubs : \A r \in Messages : r.id # id => r \in F[k],
           \A h \in Hubs : Dispatch(h) => Head(pump[h]).id # id
    PROVE  AllIn(F)'
<1>1. ASSUME NEW new \in Mail, Post(new) PROVE AllIn(F)'
  BY <1>1, PostIn
<1>2. ASSUME NEW h \in Hubs, Dispatch(h) PROVE AllIn(F)'
  BY <1>2, OtherMailIn
<1>3. ASSUME NEW l \in Links, RedialFails(l) \/ \E k \in Links : Redial(l, k) PROVE AllIn(F)'
  BY <1>3, RedialIn, RedialFailsIn
<1>4. ASSUME NEW l \in Links, NEW h \in Ends(l), Read(h, l) PROVE AllIn(F)'
  BY <1>4, ReadIn
<1>5. ASSUME NEW l \in Links, NEW h \in Ends(l), Close(h, l) PROVE AllIn(F)'
  BY <1>5, CloseIn
<1>6. CASE UNCHANGED vars
  BY <1>6 DEF vars, AllIn
<1> QED BY <1>1, <1>2, <1>3, <1>4, <1>5, <1>6 DEF Next

LEMMA ToldIs ==
    ASSUME NEW id
    PROVE  /\ \A k \in Hubs : [h \in Hubs |-> Told(id)][k] = Told(id)
           /\ \A k \in Hubs : \A r \in Messages : r.id # id => r \in [h \in Hubs |-> Told(id)][k]
BY DEF Told

\* Reports of mail are forwarded, handed over and dropped.
LEMMA DispatchTold ==
    ASSUME IInv, NEW h \in Hubs, Dispatch(h), NEW id \in Letters, AllTold(id)
    PROVE  AllTold(id)'
<1> DEFINE m == Head(pump[h])
           F == [k \in Hubs |-> Told(id)]
<1>0. AllIn(F) /\ \A k \in Hubs : F[k] = Told(id)
  BY DEF AllTold
<1> SUFFICES AllIn(F)'
  BY DEF AllTold
<1>1. pump[h] # <<>> /\ m \in Told(id) /\ m \in Fit(h)
  <2>1. pump[h] # <<>>
    BY DEF Dispatch, Forward, MountRefuses, Undeliverable, EndOfTheLine, Handle,
           NotHandled, Reflect, FanOut, Away, Here
  <2>2. pump[h] \in Seq(Told(id))
    BY <1>0 DEF AllIn
  <2> QED BY <2>1, <2>2, SeqKept, HeadIsFit DEF IInv
<1>2. CASE m.id # id
  <2>1. id \in Mail /\ \A k \in Hubs : \A r \in Messages : r.id # id => r \in F[k]
    BY <1>0 DEF Told, Letters
  <2> HIDE DEF F
  <2> QED BY <1>0, <1>2, <2>1, OtherMailIn
<1>3. CASE m.id = id
  <2>1. m.kind = "Exception"
    BY <1>1, <1>3 DEF Told
  <2>2. \A k \in Hubs : \A r \in Messages : r.kind = "Exception" => r \in F[k]
    BY <1>0 DEF Told
  <2> HIDE DEF F
  <2>3. CASE Forward(h)
    <3>1. \A l \in LinksOf(h) : Peer(l, h) \in Hubs
      BY PeerIsHub DEF LinksOf
    <3> QED BY <1>0, <2>1, <2>2, <2>3, <3>1, ForwardIn
  <2>4. CASE MountRefuses(h) \/ EndOfTheLine(h) \/ Handle(h)
    <3>1. pump' = [pump EXCEPT ![h] = Tail(@)] /\ UNCHANGED <<wire, pend>>
      BY <2>4 DEF MountRefuses, EndOfTheLine, Handle, links
    <3> QED BY <1>0, <1>1, <3>1, TakenIn
  <2>5. ~(Undeliverable(h) \/ NotHandled(h) \/ Reflect(h) \/ FanOut(h))
    BY <2>1 DEF Undeliverable, NotHandled, Reflect, FanOut, Here
  <2> QED BY <2>3, <2>4, <2>5 DEF Dispatch
<1> QED BY <1>2, <1>3

LEMMA ReadTold ==
    ASSUME IInv, NEW l \in Links, NEW h \in Ends(l), Read(h, l), NEW id, AllTold(id)
    PROVE  AllTold(id)'
BY ReadIn DEF AllTold

LEMMA CloseTold ==
    ASSUME IInv, NEW l \in Links, NEW h \in Ends(l), Close(h, l), NEW id, AllTold(id)
    PROVE  AllTold(id)'
BY CloseIn DEF AllTold

LEMMA RedialTold ==
    ASSUME IInv, NEW l \in Links, RedialFails(l) \/ \E k \in Links : Redial(l, k), NEW id, AllTold(id)
    PROVE  AllTold(id)'
BY RedialIn, RedialFailsIn DEF AllTold

LEMMA PostTold ==
    ASSUME IInv, NEW new \in Mail, Post(new), NEW id \in posted, AllTold(id)
    PROVE  AllTold(id)'
BY ToldIs, PostIn DEF AllTold

\* The copy at the head of a pump is the only one, and its report the first.
LEMMA FirstReport ==
    ASSUME IInv, OneInv, SaidInv, NEW h \in Hubs, Undeliverable(h) \/ NotHandled(h),
           NEW id \in Letters, Head(pump[h]).id = id
    PROVE  reports[id] = 0 /\ id \in posted /\ AllTold(id)'
<1> DEFINE m == Head(pump[h])
           u == pump[h]
           t == Tail(u)
           a == PumpSite(h)
<1>1. u # <<>> /\ m.id = id /\ m.kind # "Exception" /\ UNCHANGED <<wire, pend>>
  BY DEF Undeliverable, NotHandled, Away, Here, links
<1>2. QueuesOK /\ a \in Sites /\ Queue(a) = u /\ DOMAIN pump = Hubs /\ u \in Seq(Messages)
  BY QueuesTyped, SitesAre, QueuesAre, PumpOfMessages DEF IInv, PumpInv
<1>3. PICK r \in Fit(h) : /\ r.id = m.id /\ r.kind = "Exception"
                          /\ pump' = [pump EXCEPT ![h] = Append(t, r)]
  <2>1. ~Reflect(h)
    BY DEF Reflect, Undeliverable, NotHandled, Away, Here
  <2> QED BY <2>1, ReplacedBy
<1>4. r \in Told(id)
  BY <1>3, FitIsMessages DEF Told
<1>5. reports[id] = 0
  <2>1. ASSUME AllTold(id) PROVE FALSE
    <3>1. m \in Told(id)
      BY <1>1, <2>1, SeqKept DEF AllTold, AllIn
    <3> QED BY <1>1, <3>1 DEF Told
  <2> QED BY <2>1 DEF SaidInv, Said
<1>6. t \in Seq(Messages) /\ Copies(t, id) \in Nat /\ Copies(u, id) = Copies(t, id) + 1
  <2>1. t \in Seq(Messages)
    BY <1>1, <1>2, SeqKept
  <2>2. Copies(t, id) \in Nat
    BY <2>1, CopiesType
  <2>3. Copies(u, id) = Copies(t, id) + (IF m.id = id THEN 1 ELSE 0)
    BY <1>1, <1>2, CopiesTail
  <2> QED BY <1>1, <2>1, <2>2, <2>3
<1> DEFINE f == Held(id)
           c == Copies(t, id)
<1>7. f[a] = c + 1 /\ c \in Nat /\ \A s \in Sites : f[s] = Copies(Queue(s), id)
  BY <1>2, <1>6, HeldAt
<1> HIDE DEF c
<1>8. id \in posted /\ Sole(f, Len(ends[id]))
  <2>1. f[a] # 0
    BY <1>7
  <2> QED BY <1>2, <2>1 DEF OneInv, OneOf, Nowhere, Idle, Single
<1>9. c = 0 /\ \A s \in Sites \ {a} : f[s] = 0
  <2> HIDE DEF f, a
  <2>1. f[a] # 0
    BY <1>7
  <2>2. f[a] = 1 /\ \A s \in Sites \ {a} : f[s] = 0
    BY <1>2, <1>8, <2>1 DEF Sole
  <2> QED BY <1>7, <2>2
<1>10. \A s \in Sites \ {a} : Queue(s) \in Seq(Told(id))
  <2> SUFFICES ASSUME NEW s \in Sites \ {a} PROVE Queue(s) \in Seq(Told(id))
    OBVIOUS
  <2>1. Copies(Queue(s), id) = 0 /\ Queue(s) \in Seq(Messages)
    BY <1>2, <1>7, <1>9 DEF QueuesOK
  <2> QED BY <2>1, NoneIsTold
<1>11. Append(t, r) \in Seq(Told(id))
  <2>1. t \in Seq(Told(id))
    BY <1>6, <1>9, NoneIsTold DEF c
  <2> HIDE DEF t
  <2> QED BY <1>4, <2>1, AppendProperties
<1>12. \A j \in Hubs : pump'[j] \in Seq(Told(id))
  <2> SUFFICES ASSUME NEW j \in Hubs PROVE pump'[j] \in Seq(Told(id))
    OBVIOUS
  <2>1. CASE j = h
    BY <1>2, <1>3, <1>11, <2>1
  <2>2. CASE j # h
    <3>1. PumpSite(j) \in Sites \ {a} /\ Queue(PumpSite(j)) = pump[j] /\ pump'[j] = pump[j]
      BY <1>2, <1>3, <2>2, SitesAre, QueuesAre
    <3> QED BY <1>10, <3>1
  <2> QED BY <2>1, <2>2
<1>13. \A l \in Links : \A j \in Ends(l) : wire'[l][j] \in Seq(Told(id))
  <2> SUFFICES ASSUME NEW l \in Links, NEW j \in Ends(l) PROVE wire'[l][j] \in Seq(Told(id))
    OBVIOUS
  <2>1. WireSite(l, j) \in Sites \ {a} /\ Queue(WireSite(l, j)) = wire[l][j]
    BY SitesAre, QueuesAre
  <2> QED BY <1>1, <1>10, <2>1
<1>14. \A l \in Links : pend'[l] \in Seq(Told(id))
  <2> SUFFICES ASSUME NEW l \in Links PROVE pend'[l] \in Seq(Told(id))
    OBVIOUS
  <2>1. PendSite(l) \in Sites \ {a} /\ Queue(PendSite(l)) = pend[l]
    BY SitesAre, QueuesAre
  <2> QED BY <1>1, <1>10, <2>1
<1>15. AllTold(id)'
  <2>1. \A l \in Links : l.accepts \in Hubs /\ \A j \in Ends(l) : Peer(l, j) \in Hubs
    BY PeerIsHub, DialsIsEnd
  <2> QED BY <1>12, <1>13, <1>14, <2>1 DEF AllTold, AllIn
<1> QED BY <1>5, <1>8, <1>15

LEMMA SaidStep == IInv /\ OneInv /\ SaidInv /\ [Next]_vars => SaidInv'
<1> SUFFICES ASSUME IInv, OneInv, SaidInv, [Next]_vars PROVE SaidInv'
  OBVIOUS
<1>1. ASSUME UNCHANGED reports, posted \subseteq posted',
             \A id \in Letters : id \in posted /\ AllTold(id) => AllTold(id)'
      PROVE  SaidInv'
  <2>1. ASSUME NEW id \in Letters PROVE Said(id)'
    BY <1>1, <2>1 DEF SaidInv, Said
  <2> QED BY <1>1, <2>1 DEF SaidInv, Letters
<1>2. ASSUME NEW new \in Mail, Post(new) PROVE SaidInv'
  <2>1. UNCHANGED reports /\ posted \subseteq posted'
    BY <1>2 DEF Post
  <2> QED BY <1>1, <1>2, <2>1, PostTold
<1>3. ASSUME NEW h \in Hubs, Dispatch(h), ~Undeliverable(h), ~NotHandled(h) PROVE SaidInv'
  <2>1. UNCHANGED <<reports, posted>>
    BY <1>3 DEF Dispatch, Forward, MountRefuses, EndOfTheLine, Handle, Reflect, FanOut
  <2> QED BY <1>1, <1>3, <2>1, DispatchTold
<1>4. ASSUME NEW h \in Hubs, Undeliverable(h) \/ NotHandled(h) PROVE SaidInv'
  <2> DEFINE k == Head(pump[h]).id
  <2>1. Dispatch(h) /\ reports' = [reports EXCEPT ![k] = @ + 1] /\ UNCHANGED posted
    BY <1>4 DEF Dispatch, Undeliverable, NotHandled
  <2> HIDE DEF k
  <2>2. ASSUME NEW id \in Letters PROVE Said(id)'
    <3>0. id \in DOMAIN reports
      BY <2>2 DEF SaidInv, Letters
    <3>1. CASE id = k
      <4>1. reports[id] = 0 /\ id \in posted /\ AllTold(id)'
        BY <1>4, <2>2, <3>1, FirstReport DEF k
      <4>2. reports'[id] = 1
        BY <2>1, <3>0, <3>1, <4>1
      <4> QED BY <2>1, <4>1, <4>2 DEF Said
    <3>2. CASE id # k
      <4>1. reports'[id] = reports[id]
        BY <2>1, <3>0, <3>2
      <4>2. AllTold(id) => AllTold(id)'
        BY <1>4, <2>1, <2>2, DispatchTold
      <4>3. Said(id)
        BY <2>2 DEF SaidInv
      <4> QED BY <2>1, <4>1, <4>2, <4>3 DEF Said
    <3> QED BY <3>1, <3>2
  <2>3. DOMAIN reports' = Mail
    BY <2>1 DEF SaidInv
  <2> QED BY <2>2, <2>3 DEF SaidInv, Letters
<1>5. ASSUME NEW l \in Links, RedialFails(l) \/ \E k \in Links : Redial(l, k) PROVE SaidInv'
  <2>1. UNCHANGED <<reports, posted>>
    BY <1>5 DEF Redial, RedialFails
  <2> QED BY <1>1, <1>5, <2>1, RedialTold
<1>6. ASSUME NEW l \in Links, NEW h \in Ends(l), Read(h, l) PROVE SaidInv'
  <2>1. UNCHANGED <<reports, posted>>
    BY <1>6 DEF Read
  <2> QED BY <1>1, <1>6, <2>1, ReadTold
<1>7. ASSUME NEW l \in Links, NEW h \in Ends(l), Close(h, l) PROVE SaidInv'
  <2>1. UNCHANGED <<reports, posted>>
    BY <1>7 DEF Close, Refuse, Drop, SeeClose, Shut
  <2> QED BY <1>1, <1>7, <2>1, CloseTold
<1>8. CASE UNCHANGED vars
  <2>1. UNCHANGED <<reports, posted, pump, wire, pend>>
    BY <1>8 DEF vars
  <2> QED BY <1>1, <2>1 DEF AllTold, AllIn
<1> QED BY <1>2, <1>3, <1>4, <1>5, <1>6, <1>7, <1>8 DEF Next

LEMMA SaidInit == Init => SaidInv
BY DEF Init, SaidInv, Said, Letters

-----------------------------------------------------------------------------
LEMMA EverywhereIs ==
    ASSUME QueuesOK, NEW id
    PROVE  \A x : x \in Everywhere(id) <=>
             \E s \in Sites : \E i \in 1 .. Len(Queue(s)) : x = <<s, i>> /\ Queue(s)[i].id = id
<1>1. \A s \in Sites : DOMAIN Queue(s) = 1 .. Len(Queue(s))
  BY LenProperties DEF QueuesOK
<1> QED BY <1>1 DEF Everywhere

LEMMA OneIsConserved ==
    ASSUME IInv, OneInv, NEW id \in Letters, id \in posted
    PROVE  Cardinality(Everywhere(id)) + Len(ends[id]) = 1
<1> DEFINE f == Held(id)
           n == Len(ends[id])
           E == Everywhere(id)
<1>1. QueuesOK
  BY QueuesTyped
<1>2. \A s \in Sites : f[s] = Copies(Queue(s), id) /\ Queue(s) \in Seq(Messages)
  BY <1>1, HeldAt DEF QueuesOK
<1>3. Sole(f, n)
  BY DEF OneInv, OneOf, Single
<1>4. \A s \in Sites : f[s] = 0 => \A i \in 1 .. Len(Queue(s)) : Queue(s)[i].id # id
  BY <1>2, CopiesType
<1> HIDE DEF f, n
<1>5. ASSUME n = 1, \A s \in Sites : f[s] = 0 PROVE Cardinality(E) + n = 1
  <2>1. E = {}
    BY <1>1, <1>4, <1>5, EverywhereIs
  <2>2. Cardinality(E) = 0
    BY <2>1, FS_EmptySet
  <2> HIDE DEF E
  <2>3. Cardinality(E) + 1 = 1
    BY <2>2
  <2> QED BY <1>5, <2>3
<1>6. ASSUME n = 0, NEW s \in Sites, f[s] = 1, \A t \in Sites \ {s} : f[t] = 0
      PROVE  Cardinality(E) + n = 1
  <2> DEFINE T == {i \in 1 .. Len(Queue(s)) : Queue(s)[i].id = id}
  <2>1. Cardinality(T) = 1 /\ IsFiniteSet(T)
    <3>1. DOMAIN Queue(s) = 1 .. Len(Queue(s)) /\ Len(Queue(s)) \in Nat
      BY <1>2, LenProperties
    <3>2. IsFiniteSet(1 .. Len(Queue(s)))
      BY <3>1, FS_Interval
    <3> QED BY <1>2, <1>6, <3>1, <3>2, FS_Subset DEF Copies
  <2>2. PICK i : T = {i}
    BY <2>1, FS_Singleton
  <2>3. \A x : x \in E <=> \E k \in T : x = <<s, k>>
    <3>1. \A x : x \in E <=> \E t \in Sites : \E k \in 1 .. Len(Queue(t)) :
                               x = <<t, k>> /\ Queue(t)[k].id = id
      BY <1>1, EverywhereIs
    <3>2. \A t \in Sites \ {s} : \A k \in 1 .. Len(Queue(t)) : Queue(t)[k].id # id
      BY <1>4, <1>6
    <3> HIDE DEF E
    <3> QED BY <1>6, <3>1, <3>2
  <2>4. E = {<<s, i>>}
    <3> HIDE DEF T, E
    <3> QED BY <2>2, <2>3
  <2>5. Cardinality(E) = 1
    BY <2>4, FS_Singleton
  <2> HIDE DEF E
  <2>6. Cardinality(E) + 0 = 1
    BY <2>5
  <2> QED BY <1>6, <2>6
<1>7. Cardinality(E) + n = 1
  <2> HIDE DEF E
  <2> QED BY <1>3, <1>5, <1>6 DEF Sole
<1> QED BY <1>7 DEF n

LEMMA InvsConserve == IInv /\ EndsInv /\ OneInv /\ SaidInv => Conserved
<1> SUFFICES ASSUME IInv, EndsInv, OneInv, SaidInv, NEW id \in posted, id.kind \in {"App", "Ask"}
             PROVE  /\ Cardinality(Everywhere(id)) + Len(ends[id]) = 1
                    /\ \A i \in DOMAIN ends[id] : ends[id][i].how = "lost" => Failed
                    /\ reports[id] <= 1
  BY DEF Conserved
<1>1. id \in Letters
  BY DEF OneInv, Letters
<1>2. Cardinality(Everywhere(id)) + Len(ends[id]) = 1
  BY <1>1, OneIsConserved
<1>3. reports[id] = 0 \/ reports[id] = 1
  BY <1>1 DEF SaidInv, Said
<1>4. ASSUME NEW i \in DOMAIN ends[id] PROVE ends[id][i].how = "lost" => Failed
  <2>1. ends[id] \in Seq(Outcome(id))
    BY <1>1 DEF EndsInv, Letters
  <2>2. ends[id][i] \in Outcome(id)
    BY <2>1, ElementOfSeq, LenProperties
  <2> QED BY <2>2 DEF Outcome
<1> QED BY <1>2, <1>3, <1>4

-----------------------------------------------------------------------------
(* A cast is handled once by each hub, where the hubs are linked as a tree. *)

Casts == {id \in Mail : id.kind \in {"BCast", "UCast"}}

\* What hub k has still to take, or to read.
Before(k) == {PumpSite(k)} \cup {WireSite(l, Peer(l, k)) : l \in ToSet(cons[k])}

\* Where copies of cast id are, and which hubs have handled one.
Waits(id, k) == \E s \in Before(k) : Held(id)[s] # 0
Handled(h)   == [how |-> "handled", at |-> h]
Done(id, k)  == \E i \in 1 .. Len(ends[id]) : ends[id][i] = Handled(k)
DoneOnce(id) ==
    \A k : \A i, j \in 1 .. Len(ends[id]) :
      ends[id][i] = Handled(k) /\ ends[id][j] = Handled(k) => i = j

AtMost(id, k) ==
    /\ \A s \in Before(k) : Held(id)[s] \in {0, 1}
    /\ \A s, t \in Before(k) : Held(id)[s] # 0 /\ Held(id)[t] # 0 => s = t
    /\ Done(id, k) => ~Waits(id, k)

\* Every copy is addressed to the hub it waits for.
Bound(id, k) == {m \in Messages : m.id = id => m.kind = id.kind /\ m.dst = k}
AllBound(id) == AllIn([k \in Hubs |-> Bound(id, k)])

\* A broadcast spreads downwards from one hub, each hub having it from the one
\* above it; of an upcast there is one copy, above all hubs that handled it.
Downward(id) ==
    \E o \in Hubs : \A k \in Hubs : Waits(id, k) \/ Done(id, k) =>
      /\ IsRable(o, k)
      /\ k = o \/ \E p \in Hubs : Done(id, p) /\ Leads(p, k)
Upward(id) ==
    /\ \A k, j \in Hubs : Waits(id, k) /\ Waits(id, j) => k = j
    /\ \A k, j \in Hubs : Waits(id, k) /\ Done(id, j) => IsChild(k, j)

\* A cast is first sent to one hub, as a letter is, and then spreads; what has
\* spread goes to connections that are open and is never held in one.
Whole(id) == OneOf(id) /\ \A k : ~Done(id, k)
NonePended(id) == \A l \in Links : Held(id)[PendSite(l)] = 0
Spread(id) ==
    /\ id \in posted /\ AllBound(id) /\ NonePended(id) /\ DoneOnce(id)
    /\ \A k \in Hubs : AtMost(id, k)
    /\ id.kind = "BCast" => Downward(id)
    /\ id.kind = "UCast" => Upward(id)

\* No hub lists a connection twice, and of two hubs' sessions the dialler
\* lists one: its connection has the place of the session before.
Stands(l) == Listed(l.dials, l)
OneLive ==
    /\ \A h \in Hubs : IsInjective(cons[h])
    /\ \A l, k \in Links : Ends(l) = Ends(k) /\ Stands(l) /\ Stands(k) => l = k

CastInv == posted \subseteq Mail /\ OneLive /\ \A id \in Casts : Whole(id) \/ Spread(id)

LEMMA BeforeAre ==
    ASSUME ConsInv, NEW k \in Hubs
    PROVE  /\ Before(k) \subseteq Sites /\ PumpSite(k) \in Before(k)
           /\ \A l \in ToSet(cons[k]) : l \in Links /\ k \in Ends(l) /\ Peer(l, k) \in Ends(l)
                                        /\ WireSite(l, Peer(l, k)) \in Before(k)
           /\ \A s \in Before(k) : s = PumpSite(k)
                \/ \E l \in ToSet(cons[k]) : s = WireSite(l, Peer(l, k))
<1>1. ToSet(cons[k]) \subseteq LinksOf(k)
  BY ElementOfSeq, LenProperties DEF ConsInv, ToSet
<1>2. \A l \in ToSet(cons[k]) : l \in Links /\ k \in Ends(l) /\ Peer(l, k) \in Ends(l)
  BY <1>1, PeerIsHub DEF LinksOf
<1> QED BY <1>2, SitesAre DEF Before

\* The entries of a step.
LEMMA Entries ==
    ASSUME EndsInv, NEW how, NEW h, NEW S, NEW q \in Seq(S), Ended(how, h, q), NEW id \in Mail
    PROVE  /\ Len(ends[id]) \in Nat /\ Copies(q, id) \in Nat
           /\ Len(ends'[id]) = Len(ends[id]) + Copies(q, id)
           /\ \A i \in 1 .. Len(ends[id]) + Copies(q, id) :
                ends'[id][i] = IF i <= Len(ends[id]) THEN ends[id][i] ELSE [how |-> how, at |-> h]
<1> DEFINE n == Copies(q, id)
           e == [how |-> how, at |-> h]
           f == [i \in 1 .. n |-> e]
           o == ends[id]
           T == Outcome(id) \cup {e}
<1>1. n \in Nat
  BY CopiesType
<1>2. o \in Seq(T)
  <2>1. o \in Seq(Outcome(id)) /\ Outcome(id) \subseteq T
    BY DEF EndsInv
  <2> QED BY <2>1, SeqMonotonic
<1>3. ends'[id] = o \o f
  BY DEF Ended
<1>4. f \in Seq(T) /\ Len(f) = n /\ \A i \in 1 .. n : f[i] = e
  <2>1. e \in T
    OBVIOUS
  <2> HIDE DEF n, e, T
  <2>2. CASE n = 0
    <3>1. 1 .. n = {}
      BY <2>2
    <3>2. f = <<>>
      BY <3>1
    <3> QED BY <2>2, <3>1, <3>2, EmptySeq
  <2>3. CASE n # 0
    BY <1>1, <2>1, <2>3
  <2> QED BY <2>2, <2>3
<1> HIDE DEF n, e, f, o, T
<1>5. /\ Len(o \o f) = Len(o) + Len(f)
      /\ \A i \in 1 .. Len(o) + Len(f) : (o \o f)[i] = IF i <= Len(o) THEN o[i] ELSE f[i - Len(o)]
  BY <1>2, <1>4, ConcatProperties
<1>6. Len(o) \in Nat
  BY <1>2, LenProperties
<1>7. \A i \in 1 .. Len(o) + n : (o \o f)[i] = IF i <= Len(o) THEN o[i] ELSE e
  <2> TAKE i \in 1 .. Len(o) + n
  <2>1. (o \o f)[i] = IF i <= Len(o) THEN o[i] ELSE f[i - Len(o)]
    BY <1>4, <1>5
  <2>2. i > Len(o) => i - Len(o) \in 1 .. n
    BY <1>1, <1>6
  <2>3. i > Len(o) => f[i - Len(o)] = e
    BY <1>4, <2>2
  <2>4. i \in Int /\ (i > Len(o) <=> ~(i <= Len(o)))
    BY <1>1, <1>6
  <2> QED BY <2>1, <2>3, <2>4
<1>8. Len(ends'[id]) = Len(o) + n
  BY <1>3, <1>4, <1>5
<1> QED BY <1>1, <1>3, <1>6, <1>7, <1>8 DEF n, e, o

\* What is lost, dropped or told is not handled.
LEMMA NothingDone ==
    ASSUME EndsInv, NEW how, NEW h, NEW S, NEW q \in Seq(S), Ended(how, h, q), NEW id \in Mail,
           how # "handled" \/ Copies(q, id) = 0
    PROVE  (\A k : Done(id, k)' <=> Done(id, k)) /\ (DoneOnce(id) => DoneOnce(id)')
<1> DEFINE n == Len(ends[id])
           c == Copies(q, id)
           d == n + c
           e == [how |-> how, at |-> h]
<1>1. /\ n \in Nat /\ c \in Nat /\ Len(ends'[id]) = d
      /\ \A i \in 1 .. d : ends'[id][i] = IF i <= n THEN ends[id][i] ELSE e
  BY Entries
<1>2. c = 0 \/ \A k : e # Handled(k)
  BY DEF Handled
<1> HIDE DEF c, n, e
<1>3. \A i \in 1 .. d : i <= n \/ \A k : e # Handled(k)
  BY <1>1, <1>2
<1>4. \A i \in 1 .. n : i \in 1 .. d /\ i <= n
  BY <1>1
<1>5. \A i \in 1 .. d : i <= n => i \in 1 .. n
  BY <1>1
<1> HIDE DEF d
<1>6. \A k : \A i \in 1 .. d : ends'[id][i] = Handled(k) => i \in 1 .. n /\ ends[id][i] = Handled(k)
  BY <1>1, <1>3, <1>5
<1>7. \A k : Done(id, k)' <=> Done(id, k)
  <2> TAKE k
  <2>1. Done(id, k)' <=> \E i \in 1 .. d : ends'[id][i] = Handled(k)
    BY <1>1 DEF Done, Handled
  <2>2. Done(id, k) <=> \E i \in 1 .. n : ends[id][i] = Handled(k)
    BY DEF Done, n
  <2> QED BY <1>1, <1>4, <1>6, <2>1, <2>2
<1>8. ASSUME DoneOnce(id) PROVE DoneOnce(id)'
  <2>1. \A k : \A i, j \in 1 .. n : ends[id][i] = Handled(k) /\ ends[id][j] = Handled(k) => i = j
    BY <1>8 DEF DoneOnce, n
  <2>2. \A k : \A i, j \in 1 .. d : ends'[id][i] = Handled(k) /\ ends'[id][j] = Handled(k) => i = j
    BY <1>6, <2>1
  <2> QED BY <1>1, <2>2 DEF DoneOnce, Handled
<1> QED BY <1>7, <1>8

LEMMA OneDone ==
    ASSUME EndsInv, NEW h, NEW m, Ended("handled", h, <<m>>), NEW id \in Mail, m.id = id
    PROVE  /\ \A k : Done(id, k)' <=> Done(id, k) \/ k = h
           /\ DoneOnce(id) /\ ~Done(id, h) => DoneOnce(id)'
<1> DEFINE n == Len(ends[id])
           w == <<m>>
           c == Copies(w, id)
           d == n + 1
<1>0. w \in Seq({m}) /\ c = 1 /\ Ended("handled", h, w)
  BY CopiesOne
<1> HIDE DEF w
<1>1. /\ n \in Nat /\ Len(ends'[id]) = n + c
      /\ \A i \in 1 .. n + c : ends'[id][i] = IF i <= n THEN ends[id][i] ELSE Handled(h)
  <2>1. /\ Len(ends[id]) \in Nat /\ Len(ends'[id]) = Len(ends[id]) + Copies(w, id)
        /\ \A i \in 1 .. Len(ends[id]) + Copies(w, id) :
             ends'[id][i] = IF i <= Len(ends[id]) THEN ends[id][i] ELSE [how |-> "handled", at |-> h]
    BY <1>0, Entries
  <2> QED BY <2>1 DEF Handled
<1> HIDE DEF c, n
<1>2. /\ n \in Nat /\ Len(ends'[id]) = d
      /\ \A i \in 1 .. d : ends'[id][i] = IF i <= n THEN ends[id][i] ELSE Handled(h)
  BY <1>0, <1>1
<1>3. (\A i \in 1 .. n : i \in 1 .. d /\ i <= n) /\ d \in 1 .. d /\ ~(d <= n)
  BY <1>2
<1>4. \A i \in 1 .. d : (i <= n /\ i \in 1 .. n) \/ (~(i <= n) /\ i = d)
  BY <1>2
<1>5. \A k : Handled(k) = Handled(h) => k = h
  <2> TAKE k
  <2>1. Handled(k).at = k /\ Handled(h).at = h
    BY DEF Handled
  <2> QED BY <2>1
<1> HIDE DEF d
<1>6. \A k : Done(id, k)' <=> Done(id, k) \/ k = h
  <2> TAKE k
  <2>1. Done(id, k)' <=> \E i \in 1 .. d : ends'[id][i] = Handled(k)
    BY <1>2 DEF Done, Handled
  <2>2. Done(id, k) <=> \E i \in 1 .. n : ends[id][i] = Handled(k)
    BY DEF Done, n
  <2> QED BY <1>2, <1>3, <1>4, <1>5, <2>1, <2>2
<1>7. ASSUME DoneOnce(id), ~Done(id, h) PROVE DoneOnce(id)'
  <2>1. \A k : \A i, j \in 1 .. n : ends[id][i] = Handled(k) /\ ends[id][j] = Handled(k) => i = j
    BY <1>7 DEF DoneOnce, n
  <2>2. \A i \in 1 .. n : ends[id][i] # Handled(h)
    BY <1>7 DEF Done, n
  <2>3. \A k : \A i, j \in 1 .. d : ends'[id][i] = Handled(k) /\ ends'[id][j] = Handled(k) => i = j
    <3> TAKE k
    <3>1. ASSUME NEW i \in 1 .. d, ends'[id][i] = Handled(k)
          PROVE  \/ i \in 1 .. n /\ ends[id][i] = Handled(k) /\ k # h
                 \/ i = d /\ k = h
      BY <1>2, <1>4, <1>5, <2>2, <3>1
    <3> QED BY <2>1, <3>1
  <2> QED BY <1>2, <2>3 DEF DoneOnce, Handled
<1> QED BY <1>6, <1>7

DoneSame(id) ==
    /\ \A k : Done(id, k)' <=> Done(id, k)
    /\ DoneOnce(id) => DoneOnce(id)'

LEMMA OtherDone ==
    ASSUME EndsInv, NEW how, NEW h, NEW m, Ended(how, h, <<m>>), NEW id \in Mail,
           how # "handled" \/ m.id # id
    PROVE  DoneSame(id)
<1> DEFINE w == <<m>>
<1>1. w \in Seq({m}) /\ Ended(how, h, w) /\ (how # "handled" \/ Copies(w, id) = 0)
  BY CopiesOne
<1> HIDE DEF w
<1> QED BY <1>1, NothingDone DEF DoneSame

LEMMA DoneKept ==
    ASSUME IInv, EndsInv, [Next]_vars, NEW id \in Casts,
           \A h \in Hubs : FanOut(h) => Head(pump[h]).id # id
    PROVE  DoneSame(id)
<1>0. id \in Mail
  BY DEF Casts
<1>1. ASSUME UNCHANGED ends PROVE DoneSame(id)
  BY <1>1 DEF DoneSame, Done, DoneOnce, Handled
<1>2. ASSUME NEW h \in Hubs, Handle(h) PROVE DoneSame(id)
  <2> DEFINE m == Head(pump[h])
             how == IF m.kind = "Exception" THEN "told" ELSE "handled"
  <2>1. /\ pump[h] # <<>> /\ m.kind \in {"App", "Answer", "Exception"}
        /\ Ended(how, h, <<m>>)
    BY <1>2 DEF Handle, Here
  <2>2. m \in Fit(h)
    BY <2>1, HeadIsFit DEF IInv
  <2> HIDE DEF m
  <2>3. m.kind # "Exception" => m.id # id
    BY <2>1, <2>2 DEF Fit, Addressed, Casts
  <2>4. how # "handled" \/ m.id # id
    BY <2>3
  <2> HIDE DEF how
  <2> QED BY <1>0, <2>1, <2>4, OtherDone
<1>3. ASSUME NEW h \in Hubs, FanOut(h) PROVE DoneSame(id)
  <2>1. Ended("handled", h, <<Head(pump[h])>>) /\ Head(pump[h]).id # id
    BY <1>3 DEF FanOut
  <2> QED BY <1>0, <2>1, OtherDone
<1>4. ASSUME NEW h \in Hubs, MountRefuses(h) \/ EndOfTheLine(h) PROVE DoneSame(id)
  <2>1. Ended("barred", h, <<Head(pump[h])>>) \/ Ended("dropped", h, <<Head(pump[h])>>)
    BY <1>4 DEF MountRefuses, EndOfTheLine
  <2> QED BY <1>0, <2>1, OtherDone
<1>5. ASSUME NEW h \in Hubs, Dispatch(h) PROVE DoneSame(id)
  <2>1. CASE Forward(h) \/ Undeliverable(h) \/ NotHandled(h) \/ Reflect(h)
    BY <1>1, <2>1 DEF Forward, Undeliverable, NotHandled, Reflect
  <2> QED BY <1>2, <1>3, <1>4, <1>5, <2>1 DEF Dispatch
<1>6. ASSUME NEW h, NEW q \in Seq(Messages), Ended("lost", h, q) PROVE DoneSame(id)
  BY <1>0, <1>6, NothingDone DEF DoneSame
<1>7. ASSUME NEW l \in Links, NEW h \in Ends(l), Close(h, l) PROVE DoneSame(id)
  <2> DEFINE p == Peer(l, h)
             x == wire[l][h]
             y == wire[l][p]
  <2>1. x \in Seq(Messages) /\ y \in Seq(Messages) /\ Shut(h, l)
    BY <1>7, PeerIsHub, WireOfMessages DEF Close, Refuse, Drop, SeeClose
  <2>2. PICK n \in 0 .. (IF Open(p, l) THEN Len(x) ELSE 0) :
          Ended("lost", h, SubSeq(x, n + 1, Len(x)) \o y)
    BY <2>1 DEF Shut
  <2> HIDE DEF x, y, p
  <2>3. n \in 0 .. Len(x)
    BY <2>1, <2>2, LenProperties
  <2>4. SubSeq(x, n + 1, Len(x)) \in Seq(Messages)
    BY <2>1, <2>3, CopiesSplit
  <2>5. SubSeq(x, n + 1, Len(x)) \o y \in Seq(Messages)
    BY <2>1, <2>4, ConcatProperties
  <2> QED BY <1>6, <2>2, <2>5
<1>8. ASSUME NEW l \in Links, RedialFails(l) PROVE DoneSame(id)
  <2>1. Ended("lost", l.dials, pend[l]) /\ pend[l] \in Seq(Messages)
    BY <1>8, PendOfMessages DEF RedialFails
  <2> QED BY <1>6, <2>1
<1>9. \/ UNCHANGED ends \/ \E h \in Hubs : Dispatch(h)
      \/ \E l \in Links : RedialFails(l) \/ \E h \in Ends(l) : Close(h, l)
  BY DEF Next, vars, Post, Redial, Read
<1> QED BY <1>1, <1>5, <1>7, <1>8, <1>9

\* Taking one connection out of a list.
LEMMA RemovedOne ==
    ASSUME NEW S, NEW q \in Seq(S), NEW i \in DOMAIN q, IsInjective(q)
    PROVE  ToSet(RemoveAt(q, i)) \subseteq ToSet(q) /\ IsInjective(RemoveAt(q, i))
<1> DEFINE front == SubSeq(q, 1, i - 1)
           back  == SubSeq(q, i + 1, Len(q))
           r     == front \o back
           At(j) == IF j < i THEN j ELSE j + 1
<1>1. i \in 1 .. Len(q) /\ Len(q) \in Nat /\ DOMAIN q = 1 .. Len(q)
  BY LenProperties
<1>2. \A j \in 1 .. Len(q) : q[j] \in S
  BY ElementOfSeq
<1>3. /\ front \in Seq(S) /\ Len(front) = i - 1
      /\ \A j \in 1 .. i - 1 : front[j] = q[j]
  <2>1. i - 1 \in Int /\ \A j \in 1 .. i - 1 : q[j] \in S
    BY <1>1, <1>2
  <2>2. /\ front \in Seq(S) /\ Len(front) = IF 1 <= i - 1 THEN (i - 1) - 1 + 1 ELSE 0
        /\ \A j \in 1 .. (i - 1) - 1 + 1 : front[j] = q[1 + j - 1]
    BY <2>1, SubSeqProperties
  <2> HIDE DEF front
  <2>3. (i - 1) - 1 + 1 = i - 1 /\ \A j \in 1 .. i - 1 : 1 + j - 1 = j
    BY <1>1
  <2>4. Len(front) = i - 1
    BY <1>1, <2>2
  <2> QED BY <2>2, <2>3, <2>4
<1>4. /\ back \in Seq(S) /\ Len(back) = Len(q) - i
      /\ \A j \in 1 .. Len(q) - i : back[j] = q[i + j]
  <2>1. i + 1 \in Int /\ Len(q) \in Int /\ \A j \in i + 1 .. Len(q) : q[j] \in S
    BY <1>1, <1>2
  <2>2. /\ back \in Seq(S) /\ Len(back) = IF i + 1 <= Len(q) THEN Len(q) - (i + 1) + 1 ELSE 0
        /\ \A j \in 1 .. Len(q) - (i + 1) + 1 : back[j] = q[(i + 1) + j - 1]
    BY <2>1, SubSeqProperties
  <2> HIDE DEF back
  <2>3. Len(q) - (i + 1) + 1 = Len(q) - i /\ \A j \in 1 .. Len(q) - i : (i + 1) + j - 1 = i + j
    <3> DEFINE n == Len(q)
    <3>1. i \in Nat /\ n \in Nat
      BY <1>1
    <3> HIDE DEF n
    <3>2. n - (i + 1) + 1 = n - i
      BY <3>1
    <3>3. \A j \in 1 .. n - i : (i + 1) + j - 1 = i + j
      BY <3>1
    <3> QED BY <3>2, <3>3 DEF n
  <2>4. Len(back) = Len(q) - i
    BY <1>1, <2>2
  <2> QED BY <2>2, <2>3, <2>4
<1> HIDE DEF front, back
<1>5. /\ r \in Seq(S) /\ Len(r) = Len(front) + Len(back)
      /\ \A j \in 1 .. Len(front) + Len(back) :
           r[j] = IF j <= Len(front) THEN front[j] ELSE back[j - Len(front)]
  BY <1>3, <1>4, ConcatProperties
<1> HIDE DEF r
<1>6. Len(r) = Len(q) - 1 /\ \A j \in 1 .. Len(q) - 1 : At(j) \in 1 .. Len(q) /\ r[j] = q[At(j)]
  <2>1. Len(r) = Len(q) - 1
    BY <1>1, <1>3, <1>4, <1>5
  <2>2. ASSUME NEW j \in 1 .. Len(q) - 1 PROVE At(j) \in 1 .. Len(q) /\ r[j] = q[At(j)]
    <3>1. CASE j < i
      <4>1. j \in 1 .. i - 1 /\ j \in 1 .. Len(front) + Len(back) /\ j <= Len(front)
        BY <1>1, <1>3, <1>4, <3>1
      <4> QED BY <1>1, <1>3, <1>5, <3>1, <4>1
    <3>2. CASE ~(j < i)
      <4>1. At(j) = j + 1 /\ At(j) \in 1 .. Len(q)
        BY <1>1, <3>2
      <4> DEFINE k == j - (i - 1)
      <4>2. /\ k \in 1 .. Len(q) - i /\ i + k = j + 1 /\ j - Len(front) = k
            /\ j \in 1 .. Len(front) + Len(back) /\ ~(j <= Len(front))
        BY <1>1, <1>3, <1>4, <3>2
      <4> HIDE DEF At, k
      <4>3. r[j] = back[k]
        BY <1>5, <4>2
      <4>4. back[k] = q[i + k]
        BY <1>4, <4>2
      <4>5. q[At(j)] = q[i + k]
        BY <4>1, <4>2
      <4> QED BY <4>1, <4>3, <4>4, <4>5
    <3> QED BY <3>1, <3>2
  <2> QED BY <2>1, <2>2
<1>7. \A j, k \in 1 .. Len(q) - 1 : At(j) = At(k) => j = k
  BY <1>1
<1> HIDE DEF At
<1>8. DOMAIN r = 1 .. Len(q) - 1
  BY <1>5, <1>6, LenProperties
<1>9. IsInjective(r)
  BY <1>1, <1>6, <1>7, <1>8 DEF IsInjective
<1>10. ToSet(r) \subseteq ToSet(q)
  BY <1>1, <1>6, <1>8 DEF ToSet
<1> QED BY <1>9, <1>10 DEF RemoveAt, r, front, back

\* And putting another in its place, or at the end.
LEMMA ReplacedOne ==
    ASSUME NEW S, NEW q \in Seq(S), NEW i \in DOMAIN q, IsInjective(q), NEW k \in S,
           k = q[i] \/ k \notin ToSet(q), NEW r, r = [q EXCEPT ![i] = k]
    PROVE  /\ ToSet(r) = (ToSet(q) \ {q[i]}) \cup {k}
           /\ IsInjective(r)
<1>1. DOMAIN q = 1 .. Len(q) /\ DOMAIN r = 1 .. Len(q)
  BY LenProperties
<1>2. r[i] = k /\ \A j \in 1 .. Len(q) : j # i => r[j] = q[j] /\ q[j] # q[i]
  BY <1>1 DEF IsInjective
<1>3. \A j \in 1 .. Len(q) : j # i => r[j] # k
  BY <1>1, <1>2 DEF ToSet
<1>4. IsInjective(r)
  BY <1>1, <1>2, <1>3 DEF IsInjective
<1>5. ToSet(r) = (ToSet(q) \ {q[i]}) \cup {k}
  <2>1. ToSet(r) \subseteq (ToSet(q) \ {q[i]}) \cup {k}
    BY <1>1, <1>2 DEF ToSet
  <2>2. ASSUME NEW x \in (ToSet(q) \ {q[i]}) \cup {k} PROVE x \in ToSet(r)
    <3>1. CASE x = k
      BY <1>1, <1>2, <3>1 DEF ToSet
    <3>2. CASE x # k
      <4>1. PICK j \in 1 .. Len(q) : x = q[j]
        BY <1>1, <3>2 DEF ToSet
      <4>2. j # i
        BY <2>2, <3>2, <4>1
      <4> QED BY <1>1, <1>2, <4>1, <4>2 DEF ToSet
    <3> QED BY <3>1, <3>2
  <2> QED BY <2>1, <2>2
<1> QED BY <1>4, <1>5

LEMMA AppendToSet ==
    ASSUME NEW S, NEW q \in Seq(S), NEW l \in S
    PROVE  /\ ToSet(Append(q, l)) = ToSet(q) \cup {l}
           /\ IsInjective(q) /\ l \notin ToSet(q) => IsInjective(Append(q, l))
<1> DEFINE r == Append(q, l)
<1>1. /\ Len(q) \in Nat /\ DOMAIN q = 1 .. Len(q) /\ DOMAIN r = 1 .. Len(q) + 1
      /\ r[Len(q) + 1] = l /\ \A j \in 1 .. Len(q) : r[j] = q[j]
  BY AppendProperties, LenProperties
<1> HIDE DEF r
<1>2. \A j \in 1 .. Len(q) + 1 : j \in 1 .. Len(q) \/ j = Len(q) + 1
  BY <1>1
<1>3. 1 .. Len(q) \subseteq 1 .. Len(q) + 1 /\ Len(q) + 1 \in 1 .. Len(q) + 1
  BY <1>1
<1>4. ToSet(r) = ToSet(q) \cup {l}
  BY <1>1, <1>2, <1>3 DEF ToSet
<1>5. IsInjective(q) /\ l \notin ToSet(q) => IsInjective(r)
  <2> SUFFICES ASSUME IsInjective(q), l \notin ToSet(q),
                      NEW a \in DOMAIN r, NEW b \in DOMAIN r, r[a] = r[b]
               PROVE  a = b
    BY DEF IsInjective
  <2>1. \A j \in 1 .. Len(q) : q[j] # l
    BY <1>1 DEF ToSet
  <2> QED BY <1>1, <1>2, <2>1 DEF IsInjective
<1> QED BY <1>4, <1>5 DEF r

\* What a redial and a close do to the lists of connections.
LEMMA RedialLists ==
    ASSUME ConsInv, OneLive, NEW l \in Links, NEW k \in Links, Redial(l, k)
    PROVE  /\ \A h \in Hubs : IsInjective(cons'[h])
           /\ \A h \in Hubs : ToSet(cons'[h]) =
                IF h = k.dials THEN (ToSet(cons[h]) \ {l}) \cup {k}
                ELSE IF h = k.accepts THEN ToSet(cons[h]) \cup {k} ELSE ToSet(cons[h])
           /\ Stands(l)
<1> DEFINE d == k.dials
           a == k.accepts
<1>1. /\ l.dials = d /\ l.accepts = a /\ ~Listed(a, k) /\ d \in Hubs /\ a \in Hubs /\ d # a
      /\ Ends(l) = Ends(k)
  BY LinksAssumption DEF Redial, Twins, Ends
<1>2. PICK i \in DOMAIN cons[d] :
        cons[d][i] = l /\ cons' = [cons EXCEPT ![d][i] = k, ![a] = Append(@, k)]
  BY <1>1 DEF Redial
<1>3. ASSUME NEW h \in Hubs PROVE cons[h] \in Seq(Links) /\ IsInjective(cons[h])
  <2>1. cons[h] \in Seq(LinksOf(h)) /\ LinksOf(h) \subseteq Links
    BY DEF ConsInv, LinksOf
  <2> QED BY <2>1, SeqMonotonic DEF OneLive
<1> HIDE DEF d, a
<1> DEFINE r == [cons[d] EXCEPT ![i] = k]
<1>4. cons'[d] = r /\ cons'[a] = Append(cons[a], k)
      /\ \A h \in Hubs : h # d /\ h # a => cons'[h] = cons[h]
  BY <1>1, <1>2 DEF ConsInv
<1>5. Listed(d, l) /\ Stands(l)
  BY <1>1, <1>2 DEF Listed, ToSet, Stands
<1>6. k = l \/ ~Listed(d, k)
  BY <1>1, <1>5 DEF OneLive, Stands, d
<1>7. ToSet(r) = (ToSet(cons[d]) \ {l}) \cup {k} /\ IsInjective(r)
  <2> HIDE DEF r
  <2>1. r = [cons[d] EXCEPT ![i] = k]
    BY DEF r
  <2>2. k = cons[d][i] \/ k \notin ToSet(cons[d])
    BY <1>2, <1>6 DEF Listed
  <2> QED BY <1>1, <1>2, <1>3, <2>1, <2>2, ReplacedOne
<1>8. ToSet(Append(cons[a], k)) = ToSet(cons[a]) \cup {k} /\ IsInjective(Append(cons[a], k))
  BY <1>1, <1>3, AppendToSet DEF Listed
<1> HIDE DEF r
<1>9. \A h \in Hubs : IsInjective(cons'[h])
  BY <1>3, <1>4, <1>7, <1>8
<1>10. \A h \in Hubs : ToSet(cons'[h]) =
         IF h = d THEN (ToSet(cons[h]) \ {l}) \cup {k}
         ELSE IF h = a THEN ToSet(cons[h]) \cup {k} ELSE ToSet(cons[h])
  BY <1>1, <1>4, <1>7, <1>8
<1> QED BY <1>5, <1>9, <1>10 DEF d, a

LEMMA CloseLists ==
    ASSUME ConsInv, OneLive, NEW l \in Links, NEW h \in Ends(l), Shut(h, l)
    PROVE  \A j \in Hubs : ToSet(cons'[j]) \subseteq ToSet(cons[j]) /\ IsInjective(cons'[j])
<1>1. CASE UNCHANGED cons
  BY <1>1 DEF OneLive
<1>2. ASSUME NEW i \in DOMAIN cons[h], cons' = [cons EXCEPT ![h] = RemoveAt(@, i)]
      PROVE  \A j \in Hubs : ToSet(cons'[j]) \subseteq ToSet(cons[j]) /\ IsInjective(cons'[j])
  <2>1. h \in Hubs /\ cons[h] \in Seq(LinksOf(h)) /\ IsInjective(cons[h])
    BY PeerIsHub DEF ConsInv, OneLive
  <2>2. ToSet(RemoveAt(cons[h], i)) \subseteq ToSet(cons[h]) /\ IsInjective(RemoveAt(cons[h], i))
    BY <1>2, <2>1, RemovedOne
  <2> QED BY <1>2, <2>1, <2>2 DEF ConsInv, OneLive
<1> QED BY <1>1, <1>2 DEF Shut, Leaves

\* Nothing else touches them.
LEMMA ListsStep ==
    ASSUME [Next]_vars
    PROVE  \/ UNCHANGED cons
           \/ \E l, k \in Links : Redial(l, k)
           \/ \E l \in Links : \E h \in Ends(l) : Shut(h, l)
<1>1. ASSUME NEW h \in Hubs, Dispatch(h) PROVE UNCHANGED cons
  BY <1>1 DEF Dispatch, Forward, MountRefuses, Undeliverable, EndOfTheLine, Handle,
              NotHandled, Reflect, FanOut, links
<1>2. ASSUME NEW l \in Links, NEW h \in Ends(l), Close(h, l) PROVE Shut(h, l)
  BY <1>2 DEF Close, Refuse, Drop, SeeClose
<1> QED BY <1>1, <1>2 DEF Next, vars, links, Post, Read, RedialFails

\* A new session has the place of the one that the dialler listed.
LEMMA OneLiveStep == ConsInv /\ OneLive /\ [Next]_vars => OneLive'
<1> SUFFICES ASSUME ConsInv, OneLive, [Next]_vars PROVE OneLive'
  OBVIOUS
<1>0. \A l \in Links : l.dials \in Hubs
  BY LinksAssumption
<1>1. ASSUME \A h \in Hubs : ToSet(cons'[h]) \subseteq ToSet(cons[h]) /\ IsInjective(cons'[h])
      PROVE  OneLive'
  <2>1. \A l \in Links : Stands(l)' => Stands(l)
    BY <1>0, <1>1 DEF Stands, Listed
  <2> QED BY <1>1, <2>1 DEF OneLive, Ends
<1>2. ASSUME NEW l \in Links, NEW k \in Links, Redial(l, k) PROVE OneLive'
  <2>1. /\ \A h \in Hubs : IsInjective(cons'[h])
        /\ \A h \in Hubs : ToSet(cons'[h]) =
             IF h = k.dials THEN (ToSet(cons[h]) \ {l}) \cup {k}
             ELSE IF h = k.accepts THEN ToSet(cons[h]) \cup {k} ELSE ToSet(cons[h])
        /\ Stands(l)
    BY <1>2, RedialLists
  <2>2. l.dials = k.dials /\ Ends(l) = Ends(k)
    BY <1>2 DEF Redial, Twins, Ends
  <2>3. \A a \in Links : Stands(a)' => a = k \/ (Stands(a) /\ (a = l => l.dials # k.dials))
    BY <1>0, <2>1 DEF Stands, Listed
  <2>4. \A a \in Links : Stands(a)' /\ a # k => Stands(a) /\ a # l
    BY <2>2, <2>3
  <2>5. \A a \in Links : Stands(a)' /\ a # k => Ends(a) # Ends(k)
    BY <2>1, <2>2, <2>4 DEF OneLive
  <2>6. \A a, b \in Links : Ends(a) = Ends(b) /\ Stands(a)' /\ Stands(b)' => a = b
    BY <2>4, <2>5 DEF OneLive
  <2> QED BY <2>1, <2>6 DEF OneLive, Ends
<1>3. ASSUME NEW l \in Links, NEW h \in Ends(l), Shut(h, l) PROVE OneLive'
  BY <1>1, <1>3, CloseLists
<1>4. CASE UNCHANGED cons
  BY <1>4 DEF OneLive, Stands, Listed, Ends
<1> QED BY <1>2, <1>3, <1>4, ListsStep

LEMMA BeforeOne ==
    ASSUME ConsInv, NEW k \in Hubs, NEW j \in Hubs, NEW s \in Before(k), s \in Before(j)
    PROVE  k = j
<1>1. \A l \in Links : \A h \in Ends(l) : Peer(l, Peer(l, h)) = h
  BY LinksAssumption DEF Ends, Peer
<1>2. CASE s = PumpSite(k)
  BY <1>2, SitesAre, BeforeAre
<1>3. ASSUME NEW l \in ToSet(cons[k]), s = WireSite(l, Peer(l, k)) PROVE k = j
  <2>1. PICK i \in ToSet(cons[j]) : s = WireSite(i, Peer(i, j))
    BY <1>3, SitesAre, BeforeAre
  <2>2. l = i /\ Peer(l, k) = Peer(i, j)
    BY <1>3, <2>1 DEF WireSite
  <2> QED BY <1>1, <2>1, <2>2, BeforeAre
<1> QED BY <1>2, <1>3, BeforeAre

\* A step after which no more of mail id waits anywhere than did before.
Shrinks(id) ==
    /\ \A k \in Hubs : \A s \in Before(k)' :
         Held(id)'[s] = 0 \/ (s \in Before(k) /\ Held(id)'[s] <= Held(id)[s])
    /\ NonePended(id) => NonePended(id)' 

LEMMA StillShrinks ==
    ASSUME IInv, NEW id, Untouched(id), \A k \in Hubs : Before(k)' \subseteq Before(k), IInv'
    PROVE  Shrinks(id)
<1>1. QueuesOK /\ QueuesOK'
  BY QueuesTyped, QueuesTypedNext
<1>2. ASSUME NEW s \in Sites PROVE Held(id)'[s] = Held(id)[s] /\ Held(id)[s] \in Nat
  <2>1. PICK q : Queue(s)' = q /\ Copies(q, id) = Copies(Queue(s), id)
    BY DEF Untouched
  <2>2. Held(id)'[s] = Copies(q, id) /\ Held(id)[s] = Copies(Queue(s), id) /\ Held(id)[s] \in Nat
    BY <1>1, <2>1, HeldAt, HeldNext
  <2> QED BY <2>1, <2>2
<1>3. \A k \in Hubs : Before(k) \subseteq Sites
  BY BeforeAre DEF IInv
<1>4. \A s \in Sites : Held(id)'[s] <= Held(id)[s]
  <2> TAKE s \in Sites
  <2> DEFINE f == Held(id)[s]
             g == Held(id)'[s]
  <2>1. g = f /\ f \in Nat
    BY <1>2
  <2> HIDE DEF f, g
  <2>2. g <= f
    BY <2>1
  <2> QED BY <2>2 DEF f, g
<1>5. NonePended(id) => NonePended(id)'
  <2>1. NonePended(id)' <=> \A l \in Links : Held(id)'[PendSite(l)] = 0
    BY DEF NonePended, PendSite
  <2> QED BY <1>2, <2>1, SitesAre DEF NonePended
<1> QED BY <1>3, <1>4, <1>5 DEF Shrinks

\* Then cast id has spread as far as before, or less far.
LEMMA Lesser ==
    ASSUME IInv, IInv', NEW id \in Casts, Spread(id), posted \subseteq posted', DoneSame(id),
           AllBound(id)', Shrinks(id)
    PROVE  Spread(id)'
<1>1. QueuesOK /\ QueuesOK' /\ ConsInv
  BY QueuesTyped, QueuesTypedNext DEF IInv
<1>2. ASSUME NEW k \in Hubs, NEW s \in Before(k)', Held(id)'[s] # 0
      PROVE  s \in Before(k) /\ Held(id)'[s] = 1 /\ Held(id)[s] = 1
  <2>1. s \in Before(k) /\ Held(id)'[s] <= Held(id)[s] /\ s \in Sites
    BY <1>1, <1>2, BeforeAre DEF Shrinks
  <2>2. Held(id)[s] \in {0, 1}
    BY <2>1 DEF Spread, AtMost
  <2>3. Held(id)'[s] \in Nat
    BY <1>1, <2>1, HeldNext
  <2> DEFINE f == Held(id)[s]
             g == Held(id)'[s]
  <2>4. g <= f /\ f \in {0, 1} /\ g \in Nat /\ g # 0
    BY <1>2, <2>1, <2>2, <2>3
  <2> HIDE DEF f, g
  <2>5. g = 1 /\ f = 1
    BY <2>4
  <2> QED BY <2>1, <2>5 DEF f, g
<1>3. \A k : Done(id, k)' <=> Done(id, k)
  BY DEF DoneSame
<1>4. \A k \in Hubs : Waits(id, k)' => Waits(id, k)
  BY <1>2 DEF Waits
<1>5. ASSUME NEW k \in Hubs PROVE AtMost(id, k)'
  <2>1. AtMost(id, k)
    BY DEF Spread
  <2>2. \A s \in Before(k)' : Held(id)'[s] \in {0, 1}
    BY <1>2
  <2>3. \A s, t \in Before(k)' : Held(id)'[s] # 0 /\ Held(id)'[t] # 0 => s = t
    BY <1>2, <2>1 DEF AtMost
  <2>4. Done(id, k)' => ~Waits(id, k)'
    BY <1>3, <1>4, <2>1 DEF AtMost
  <2> QED BY <2>2, <2>3, <2>4 DEF AtMost
<1>6. DoneOnce(id)'
  BY DEF DoneSame, Spread
<1>7. Downward(id) => Downward(id)'
  BY <1>3, <1>4 DEF Downward, Leads
<1>8. Upward(id) => Upward(id)'
  BY <1>3, <1>4 DEF Upward
<1>9. NonePended(id)'
  BY DEF Shrinks, Spread
<1> QED BY <1>5, <1>6, <1>7, <1>8, <1>9 DEF Spread

\* Other mail comes and goes.
LEMMA TailOther ==
    ASSUME NEW q \in Seq(Messages), q # <<>>, NEW id, Head(q).id # id
    PROVE  Copies(Tail(q), id) = Copies(q, id)
<1>1. Copies(q, id) = Copies(Tail(q), id) + 0
  BY CopiesTail
<1>2. Copies(Tail(q), id) \in Nat
  BY HeadTailProperties, CopiesType
<1> QED BY <1>1, <1>2

LEMMA AppendOther ==
    ASSUME NEW q \in Seq(Messages), NEW m \in Messages, NEW id, m.id # id
    PROVE  Copies(Append(q, m), id) = Copies(q, id)
<1>1. Copies(Append(q, m), id) = Copies(q, id) + 0
  BY CopiesAppend
<1>2. Copies(q, id) \in Nat
  BY CopiesType
<1> QED BY <1>1, <1>2

LEMMA PumpUntouched ==
    ASSUME IInv, NEW h \in Hubs, NEW q, pump' = [pump EXCEPT ![h] = q], UNCHANGED <<wire, pend>>,
           NEW id, Copies(q, id) = Copies(pump[h], id), ends'[id] = ends[id]
    PROVE  Untouched(id)
<1>1. pump'[h] = q /\ \A j \in Hubs \ {h} : pump'[j] = pump[j]
  BY DEF IInv, PumpInv
<1>2. ASSUME NEW s \in Sites PROVE \E x : Queue(s)' = x /\ Copies(x, id) = Copies(Queue(s), id)
  <2>1. ASSUME NEW j \in Hubs, s = PumpSite(j)
        PROVE  \E x : Queue(s)' = x /\ Copies(x, id) = Copies(Queue(s), id)
    <3>1. Queue(s)' = pump'[j] /\ Queue(s) = pump[j]
      BY <2>1, QueuesAre, QueuesNext
    <3>2. Copies(pump'[j], id) = Copies(pump[j], id)
      BY <1>1
    <3> QED BY <3>1, <3>2
  <2>2. ASSUME NEW l \in Links, NEW j \in Ends(l), s = WireSite(l, j)
        PROVE  \E x : Queue(s)' = x /\ Copies(x, id) = Copies(Queue(s), id)
    <3>1. Queue(s)' = wire'[l][j] /\ Queue(s) = wire[l][j] /\ wire'[l][j] = wire[l][j]
      BY <2>2, QueuesAre, QueuesNext
    <3> QED BY <3>1
  <2>3. ASSUME NEW l \in Links, s = PendSite(l)
        PROVE  \E x : Queue(s)' = x /\ Copies(x, id) = Copies(Queue(s), id)
    <3>1. Queue(s)' = pend'[l] /\ Queue(s) = pend[l]
      BY <2>3, QueuesAre, QueuesNext
    <3> QED BY <3>1
  <2> QED BY <2>1, <2>2, <2>3, SitesAre
<1> QED BY <1>2 DEF Untouched

LEMMA PairUntouched ==
    ASSUME IInv, NEW h \in Hubs, NEW p, pump' = [pump EXCEPT ![h] = p],
           NEW l \in Links, NEW k \in Ends(l), NEW q, wire' = [wire EXCEPT ![l][k] = q],
           UNCHANGED pend,
           NEW id, Copies(p, id) = Copies(pump[h], id), Copies(q, id) = Copies(wire[l][k], id),
           ends'[id] = ends[id]
    PROVE  Untouched(id)
<1>1. pump'[h] = p /\ \A j \in Hubs \ {h} : pump'[j] = pump[j]
  BY DEF IInv, PumpInv
<1>2. /\ wire'[l][k] = q
      /\ \A m \in Links : \A j \in Ends(m) : ~(m = l /\ j = k) => wire'[m][j] = wire[m][j]
  BY DEF IInv, WireInv
<1>3. ASSUME NEW s \in Sites PROVE \E x : Queue(s)' = x /\ Copies(x, id) = Copies(Queue(s), id)
  <2>1. ASSUME NEW j \in Hubs, s = PumpSite(j)
        PROVE  \E x : Queue(s)' = x /\ Copies(x, id) = Copies(Queue(s), id)
    <3>1. Queue(s)' = pump'[j] /\ Queue(s) = pump[j]
      BY <2>1, QueuesAre, QueuesNext
    <3>2. Copies(pump'[j], id) = Copies(pump[j], id)
      BY <1>1
    <3> QED BY <3>1, <3>2
  <2>2. ASSUME NEW m \in Links, NEW j \in Ends(m), s = WireSite(m, j)
        PROVE  \E x : Queue(s)' = x /\ Copies(x, id) = Copies(Queue(s), id)
    <3>1. Queue(s)' = wire'[m][j] /\ Queue(s) = wire[m][j]
      BY <2>2, QueuesAre, QueuesNext
    <3>2. Copies(wire'[m][j], id) = Copies(wire[m][j], id)
      BY <1>2
    <3> QED BY <3>1, <3>2
  <2>3. ASSUME NEW m \in Links, s = PendSite(m)
        PROVE  \E x : Queue(s)' = x /\ Copies(x, id) = Copies(Queue(s), id)
    <3>1. Queue(s)' = pend'[m] /\ Queue(s) = pend[m]
      BY <2>3, QueuesAre, QueuesNext
    <3> QED BY <3>1
  <2> QED BY <2>1, <2>2, <2>3, SitesAre
<1> QED BY <1>3 DEF Untouched

LEMMA PendUntouched ==
    ASSUME IInv, NEW h \in Hubs, NEW p, pump' = [pump EXCEPT ![h] = p], UNCHANGED wire,
           NEW l \in Links, NEW q, pend' = [pend EXCEPT ![l] = q],
           NEW id, Copies(p, id) = Copies(pump[h], id), Copies(q, id) = Copies(pend[l], id),
           ends'[id] = ends[id]
    PROVE  Untouched(id)
<1>1. pump'[h] = p /\ \A j \in Hubs \ {h} : pump'[j] = pump[j]
  BY DEF IInv, PumpInv
<1>2. pend'[l] = q /\ \A m \in Links \ {l} : pend'[m] = pend[m]
  BY DEF IInv, PendInv
<1>3. ASSUME NEW s \in Sites PROVE \E x : Queue(s)' = x /\ Copies(x, id) = Copies(Queue(s), id)
  <2>1. ASSUME NEW j \in Hubs, s = PumpSite(j)
        PROVE  \E x : Queue(s)' = x /\ Copies(x, id) = Copies(Queue(s), id)
    <3>1. Queue(s)' = pump'[j] /\ Queue(s) = pump[j]
      BY <2>1, QueuesAre, QueuesNext
    <3>2. Copies(pump'[j], id) = Copies(pump[j], id)
      BY <1>1
    <3> QED BY <3>1, <3>2
  <2>2. ASSUME NEW m \in Links, NEW j \in Ends(m), s = WireSite(m, j)
        PROVE  \E x : Queue(s)' = x /\ Copies(x, id) = Copies(Queue(s), id)
    <3>1. Queue(s)' = wire'[m][j] /\ Queue(s) = wire[m][j]
      BY <2>2, QueuesAre, QueuesNext
    <3> QED BY <3>1
  <2>3. ASSUME NEW m \in Links, s = PendSite(m)
        PROVE  \E x : Queue(s)' = x /\ Copies(x, id) = Copies(Queue(s), id)
    <3>1. Queue(s)' = pend'[m] /\ Queue(s) = pend[m]
      BY <2>3, QueuesAre, QueuesNext
    <3>2. Copies(pend'[m], id) = Copies(pend[m], id)
      BY <1>2
    <3> QED BY <3>1, <3>2
  <2> QED BY <2>1, <2>2, <2>3, SitesAre
<1> QED BY <1>3 DEF Untouched

LEMMA DispatchUntouched ==
    ASSUME IInv, EndsInv, NEW h \in Hubs, Dispatch(h), NEW id \in Mail, Head(pump[h]).id # id
    PROVE  Untouched(id)
<1> DEFINE t == Tail(pump[h])
<1>1. pump[h] # <<>>
  BY DEF Dispatch, Forward, MountRefuses, Undeliverable, EndOfTheLine, Handle,
         NotHandled, Reflect, FanOut, Away, Here
<1>2. pump[h] \in Seq(Messages) /\ t \in Seq(Messages) /\ Copies(t, id) = Copies(pump[h], id)
  BY <1>1, PumpOfMessages, SeqKept, TailOther DEF IInv, PumpInv
<1>3. CASE Forward(h)
  <2>0. PICK l \in LinksOf(h) : \E r \in Sent(l, h) :
          r.id = Head(pump[h]).id /\ Handed(h, l, r)
    BY <1>3, ForwardSends
  <2>1. PICK r \in Sent(l, h) : r.id = Head(pump[h]).id /\ Handed(h, l, r)
    BY <2>0
  <2>2. l \in Links /\ h \in Ends(l) /\ r \in Messages /\ wire[l][h] \in Seq(Messages)
        /\ pend[l] \in Seq(Messages)
    BY SentIsFit, WireOfMessages, PendOfMessages DEF LinksOf
  <2>3. pump' = [pump EXCEPT ![h] = t] /\ ends'[id] = ends[id]
    BY <1>3 DEF Forward
  <2>4. CASE wire' = [wire EXCEPT ![l][h] = Append(@, r)] /\ UNCHANGED pend
    <3> DEFINE q == Append(wire[l][h], r)
    <3>1. Copies(q, id) = Copies(wire[l][h], id) /\ wire' = [wire EXCEPT ![l][h] = q]
          /\ UNCHANGED pend
      BY <2>1, <2>2, <2>4, AppendOther
    <3> HIDE DEF q, t
    <3> QED BY <1>2, <2>2, <2>3, <3>1, PairUntouched
  <2>5. CASE pend' = [pend EXCEPT ![l] = Append(@, r)] /\ UNCHANGED wire
    <3> DEFINE q == Append(pend[l], r)
    <3>1. Copies(q, id) = Copies(pend[l], id) /\ pend' = [pend EXCEPT ![l] = q]
          /\ UNCHANGED wire
      BY <2>1, <2>2, <2>5, AppendOther
    <3> HIDE DEF q, t
    <3> QED BY <1>2, <2>2, <2>3, <3>1, PendUntouched
  <2> QED BY <2>1, <2>4, <2>5 DEF Handed
<1>4. CASE MountRefuses(h) \/ EndOfTheLine(h) \/ Handle(h)
  <2>1. /\ pump' = [pump EXCEPT ![h] = t] /\ UNCHANGED <<wire, pend>>
        /\ \E how : Ended(how, h, <<Head(pump[h])>>)
    BY <1>4 DEF MountRefuses, EndOfTheLine, Handle, links
  <2>2. ends'[id] = ends[id]
    BY <2>1, OtherEnds
  <2> HIDE DEF t
  <2> QED BY <1>2, <2>1, <2>2, PumpUntouched
<1>5. CASE Undeliverable(h) \/ NotHandled(h) \/ Reflect(h)
  <2>1. PICK r \in Fit(h) :
          r.id = Head(pump[h]).id /\ pump' = [pump EXCEPT ![h] = Append(Tail(@), r)]
    BY <1>5, ReplacedBy
  <2> DEFINE q == Append(t, r)
  <2>2. UNCHANGED <<wire, pend>> /\ ends'[id] = ends[id] /\ r \in Messages /\ pump' = [pump EXCEPT ![h] = q]
    BY <1>5, <2>1, FitIsMessages DEF Undeliverable, NotHandled, Reflect, links
  <2>3. Copies(q, id) = Copies(pump[h], id)
    <3> HIDE DEF t
    <3> QED BY <1>2, <2>1, <2>2, AppendOther
  <2> HIDE DEF q
  <2> QED BY <2>2, <2>3, PumpUntouched
<1>6. CASE FanOut(h)
  BY <1>6, FanOutElsewhere
<1> QED BY <1>3, <1>4, <1>5, <1>6 DEF Dispatch

LEMMA ReadUntouched ==
    ASSUME IInv, NEW l \in Links, NEW h \in Ends(l), Read(h, l), NEW id \in Mail,
           Head(wire[l][Peer(l, h)]).id # id
    PROVE  Untouched(id)
<1> DEFINE o == Peer(l, h)
           x == wire[l][o]
           r == Head(x)
           p == Append(pump[h], r)
           q == Tail(x)
<1>1. h \in Hubs /\ o \in Ends(l) /\ x \in Seq(Messages) /\ pump[h] \in Seq(Messages)
  BY PeerIsHub, WireOfMessages, PumpOfMessages
<1>2. x # <<>> /\ r.id # id /\ pump' = [pump EXCEPT ![h] = p] /\ wire' = [wire EXCEPT ![l][o] = q]
      /\ ends'[id] = ends[id] /\ UNCHANGED pend
  BY DEF Read
<1> HIDE DEF x, o
<1>3. r \in Messages /\ Copies(q, id) = Copies(x, id)
  BY <1>1, <1>2, SeqKept, TailOther
<1> HIDE DEF r, q
<1>4. Copies(p, id) = Copies(pump[h], id)
  BY <1>1, <1>2, <1>3, AppendOther
<1> HIDE DEF p
<1>5. Copies(q, id) = Copies(wire[l][o], id)
  BY <1>3 DEF x
<1> QED BY <1>1, <1>2, <1>4, <1>5, PairUntouched

LEMMA PostUntouched ==
    ASSUME IInv, NEW new \in Mail, Post(new), NEW id \in posted
    PROVE  Untouched(id)
<1> DEFINE h == new.src
           m == Message(new.kind, new, new.src, new.dst, new.src)
           q == Append(pump[h], m)
<1>1. h \in Hubs /\ m \in Messages /\ m.id = new /\ new # id
  BY MailAssumption, PostedFit, FitIsMessages DEF Post
<1>2. pump' = [pump EXCEPT ![h] = q] /\ UNCHANGED <<wire, pend, ends>>
  BY DEF Post, links
<1> HIDE DEF m, h
<1>3. Copies(q, id) = Copies(pump[h], id)
  BY <1>1, PumpOfMessages, AppendOther
<1> HIDE DEF q
<1> QED BY <1>1, <1>2, <1>3, PumpUntouched

\* No cast is longer anywhere than it was, and none is listed that was not.
LEMMA BeforeShrinks ==
    ASSUME \A k \in Hubs : ToSet(cons'[k]) \subseteq ToSet(cons[k])
    PROVE  \A k \in Hubs : Before(k)' \subseteq Before(k)
BY DEF Before, PumpSite, WireSite, Peer

LEMMA BeforeStays ==
    ASSUME UNCHANGED cons
    PROVE  \A k : Before(k)' = Before(k)
BY DEF Before, PumpSite, WireSite, Peer

\* What a close leaves on the link was there.
LEMMA CloseLeaves ==
    ASSUME IInv, NEW l \in Links, NEW h \in Ends(l), Shut(h, l), NEW j \in Ends(l), NEW id
    PROVE  Copies(wire'[l][j], id) <= Copies(wire[l][j], id)
<1> DEFINE x == wire[l][j]
           c == Copies(x, id)
<1>1. x \in Seq(Messages)
  BY WireOfMessages
<1>2. c \in Nat /\ Copies(<<>>, id) = 0
  BY <1>1, CopiesType, CopiesOne
<1> HIDE DEF c
<1>3. PICK n \in 0 .. (IF Open(Peer(l, h), l) THEN Len(wire[l][h]) ELSE 0) :
        wire' = [wire EXCEPT ![l] = [k \in DOMAIN @ |->
                   IF k = h THEN SubSeq(@[h], 1, n) ELSE <<>>]]
  BY DEF Shut
<1>4. wire'[l][j] = IF j = h THEN SubSeq(x, 1, n) ELSE <<>>
  BY <1>3 DEF IInv, WireInv
<1>5. CASE j # h
  <2>1. 0 <= c
    BY <1>2
  <2> QED BY <1>2, <1>4, <1>5, <2>1 DEF c
<1>6. CASE j = h
  <2>1. n \in 0 .. Len(x)
    BY <1>1, <1>3, <1>6, LenProperties
  <2> DEFINE p == SubSeq(x, 1, n)
             z == SubSeq(x, n + 1, Len(x))
             cp == Copies(p, id)
             cz == Copies(z, id)
  <2>2. p \in Seq(Messages) /\ z \in Seq(Messages) /\ c = cp + cz
    <3> HIDE DEF x
    <3> QED BY <1>1, <2>1, CopiesSplit DEF c
  <2>3. cp \in Nat /\ cz \in Nat
    <3> HIDE DEF p, z
    <3> QED BY <2>2, CopiesType
  <2>4. wire'[l][j] = p
    BY <1>4, <1>6
  <2> HIDE DEF cp, cz, p, z
  <2>5. cp <= c
    BY <2>2, <2>3
  <2>6. Copies(wire'[l][j], id) <= c
    BY <2>4, <2>5 DEF cp
  <2> QED BY <2>6 DEF c
<1> QED BY <1>5, <1>6

\* What waits for no session goes on doing so, unless it is given to one.
LEMMA PendsStill ==
    ASSUME IInv, IInv', NEW id, \A l \in Links : pend'[l] = pend[l] \/ pend'[l] = <<>>
    PROVE  NonePended(id) => NonePended(id)'
<1> SUFFICES ASSUME NonePended(id), NEW l \in Links PROVE Held(id)'[PendSite(l)] = 0
  BY DEF NonePended, PendSite
<1>1. QueuesOK /\ QueuesOK' /\ PendSite(l) \in Sites
  BY QueuesTyped, QueuesTypedNext, SitesAre
<1>2. Queue(PendSite(l)) = pend[l] /\ Queue(PendSite(l))' = pend'[l]
  BY QueuesAre, QueuesNext
<1>3. Held(id)'[PendSite(l)] = Copies(pend'[l], id) /\ Held(id)[PendSite(l)] = Copies(pend[l], id)
  BY <1>1, <1>2, HeldAt, HeldNext
<1>4. Copies(<<>>, id) = 0
  BY CopiesOne
<1>5. Copies(pend[l], id) = 0
  BY <1>3 DEF NonePended
<1> QED BY <1>3, <1>4, <1>5

LEMMA CloseShrinks ==
    ASSUME IInv, IInv', OneLive, NEW l \in Links, NEW h \in Ends(l), Shut(h, l), NEW id
    PROVE  Shrinks(id)
<1>1. QueuesOK /\ QueuesOK' /\ ConsInv
  BY QueuesTyped, QueuesTypedNext DEF IInv
<1>2. \A k \in Hubs : Before(k)' \subseteq Before(k) /\ Before(k) \subseteq Sites
  BY <1>1, CloseLists, BeforeShrinks, BeforeAre
<1>3. UNCHANGED <<pump, pend>> /\ \A k \in Links \ {l} : wire'[k] = wire[k]
  BY DEF Shut, IInv, WireInv
<1>4. ASSUME NEW s \in Sites PROVE Held(id)'[s] <= Held(id)[s]
  <2>0. /\ \A q : Queue(s)' = q => Held(id)'[s] = Copies(q, id)
        /\ Held(id)[s] = Copies(Queue(s), id) /\ Held(id)[s] \in Nat
    BY <1>1, HeldAt, HeldNext
  <2>1. ASSUME Queue(s)' = Queue(s) PROVE Held(id)'[s] <= Held(id)[s]
    <3> DEFINE f == Held(id)[s]
               g == Held(id)'[s]
    <3>1. g = f /\ f \in Nat
      BY <2>0, <2>1
    <3> HIDE DEF f, g
    <3>2. g <= f
      BY <3>1
    <3> QED BY <3>2 DEF f, g
  <2>2. CASE \E j \in Hubs : s = PumpSite(j)
    BY <1>3, <2>1, <2>2, QueuesAre, QueuesNext
  <2>3. ASSUME NEW m \in Links, NEW j \in Ends(m), s = WireSite(m, j)
        PROVE  Held(id)'[s] <= Held(id)[s]
    <3>1. Queue(s)' = wire'[m][j] /\ Queue(s) = wire[m][j]
      BY <2>3, QueuesAre, QueuesNext
    <3>2. CASE m # l
      BY <1>3, <2>1, <3>1, <3>2
    <3>3. CASE m = l
      <4>1. Copies(wire'[m][j], id) <= Copies(wire[m][j], id)
        BY <3>3, CloseLeaves
      <4> QED BY <2>0, <3>1, <4>1
    <3> QED BY <3>2, <3>3
  <2>4. CASE \E j \in Links : s = PendSite(j)
    BY <1>3, <2>1, <2>4, QueuesAre, QueuesNext
  <2> QED BY <2>2, <2>3, <2>4, SitesAre
<1>5. NonePended(id) => NonePended(id)'
  BY <1>3, PendsStill
<1> QED BY <1>2, <1>4, <1>5 DEF Shrinks

\* A session that begins has none of a cast that is not pended.
LEMMA RedialShrinks ==
    ASSUME IInv, IInv', OneLive, NEW l \in Links, NEW k \in Links, Redial(l, k),
           NEW id, NonePended(id)
    PROVE  Shrinks(id)
<1>1. QueuesOK /\ QueuesOK' /\ ConsInv /\ ConsInv'
  BY QueuesTyped, QueuesTypedNext DEF IInv
<1>2. /\ UNCHANGED pump /\ \A h \in Ends(k) : wire[k][h] = <<>>
      /\ wire' = [wire EXCEPT ![k][k.dials] = pend[l]] /\ pend' = [pend EXCEPT ![l] = <<>>]
  BY DEF Redial
<1>3. /\ pend'[l] = <<>> /\ (\A m \in Links \ {l} : pend'[m] = pend[m])
      /\ \A m \in Links : \A h \in Ends(m) :
           wire'[m][h] = wire[m][h] \/ (m = k /\ h = k.dials /\ wire'[m][h] = pend[l])
  BY <1>2, DialsIsEnd DEF IInv, PendInv, WireInv
<1>4. Copies(<<>>, id) = 0 /\ Copies(pend[l], id) = 0
  <2>1. PendSite(l) \in Sites /\ Queue(PendSite(l)) = pend[l]
    BY SitesAre, QueuesAre
  <2>2. Held(id)[PendSite(l)] = Copies(pend[l], id)
    BY <1>1, <2>1, HeldAt
  <2> QED BY <2>2, CopiesOne DEF NonePended
<1>5. \A h \in Ends(k) : WireSite(k, h) \in Sites /\ Held(id)'[WireSite(k, h)] = 0
  <2> TAKE h \in Ends(k)
  <2>1. WireSite(k, h) \in Sites /\ Queue(WireSite(k, h))' = wire'[k][h]
    BY QueuesNext, SitesAre
  <2>2. Held(id)'[WireSite(k, h)] = Copies(wire'[k][h], id)
    BY <1>1, <2>1, HeldNext
  <2> QED BY <1>2, <1>3, <1>4, <2>1, <2>2
<1>6. ASSUME NEW j \in Hubs, NEW s \in Before(j)'
      PROVE  s \in Before(j) \/ \E h \in Ends(k) : s = WireSite(k, h)
  <2>1. Before(j)' = {PumpSite(j)} \cup {WireSite(i, Peer(i, j)) : i \in ToSet(cons'[j])}
    BY DEF Before, PumpSite, WireSite, Peer
  <2>2. \A i \in ToSet(cons'[j]) : i \in ToSet(cons[j]) \/ (i = k /\ j \in Ends(k))
    <3>1. ToSet(cons'[j]) = IF j = k.dials THEN (ToSet(cons[j]) \ {l}) \cup {k}
                            ELSE IF j = k.accepts THEN ToSet(cons[j]) \cup {k} ELSE ToSet(cons[j])
      BY <1>1, RedialLists
    <3>2. k.dials \in Ends(k) /\ k.accepts \in Ends(k)
      BY DEF Ends
    <3> QED BY <3>1, <3>2
  <2>3. j \in Ends(k) => Peer(k, j) \in Ends(k)
    BY PeerIsHub
  <2>4. \A i \in ToSet(cons[j]) : WireSite(i, Peer(i, j)) \in Before(j)
    BY DEF Before
  <2>5. s = PumpSite(j) \/ \E i \in ToSet(cons'[j]) : s = WireSite(i, Peer(i, j))
    BY <1>6, <2>1
  <2>6. CASE s = PumpSite(j)
    BY <2>6 DEF Before
  <2>7. ASSUME NEW i \in ToSet(cons'[j]), s = WireSite(i, Peer(i, j))
        PROVE  s \in Before(j) \/ \E h \in Ends(k) : s = WireSite(k, h)
    BY <2>2, <2>3, <2>4, <2>7
  <2> QED BY <2>5, <2>6, <2>7
<1>7. ASSUME NEW j \in Hubs, NEW s \in Before(j)', ~\E h \in Ends(k) : s = WireSite(k, h)
      PROVE  Held(id)'[s] <= Held(id)[s]
  <2>1. s \in Before(j) /\ s \in Sites
    BY <1>1, <1>6, <1>7, BeforeAre
  <2>2. Queue(s)' = Queue(s)
    <3>1. CASE s = PumpSite(j)
      BY <1>2, <3>1, QueuesAre, QueuesNext
    <3>2. ASSUME NEW i \in ToSet(cons[j]), s = WireSite(i, Peer(i, j)) PROVE Queue(s)' = Queue(s)
      <4>1. i \in Links /\ Peer(i, j) \in Ends(i)
        BY <1>1, BeforeAre
      <4>2. wire'[i][Peer(i, j)] = wire[i][Peer(i, j)]
        BY <1>3, <1>7, <3>2, <4>1
      <4> QED BY <3>2, <4>2, QueuesAre, QueuesNext
    <3> QED BY <1>1, <2>1, <3>1, <3>2, BeforeAre
  <2> DEFINE f == Held(id)[s]
             g == Held(id)'[s]
  <2>3. g = f /\ f \in Nat
    BY <1>1, <2>1, <2>2, HeldAt, HeldNext
  <2> HIDE DEF f, g
  <2>4. g <= f
    BY <2>3
  <2> QED BY <2>4 DEF f, g
<1>8. NonePended(id) => NonePended(id)'
  BY <1>3, PendsStill
<1> QED BY <1>5, <1>6, <1>7, <1>8 DEF Shrinks

\* An attempt that fails deletes what waited for the session.
LEMMA RedialFailsShrinks ==
    ASSUME IInv, IInv', NEW l \in Links, RedialFails(l), NEW id
    PROVE  Shrinks(id)
<1>1. QueuesOK /\ QueuesOK' /\ ConsInv
  BY QueuesTyped, QueuesTypedNext DEF IInv
<1>2. UNCHANGED <<cons, pump, wire>> /\ pend' = [pend EXCEPT ![l] = <<>>]
  BY DEF RedialFails
<1>3. NonePended(id) => NonePended(id)'
  <2>1. \A m \in Links : pend'[m] = pend[m] \/ pend'[m] = <<>>
    BY <1>2 DEF IInv, PendInv
  <2> QED BY <2>1, PendsStill
<1>4. ASSUME NEW k \in Hubs, NEW s \in Before(k)'
      PROVE  s \in Before(k) /\ Held(id)'[s] <= Held(id)[s]
  <2>1. s \in Before(k) /\ s \in Sites
    BY <1>1, <1>2, BeforeStays, BeforeAre
  <2>2. Queue(s)' = Queue(s)
    BY <1>1, <1>2, <2>1, BeforeAre, QueuesAre, QueuesNext
  <2> DEFINE f == Held(id)[s]
             g == Held(id)'[s]
  <2>3. g = f /\ f \in Nat
    BY <1>1, <2>1, <2>2, HeldAt, HeldNext
  <2> HIDE DEF f, g
  <2>4. g <= f
    BY <2>3
  <2> QED BY <2>1, <2>4 DEF f, g
<1> QED BY <1>3, <1>4 DEF Shrinks

\* A cast that is read waits for the same hub.
LEMMA ReadSpread ==
    ASSUME IInv, IInv', EndsInv, NEW id \in Casts, Spread(id), NEW l \in Links, NEW h \in Ends(l),
           Read(h, l), Head(wire[l][Peer(l, h)]).id = id
    PROVE  Spread(id)'
<1> DEFINE o == Peer(l, h)
           x == wire[l][o]
           r == Head(x)
           a == WireSite(l, o)
           b == PumpSite(h)
           p == Append(pump[h], r)
           q == Tail(x)
           f == Held(id)
           g == Held(id)'
<1>1. QueuesOK /\ QueuesOK' /\ ConsInv
  BY QueuesTyped, QueuesTypedNext DEF IInv
<1>2. h \in Hubs /\ o \in Ends(l) /\ x \in Seq(Messages) /\ pump[h] \in Seq(Messages)
  BY PeerIsHub, WireOfMessages, PumpOfMessages
<1>3. /\ x # <<>> /\ r.id = id /\ pump' = [pump EXCEPT ![h] = p]
      /\ wire' = [wire EXCEPT ![l][o] = q] /\ UNCHANGED <<cons, ends, posted, pend>>
      /\ l \in ToSet(cons[h])
  BY DEF Read, Open, Listed
<1>4. a \in Before(h) /\ b \in Before(h) /\ a # b /\ Before(h) \subseteq Sites
  BY <1>1, <1>2, <1>3, BeforeAre, SitesAre
<1> HIDE DEF o
<1>5. r \in Messages /\ q \in Seq(Messages)
  <2> HIDE DEF x
  <2> QED BY <1>2, <1>3, SeqKept
<1>6. /\ pump'[h] = p /\ wire'[l][o] = q
      /\ \A j \in Hubs \ {h} : pump'[j] = pump[j]
      /\ \A m \in Links : \A j \in Ends(m) : ~(m = l /\ j = o) => wire'[m][j] = wire[m][j]
  BY <1>2, <1>3 DEF IInv, PumpInv, WireInv
<1>7. Queue(a) = x /\ Queue(b) = pump[h] /\ Queue(a)' = q /\ Queue(b)' = p
  BY <1>6, QueuesAre, QueuesNext
<1>8. \A s \in Sites \ {a, b} : Queue(s)' = Queue(s)
  <2>1. \A j \in Hubs : PumpSite(j) \notin {a, b} => pump'[j] = pump[j]
    BY <1>6
  <2>2. \A m \in Links : \A j \in Ends(m) : WireSite(m, j) \notin {a, b} => wire'[m][j] = wire[m][j]
    BY <1>6
  <2>3. \A m \in Links : PendSite(m) \notin {a, b} => pend'[m] = pend[m]
    BY <1>3
  <2> HIDE DEF a, b
  <2> QED BY <2>1, <2>2, <2>3, Elsewhere
<1>9. Copies(x, id) = Copies(q, id) + 1 /\ Copies(p, id) = Copies(pump[h], id) + 1
  <2>1. Copies(x, id) = Copies(q, id) + 1
    <3> HIDE DEF x
    <3> QED BY <1>2, <1>3, CopiesTail
  <2>2. Copies(p, id) = Copies(pump[h], id) + 1
    <3> HIDE DEF r
    <3> QED BY <1>2, <1>3, <1>5, CopiesAppend
  <2> QED BY <2>1, <2>2
<1> HIDE DEF a, b
<1>10. \A s \in Sites : f[s] = Copies(Queue(s), id) /\ f[s] \in Nat
  BY <1>1, HeldAt
<1>11. g[a] = Copies(q, id) /\ g[b] = Copies(p, id) /\ g[a] \in Nat /\ g[b] \in Nat
  BY <1>1, <1>4, <1>7, HeldNext
<1>12. \A s \in Sites \ {a, b} : g[s] = f[s]
  BY <1>1, <1>8, <1>10, HeldNext
<1>13. f[a] = g[a] + 1 /\ g[b] = f[b] + 1
  BY <1>4, <1>7, <1>9, <1>10, <1>11
<1> HIDE DEF f, g, p, q, x, r
<1>14. /\ \A s \in Before(h) : f[s] \in {0, 1}
       /\ \A s, t \in Before(h) : f[s] # 0 /\ f[t] # 0 => s = t
       /\ Done(id, h) => ~Waits(id, h)
  BY <1>2 DEF Spread, AtMost, f
<1>15. f[a] = 1 /\ g[a] = 0
  <2> DEFINE fa == f[a]
             ga == g[a]
  <2>1. fa \in {0, 1} /\ ga \in Nat /\ fa = ga + 1
    BY <1>4, <1>11, <1>13, <1>14
  <2> HIDE DEF fa, ga
  <2>2. fa = 1 /\ ga = 0
    BY <2>1
  <2> QED BY <2>2 DEF fa, ga
<1>16. \A s \in Before(h) \ {a} : f[s] = 0
  BY <1>4, <1>14, <1>15
<1>17. g[b] = 1 /\ \A s \in Before(h) \ {b} : g[s] = 0
  BY <1>4, <1>12, <1>13, <1>15, <1>16
<1>18. \A k : Before(k)' = Before(k)
  BY <1>3, BeforeStays
<1>19. \A k \in Hubs \ {h} : \A s \in Before(k) : g[s] = f[s]
  BY <1>1, <1>2, <1>4, <1>12, BeforeAre, BeforeOne
<1>20. \A k : Done(id, k)' <=> Done(id, k)
  BY <1>3 DEF Done, Handled
<1>21. \A k \in Hubs : Waits(id, k)' <=> Waits(id, k)
  <2> TAKE k \in Hubs
  <2>1. Waits(id, k)' <=> \E s \in Before(k) : g[s] # 0
    BY <1>18 DEF Waits, g
  <2>2. Waits(id, k) <=> \E s \in Before(k) : f[s] # 0
    BY DEF Waits, f
  <2>3. CASE k = h
    BY <1>4, <1>15, <1>17, <2>1, <2>2, <2>3
  <2>4. CASE k # h
    BY <1>19, <2>1, <2>2, <2>4
  <2> QED BY <2>3, <2>4
<1>22. ASSUME NEW k \in Hubs PROVE AtMost(id, k)'
  <2>1. /\ \A s \in Before(k) : f[s] \in {0, 1}
        /\ \A s, t \in Before(k) : f[s] # 0 /\ f[t] # 0 => s = t
        /\ Done(id, k) => ~Waits(id, k)
    BY DEF Spread, AtMost, f
  <2>2. \A s \in Before(k) : g[s] \in {0, 1}
    BY <1>17, <1>19, <2>1
  <2>3. \A s, t \in Before(k) : g[s] # 0 /\ g[t] # 0 => s = t
    BY <1>17, <1>19, <2>1
  <2>4. Done(id, k)' => ~Waits(id, k)'
    BY <1>20, <1>21, <2>1
  <2> QED BY <1>18, <2>2, <2>3, <2>4 DEF AtMost, g
<1>23. DoneOnce(id)'
  BY <1>3 DEF Spread, DoneOnce, Handled
<1>24. AllBound(id)'
  BY ReadIn DEF Spread, AllBound
<1>25. Downward(id) => Downward(id)'
  BY <1>20, <1>21 DEF Downward, Leads
<1>26. Upward(id) => Upward(id)'
  BY <1>20, <1>21 DEF Upward
<1>27. NonePended(id)'
  BY <1>3, PendsStill DEF Spread
<1> QED BY <1>3, <1>22, <1>23, <1>24, <1>25, <1>26, <1>27 DEF Spread

\* The links a cast goes out on: each leads up to, or down from, its hub.
Onward(h, kind) ==
    {l \in ToSet(cons[h]) : Open(h, l) /\ ~l.mount /\ FansOut(h, l, kind)}

LEMMA OnwardLeads ==
    ASSUME ConsInv, NEW h \in Hubs, NEW kind, NEW l \in Onward(h, kind)
    PROVE  /\ l \in Links /\ h \in Ends(l) /\ Peer(l, h) \in Hubs /\ h # Peer(l, h)
           /\ kind = "BCast" => Leads(h, Peer(l, h))
           /\ kind # "BCast" => Leads(Peer(l, h), h)
<1>1. l \in Links /\ h \in Ends(l) /\ ~l.mount /\ FansOut(h, l, kind)
  BY BeforeAre DEF Onward
<1>2. Peer(l, h) \in Hubs /\ h # Peer(l, h) /\ Ends(l) = {h, Peer(l, h)}
  BY <1>1, PeerIsHub, LinksAssumption DEF Ends, Peer
<1>3. ConAddr(l, h) = Peer(l, h)
  BY <1>1 DEF ConAddr
<1> QED BY <1>1, <1>2, <1>3 DEF FansOut, Leads

LEMMA FanOutCopies ==
    ASSUME IInv, IInv', NEW h \in Hubs, FanOut(h), NEW id \in Mail, Head(pump[h]).id = id
    PROVE  /\ Held(id)'[PumpSite(h)] + 1 = Held(id)[PumpSite(h)]
           /\ \A j \in Hubs \ {h} : Held(id)'[PumpSite(j)] = Held(id)[PumpSite(j)]
           /\ \A l \in Links : \A j \in Ends(l) :
                \/ Held(id)'[WireSite(l, j)] = Held(id)[WireSite(l, j)]
                \/ /\ j = h /\ l \in Onward(h, id.kind)
                   /\ Held(id)'[WireSite(l, j)] = Held(id)[WireSite(l, j)] + 1
<1> DEFINE m == Head(pump[h])
           c(l) == Attest(h, Copy(h, l, m))
           to == {l \in ToSet(cons[h]) : Open(h, l) /\ FansOut(h, l, m.kind)}
<1>0. QueuesOK /\ QueuesOK' /\ ConsInv
  BY QueuesTyped, QueuesTypedNext DEF IInv
<1>1. /\ pump[h] # <<>> /\ m.kind \in {"BCast", "UCast"} /\ m.dst = h
      /\ pump' = [pump EXCEPT ![h] = Tail(@)]
      /\ wire' = [l \in Links |-> IF l \in to /\ Carries(h, l, Copy(h, l, m))
                                  THEN [wire[l] EXCEPT ![h] = Append(@, c(l))] ELSE wire[l]]
  BY DEF FanOut, Here
<1>2. m \in Fit(h) /\ m.id = id /\ pump[h] \in Seq(Messages)
  BY <1>1, HeadIsFit, PumpOfMessages DEF IInv
<1>3. m.kind = id.kind
  BY <1>1, <1>2 DEF Fit, Addressed
<1>4. \A l \in to : l \in ToSet(cons[h]) /\ Open(h, l) /\ FansOut(h, l, m.kind)
  OBVIOUS
<1> HIDE DEF m, to
<1>5. Held(id)'[PumpSite(h)] + 1 = Held(id)[PumpSite(h)]
  <2>1. Queue(PumpSite(h)) = pump[h] /\ Queue(PumpSite(h))' = Tail(pump[h]) /\ PumpSite(h) \in Sites
    BY <1>1, QueuesAre, QueuesNext, SitesAre DEF IInv, PumpInv
  <2>2. Copies(pump[h], id) = Copies(Tail(pump[h]), id) + 1
    BY <1>1, <1>2, CopiesTail DEF m
  <2>3. Held(id)[PumpSite(h)] = Copies(pump[h], id)
    BY <1>0, <2>1, HeldAt
  <2>4. Held(id)'[PumpSite(h)] = Copies(Tail(pump[h]), id)
    BY <1>0, <2>1, HeldNext
  <2> QED BY <2>2, <2>3, <2>4
<1>6. ASSUME NEW j \in Hubs \ {h} PROVE Held(id)'[PumpSite(j)] = Held(id)[PumpSite(j)]
  <2>1. Queue(PumpSite(j)) = pump[j] /\ Queue(PumpSite(j))' = pump[j] /\ PumpSite(j) \in Sites
    BY <1>1, QueuesAre, QueuesNext, SitesAre DEF IInv, PumpInv
  <2> QED BY <1>0, <2>1, HeldAt, HeldNext
<1>7. ASSUME NEW l \in Links, NEW j \in Ends(l)
      PROVE  \/ Held(id)'[WireSite(l, j)] = Held(id)[WireSite(l, j)]
             \/ /\ j = h /\ l \in Onward(h, id.kind)
                /\ Held(id)'[WireSite(l, j)] = Held(id)[WireSite(l, j)] + 1
  <2>1. Queue(WireSite(l, j)) = wire[l][j] /\ Queue(WireSite(l, j))' = wire'[l][j]
        /\ WireSite(l, j) \in Sites /\ wire[l][j] \in Seq(Messages)
    BY QueuesAre, QueuesNext, SitesAre, WireOfMessages
  <2>2. /\ Held(id)[WireSite(l, j)] = Copies(wire[l][j], id)
        /\ Held(id)'[WireSite(l, j)] = Copies(wire'[l][j], id)
    BY <1>0, <2>1, HeldAt, HeldNext
  <2>3. CASE j = h /\ l \in to /\ Carries(h, l, Copy(h, l, m))
    <3>1. FansOut(h, l, m.kind) /\ h \in Ends(l)
      BY <1>4, <2>3
    <3>2. c(l) \in Sent(l, h) /\ c(l).id = m.id /\ ~l.mount
      BY <1>1, <1>2, <2>3, <3>1, CopySent
    <3>3. c(l) \in Messages
      BY <3>2, SentIsFit
    <3>4. wire'[l][j] = Append(wire[l][j], c(l))
      BY <1>1, <2>3 DEF IInv, WireInv
    <3>5. l \in Onward(h, id.kind)
      BY <1>3, <1>4, <2>3, <3>1, <3>2 DEF Onward
    <3> HIDE DEF c
    <3>6. Copies(Append(wire[l][j], c(l)), id) = Copies(wire[l][j], id) + 1
      BY <1>2, <2>1, <3>2, <3>3, CopiesAppend
    <3> QED BY <2>2, <2>3, <3>4, <3>5, <3>6
  <2>4. CASE ~(j = h /\ l \in to /\ Carries(h, l, Copy(h, l, m)))
    <3>1. wire'[l][j] = wire[l][j]
      BY <1>1, <2>4 DEF IInv, WireInv
    <3> QED BY <2>2, <3>1
  <2> QED BY <2>3, <2>4
<1> QED BY <1>5, <1>6, <1>7

\* The hubs a cast goes on to have none of it.
LEMMA OnwardIsNew ==
    ASSUME Tree, ConsInv, NEW id \in Casts, Spread(id), NEW h \in Hubs, Waits(id, h),
           NEW l \in Onward(h, id.kind)
    PROVE  ~Waits(id, Peer(l, h)) /\ ~Done(id, Peer(l, h))
<1> DEFINE k == Peer(l, h)
<1>1. /\ k \in Hubs /\ h # k /\ h \in Addr /\ k \in Addr
      /\ id.kind = "BCast" => Leads(h, k)
      /\ id.kind # "BCast" => Leads(k, h)
  BY OnwardLeads, HubsAssumption
<1>2. ~Done(id, h)
  BY DEF Spread, AtMost
<1>3. \A a, b \in Addr : ~(IsChild(a, b) /\ IsRable(b, a))
  <2> TAKE a, b \in Addr
  <2>1. a \in Seq(Hop) /\ b \in Seq(Hop)
    BY DEF Addr
  <2> QED BY <2>1, LenProperties DEF IsChild, IsRable, IsStrictPrefix, IsPrefix
<1> HIDE DEF k
<1>4. CASE id.kind = "BCast"
  <2>1. Downward(id)
    BY <1>4 DEF Spread
  <2>2. PICK o \in Hubs : \A j \in Hubs : Waits(id, j) \/ Done(id, j) =>
          IsRable(o, j) /\ (j = o \/ \E p \in Hubs : Done(id, p) /\ Leads(p, j))
    BY <2>1 DEF Downward
  <2>3. IsRable(o, h) /\ IsChild(h, k)
    BY <1>1, <1>4, <2>2 DEF Leads
  <2>4. k # o
    BY <1>1, <1>3, <2>3
  <2>5. \A p \in Hubs : Leads(p, k) => p = h
    BY <1>1, <1>4 DEF Tree
  <2>6. ~Waits(id, k) /\ ~Done(id, k)
    BY <1>1, <1>2, <2>2, <2>4, <2>5
  <2> QED BY <2>6 DEF k
<1>5. CASE id.kind = "UCast"
  <2>1. Upward(id)
    BY <1>5 DEF Spread
  <2>2. ~Waits(id, k)
    BY <1>1, <2>1 DEF Upward
  <2>3. IsChild(k, h)
    BY <1>1, <1>5 DEF Leads
  <2>4. ~Done(id, k)
    <3>1. Done(id, k) => IsChild(h, k)
      BY <1>1, <2>1 DEF Upward
    <3>2. \A a, b : IsChild(a, b) => IsRable(a, b)
      BY DEF IsChild, IsRable, IsStrictPrefix
    <3> QED BY <1>1, <1>3, <2>3, <3>1, <3>2
  <2> QED BY <2>2, <2>4 DEF k
<1> QED BY <1>4, <1>5 DEF Casts

\* Where the copies are after hub h has taken a cast that has spread to it.
LEMMA FanOutMoves ==
    ASSUME Tree, IInv, IInv', OneLive, NEW id \in Casts, Spread(id), NEW h \in Hubs, FanOut(h),
           Head(pump[h]).id = id
    PROVE  /\ Waits(id, h)
           /\ \A s \in Before(h) : Held(id)'[s] = 0
           /\ \A k \in Hubs \ {h} :
                \/ \A s \in Before(k) : Held(id)'[s] = Held(id)[s]
                \/ /\ \E l \in Onward(h, id.kind) : k = Peer(l, h)
                   /\ \A s \in Before(k) : Held(id)'[s] \in {0, 1}
                   /\ \A s, t \in Before(k) : Held(id)'[s] # 0 /\ Held(id)'[t] # 0 => s = t
<1> DEFINE f == Held(id)
           g == Held(id)'
           a == PumpSite(h)
           on == Onward(h, id.kind)
<1>1. QueuesOK /\ QueuesOK' /\ ConsInv /\ id \in Mail
  BY QueuesTyped, QueuesTypedNext DEF IInv, Casts
<1>2. /\ g[a] + 1 = f[a]
      /\ \A j \in Hubs \ {h} : g[PumpSite(j)] = f[PumpSite(j)]
      /\ \A l \in Links : \A j \in Ends(l) :
           \/ g[WireSite(l, j)] = f[WireSite(l, j)]
           \/ j = h /\ l \in on /\ g[WireSite(l, j)] = f[WireSite(l, j)] + 1
  BY <1>1, FanOutCopies
<1>3. /\ a \in Before(h) /\ Before(h) \subseteq Sites
      /\ \A s \in Sites : f[s] \in Nat /\ g[s] \in Nat
  <2>1. \A s \in Sites : g[s] \in Nat
    BY <1>1, HeldNext
  <2> QED BY <1>1, <2>1, BeforeAre, HeldAt
<1>4. \A l \in on : l \in Links /\ h \in Ends(l) /\ Peer(l, h) \in Hubs /\ h # Peer(l, h)
                    /\ l \in ToSet(cons[h]) /\ Ends(l) = {h, Peer(l, h)}
  BY <1>1, OnwardLeads DEF Onward, Ends, Peer
<1> HIDE DEF f, g, on
<1>5. ASSUME NEW k \in Hubs, NEW s \in Before(k)
      PROVE  \/ s # a /\ g[s] = f[s]
             \/ s = a /\ k = h
             \/ \E l \in on : /\ k = Peer(l, h) /\ s = WireSite(l, h) /\ l \in ToSet(cons[k])
                              /\ g[s] = f[s] + 1
  <2>1. CASE s = PumpSite(k)
    BY <1>2, <2>1, SitesAre
  <2>2. ASSUME NEW l \in ToSet(cons[k]), s = WireSite(l, Peer(l, k))
        PROVE  \/ s # a /\ g[s] = f[s]
               \/ \E i \in on : /\ k = Peer(i, h) /\ s = WireSite(i, h) /\ i \in ToSet(cons[k])
                                /\ g[s] = f[s] + 1
    <3>1. l \in Links /\ k \in Ends(l) /\ Peer(l, k) \in Ends(l) /\ s # a
      BY <1>1, <2>2, BeforeAre, SitesAre
    <3>2. \/ g[s] = f[s]
          \/ Peer(l, k) = h /\ l \in on /\ g[s] = f[s] + 1
      BY <1>2, <2>2, <3>1
    <3>3. Peer(l, Peer(l, k)) = k
      BY <3>1, LinksAssumption DEF Ends, Peer
    <3> QED BY <2>2, <3>1, <3>2, <3>3
  <2> QED BY <1>1, <2>1, <2>2, BeforeAre
<1>6. Waits(id, h) /\ f[a] # 0
  <2> DEFINE fa == f[a]
             ga == g[a]
  <2>1. fa \in Nat /\ ga \in Nat /\ ga + 1 = fa
    BY <1>2, <1>3
  <2> HIDE DEF fa, ga
  <2>2. fa # 0
    BY <2>1
  <2> QED BY <1>3, <2>2 DEF Waits, f, fa
<1>7. /\ \A s \in Before(h) : f[s] \in {0, 1}
      /\ \A s, t \in Before(h) : f[s] # 0 /\ f[t] # 0 => s = t
  BY DEF Spread, AtMost, f
<1>8. \A s \in Before(h) : g[s] = 0
  <2> TAKE s \in Before(h)
  <2>1. CASE s = a
    <3> DEFINE fa == f[a]
               ga == g[a]
    <3>1. fa \in {0, 1} /\ ga \in Nat /\ ga + 1 = fa
      BY <1>2, <1>3, <1>7
    <3> HIDE DEF fa, ga
    <3>2. ga = 0
      BY <3>1
    <3> QED BY <2>1, <3>2 DEF ga
  <2>2. CASE s # a
    BY <1>3, <1>4, <1>5, <1>6, <1>7, <2>2
  <2> QED BY <2>1, <2>2
<1>9. ASSUME NEW k \in Hubs \ {h}
      PROVE  \/ \A s \in Before(k) : g[s] = f[s]
             \/ /\ \E l \in on : k = Peer(l, h)
                /\ \A s \in Before(k) : g[s] \in {0, 1}
                /\ \A s, t \in Before(k) : g[s] # 0 /\ g[t] # 0 => s = t
  <2>1. CASE ~\E l \in on : k = Peer(l, h)
    BY <1>5, <1>9, <2>1
  <2>2. CASE \E l \in on : k = Peer(l, h)
    <3>1. ~Waits(id, k)
      BY <1>1, <1>6, <2>2, OnwardIsNew DEF on
    <3>2. \A s \in Before(k) : f[s] = 0
      BY <3>1 DEF Waits, f
    <3>3. \A s \in Before(k) : \/ g[s] = 0
                               \/ g[s] = 1 /\ \E l \in on : /\ k = Peer(l, h) /\ s = WireSite(l, h)
                                                            /\ l \in ToSet(cons[k])
      <4> TAKE s \in Before(k)
      <4>1. f[s] = 0
        BY <3>2
      <4>2. CASE g[s] = f[s]
        BY <4>1, <4>2
      <4>3. ASSUME NEW l \in on, k = Peer(l, h), s = WireSite(l, h), l \in ToSet(cons[k]),
                   g[s] = f[s] + 1
            PROVE  g[s] = 1 /\ \E i \in on : /\ k = Peer(i, h) /\ s = WireSite(i, h)
                                             /\ i \in ToSet(cons[k])
        BY <4>1, <4>3
      <4> QED BY <1>5, <1>9, <4>2, <4>3
    <3>4. ASSUME NEW l \in on, NEW i \in on, k = Peer(l, h), k = Peer(i, h),
                 l \in ToSet(cons[k]), i \in ToSet(cons[k])
          PROVE  l = i
      <4>1. l \in Links /\ i \in Links /\ Ends(l) = {h, k} /\ Ends(i) = {h, k}
        BY <1>4, <3>4
      <4>2. l.dials \in Ends(l) /\ i.dials \in Ends(i)
        BY DEF Ends
      <4>3. Stands(l) /\ Stands(i)
        BY <1>4, <3>4, <4>1, <4>2 DEF Stands, Listed
      <4> QED BY <4>1, <4>3 DEF OneLive
    <3>5. \A s, t \in Before(k) : g[s] # 0 /\ g[t] # 0 => s = t
      BY <3>3, <3>4
    <3>6. \A s \in Before(k) : g[s] \in {0, 1}
      BY <3>3
    <3> QED BY <2>2, <3>5, <3>6
  <2> QED BY <2>1, <2>2
<1> QED BY <1>6, <1>8, <1>9 DEF f, g, on

\* A hub that takes a cast hands it to hubs that have none of it.
LEMMA FanOutSpread ==
    ASSUME Tree, IInv, IInv', EndsInv, OneLive, NEW id \in Casts, Spread(id),
           NEW h \in Hubs, FanOut(h), Head(pump[h]).id = id
    PROVE  Spread(id)'
<1> DEFINE m == Head(pump[h])
           Goes(k) == \E l \in Onward(h, id.kind) : k = Peer(l, h)
<1>1. /\ pump[h] # <<>> /\ m.kind \in {"BCast", "UCast"} /\ m.id = id
      /\ Ended("handled", h, <<m>>) /\ UNCHANGED <<cons, posted, pend>>
  BY DEF FanOut, Here
<1>2. ConsInv /\ id \in Mail /\ m \in Fit(h) /\ id.kind = m.kind
  <2>1. m \in Fit(h)
    BY <1>1, HeadIsFit DEF IInv
  <2> QED BY <1>1, <2>1 DEF IInv, Casts, Fit, Addressed
<1>3. AllBound(id)'
  <2> DEFINE F == [k \in Hubs |-> Bound(id, k)]
  <2>1. \A l \in LinksOf(h) : Peer(l, h) \in Hubs
    BY PeerIsHub DEF LinksOf
  <2>2. \A l \in LinksOf(h) : \A r \in Messages :
          r.id = m.id /\ r.kind = m.kind /\ r.dst = Peer(l, h) => r \in F[Peer(l, h)]
    BY <1>2, <2>1 DEF Bound
  <2>3. AllIn(F)
    BY DEF Spread, AllBound
  <2> HIDE DEF F
  <2>4. AllIn(F)'
    BY <2>2, <2>3, FanOutIn
  <2> QED BY <2>4 DEF AllBound, F
<1> HIDE DEF m
<1>4. /\ Waits(id, h)
      /\ \A s \in Before(h) : Held(id)'[s] = 0
      /\ \A k \in Hubs \ {h} :
           \/ \A s \in Before(k) : Held(id)'[s] = Held(id)[s]
           \/ /\ Goes(k)
              /\ \A s \in Before(k) : Held(id)'[s] \in {0, 1}
              /\ \A s, t \in Before(k) : Held(id)'[s] # 0 /\ Held(id)'[t] # 0 => s = t
  BY FanOutMoves
<1>5. \A k : Before(k)' = Before(k)
  BY <1>1, BeforeStays
<1>6. ~Done(id, h) /\ \A k \in Hubs : AtMost(id, k)
  BY <1>4 DEF Spread, AtMost
<1>7. (\A k : Done(id, k)' <=> Done(id, k) \/ k = h) /\ DoneOnce(id)'
  BY <1>1, <1>2, <1>6, OneDone DEF Spread
<1>8. \A k \in Hubs : Goes(k) => /\ k # h /\ ~Waits(id, k) /\ ~Done(id, k)
                                 /\ id.kind = "BCast" => Leads(h, k)
                                 /\ id.kind # "BCast" => Leads(k, h)
  BY <1>2, <1>4, OnwardLeads, OnwardIsNew
<1> HIDE DEF Goes
<1>9. ~Waits(id, h)'
  BY <1>4, <1>5 DEF Waits
<1>10. \A k \in Hubs : Waits(id, k)' => k # h /\ (Waits(id, k) \/ Goes(k))
  <2> TAKE k \in Hubs
  <2>1. CASE k = h
    BY <1>9, <2>1
  <2>2. ASSUME k # h, Waits(id, k)' PROVE Waits(id, k) \/ Goes(k)
    <3>1. PICK s \in Before(k) : Held(id)'[s] # 0
      BY <1>5, <2>2 DEF Waits
    <3> QED BY <1>4, <2>2, <3>1 DEF Waits
  <2> QED BY <2>1, <2>2
<1>11. ASSUME NEW k \in Hubs PROVE AtMost(id, k)'
  <2>1. /\ \A s \in Before(k) : Held(id)[s] \in {0, 1}
        /\ \A s, t \in Before(k) : Held(id)[s] # 0 /\ Held(id)[t] # 0 => s = t
        /\ Done(id, k) => ~Waits(id, k)
    BY <1>6 DEF AtMost
  <2>2. /\ \A s \in Before(k) : Held(id)'[s] \in {0, 1}
        /\ \A s, t \in Before(k) : Held(id)'[s] # 0 /\ Held(id)'[t] # 0 => s = t
    <3>1. CASE k = h
      BY <1>4, <3>1
    <3>2. CASE k # h
      BY <1>4, <2>1, <3>2
    <3> QED BY <3>1, <3>2
  <2>3. Done(id, k)' => ~Waits(id, k)'
    BY <1>7, <1>8, <1>10, <2>1
  <2> QED BY <1>5, <2>2, <2>3 DEF AtMost
<1>12. ASSUME id.kind = "BCast" PROVE Downward(id)'
  <2>1. Downward(id)
    BY <1>12 DEF Spread
  <2>2. PICK o \in Hubs : \A k \in Hubs : Waits(id, k) \/ Done(id, k) =>
          IsRable(o, k) /\ (k = o \/ \E p \in Hubs : Done(id, p) /\ Leads(p, k))
    BY <2>1 DEF Downward
  <2>3. ASSUME NEW k \in Hubs, Waits(id, k)' \/ Done(id, k)'
        PROVE  IsRable(o, k) /\ (k = o \/ \E p \in Hubs : Done(id, p)' /\ Leads(p, k))
    <3>1. CASE Waits(id, k) \/ Done(id, k)
      BY <1>7, <2>2, <3>1
    <3>2. CASE Goes(k)
      <4>1. Leads(h, k) /\ IsRable(o, h)
        BY <1>4, <1>8, <1>12, <2>2, <3>2
      <4>2. IsRable(h, k)
        BY <4>1 DEF Leads, IsChild, IsRable, IsStrictPrefix
      <4>3. IsRable(o, k)
        BY <4>1, <4>2, HubsAssumption, PrefixTransitive
      <4> QED BY <1>7, <4>1, <4>3
    <3> QED BY <1>4, <1>7, <1>10, <2>3, <3>1, <3>2
  <2> QED BY <2>3 DEF Downward, Leads
<1>13. ASSUME id.kind = "UCast" PROVE Upward(id)'
  <2>1. /\ \A k, j \in Hubs : Waits(id, k) /\ Waits(id, j) => k = j
        /\ \A k, j \in Hubs : Waits(id, k) /\ Done(id, j) => IsChild(k, j)
    BY <1>13 DEF Spread, Upward
  <2>2. \A k \in Hubs : Waits(id, k)' => Goes(k) /\ Leads(k, h) /\ ~Done(id, k)
    BY <1>4, <1>8, <1>10, <1>13, <2>1
  <2>3. \A k, j \in Hubs : Waits(id, k)' /\ Waits(id, j)' => k = j
    BY <2>2 DEF Tree
  <2>4. ASSUME NEW k \in Hubs, NEW j \in Hubs, Waits(id, k)', Done(id, j)' PROVE IsChild(k, j)
    <3>1. IsChild(k, h) /\ ~Done(id, k)
      BY <2>2, <2>4 DEF Leads
    <3>2. CASE j = h
      BY <3>1, <3>2
    <3>3. CASE Done(id, j)
      <4>1. IsChild(h, j) /\ j # k
        BY <1>4, <2>1, <3>1, <3>3
      <4>2. IsRable(k, h) /\ IsRable(h, j)
        BY <3>1, <4>1 DEF IsChild, IsRable, IsStrictPrefix
      <4>3. IsRable(k, j)
        BY <4>2, HubsAssumption, PrefixTransitive
      <4> QED BY <4>1, <4>3 DEF IsChild, IsRable, IsStrictPrefix
    <3> QED BY <1>7, <2>4, <3>2, <3>3
  <2> QED BY <2>3, <2>4 DEF Upward
<1>14. NonePended(id)'
  BY <1>1, PendsStill DEF Spread
<1> QED BY <1>1, <1>3, <1>7, <1>11, <1>12, <1>13, <1>14 DEF Spread

LEMMA NoneIn ==
    ASSUME NEW id, NEW B, \A r \in Messages : r.id # id => r \in B,
           NEW q \in Seq(Messages), Copies(q, id) = 0
    PROVE  q \in Seq(B)
<1>1. \A i \in 1 .. Len(q) : q[i] \in Messages /\ q[i].id # id
  BY CopiesType, ElementOfSeq
<1> QED BY <1>1, LenProperties, IsASeq

\* The one copy of a cast, when it is at the head of a pump.
LEMMA HeadSpread ==
    ASSUME IInv, NEW id \in Casts, Whole(id), NEW h \in Hubs, FanOut(h), Head(pump[h]).id = id
    PROVE  Spread(id)
<1> DEFINE m == Head(pump[h])
           a == PumpSite(h)
           f == Held(id)
           q == pump[h]
<1>1. q # <<>> /\ m.kind \in {"BCast", "UCast"} /\ m.dst = h
  BY DEF FanOut, Here
<1>2. QueuesOK /\ ConsInv /\ id \in Mail /\ h \in Addr
  BY QueuesTyped, HubsAssumption DEF IInv, Casts
<1>3. m \in Fit(h) /\ m \in Messages /\ q \in Seq(Messages) /\ Tail(q) \in Seq(Messages)
  BY <1>1, HeadIsFit, PumpOfMessages, SeqKept DEF IInv
<1>4. m.kind = id.kind
  BY <1>1, <1>3 DEF Fit, Addressed
<1>5. a \in Sites /\ f[a] = Copies(q, id) /\ \A s \in Sites : f[s] = Copies(Queue(s), id)
  BY <1>2, SitesAre, QueuesAre, HeldAt
<1> DEFINE c == Copies(q, id)
           d == Copies(Tail(q), id)
<1>6. c = d + 1 /\ d \in Nat
  <2> HIDE DEF q
  <2>1. m.id = id /\ m = Head(q)
    BY DEF q
  <2> HIDE DEF m
  <2>2. c = d + (IF Head(q).id = id THEN 1 ELSE 0)
    BY <1>1, <1>3, CopiesTail
  <2>3. d \in Nat
    BY <1>3, CopiesType
  <2> QED BY <2>1, <2>2, <2>3
<1> HIDE DEF c, d
<1>7. c # 0 /\ (c = 1 => d = 0)
  BY <1>6
<1>8. id \in posted /\ Len(ends[id]) = 0 /\ f[a] = 1 /\ \A s \in Sites \ {a} : f[s] = 0
  <2>1. f[a] # 0
    BY <1>5, <1>7 DEF c
  <2>2. id \in posted
    BY <1>5, <2>1 DEF Whole, OneOf, Nowhere, Idle
  <2>3. Sole(f, Len(ends[id]))
    BY <2>2 DEF Whole, OneOf, Single
  <2> HIDE DEF f, a
  <2> QED BY <1>5, <2>1, <2>2, <2>3 DEF Sole
<1>9. Copies(Tail(q), id) = 0
  BY <1>5, <1>7, <1>8 DEF c, d
<1>10. AllBound(id)
  <2> DEFINE F == [k \in Hubs |-> Bound(id, k)]
  <2>1. \A k \in Hubs : F[k] = Bound(id, k) /\ \A r \in Messages : r.id # id => r \in F[k]
    BY DEF Bound
  <2>2. m \in F[h]
    BY <1>1, <1>3, <1>4, <2>1 DEF Bound
  <2> HIDE DEF F
  <2>3. ASSUME NEW k \in Hubs PROVE pump[k] \in Seq(F[k])
    <3>1. CASE k # h
      <4>1. PumpSite(k) \in Sites \ {a} /\ Queue(PumpSite(k)) = pump[k] /\ pump[k] \in Seq(Messages)
        BY <3>1, SitesAre, QueuesAre, PumpOfMessages
      <4>2. Copies(pump[k], id) = 0
        BY <1>5, <1>8, <4>1
      <4> QED BY <2>1, <4>1, <4>2, NoneIn
    <3>2. CASE k = h
      <4>1. Tail(q) \in Seq(F[h])
        BY <1>3, <1>9, <2>1, NoneIn
      <4>2. \A i \in 1 .. Len(Tail(q)) : Tail(q)[i] \in F[h]
        BY <4>1, ElementOfSeq
      <4>3. /\ q[1] = m /\ Len(q) \in Nat /\ Len(Tail(q)) = Len(q) - 1
            /\ \A i \in 1 .. Len(Tail(q)) : Tail(q)[i] = q[i + 1]
        BY <1>1, <1>3, HeadTailProperties, LenProperties
      <4> HIDE DEF q, m
      <4>4. \A i \in 2 .. Len(q) : i - 1 \in 1 .. Len(Tail(q)) /\ (i - 1) + 1 = i
        BY <4>3
      <4>5. \A i \in 1 .. Len(q) : i = 1 \/ i \in 2 .. Len(q)
        BY <4>3
      <4>6. \A i \in 1 .. Len(q) : q[i] \in F[h]
        BY <2>2, <4>2, <4>3, <4>4, <4>5
      <4>7. q \in Seq(F[h])
        BY <1>3, <4>6, LenProperties, IsASeq
      <4> QED BY <3>2, <4>7 DEF q
    <3> QED BY <3>1, <3>2
  <2>4. ASSUME NEW l \in Links, NEW j \in Ends(l) PROVE wire[l][j] \in Seq(F[Peer(l, j)])
    <3>1. WireSite(l, j) \in Sites \ {a} /\ Queue(WireSite(l, j)) = wire[l][j]
          /\ wire[l][j] \in Seq(Messages) /\ Peer(l, j) \in Hubs
      BY SitesAre, QueuesAre, WireOfMessages, PeerIsHub
    <3>2. Copies(wire[l][j], id) = 0
      BY <1>5, <1>8, <3>1
    <3> QED BY <2>1, <3>1, <3>2, NoneIn
  <2>5. ASSUME NEW l \in Links PROVE pend[l] \in Seq(F[l.accepts])
    <3>1. /\ PendSite(l) \in Sites \ {a} /\ Queue(PendSite(l)) = pend[l]
          /\ pend[l] \in Seq(Messages) /\ l.accepts \in Hubs
      BY SitesAre, QueuesAre, PendOfMessages, LinksAssumption
    <3>2. Copies(pend[l], id) = 0
      BY <1>5, <1>8, <3>1
    <3> QED BY <2>1, <3>1, <3>2, NoneIn
  <2>6. AllIn(F)
    BY <2>3, <2>4, <2>5 DEF AllIn
  <2> QED BY <2>6 DEF AllBound, F
<1>11. \A k : ~Done(id, k)
  BY DEF Whole
<1> HIDE DEF q, m
<1>12. \A k \in Hubs : Before(k) \subseteq Sites
  BY <1>2, BeforeAre
<1>13. \A k \in Hubs : Waits(id, k) => k = h
  <2> TAKE k \in Hubs
  <2>1. Waits(id, k) => a \in Before(k)
    BY <1>8, <1>12 DEF Waits
  <2> QED BY <1>2, <2>1, BeforeAre, BeforeOne
<1>14. \A k \in Hubs : AtMost(id, k)
  <2> TAKE k \in Hubs
  <2>1. \A s \in Before(k) : f[s] \in {0, 1} /\ (f[s] # 0 => s = a)
    BY <1>8, <1>12
  <2> HIDE DEF a
  <2> QED BY <1>11, <2>1 DEF AtMost
<1>15. DoneOnce(id)
  BY <1>11 DEF DoneOnce, Done
<1>16. Downward(id)
  BY <1>2, <1>11, <1>13, RableReflexive DEF Downward
<1>17. Upward(id)
  BY <1>11, <1>13 DEF Upward
<1>18. NonePended(id)
  <2> SUFFICES ASSUME NEW l \in Links PROVE f[PendSite(l)] = 0
    BY DEF NonePended
  <2>1. PendSite(l) \in Sites /\ PendSite(l) # a
    BY SitesAre
  <2> HIDE DEF f, a
  <2> QED BY <1>8, <2>1
<1> QED BY <1>8, <1>10, <1>14, <1>15, <1>16, <1>17, <1>18 DEF Spread

\* What a step leaves of a cast.
LEMMA CastKept ==
    ASSUME Tree, IInv, IInv', EndsInv, OneLive, posted \subseteq Mail, [Next]_vars,
           NEW id \in Casts, Whole(id) \/ Spread(id)
    PROVE  Whole(id)' \/ Spread(id)'
<1>0. id \in Mail /\ posted \subseteq posted'
  BY PostedStep DEF Casts
<1>1. ASSUME NEW h \in Hubs, FanOut(h), Head(pump[h]).id = id PROVE Spread(id)'
  <2>1. Spread(id)
    BY <1>1, HeadSpread
  <2> QED BY <1>1, <2>1, FanOutSpread
<1>2. ASSUME \A h \in Hubs : FanOut(h) => Head(pump[h]).id # id PROVE Whole(id)' \/ Spread(id)'
  <2>1. DoneSame(id)
    BY <1>2, DoneKept
  <2>2. CASE Whole(id)
    <3>1. OneOf(id)'
      BY <1>0, <1>2, <2>2, OneKept DEF Whole
    <3>2. \A k : ~Done(id, k)'
      BY <2>1, <2>2 DEF Whole, DoneSame
    <3> QED BY <3>1, <3>2 DEF Whole
  <2>3. CASE Spread(id)
    <3>1. id \in posted /\ AllBound(id)
      BY <2>3 DEF Spread
    <3> DEFINE F == [k \in Hubs |-> Bound(id, k)]
    <3>2. AllIn(F) /\ \A k \in Hubs : \A r \in Messages : r.id # id => r \in F[k]
      BY <3>1 DEF AllBound, Bound
    <3>3. ASSUME NEW h \in Hubs, Dispatch(h) PROVE Head(pump[h]).id # id
      <4> SUFFICES ASSUME Head(pump[h]).id = id PROVE FALSE
        OBVIOUS
      <4> DEFINE m == Head(pump[h])
      <4>1. pump[h] # <<>>
        BY <3>3 DEF Dispatch, Forward, MountRefuses, Undeliverable, EndOfTheLine, Handle,
               NotHandled, Reflect, FanOut, Away, Here
      <4>2. pump[h] \in Seq(Bound(id, h))
        BY <3>2 DEF AllIn
      <4>3. m \in Bound(id, h)
        BY <4>1, <4>2, SeqKept
      <4>4. m.kind \in {"BCast", "UCast"} /\ m.dst = h
        BY <4>3 DEF Bound, Casts
      <4>5. ~FanOut(h)
        BY <1>2
      <4> QED BY <3>3, <4>4, <4>5 DEF Dispatch, Forward, MountRefuses, Undeliverable, EndOfTheLine,
                 Handle, NotHandled, Reflect, Away, Here
    <3> HIDE DEF F
    <3>4. AllIn(F)'
      BY <1>0, <3>1, <3>2, <3>3, StepIn
    <3>5. AllBound(id)'
      BY <3>4 DEF AllBound, F
    <3>6. ASSUME Shrinks(id) PROVE Spread(id)'
      BY <1>0, <2>1, <2>3, <3>5, <3>6, Lesser
    <3>7. ASSUME Untouched(id), UNCHANGED cons PROVE Spread(id)'
      <4>1. \A k \in Hubs : Before(k)' \subseteq Before(k)
        BY <3>7, BeforeStays
      <4> QED BY <3>6, <3>7, <4>1, StillShrinks
    <3>8. ASSUME NEW new \in Mail, Post(new) PROVE Spread(id)'
      <4>1. UNCHANGED cons
        BY <3>8 DEF Post, links
      <4> QED BY <3>1, <3>7, <3>8, <4>1, PostUntouched
    <3>9. ASSUME NEW h \in Hubs, Dispatch(h) PROVE Spread(id)'
      <4>1. UNCHANGED cons
        BY <3>9 DEF Dispatch, Forward, MountRefuses, Undeliverable, EndOfTheLine, Handle,
                    NotHandled, Reflect, FanOut, links
      <4> QED BY <1>0, <3>3, <3>7, <3>9, <4>1, DispatchUntouched
    <3>10. ASSUME NEW l \in Links, NEW k \in Links, Redial(l, k) PROVE Spread(id)'
      BY <2>3, <3>6, <3>10, RedialShrinks DEF Spread
    <3>11. ASSUME NEW l \in Links, NEW h \in Ends(l), Read(h, l) PROVE Spread(id)'
      <4>1. CASE Head(wire[l][Peer(l, h)]).id = id
        BY <2>3, <3>11, <4>1, ReadSpread
      <4>2. CASE Head(wire[l][Peer(l, h)]).id # id
        <5>1. UNCHANGED cons
          BY <3>11 DEF Read
        <5> QED BY <1>0, <3>7, <3>11, <4>2, <5>1, ReadUntouched
      <4> QED BY <4>1, <4>2
    <3>12. ASSUME NEW l \in Links, NEW h \in Ends(l), Close(h, l) PROVE Spread(id)'
      <4>1. Shut(h, l)
        BY <3>12 DEF Close, Refuse, Drop, SeeClose
      <4> QED BY <3>6, <4>1, CloseShrinks
    <3>13. CASE UNCHANGED vars
      <4>1. UNCHANGED <<cons, ends>> /\ \A s \in Sites : Queue(s)' = Queue(s)
        BY <3>13 DEF vars, links, Queue
      <4>2. Untouched(id)
        BY <4>1 DEF Untouched
      <4> QED BY <3>7, <4>1, <4>2
    <3>14. ASSUME NEW l \in Links, RedialFails(l) PROVE Spread(id)'
      BY <3>6, <3>14, RedialFailsShrinks
    <3> QED BY <3>8, <3>9, <3>10, <3>11, <3>12, <3>13, <3>14 DEF Next
  <2> QED BY <2>2, <2>3
<1> QED BY <1>1, <1>2

LEMMA CastStep ==
    ASSUME Tree
    PROVE  IInv /\ IInv' /\ EndsInv /\ CastInv /\ [Next]_vars => CastInv'
<1> SUFFICES ASSUME IInv, IInv', EndsInv, CastInv, [Next]_vars PROVE CastInv'
  OBVIOUS
<1>1. posted' \subseteq Mail
  BY PostedIsMail DEF CastInv
<1>2. OneLive'
  BY OneLiveStep DEF CastInv, IInv
<1>3. \A id \in Casts : Whole(id)' \/ Spread(id)'
  BY CastKept DEF CastInv
<1> QED BY <1>1, <1>2, <1>3 DEF CastInv, Casts

LEMMA CastInit ==
    ASSUME Tree
    PROVE  Init => CastInv
<1> SUFFICES ASSUME Init PROVE CastInv
  OBVIOUS
<1>1. \A s \in Sites : Queue(s) = <<>>
  <2>1. \A h \in Hubs : pump[h] = <<>>
    BY DEF Init
  <2>2. \A l \in Links : \A h \in Ends(l) : wire[l][h] = <<>>
    BY DEF Init
  <2>3. \A l \in Links : pend[l] = <<>>
    BY DEF Init
  <2> QED BY <2>1, <2>2, <2>3, SitesAre, QueuesAre
<1>2. ASSUME NEW id \in Casts PROVE Whole(id)
  <2>1. \A s \in Sites : Held(id)[s] = 0
    BY <1>1, CopiesOne DEF Held
  <2>2. Len(ends[id]) = 0
    BY DEF Init, Casts
  <2>3. Nowhere(id) /\ id \notin posted
    BY <2>1, <2>2 DEF Nowhere, Idle, Init
  <2>4. \A k : ~Done(id, k)
    BY <2>2 DEF Done
  <2> QED BY <2>3, <2>4 DEF Whole, OneOf
<1>3. OneLive
  <2>1. ASSUME NEW l \in Links, Stands(l) PROVE l \in Up
    <3>1. l.dials \in Hubs
      BY LinksAssumption
    <3> QED BY <2>1, <3>1, InitLists DEF Stands, Listed
  <2> QED BY <2>1, InitLists DEF OneLive, Tree
<1> QED BY <1>2, <1>3 DEF CastInv, Init

\* Whichever the case is, no hub has two entries.
LEMMA CastsAreOnce == EndsInv /\ CastInv => CastOnce
<1> SUFFICES ASSUME EndsInv, CastInv, NEW id \in Mail, id.kind \in {"BCast", "UCast"}, NEW h \in Hubs
             PROVE  Cardinality({i \in DOMAIN ends[id] :
                      ends[id][i].how = "handled" /\ ends[id][i].at = h}) <= 1
  BY DEF CastOnce
<1> DEFINE T == {i \in DOMAIN ends[id] : ends[id][i].how = "handled" /\ ends[id][i].at = h}
<1>1. DOMAIN ends[id] = 1 .. Len(ends[id]) /\ \A i \in 1 .. Len(ends[id]) : ends[id][i] \in Outcome(id)
  BY LenProperties, ElementOfSeq DEF EndsInv
<1>2. \A i \in T : i \in 1 .. Len(ends[id]) /\ ends[id][i] = Handled(h)
  BY <1>1 DEF Outcome, Handled
<1>3. id \in Casts
  BY DEF Casts
<1>4. DoneOnce(id)
  <2>1. CASE Whole(id)
    BY <2>1 DEF Whole, Done, DoneOnce
  <2>2. CASE Spread(id)
    BY <2>2 DEF Spread
  <2> QED BY <1>3, <2>1, <2>2 DEF CastInv
<1>5. \A i, j \in T : i = j
  BY <1>2, <1>4 DEF DoneOnce
<1> HIDE DEF T
<1>6. T = {} \/ \E i : T = {i}
  BY <1>5
<1>7. Cardinality(T) = 0 \/ Cardinality(T) = 1
  BY <1>6, FS_EmptySet, FS_Singleton
<1>8. Cardinality(T) <= 1
  BY <1>7
<1> QED BY <1>8 DEF T

\* However many hubs there are, however they are linked, whichever links come
\* and go and in whatever order they are registered, a message never makes
\* more hops in a network than RouteP2PeerMsg's tests allow: it cannot loop.
THEOREM HopsBounded == Spec => []HopBound
<1>1. Init => IInv
  BY InitIInv
<1>2. IInv /\ [Next]_vars => IInv'
  BY NextKeeps
<1>3. IInv => HopBound
  BY IInvBounds
<1> QED BY <1>1, <1>2, <1>3, PTL DEF Spec

\* The types of the network, for any hubs, links and mail.
THEOREM TypeCorrect == Spec => []TypeOK
<1>1. Init => IInv
  BY InitIInv
<1>2. IInv /\ [Next]_vars => IInv'
  BY NextKeeps
<1>3. IInv => TypeOK
  BY IInvTypes
<1> QED BY <1>1, <1>2, <1>3, PTL DEF Spec

\* Whatever the hubs, the links between them and the mail, and through however
\* many mounts: the handler that runs is the one at the hub the mail names, an
\* answer comes back to its sender, and a report reaches the sender, or the
\* hub that had answered.  Nobody else is ever told.
THEOREM HubIsRight == Spec => []RightHub
<1>1. Init => IInv /\ Standing /\ EndsInv
  BY InitIInv, StandingInit, EndsInit
<1>2. IInv /\ Standing /\ EndsInv /\ [Next]_vars => (IInv /\ Standing /\ EndsInv)'
  BY NextKeeps, StandingStep, EndsStep
<1>3. IInv /\ EndsInv => RightHub
  BY EndsAreRight
<1> QED BY <1>1, <1>2, <1>3, PTL DEF Spec

\* GateAppMsgInbound drops no link over an honest unicast, report or
\* broadcast: what the sending hub knows of the message is what the gate at
\* the other end asks, with the attestations required or not, over any links.
THEOREM GateIsHonest == Spec => []GateHonest
<1>1. Init => IInv /\ GateHonest
  BY InitIInv DEF Init, GateHonest
<1>2. IInv /\ GateHonest /\ [Next]_vars => (IInv /\ GateHonest)'
  BY NextKeeps, GateStep
<1> QED BY <1>1, <1>2, PTL DEF Spec

\* A message that is addressed to one hub is, from the call that posts it to
\* its one end, in exactly one queue: a hub's pump, a connection's, or that of
\* a dialler's connection which is down and holds it for its next session.  It
\* is replaced by its report or answer, or ends: handled, told, dropped as a
\* report nobody can be told, barred from a mount, or deleted with the queue
\* of a connection, which happens to no mail before an end, a redial or a gate
\* has failed.  It is reported once at most: a report that cannot be delivered
\* is not reported again.
THEOREM MailConserved == Spec => []Conserved
<1> DEFINE I == IInv /\ Standing /\ EndsInv /\ OneInv /\ SaidInv
<1>1. Init => I
  BY InitIInv, StandingInit, EndsInit, OneInit, SaidInit
<1>2. I /\ [Next]_vars => I'
  BY NextKeeps, StandingStep, EndsStep, OneStep, SaidStep
<1>3. I => Conserved
  BY InvsConserve
<1> QED BY <1>1, <1>2, <1>3, PTL DEF Spec

\* Where the hubs are linked as a tree no hub handles a cast twice, however
\* often links fail and come back while it spreads, an old link still listed
\* beside its successor included.
THEOREM CastIsOnce ==
    ASSUME Tree
    PROVE  Spec => []CastOnce
<1> DEFINE I == IInv /\ Standing /\ EndsInv /\ CastInv
<1>1. Init => I
  BY InitIInv, StandingInit, EndsInit, CastInit
<1>2. I /\ [Next]_vars => I'
  BY NextKeeps, StandingStep, EndsStep, CastStep
<1>3. I => CastOnce
  BY CastsAreOnce
<1> QED BY <1>1, <1>2, <1>3, PTL DEF Spec
=============================================================================
