-------------------------- MODULE P2PAuthLogin_proofs --------------------------
(***************************************************************************)
(* Theorems about the policy of a hub (class P2PAuthPolicy of              *)
(* src/P2PAuthLogin.cpp): whom it believes, of P2PAuthPolicy, and what it  *)
(* remembers having taken, of P2PAuthReplay.                               *)
(*                                                                         *)
(* For any keys, authorities and allow-list lines, a key that was          *)
(* withdrawn stays withdrawn, and the epoch says what is held.  For any    *)
(* number of blocks, any windows and any size of the caches, nothing is    *)
(* taken twice.                                                            *)
(***************************************************************************)
EXTENDS P2PAuthPolicy, P2PAuthReplay, SequenceTheorems, FiniteSetTheorems, TLAPS

-------------------------------------------------------------------------------
(* Whom a hub believes.                                                    *)

(***************************************************************************)
(* The argument.  What must be refused is on the disk before it is in      *)
(* memory, and memory that is not known to hold it refuses everyone.       *)
(***************************************************************************)
OnDisk        == known \subseteq revFile.points
InMemory      == configured /\ usable => known \subseteq revoked
RunConfigured == phase = "running" => configured
MemoryOnDisk  == revoked \subseteq revFile.points \cup struck

\* The lists of one authority grow, and their epoch is their size.
Sized  == \A l \in lists : l.epoch = Cardinality(l.points)
Nested == \A l, m \in lists : l.issuer = m.issuer => l.points \subseteq m.points \/ m.points \subseteq l.points
EpochIsAList == believed # NoPoint => \E l \in lists : l.issuer = believed /\ l.epoch = epoch
Covers == \A l \in lists : l.issuer = believed /\ l.epoch <= epoch => l.points \subseteq revoked \cup struck

Refusal == OnDisk /\ InMemory /\ RunConfigured
History == MemoryOnDisk /\ Sized /\ Nested /\ EpochIsAList /\ Covers
IInv    == TypeOK /\ Refusal /\ History

(***************************************************************************)
(* Lemmas                                                                  *)
(***************************************************************************)
LEMMA Sizes ==
    ASSUME NEW s \in SUBSET Points
    PROVE  /\ IsFiniteSet(s) /\ Cardinality(s) \in Nat
           /\ Cardinality(s) <= Cardinality(Points) /\ Cardinality(Points) \in Nat
           /\ s # {} => Cardinality(s) \in 1 .. Cardinality(Points)
<1>1. /\ IsFiniteSet(s) /\ Cardinality(s) <= Cardinality(Points)
  BY KeysAssumption, FS_Subset
<1>2. Cardinality(s) \in Nat /\ Cardinality(Points) \in Nat
  BY <1>1, KeysAssumption, FS_CardinalityType
<1>3. s # {} => Cardinality(s) # 0
  BY <1>1, FS_EmptySet
<1> QED BY <1>1, <1>2, <1>3

\* Of two nested sets the one that is no larger is inside the other.
LEMMA SmallerIsInside ==
    ASSUME NEW s \in SUBSET Points, NEW t \in SUBSET Points,
           s \subseteq t \/ t \subseteq s, Cardinality(s) <= Cardinality(t)
    PROVE  s \subseteq t
<1>1. CASE t \subseteq s
  <2>1. Cardinality(t) <= Cardinality(s) /\ (Cardinality(s) = Cardinality(t) => s = t)
    BY <1>1, Sizes, FS_Subset
  <2> QED BY <2>1, Sizes
<1> QED BY <1>1

LEMMA InitInv == Init => IInv
<1> SUFFICES ASSUME Init PROVE IInv
  OBVIOUS
<1>1. Cardinality(Points) \in Nat
  BY Sizes
<1>2. /\ 0 \in 0 .. Cardinality(Points) /\ 0 \in 0 .. MaxNow /\ 1 \in 1 .. MaxNow
  BY <1>1, KeysAssumption
<1>3. /\ revFile \in [points : SUBSET Points, form : {"good", "bad", "missing"}]
      /\ allowFile \in [lines : SUBSET Lines, form : {"good", "bad"}]
  BY DEF Init
<1>4. TypeOK
  BY <1>2, <1>3 DEF Init, TypeOK
<1> QED BY <1>4 DEF Init, IInv, Refusal, History, OnDisk, InMemory, RunConfigured, MemoryOnDisk,
           Sized, Nested, EpochIsAList, Covers

(***************************************************************************)
(* Types                                                                   *)
(***************************************************************************)
LEMMA AppendedType ==
    ASSUME TypeOK, NEW new \in SUBSET Points
    PROVE  /\ Appended(new) \in [points : SUBSET Points, form : {"good", "bad", "missing"}]
           /\ Appended(new).points = revFile.points \cup new
BY DEF TypeOK, Appended

LEMMA EditType ==
    ASSUME TypeOK, EditRevocationFile
    PROVE  /\ revFile' \in [points : SUBSET Points, form : {"good", "bad", "missing"}]
           /\ known' = known \ (revFile.points \ revFile'.points)
           /\ struck' = struck \cup (revFile.points \ revFile'.points)
           /\ UNCHANGED <<lists, allowFile, now, phase, identity, allowVars, revVars, heardVars>>
BY DEF TypeOK, EditRevocationFile, Edited

LEMMA ConstructedType ==
    ASSUME Constructed
    PROVE  /\ {identity', allowPath', allowUsable', configured', usable'} \subseteq BOOLEAN
           /\ allow' \subseteq Lines /\ revoked' \subseteq Points
           /\ authority' \in Authorities \cup {NoPoint} /\ believed' \in Authorities \cup {NoPoint}
           /\ epoch' \in 0 .. Cardinality(Points) /\ appliedAt' \in 0 .. MaxNow
<1>1. Cardinality(Points) \in Nat
  BY Sizes
<1>2. 0 \in 0 .. Cardinality(Points) /\ 0 \in 0 .. MaxNow
  BY <1>1, KeysAssumption
<1> QED BY <1>2 DEF Constructed

LEMMA TypeInv == TypeOK /\ [Next]_vars => TypeOK'
<1> SUFFICES ASSUME TypeOK, [Next]_vars PROVE TypeOK'
  OBVIOUS
<1> USE DEF TypeOK, files, allowVars, revVars, heardVars, ghosts
<1>1. CASE Start
  BY <1>1, ConstructedType DEF Start
<1>2. CASE SetIdentity
  BY <1>2 DEF SetIdentity
<1>3. CASE SetAllowList \/ ReloadAllowList
  <2>1. allow' \subseteq Lines /\ allowUsable' \in BOOLEAN /\ allowPath' \in BOOLEAN
    BY <1>3 DEF SetAllowList, ReloadAllowList, LoadAllow
  <2>2. UNCHANGED <<lists, files, now, phase, identity, revVars, heardVars, ghosts>>
    BY <1>3 DEF SetAllowList, ReloadAllowList
  <2> QED BY <2>1, <2>2
<1>4. CASE SetRevocationList \/ ReloadRevocationList
  <2>1. /\ usable' \in BOOLEAN /\ configured' \in BOOLEAN
        /\ revoked' \subseteq Points /\ known' \subseteq Points /\ struck' \subseteq Points
    BY <1>4 DEF SetRevocationList, ReloadRevocationList, Load
  <2>2. UNCHANGED <<lists, files, now, phase, identity, allowVars, heardVars>>
    BY <1>4 DEF SetRevocationList, ReloadRevocationList
  <2> QED BY <2>1, <2>2
<1>5. CASE CreateHub
  BY <1>5 DEF CreateHub
<1>6. ASSUME NEW p \in Authorities \cup {NoPoint}, SetRevocationAuthority(p) PROVE TypeOK'
  BY <1>6 DEF SetRevocationAuthority
<1>7. ASSUME NEW a \in Authorities, NEW s \in SUBSET Points, IssueRevocationList(a, s) PROVE TypeOK'
  <2>1. Cardinality(s) \in 1 .. Cardinality(Points)
    BY <1>7, Sizes DEF IssueRevocationList
  <2>2. [issuer |-> a, epoch |-> Cardinality(s), points |-> s] \in Revocations
    BY <2>1 DEF Revocations
  <2>3. lists' \subseteq Revocations
    BY <1>7, <2>2 DEF IssueRevocationList
  <2> QED BY <1>7, <2>3 DEF IssueRevocationList
<1>8. ASSUME NEW l \in lists, ApplyRevocationList(l) PROVE TypeOK'
  <2>1. New(l) \subseteq Points /\ l.issuer \in Authorities
        /\ l.epoch \in 0 .. Cardinality(Points)
    BY Sizes DEF New, Revocations
  <2>2. revFile' \in [points : SUBSET Points, form : {"good", "bad", "missing"}]
    BY <1>8, <2>1, AppendedType DEF ApplyRevocationList, AddRevokedPoints
  <2>3. /\ revoked' \subseteq Points /\ known' \subseteq Points /\ struck' \subseteq Points
    BY <1>8, <2>1 DEF ApplyRevocationList, AddRevokedPoints
  <2>4. /\ authority' \in Authorities \cup {NoPoint} /\ epoch' \in 0 .. Cardinality(Points)
        /\ appliedAt' \in 0 .. MaxNow /\ believed' \in Authorities \cup {NoPoint}
    BY <1>8, <2>1, KeysAssumption DEF ApplyRevocationList, Conclude
  <2> QED BY <1>8, <2>2, <2>3, <2>4 DEF ApplyRevocationList
<1>9. ASSUME NEW l \in lists, NEW done \in SUBSET l.points, ApplyFails(l, done) PROVE TypeOK'
  <2>1. done \in SUBSET Points
    BY DEF Revocations
  <2>2. revFile' \in [points : SUBSET Points, form : {"good", "bad", "missing"}]
    BY <1>9, <2>1, AppendedType DEF ApplyFails, AddRevokedPoints
  <2> QED BY <1>9, <2>1, <2>2 DEF ApplyFails, AddRevokedPoints, AbandonAt
<1>10. ASSUME NEW l \in lists, NEW done \in SUBSET l.points, CrashInApply(l, done) PROVE TypeOK'
  <2>1. done \in SUBSET Points
    BY DEF Revocations
  <2>2. revFile' \in [points : SUBSET Points, form : {"good", "bad", "missing"}]
    BY <1>10, <2>1, AppendedType DEF CrashInApply
  <2> QED BY <1>10, <2>1, <2>2, ConstructedType DEF CrashInApply
<1>11. CASE Crash
  BY <1>11, ConstructedType DEF Crash
<1>12. CASE Tick
  BY <1>12, KeysAssumption DEF Tick
<1>13. CASE EditRevocationFile
  BY <1>13, EditType
<1>14. CASE EditAllowFile
  BY <1>14 DEF EditAllowFile
<1>15. CASE UNCHANGED vars
  BY <1>15 DEF vars
<1> QED BY <1>1, <1>2, <1>3, <1>4, <1>5, <1>6, <1>7, <1>8, <1>9, <1>10, <1>11, <1>12, <1>13,
           <1>14, <1>15 DEF Next

(***************************************************************************)
(* Refusal: the disk, memory and what the hub was told                     *)
(***************************************************************************)
LEMMA RefusalInv == IInv /\ [Next]_vars => Refusal'
<1> SUFFICES ASSUME TypeOK, Refusal, [Next]_vars PROVE Refusal'
  BY DEF IInv
<1> USE DEF Refusal, OnDisk, InMemory, RunConfigured, files, allowVars, revVars, heardVars, ghosts
<1>1. CASE Start \/ Crash
  BY <1>1 DEF Start, Crash, Constructed
<1>2. CASE SetIdentity \/ Tick \/ EditAllowFile \/ UNCHANGED vars
  BY <1>2 DEF SetIdentity, Tick, EditAllowFile, vars
<1>3. CASE SetAllowList \/ ReloadAllowList
  BY <1>3 DEF SetAllowList, ReloadAllowList
<1>4. CASE SetRevocationList \/ ReloadRevocationList
  BY <1>4 DEF SetRevocationList, ReloadRevocationList, Load
<1>5. CASE CreateHub
  BY <1>5 DEF CreateHub, ArmOk
<1>6. ASSUME NEW p \in Authorities \cup {NoPoint}, SetRevocationAuthority(p) PROVE Refusal'
  BY <1>6 DEF SetRevocationAuthority
<1>7. ASSUME NEW a \in Authorities, NEW s \in SUBSET Points, IssueRevocationList(a, s) PROVE Refusal'
  BY <1>7 DEF IssueRevocationList
<1>8. ASSUME NEW l \in lists, NEW done \in SUBSET Points, AddRevokedPoints(done),
             UNCHANGED <<phase, configured>>, usable' => usable
      PROVE  Refusal'
  <2>1. revFile'.points = revFile.points \cup done
    BY <1>8, AppendedType DEF AddRevokedPoints
  <2> QED BY <1>8, <2>1 DEF AddRevokedPoints
<1>9. ASSUME NEW l \in lists, ApplyRevocationList(l) PROVE Refusal'
  <2>1. New(l) \in SUBSET Points
    BY DEF New, Revocations, TypeOK
  <2> QED BY <1>8, <1>9, <2>1 DEF ApplyRevocationList
<1>10. ASSUME NEW l \in lists, NEW done \in SUBSET l.points, ApplyFails(l, done) PROVE Refusal'
  <2>1. done \in SUBSET Points
    BY DEF Revocations, TypeOK
  <2> QED BY <1>8, <1>10, <2>1 DEF ApplyFails
<1>11. ASSUME NEW l \in lists, NEW done \in SUBSET l.points, CrashInApply(l, done) PROVE Refusal'
  <2>1. done \in SUBSET Points
    BY DEF Revocations, TypeOK
  <2>2. revFile'.points = revFile.points \cup done
    BY <1>11, <2>1, AppendedType DEF CrashInApply
  <2> QED BY <1>11, <2>2 DEF CrashInApply, Constructed
<1>12. CASE EditRevocationFile
  BY <1>12, EditType
<1> QED BY <1>1, <1>2, <1>3, <1>4, <1>5, <1>6, <1>7, <1>9, <1>10, <1>11, <1>12 DEF Next

(***************************************************************************)
(* History: what the epoch stands for                                      *)
(***************************************************************************)
\* A step that publishes nothing, believes nobody else and only moves points among memory,
\* the disk and what was struck out.
Keeps == /\ UNCHANGED <<lists, epoch, believed>>
         /\ revoked \cup struck \subseteq revoked' \cup struck'
         /\ revoked' \subseteq revFile'.points \cup struck'

LEMMA KeepsHistory == History /\ Keeps => History'
BY DEF History, Keeps, MemoryOnDisk, Sized, Nested, EpochIsAList, Covers

LEMMA ForgetsHistory ==
    ASSUME TypeOK, History, UNCHANGED lists, revoked' = {}, believed' = NoPoint
    PROVE  History'
<1>1. \A l \in lists : l.issuer # NoPoint
  BY KeysAssumption DEF TypeOK, Revocations
<1> QED BY <1>1 DEF History, MemoryOnDisk, Sized, Nested, EpochIsAList, Covers

LEMMA IssueHistory ==
    ASSUME TypeOK, History, NEW a \in Authorities, NEW s \in SUBSET Points, IssueRevocationList(a, s)
    PROVE  History'
<1> DEFINE n == [issuer |-> a, epoch |-> Cardinality(s), points |-> s]
<1>1. n.issuer = a /\ n.epoch = Cardinality(s) /\ n.points = s
  OBVIOUS
<1> HIDE DEF n
<1>2. /\ lists' = lists \cup {n}
      /\ \A l \in lists : l.issuer = a => l.points \subseteq s /\ l.points # s
      /\ UNCHANGED <<revFile, revoked, struck, epoch, believed>>
  BY DEF IssueRevocationList, n, files, revVars, heardVars, ghosts
<1>3. MemoryOnDisk' /\ Sized'
  BY <1>1, <1>2 DEF History, MemoryOnDisk, Sized
<1>4. Nested'
  BY <1>1, <1>2 DEF History, Nested
<1>5. EpochIsAList'
  BY <1>2 DEF History, EpochIsAList
<1>6. Covers'
  <2>1. ASSUME a = believed, Cardinality(s) <= epoch PROVE FALSE
    <3>1. PICK l \in lists : l.issuer = believed /\ l.epoch = epoch
      BY <2>1, KeysAssumption DEF History, EpochIsAList
    <3>2. l.points \in SUBSET Points /\ l.epoch = Cardinality(l.points)
      BY DEF TypeOK, Revocations, History, Sized
    <3>3. l.points \subseteq s /\ l.points # s
      BY <1>2, <2>1, <3>1
    <3>4. s \subseteq l.points
      BY <2>1, <3>1, <3>2, <3>3, SmallerIsInside
    <3> QED BY <3>3, <3>4
  <2> QED BY <1>1, <1>2, <2>1 DEF History, Covers
<1> QED BY <1>3, <1>4, <1>5, <1>6 DEF History

LEMMA ApplyHistory ==
    ASSUME TypeOK, History, NEW l \in lists, ApplyRevocationList(l)
    PROVE  History'
<1>1. /\ l.points \in SUBSET Points /\ New(l) \in SUBSET Points
      /\ \A m \in lists : m.points \in SUBSET Points
  BY DEF TypeOK, Revocations, New
<1>2. /\ UNCHANGED lists
      /\ revoked' = revoked \cup New(l) /\ struck' = struck \ New(l)
      /\ revFile'.points = revFile.points \cup New(l)
      /\ epoch' = l.epoch /\ believed' = l.issuer
  BY <1>1, AppendedType DEF ApplyRevocationList, AddRevokedPoints, Conclude
<1>3. MemoryOnDisk' /\ Sized' /\ Nested' /\ EpochIsAList'
  BY <1>2 DEF History, MemoryOnDisk, Sized, Nested, EpochIsAList
<1>4. ASSUME NEW m \in lists, m.issuer = l.issuer, m.epoch <= l.epoch
      PROVE  m.points \subseteq l.points
  <2>1. m.points \subseteq l.points \/ l.points \subseteq m.points
    BY <1>4 DEF History, Nested
  <2>2. Cardinality(m.points) <= Cardinality(l.points)
    BY <1>4 DEF History, Sized
  <2> QED BY <1>1, <2>1, <2>2, SmallerIsInside
<1>5. l.points \subseteq revoked'
  BY <1>2 DEF New
<1>6. Covers'
  BY <1>2, <1>4, <1>5 DEF Covers
<1> QED BY <1>3, <1>6 DEF History

LEMMA HistoryInv == IInv /\ [Next]_vars => History'
<1> SUFFICES ASSUME TypeOK, History, [Next]_vars PROVE History'
  BY DEF IInv
<1> USE DEF files, allowVars, revVars, heardVars, ghosts
<1>1. CASE Start \/ Crash
  <2>1. UNCHANGED lists /\ revoked' = {} /\ believed' = NoPoint
    BY <1>1 DEF Start, Crash, Constructed
  <2> QED BY <2>1, ForgetsHistory
<1>2. ASSUME UNCHANGED <<lists, epoch, believed, revoked, revFile, struck>> PROVE History'
  BY <1>2, KeepsHistory DEF Keeps, History, MemoryOnDisk
<1>3. CASE \/ SetIdentity \/ Tick \/ EditAllowFile \/ UNCHANGED vars
           \/ SetAllowList \/ ReloadAllowList \/ CreateHub
  BY <1>2, <1>3 DEF SetIdentity, Tick, EditAllowFile, vars, SetAllowList, ReloadAllowList, CreateHub
<1>4. CASE SetRevocationList \/ ReloadRevocationList
  <2>1. Keeps
    BY <1>4 DEF SetRevocationList, ReloadRevocationList, Load, Keeps, History, MemoryOnDisk
  <2> QED BY <2>1, KeepsHistory
<1>5. ASSUME NEW p \in Authorities \cup {NoPoint}, SetRevocationAuthority(p) PROVE History'
  BY <1>2, <1>5 DEF SetRevocationAuthority
<1>6. ASSUME NEW l \in lists, NEW done \in SUBSET l.points, ApplyFails(l, done) PROVE History'
  <2>1. done \in SUBSET Points
    BY DEF Revocations, TypeOK
  <2>2. /\ revFile'.points = revFile.points \cup done
        /\ revoked' = revoked \cup done /\ struck' = struck \ done
        /\ UNCHANGED <<lists, epoch, believed>>
    BY <1>6, <2>1, AppendedType DEF ApplyFails, AddRevokedPoints, AbandonAt
  <2>3. Keeps
    BY <2>2 DEF Keeps, History, MemoryOnDisk
  <2> QED BY <2>3, KeepsHistory
<1>7. ASSUME NEW l \in lists, NEW done \in SUBSET l.points, CrashInApply(l, done) PROVE History'
  <2>1. UNCHANGED lists /\ revoked' = {} /\ believed' = NoPoint
    BY <1>7 DEF CrashInApply, Constructed
  <2> QED BY <2>1, ForgetsHistory
<1>8. CASE EditRevocationFile
  <2>1. Keeps
    BY <1>8, EditType DEF Keeps, History, MemoryOnDisk
  <2> QED BY <2>1, KeepsHistory
<1> QED BY <1>1, <1>3, <1>4, <1>5, <1>6, <1>7, <1>8, IssueHistory, ApplyHistory DEF Next

(***************************************************************************)
(* Theorems                                                                *)
(***************************************************************************)
\* The invariant of the lists, from which the rest follows.
THEOREM Inductive == Spec => []IInv
<1>1. IInv /\ [Next]_vars => IInv'
  BY TypeInv, RefusalInv, HistoryInv DEF IInv
<1> QED BY <1>1, InitInv, PTL DEF Spec

\* The policy never leaves the states its fields can hold.
THEOREM TypeCorrect == Spec => []TypeOK
<1>1. IInv => TypeOK
  BY DEF IInv
<1> QED BY <1>1, Inductive, PTL

\* A running hub never tries a signature against a key it was told to refuse.
THEOREM WithdrawnStays == Spec => []RevokedStays
<1>1. ASSUME IInv PROVE RevokedStays
  BY <1>1 DEF IInv, Refusal, InMemory, RunConfigured, RevokedStays, PeerKeys, IsRevokedPoint,
     IsRevocationUsable
<1> QED BY <1>1, Inductive, PTL

\* Every list of the authority believed, up to the epoch, is in force.
THEOREM EpochMeansHeld == Spec => []EpochCovers
<1>1. IInv => EpochCovers
  BY DEF IInv, History, Covers, EpochCovers
<1> QED BY <1>1, Inductive, PTL

-------------------------------------------------------------------------------
(* What a hub remembers.                                                   *)

(***************************************************************************)
(* The argument.  What was taken is remembered, or is too old to pass.     *)
(***************************************************************************)
\* e is the entry of b, made no later than now and within the window of its stamp.
EntryOf(e, b) ==
    /\ e.block = b
    /\ e.at <= clock
    /\ window > 0 => Abs(e.at - sent[b].at) <= window

Remembered(cache, b) ==
    \/ stepped \/ b \in flushed
    \/ \E e \in cache : EntryOf(e, b)
    \/ window > 0 /\ clock - sent[b].at > window

LoginsRemembered == \A b \in taken : sent[b].kind = "login" => Remembered(seen, b)
RelaysRemembered == \A b \in taken : sent[b].kind = "relay" => Remembered(seenRel, b)

\* Every mark of the ring bears the stamp of its block, and what was opened is in the
\* ring or at most at the floor.
RingStamps == \A i \in 1 .. Len(seenSeal) : seenSeal[i].at = sent[seenSeal[i].block].at
SealsRemembered ==
    \A b \in taken : sent[b].kind = "seal" =>
        SeenSealSig(b) \/ (sealFloor # 0 /\ sent[b].at <= sealFloor)

CachesInv == CachesTypeOK /\ LoginsRemembered /\ RelaysRemembered /\ RingStamps /\ SealsRemembered

(***************************************************************************)
(* Lemmas                                                                  *)
(***************************************************************************)
LEMMA PushedEntries ==
    ASSUME NEW cache, cache \subseteq Entries, NEW b \in Blocks, clock \in 0 .. MaxClock, Room(cache)
    PROVE  /\ Pushed(cache, b) \subseteq Entries
           /\ cache \subseteq Pushed(cache, b)
           /\ \E e \in Pushed(cache, b) : e.block = b /\ e.at = clock
<1> DEFINE n == CHOOSE k \in 1 .. MaxNth : Behind(cache, k)
<1>1. n \in 1 .. MaxNth
  BY DEF Room
<1> HIDE DEF n
<1>2. Pushed(cache, b) = cache \cup {[block |-> b, at |-> clock, nth |-> n]}
  BY DEF Pushed, n
<1> DEFINE new == [block |-> b, at |-> clock, nth |-> n]
<1>3. new \in Entries /\ new.block = b /\ new.at = clock
  BY <1>1 DEF Entries
<1> HIDE DEF new
<1>4. Pushed(cache, b) = cache \cup {new}
  BY <1>2 DEF new
<1> QED BY <1>3, <1>4

\* An entry that the trimming of a cache drops is too old for its block to pass.
LEMMA TrimmedOld ==
    ASSUME CachesTypeOK, window > 0, NEW cache, cache \subseteq Entries,
           NEW b \in Blocks, NEW e \in cache, EntryOf(e, b), e \notin Trimmed(cache)
    PROVE  clock - sent[b].at > window
<1>1. /\ clock \in Int /\ e.at \in Int /\ sent[b].at \in Int /\ window \in Nat
  BY BoundsAssumption DEF CachesTypeOK, Entries, Stamps
<1>2. Abs(clock - e.at) > 2 * window
  BY <1>1 DEF Trimmed, KeptFor, Abs
<1>3. e.at <= clock /\ Abs(e.at - sent[b].at) <= window
  BY DEF EntryOf
<1> DEFINE N == clock  E == e.at  A == sent[b].at  W == window
<1>4. N \in Int /\ E \in Int /\ A \in Int /\ W \in Int /\ E <= N
      /\ Abs(N - E) > 2 * W /\ Abs(E - A) <= W
  BY <1>1, <1>2, <1>3
<1> HIDE DEF N, E, A, W
<1>5. N - A > W
  BY <1>4 DEF Abs
<1> QED BY <1>5 DEF N, A, W

LEMMA CachesInitInv == CachesInit => CachesInv
<1> SUFFICES ASSUME CachesInit PROVE CachesInv
  OBVIOUS
<1>1. seenSeal \in Seq(Marks) /\ Len(seenSeal) = 0
  BY EmptySeq DEF CachesInit
<1>2. CachesTypeOK
  <2>1. 0 \in 0 .. MaxClock /\ 0 \in 0 .. SeenMax /\ 0 <= SeenMax
    BY BoundsAssumption
  <2>2. /\ clock = 0 /\ seen = {} /\ seenRel = {} /\ sealNext = 0 /\ sealFloor = 0
        /\ taken = {} /\ flushed = {}
        /\ {stepped, live, relayReplay, sealReplay} \subseteq BOOLEAN
        /\ sent \in [Blocks -> [kind : Kinds, at : Stamps]] /\ window \in Windows
    BY DEF CachesInit
  <2> QED BY <1>1, <2>1, <2>2 DEF CachesTypeOK
<1>3. RingStamps
  BY <1>1 DEF RingStamps
<1> QED BY <1>2, <1>3 DEF CachesInit, CachesInv, LoginsRemembered, RelaysRemembered, SealsRemembered

\* The steps that leave the caches, what was taken and the clock as they are.
Still == /\ UNCHANGED <<sent, clock, window, seen, seenRel, sealVars, taken, flushed>>
         /\ stepped => stepped'
         /\ {stepped', live', relayReplay', sealReplay'} \subseteq BOOLEAN

LEMMA StillInv == CachesInv /\ Still => CachesInv'
<1> SUFFICES ASSUME CachesInv, Still PROVE CachesInv'
  OBVIOUS
<1> USE DEF CachesInv, Still, sealVars
<1>1. CachesTypeOK'
  BY DEF CachesTypeOK
<1>2. LoginsRemembered' /\ RelaysRemembered'
  BY DEF LoginsRemembered, RelaysRemembered, Remembered, EntryOf, Abs
<1>3. RingStamps' /\ SealsRemembered'
  BY DEF RingStamps, SealsRemembered, SeenSealSig
<1> QED BY <1>1, <1>2, <1>3

LEMMA TickInv == CachesInv /\ ClockTicks => CachesInv'
<1> SUFFICES ASSUME CachesInv, ClockTicks PROVE CachesInv'
  OBVIOUS
<1> USE DEF CachesInv, ClockTicks, sealVars, settings
<1>1. CachesTypeOK'
  BY BoundsAssumption DEF CachesTypeOK
<1>2. ASSUME NEW cache, cache \subseteq Entries, cache' = cache,
             NEW b \in taken, Remembered(cache, b)
      PROVE  Remembered(cache, b)'
  <2>1. clock \in Int /\ clock' = clock + 1 /\ sent[b].at \in Int /\ window \in Int
        /\ \A e \in cache : e.at \in Int
    BY <1>2, BoundsAssumption DEF CachesTypeOK, Entries, Stamps
  <2>2. \A e \in cache : EntryOf(e, b) => EntryOf(e, b)'
    BY <2>1 DEF EntryOf, Abs
  <2> QED BY <1>2, <2>1, <2>2 DEF Remembered
<1>3. LoginsRemembered'
  BY <1>2 DEF LoginsRemembered, CachesTypeOK
<1>4. RelaysRemembered'
  BY <1>2 DEF RelaysRemembered, CachesTypeOK
<1>5. RingStamps' /\ SealsRemembered'
  BY DEF RingStamps, SealsRemembered, SeenSealSig
<1> QED BY <1>1, <1>3, <1>4, <1>5

LEMMA StepBackInv == CachesInv /\ StepBack => CachesInv'
<1> SUFFICES ASSUME CachesInv, StepBack PROVE CachesInv'
  OBVIOUS
<1> USE DEF CachesInv, StepBack, sealVars, settings
<1>1. CachesTypeOK'
  BY BoundsAssumption DEF CachesTypeOK
<1>2. LoginsRemembered' /\ RelaysRemembered'
  BY DEF LoginsRemembered, RelaysRemembered, Remembered
<1>3. RingStamps' /\ SealsRemembered'
  BY DEF RingStamps, SealsRemembered, SeenSealSig
<1> QED BY <1>1, <1>2, <1>3

LEMMA RestartInv == CachesInv /\ Restart => CachesInv'
<1> SUFFICES ASSUME CachesInv, Restart PROVE CachesInv'
  OBVIOUS
<1> USE DEF CachesInv, Restart
<1>1. seenSeal' \in Seq(Marks) /\ Len(seenSeal') = 0
  BY EmptySeq
<1>2. CachesTypeOK'
  BY <1>1, BoundsAssumption DEF CachesTypeOK
<1>3. RingStamps'
  BY <1>1 DEF RingStamps
<1> QED BY <1>2, <1>3 DEF LoginsRemembered, RelaysRemembered, SealsRemembered

LEMMA LoginInv == ASSUME NEW b \in Blocks PROVE CachesInv /\ VerifyLogin(b) => CachesInv'
<1> SUFFICES ASSUME CachesInv, VerifyLogin(b) PROVE CachesInv'
  OBVIOUS
<1> USE DEF CachesInv, VerifyLogin, sealVars, settings
<1>1. /\ sent \in [Blocks -> [kind : Kinds, at : Stamps]] /\ window \in Nat
      /\ clock \in 0 .. MaxClock /\ seen \subseteq Entries /\ taken \subseteq Blocks
  BY BoundsAssumption DEF CachesTypeOK
<1>2. NonceKept \subseteq seen
  BY DEF NonceKept, Trimmed, Newest
<1>3. /\ seen' \subseteq Entries /\ NonceKept \subseteq seen'
      /\ \E e \in seen' : e.block = b /\ e.at = clock
  BY <1>1, <1>2, PushedEntries
<1>4. CachesTypeOK'
  <2>1. flushed' \subseteq Blocks
    BY <1>1 DEF CachesTypeOK, BlocksOf, Entries
  <2> QED BY <1>1, <1>3, <2>1 DEF CachesTypeOK
<1>5. ASSUME NEW c \in taken, sent[c].kind = "login" PROVE Remembered(seen, c)'
  <2>1. Remembered(seen, c)
    BY <1>5 DEF LoginsRemembered
  <2>2. CASE stepped \/ c \in flushed
    BY <2>2 DEF Remembered
  <2>3. CASE window > 0 /\ clock - sent[c].at > window
    BY <2>3 DEF Remembered
  <2>4. ASSUME NEW e \in seen, EntryOf(e, c) PROVE Remembered(seen, c)'
    <3>1. CASE e \in NonceKept
      <4>1. e \in seen' /\ EntryOf(e, c)'
        BY <2>4, <3>1, <1>3 DEF EntryOf, Abs
      <4> QED BY <4>1 DEF Remembered
    <3>2. CASE e \notin NonceKept /\ window > 0
      <4>1. e \notin Trimmed(seen)
        BY <3>2 DEF NonceKept
      <4>2. clock - sent[c].at > window
        BY <1>1, <2>4, <3>2, <4>1, TrimmedOld
      <4> QED BY <3>2, <4>2 DEF Remembered
    <3>3. CASE e \notin NonceKept /\ ~(window > 0)
      <4>1. e \in seen \ Newest(seen) /\ e.block = c
        BY <2>4, <3>3 DEF NonceKept, EntryOf
      <4>2. c \in flushed'
        BY <3>3, <4>1 DEF BlocksOf
      <4> QED BY <4>2 DEF Remembered
    <3> QED BY <3>1, <3>2, <3>3
  <2> QED BY <2>1, <2>2, <2>3, <2>4 DEF Remembered
<1>6. Remembered(seen, b)'
  <2>1. PICK e \in seen' : e.block = b /\ e.at = clock
    BY <1>3
  <2>2. window > 0 => Abs(clock - sent[b].at) <= window
    BY DEF LoginPasses, InWindow
  <2>3. EntryOf(e, b)'
    BY <1>1, <2>1, <2>2 DEF EntryOf, Abs
  <2> QED BY <2>1, <2>3 DEF Remembered
<1>7. LoginsRemembered'
  BY <1>5, <1>6 DEF LoginsRemembered
<1>8. RelaysRemembered'
  <2>1. flushed \subseteq flushed'
    OBVIOUS
  <2>2. \A c \in taken' : sent'[c].kind = "relay" => c \in taken
    OBVIOUS
  <2> QED BY <2>1, <2>2 DEF RelaysRemembered, Remembered, EntryOf, Abs
<1>9. RingStamps' /\ SealsRemembered'
  BY DEF RingStamps, SealsRemembered, SeenSealSig
<1> QED BY <1>4, <1>7, <1>8, <1>9

LEMMA RelayInv == ASSUME NEW b \in Blocks PROVE CachesInv /\ VerifyRelay(b) => CachesInv'
<1> SUFFICES ASSUME CachesInv, VerifyRelay(b) PROVE CachesInv'
  OBVIOUS
<1> USE DEF CachesInv, VerifyRelay, sealVars, settings
<1>1. /\ sent \in [Blocks -> [kind : Kinds, at : Stamps]] /\ window \in Nat
      /\ clock \in 0 .. MaxClock /\ seenRel \subseteq Entries /\ taken \subseteq Blocks
  BY BoundsAssumption DEF CachesTypeOK
<1>2. RelayKept \subseteq RelayAged /\ RelayAged \subseteq seenRel
  BY DEF RelayKept, RelayAged, Trimmed, Newest
<1>3. /\ seenRel' \subseteq Entries /\ RelayKept \subseteq seenRel'
      /\ \E e \in seenRel' : e.block = b /\ e.at = clock
  BY <1>1, <1>2, PushedEntries
<1>4. CachesTypeOK'
  <2>1. flushed' \subseteq Blocks
    BY <1>1, <1>2 DEF CachesTypeOK, BlocksOf, Entries
  <2> QED BY <1>1, <1>3, <2>1 DEF CachesTypeOK
<1>5. ASSUME NEW c \in taken, sent[c].kind = "relay" PROVE Remembered(seenRel, c)'
  <2>1. Remembered(seenRel, c)
    BY <1>5 DEF RelaysRemembered
  <2>2. CASE stepped \/ c \in flushed
    BY <2>2 DEF Remembered
  <2>3. CASE window > 0 /\ clock - sent[c].at > window
    BY <2>3 DEF Remembered
  <2>4. ASSUME NEW e \in seenRel, EntryOf(e, c) PROVE Remembered(seenRel, c)'
    <3>1. CASE e \in RelayKept
      <4>1. e \in seenRel' /\ EntryOf(e, c)'
        BY <2>4, <3>1, <1>3 DEF EntryOf, Abs
      <4> QED BY <4>1 DEF Remembered
    <3>2. CASE e \notin RelayAged
      <4>1. window > 0 /\ e \notin Trimmed(seenRel)
        BY <3>2 DEF RelayAged
      <4>2. clock - sent[c].at > window
        BY <1>1, <2>4, <4>1, TrimmedOld
      <4> QED BY <4>1, <4>2 DEF Remembered
    <3>3. CASE e \in RelayAged \ RelayKept
      <4>1. e.block = c
        BY <2>4 DEF EntryOf
      <4>2. c \in flushed'
        BY <3>3, <4>1 DEF BlocksOf
      <4> QED BY <4>2 DEF Remembered
    <3> QED BY <3>1, <3>2, <3>3
  <2> QED BY <2>1, <2>2, <2>3, <2>4 DEF Remembered
<1>6. Remembered(seenRel, b)'
  <2>1. PICK e \in seenRel' : e.block = b /\ e.at = clock
    BY <1>3
  <2>2. window > 0 => Abs(clock - sent[b].at) <= window
    BY DEF RelayPasses, InWindow
  <2>3. EntryOf(e, b)'
    BY <1>1, <2>1, <2>2 DEF EntryOf, Abs
  <2> QED BY <2>1, <2>3 DEF Remembered
<1>7. RelaysRemembered'
  BY <1>5, <1>6 DEF RelaysRemembered
<1>8. LoginsRemembered'
  <2>1. flushed \subseteq flushed'
    OBVIOUS
  <2>2. \A c \in taken' : sent'[c].kind = "login" => c \in taken
    OBVIOUS
  <2> QED BY <2>1, <2>2 DEF LoginsRemembered, Remembered, EntryOf, Abs
<1>9. RingStamps' /\ SealsRemembered'
  BY DEF RingStamps, SealsRemembered, SeenSealSig
<1> QED BY <1>4, <1>7, <1>8, <1>9

LEMMA OpenInv == ASSUME NEW b \in Blocks PROVE CachesInv /\ Open(b) => CachesInv'
<1> SUFFICES ASSUME CachesInv, Open(b) PROVE CachesInv'
  OBVIOUS
<1> DEFINE mark == [block |-> b, at |-> sent[b].at]
<1>1. /\ sent \in [Blocks -> [kind : Kinds, at : Stamps]] /\ seenSeal \in Seq(Marks)
      /\ Len(seenSeal) <= SeenMax /\ Len(seenSeal) \in Nat /\ SeenMax \in Nat \ {0}
      /\ sealFloor \in 0 .. MaxClock /\ sealNext \in 0 .. SeenMax
  BY BoundsAssumption, LenProperties DEF CachesInv, CachesTypeOK
<1>2. mark \in Marks /\ mark.block = b /\ mark.at = sent[b].at
  BY <1>1 DEF Marks
<1>3. /\ sent' = sent /\ taken' = taken \cup {b} /\ sent[b].kind = "seal"
      /\ UNCHANGED <<clock, stepped, live, settings, seen, seenRel, flushed>>
  BY DEF Open
<1>4. RingStamps /\ SealsRemembered
  BY DEF CachesInv
<1>5. CASE Len(seenSeal) < SeenMax
  <2>1. seenSeal' = Append(seenSeal, mark) /\ sealNext' = 0 /\ sealFloor' = sealFloor
    BY <1>5, <1>1 DEF Open, NoteSealSig
  <2>2. /\ seenSeal' \in Seq(Marks) /\ Len(seenSeal') = Len(seenSeal) + 1
        /\ \A i \in 1 .. Len(seenSeal) : seenSeal'[i] = seenSeal[i]
        /\ seenSeal'[Len(seenSeal) + 1] = mark
    BY <1>1, <1>2, <2>1, AppendProperties
  <2>3. CachesTypeOK'
    BY <1>1, <1>3, <1>5, <2>1, <2>2 DEF CachesInv, CachesTypeOK, settings
  <2>4. RingStamps'
    <3>1. \A i \in 1 .. Len(seenSeal') : i \in 1 .. Len(seenSeal) \/ i = Len(seenSeal) + 1
      BY <1>1, <2>2
    <3>2. \A i \in 1 .. Len(seenSeal) : seenSeal[i].at = sent[seenSeal[i].block].at
      BY <1>4 DEF RingStamps
    <3>3. \A i \in 1 .. Len(seenSeal') : seenSeal'[i].at = sent[seenSeal'[i].block].at
      BY <1>2, <2>2, <3>1, <3>2
    <3> QED BY <1>3, <3>3 DEF RingStamps
  <2>5. SealsRemembered'
    <3>1. \A c \in taken : SeenSealSig(c) => SeenSealSig(c)'
      BY <1>1, <2>2 DEF SeenSealSig
    <3>2. SeenSealSig(b)'
      BY <1>1, <1>2, <2>2 DEF SeenSealSig
    <3> QED BY <1>3, <1>4, <2>1, <3>1, <3>2 DEF SealsRemembered
  <2> QED BY <2>3, <2>4, <2>5, <1>3 DEF CachesInv, LoginsRemembered, RelaysRemembered, Remembered, EntryOf, settings
<1>6. CASE Len(seenSeal) >= SeenMax
  <2>1. /\ Slot \in 1 .. SeenMax /\ Len(seenSeal) = SeenMax
    BY <1>1, <1>6 DEF Slot
  <2>2. /\ seenSeal' = [seenSeal EXCEPT ![Slot] = mark] /\ sealNext' = Slot
        /\ sealFloor' = Raised(seenSeal[Slot].at)
    BY <1>1, <1>6 DEF Open, NoteSealSig
  <2>3. /\ seenSeal' \in Seq(Marks) /\ Len(seenSeal') = SeenMax
        /\ seenSeal'[Slot] = mark
        /\ \A i \in 1 .. SeenMax : i # Slot => seenSeal'[i] = seenSeal[i]
    BY <1>1, <1>2, <2>1, <2>2, ExceptSeq
  <2>4. /\ seenSeal[Slot] \in Marks
        /\ seenSeal[Slot].at = sent[seenSeal[Slot].block].at
    BY <1>1, <1>4, <2>1, ElementOfSeq DEF RingStamps
  <2>5. /\ seenSeal[Slot].at \in Stamps
        /\ sealFloor' \in 0 .. MaxClock /\ sealFloor' >= sealFloor
        /\ sealFloor' >= seenSeal[Slot].at /\ sealFloor' # 0
    BY <1>1, <2>2, <2>4, BoundsAssumption DEF Marks, Raised, Stamps
  <2>6. CachesTypeOK'
    BY <1>1, <1>3, <2>1, <2>2, <2>3, <2>5 DEF CachesInv, CachesTypeOK, settings
  <2>7. RingStamps'
    BY <1>1, <1>2, <1>3, <1>4, <2>1, <2>3 DEF RingStamps
  <2>8. SealsRemembered'
    <3>1. ASSUME NEW c \in taken, sent[c].kind = "seal"
          PROVE  SeenSealSig(c)' \/ (sealFloor' # 0 /\ sent'[c].at <= sealFloor')
      <4>1. CASE sealFloor # 0 /\ sent[c].at <= sealFloor
        <5>1. sent[c].at \in Int /\ sealFloor \in Int /\ sealFloor' \in Int
          BY <1>1, <2>5 DEF CachesInv, CachesTypeOK, Stamps
        <5> QED BY <4>1, <5>1, <2>5, <1>3
      <4>2. ASSUME NEW i \in 1 .. Len(seenSeal), seenSeal[i].block = c
            PROVE  SeenSealSig(c)' \/ (sealFloor' # 0 /\ sent'[c].at <= sealFloor')
        <5>1. CASE i # Slot
          BY <4>2, <5>1, <2>1, <2>3 DEF SeenSealSig
        <5>2. CASE i = Slot
          BY <4>2, <5>2, <2>4, <2>5, <1>3
        <5> QED BY <5>1, <5>2
      <4> QED BY <3>1, <4>1, <4>2, <1>4 DEF SealsRemembered, SeenSealSig
    <3>2. SeenSealSig(b)'
      BY <1>2, <2>1, <2>3 DEF SeenSealSig
    <3> QED BY <1>3, <3>1, <3>2 DEF SealsRemembered
  <2> QED BY <2>6, <2>7, <2>8, <1>3 DEF CachesInv, LoginsRemembered, RelaysRemembered, Remembered, EntryOf, settings
<1> QED BY <1>1, <1>5, <1>6

LEMMA CachesNextInv == CachesInv /\ [CachesNext]_cachesVars => CachesInv'
<1> SUFFICES ASSUME CachesInv, [CachesNext]_cachesVars PROVE CachesInv'
  OBVIOUS
<1>1. ASSUME NEW b \in Blocks, VerifyLogin(b) \/ VerifyRelay(b) \/ Open(b) PROVE CachesInv'
  BY <1>1, LoginInv, RelayInv, OpenInv
<1>2. CASE SetRelayReplayRefused
  <2>1. Still
    BY <1>2 DEF SetRelayReplayRefused, Still, CachesInv, CachesTypeOK
  <2> QED BY <2>1, StillInv
<1>3. CASE SetSealReplayRefused
  <2>1. Still
    BY <1>3 DEF SetSealReplayRefused, Still, CachesInv, CachesTypeOK
  <2> QED BY <2>1, StillInv
<1>4. CASE PeerKeysChange
  <2>1. Still
    BY <1>4 DEF PeerKeysChange, Still, CachesInv, CachesTypeOK, settings
  <2> QED BY <2>1, StillInv
<1>5. CASE UNCHANGED cachesVars
  <2>1. Still
    BY <1>5 DEF cachesVars, Still, CachesInv, CachesTypeOK, settings
  <2> QED BY <2>1, StillInv
<1> QED BY <1>1, <1>2, <1>3, <1>4, <1>5, TickInv, StepBackInv, RestartInv DEF CachesNext

\* The invariant of the caches, from which the rest follows.
THEOREM CachesInductive == CachesSpec => []CachesInv
BY CachesInitInv, CachesNextInv, PTL DEF CachesSpec

\* The policy never leaves the states its fields can hold.
THEOREM CachesTypeCorrect == CachesSpec => []CachesTypeOK
<1>1. CachesInv => CachesTypeOK
  BY DEF CachesInv
<1> QED BY <1>1, CachesInductive, PTL

\* A login or a relay block that was taken is not taken again, whatever is trimmed.
THEOREM AcceptedOnce == CachesSpec => []OnceInWindow
<1>1. ASSUME CachesInv PROVE OnceInWindow
  <2> SUFFICES ASSUME NEW b \in taken, ~stepped, b \notin flushed
               PROVE  /\ sent[b].kind = "login" => ~LoginPasses(b)
                      /\ sent[b].kind = "relay" /\ relayReplay => ~RelayPasses(b)
    BY DEF OnceInWindow
  <2>1. clock \in Int /\ sent[b].at \in Int /\ window \in Int
    BY <1>1, BoundsAssumption DEF CachesInv, CachesTypeOK, Stamps
  <2>2. ASSUME window > 0, clock - sent[b].at > window PROVE ~InWindow(b)
    BY <2>1, <2>2 DEF InWindow, Abs
  <2>3. ASSUME NEW cache, Remembered(cache, b) PROVE ~InWindow(b) \/ Holds(cache, b)
    BY <2>2, <2>3 DEF Remembered, EntryOf, Holds
  <2>4. sent[b].kind = "login" => ~LoginPasses(b)
    BY <1>1, <2>3 DEF CachesInv, LoginsRemembered, LoginPasses
  <2>5. sent[b].kind = "relay" /\ relayReplay => ~RelayPasses(b)
    BY <1>1, <2>3 DEF CachesInv, RelaysRemembered, RelayPasses
  <2> QED BY <2>4, <2>5
<1> QED BY <1>1, CachesInductive, PTL

\* A sealed body that was opened opens again only in the second of the floor.
THEOREM OpenedOnce == CachesSpec => []SealOnce
<1>1. ASSUME CachesInv PROVE SealOnce
  <2> SUFFICES ASSUME NEW b \in taken, sent[b].kind = "seal", sealReplay, OpenPasses(b)
               PROVE  sent[b].at = sealFloor
    BY DEF SealOnce
  <2>1. sent[b].at \in Int /\ sealFloor \in Int
    BY <1>1 DEF CachesInv, CachesTypeOK, Stamps
  <2>2. sealFloor # 0 /\ sent[b].at <= sealFloor /\ ~(sent[b].at < sealFloor)
    BY <1>1 DEF CachesInv, SealsRemembered, OpenPasses
  <2> QED BY <2>1, <2>2
<1> QED BY <1>1, CachesInductive, PTL
===============================================================================
