----------------------------- MODULE P2PAuthReplay -----------------------------
(***************************************************************************)
(* What the policy of one hub remembers so as to take a signed block once: *)
(* the nonces of logins, the signatures of relay blocks and those of       *)
(* sealed bodies.  The wire may hand it any block at any time and as often *)
(* as it likes.  The signers are other hubs, so a block's time stamp comes *)
(* from a clock this hub does not share, and this hub's own clock is the   *)
(* wall clock, which an operator may set back.                             *)
(*                                                                         *)
(* Cryptography is ideal: a block is what its signer built.  One that does *)
(* not verify is refused before any cache is read for keeps, and changes   *)
(* nothing.  All calls hold the hub's critical section.                    *)
(***************************************************************************)
EXTENDS Integers, Sequences, FiniteSets

CONSTANTS
    Blocks,      \* what signers put on the wire; no two share a nonce or a signature
    Windows,     \* the values of m_nWindow a hub may be configured with
    SealWindow,  \* m_nSealWindow, 0 when sealed bodies never grow stale
    SeenMax,     \* kSeenMax
    MaxClock,    \* bound: the last instant of the clocks
    MaxNth       \* bound: the numbers given to the entries of a cache

ASSUME BoundsAssumption ==
    /\ Windows \subseteq Nat /\ SealWindow \in Nat
    /\ SeenMax \in Nat \ {0} /\ MaxClock \in Nat /\ MaxNth \in Nat

VARIABLES
    sent,        \* [Blocks -> [kind, at]]: what each block is and its stamp
    clock,       \* std::time of this hub
    stepped,     \* whether that clock was ever set back
    live,        \* whether the signer has a key that is listed and not revoked
    window,      \* m_nWindow
    relayReplay, \* m_bRelayReplay
    sealReplay,  \* m_bSealReplay
    seen,        \* m_pSeen: entries [block, at, nth], nth giving their order
    seenRel,     \* m_pSeenRel, likewise
    seenSeal,    \* m_pSeenSeal: a sequence of [block, at]
    sealNext,    \* m_nSealNext
    sealFloor,   \* m_llSealFloor, 0 when nothing was evicted
    taken,       \* the blocks this run of the hub accepted with refusal on
    flushed      \* those whose entry was dropped for want of room

settings == <<window, relayReplay, sealReplay>>
sealVars == <<seenSeal, sealNext, sealFloor>>
cachesVars == <<sent, clock, stepped, live, settings, seen, seenRel, sealVars, taken, flushed>>

Kinds   == {"login", "relay", "seal"}
Stamps  == 1 .. MaxClock
Entries == [block : Blocks, at : 0 .. MaxClock, nth : 1 .. MaxNth]
Marks   == [block : Blocks, at : Stamps]

\* Every variable holds a value the code could store in it.
CachesTypeOK ==
    /\ sent \in [Blocks -> [kind : Kinds, at : Stamps]]
    /\ clock \in 0 .. MaxClock
    /\ stepped \in BOOLEAN /\ live \in BOOLEAN
    /\ window \in Windows
    /\ relayReplay \in BOOLEAN /\ sealReplay \in BOOLEAN
    /\ seen \subseteq Entries /\ seenRel \subseteq Entries
    /\ seenSeal \in Seq(Marks) /\ Len(seenSeal) <= SeenMax
    /\ sealNext \in 0 .. SeenMax
    /\ sealFloor \in 0 .. MaxClock
    /\ taken \subseteq Blocks /\ flushed \subseteq Blocks

(***************************************************************************)
(* Wrong forms of two operators below, for the record of what the          *)
(* properties catch; nothing uses them                                     *)
(***************************************************************************)
\* Entries are kept for the window alone.
KeptForTheWindow == window

\* An eviction leaves the floor where it was.
FloorStays(stamp) == sealFloor

(***************************************************************************)
(* The two caches of entries                                               *)
(***************************************************************************)
Abs(n) == IF n < 0 THEN -n ELSE n

\* Freshness of a login or a relay block, either side of the hub's clock.
InWindow(b) == window > 0 => Abs(clock - sent[b].at) <= window

Holds(cache, b) == \E e \in cache : e.block = b

\* An entry has to outlive every stamp that could still be accepted.
KeptFor == 2 * window

Trimmed(cache) == {e \in cache : Abs(clock - e.at) <= KeptFor}

\* Room for one more under SeenMax: the oldest entries go.
Newest(cache) ==
    {e \in cache : Cardinality({f \in cache : f.nth > e.nth}) < SeenMax - 1}

NonceKept == IF window > 0 THEN Trimmed(seen) ELSE Newest(seen)
RelayAged == IF window > 0 THEN Trimmed(seenRel) ELSE seenRel
RelayKept == Newest(RelayAged)

\* n is the number of the entry pushed behind those of cache.
Behind(cache, n) ==
    /\ \A e \in cache : e.nth < n
    /\ n = 1 \/ \E e \in cache : e.nth = n - 1

Room(cache) == \E n \in 1 .. MaxNth : Behind(cache, n)

Pushed(cache, b) ==
    cache \cup {[block |-> b, at |-> clock, nth |-> CHOOSE n \in 1 .. MaxNth : Behind(cache, n)]}

BlocksOf(cache) == {e.block : e \in cache}

(***************************************************************************)
(* Logins and relay blocks                                                 *)
(***************************************************************************)
LoginPasses(b) == live /\ InWindow(b) /\ ~Holds(seen, b)

\* A login signed by a peer this hub lists.
VerifyLogin(b) ==
    /\ sent[b].kind = "login"
    /\ LoginPasses(b)
    /\ Room(NonceKept)
    /\ seen' = Pushed(NonceKept, b)
    /\ taken' = taken \cup {b}
    /\ flushed' = IF window > 0 THEN flushed ELSE flushed \cup BlocksOf(seen \ Newest(seen))
    /\ UNCHANGED <<sent, clock, stepped, live, settings, seenRel, sealVars>>

RelayPasses(b) == live /\ InWindow(b) /\ (relayReplay => ~Holds(seenRel, b))

\* A relay block; with refusal off it is taken and not remembered.
VerifyRelay(b) ==
    /\ sent[b].kind = "relay"
    /\ relayReplay
    /\ RelayPasses(b)
    /\ Room(RelayKept)
    /\ seenRel' = Pushed(RelayKept, b)
    /\ taken' = taken \cup {b}
    /\ flushed' = flushed \cup BlocksOf(RelayAged \ RelayKept)
    /\ UNCHANGED <<sent, clock, stepped, live, settings, seen, sealVars>>

(***************************************************************************)
(* Sealed bodies: a ring, and a floor under what it has forgotten          *)
(***************************************************************************)
InSealWindow(b) == SealWindow > 0 => Abs(clock - sent[b].at) <= SealWindow

SeenSealSig(b) == \E i \in 1 .. Len(seenSeal) : seenSeal[i].block = b

OpenPasses(b) ==
    /\ live /\ InSealWindow(b)
    /\ sealReplay => ~(sealFloor # 0 /\ sent[b].at < sealFloor) /\ ~SeenSealSig(b)

Raised(stamp) == IF stamp > sealFloor THEN stamp ELSE sealFloor

\* The slot that goes next, counted from 1, once the ring is full.
Slot == IF sealNext >= SeenMax THEN 1 ELSE sealNext + 1

NoteSealSig(b) ==
    LET mark == [block |-> b, at |-> sent[b].at]
    IN  \/ /\ Len(seenSeal) < SeenMax
           /\ seenSeal' = Append(seenSeal, mark)
           /\ sealNext' = 0
           /\ UNCHANGED sealFloor
        \/ /\ Len(seenSeal) >= SeenMax
           /\ sealFloor' = Raised(seenSeal[Slot].at)
           /\ seenSeal' = [seenSeal EXCEPT ![Slot] = mark]
           /\ sealNext' = Slot

\* A sealed body opens; with refusal off it is not remembered.
Open(b) ==
    /\ sent[b].kind = "seal"
    /\ sealReplay
    /\ OpenPasses(b)
    /\ NoteSealSig(b)
    /\ taken' = taken \cup {b}
    /\ UNCHANGED <<sent, clock, stepped, live, settings, seen, seenRel, flushed>>

(***************************************************************************)
(* The operator, the clock and restarts                                    *)
(***************************************************************************)
\* Turning refusal off empties no cache.
SetRelayReplayRefused ==
    /\ relayReplay' = ~relayReplay
    /\ UNCHANGED <<sent, clock, stepped, live, window, sealReplay, seen, seenRel, sealVars, taken, flushed>>

SetSealReplayRefused ==
    /\ sealReplay' = ~sealReplay
    /\ UNCHANGED <<sent, clock, stepped, live, window, relayReplay, seen, seenRel, sealVars, taken, flushed>>

\* The signer's keys are listed, revoked or replaced.
PeerKeysChange ==
    /\ live' = ~live
    /\ UNCHANGED <<sent, clock, stepped, settings, seen, seenRel, sealVars, taken, flushed>>

ClockTicks ==
    /\ clock < MaxClock
    /\ clock' = clock + 1
    /\ UNCHANGED <<sent, stepped, live, settings, seen, seenRel, sealVars, taken, flushed>>

\* The wall clock is set back; once is enough to lose what is said of it.
StepBack ==
    /\ ~stepped
    /\ clock' \in 0 .. clock - 1
    /\ stepped' = TRUE
    /\ UNCHANGED <<sent, live, settings, seen, seenRel, sealVars, taken, flushed>>

\* A process that starts again: the caches were in memory.
Restart ==
    /\ seen' = {} /\ seenRel' = {}
    /\ seenSeal' = <<>> /\ sealNext' = 0 /\ sealFloor' = 0
    /\ relayReplay' = TRUE /\ sealReplay' = TRUE
    /\ taken' = {} /\ flushed' = {}
    /\ UNCHANGED <<sent, clock, stepped, live, window>>

CachesInit ==
    /\ sent \in [Blocks -> [kind : Kinds, at : Stamps]]
    /\ clock = 0 /\ stepped = FALSE /\ live = TRUE
    /\ window \in Windows
    /\ relayReplay = TRUE /\ sealReplay = TRUE
    /\ seen = {} /\ seenRel = {}
    /\ seenSeal = <<>> /\ sealNext = 0 /\ sealFloor = 0
    /\ taken = {} /\ flushed = {}

CachesNext ==
    \/ \E b \in Blocks : VerifyLogin(b) \/ VerifyRelay(b) \/ Open(b)
    \/ SetRelayReplayRefused \/ SetSealReplayRefused
    \/ PeerKeysChange \/ ClockTicks \/ StepBack \/ Restart

CachesSpec == CachesInit /\ [][CachesNext]_cachesVars

(***************************************************************************)
(* Properties                                                              *)
(***************************************************************************)

\* A login or a relay block that was accepted is never acceptable again in the same run of
\* the hub, however long the wire keeps it and whatever the caches trim, unless its entry
\* was dropped for want of room or the clock was set back.
OnceInWindow ==
    \A b \in taken :
        \/ stepped \/ b \in flushed
        \/ /\ sent[b].kind = "login" => ~LoginPasses(b)
           /\ sent[b].kind = "relay" /\ relayReplay => ~RelayPasses(b)

\* A sealed body that was opened opens again, whatever the clock did, only if the ring
\* has overwritten its entry and its stamp is the very second the floor stands at.
SealOnce ==
    \A b \in taken :
        sent[b].kind = "seal" /\ sealReplay /\ OpenPasses(b) => sent[b].at = sealFloor
===============================================================================
