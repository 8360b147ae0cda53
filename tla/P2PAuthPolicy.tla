----------------------------- MODULE P2PAuthPolicy -----------------------------
(***************************************************************************)
(* Whom a hub believes: its allow-list, its revocation list and the lists  *)
(* an authority distributes, across faulty disks, edits by an operator,    *)
(* crashes and restarts.                                                   *)
(*                                                                         *)
(* A key is a point.  Signatures are ideal, so a list on the wire is one   *)
(* its issuer signed; the wire loses, repeats and reorders lists as it     *)
(* likes, for nothing here makes it deliver one.  Every call holds the     *)
(* hub's critical section and is one step, save that a crash may come      *)
(* between the entries of a list being applied.                            *)
(***************************************************************************)
EXTENDS Integers, FiniteSets

CONSTANTS
    Points,       \* the keys there are
    Authorities,  \* those a hub may be told to believe about revocation
    Self,         \* this hub's own identity key
    Lines,        \* pairs <<address, point>> an allow-list may hold
    NoPoint,      \* what m_aAuthority is when there is none
    MaxStale,     \* m_nRevMaxStale, 0 when knowledge never grows stale
    MaxNow        \* bound: the last instant of the clock

ASSUME KeysAssumption ==
    /\ IsFiniteSet(Points) /\ Authorities \subseteq Points /\ Self \in Points /\ NoPoint \notin Points
    /\ \A line \in Lines : line[2] \in Points
    /\ MaxStale \in Nat /\ MaxNow \in Nat \ {0}

VARIABLES
    lists,       \* what authorities published: [issuer, epoch, points]
    revFile,     \* the revocation file: its lines and whether it can be parsed
    allowFile,   \* the allow-list file, likewise
    now,         \* std::time
    phase,       \* the process is down, configures its hub, or runs it
    identity,    \* m_bHaveIdentity
    allowPath, allowUsable, allow,    \* m_pszAllowPath, m_bAllowUsable, m_pAllow
    configured, usable, revoked,      \* m_bRevokeConfigured, m_bRevokeUsable, m_pRevoked
    authority,   \* m_aAuthority, m_bHaveAuthority
    epoch,       \* m_llRevEpoch
    appliedAt,   \* m_tRevApplied
    believed,    \* the authority whose list set the epoch
    known,       \* the points this hub was told to refuse and no operator took back
    struck       \* the points whose lines an operator took out of the file

files      == <<revFile, allowFile>>
allowVars  == <<allowPath, allowUsable, allow>>
revVars    == <<configured, usable, revoked>>
heardVars  == <<authority, epoch, appliedAt, believed>>
ghosts     == <<known, struck>>
vars == <<lists, files, now, phase, identity, allowVars, revVars, heardVars, ghosts>>

Revocations == [issuer : Authorities, epoch : 1 .. Cardinality(Points), points : SUBSET Points]

\* Every variable holds a value the code could store in it.
TypeOK ==
    /\ lists \subseteq Revocations
    /\ revFile \in [points : SUBSET Points, form : {"good", "bad", "missing"}]
    /\ allowFile \in [lines : SUBSET Lines, form : {"good", "bad"}]
    /\ now \in 1 .. MaxNow
    /\ phase \in {"down", "config", "running"}
    /\ {identity, allowPath, allowUsable, configured, usable} \subseteq BOOLEAN
    /\ allow \subseteq Lines /\ revoked \subseteq Points
    /\ authority \in Authorities \cup {NoPoint}
    /\ epoch \in 0 .. Cardinality(Points) /\ appliedAt \in 0 .. MaxNow
    /\ believed \in Authorities \cup {NoPoint}
    /\ known \subseteq Points /\ struck \subseteq Points

(***************************************************************************)
(* What the policy answers                                                 *)
(***************************************************************************)
IsRevocationFresh ==
    \/ MaxStale = 0 \/ authority = NoPoint
    \/ appliedAt # 0 /\ now - appliedAt <= MaxStale

IsRevocationUsable == configured => usable /\ IsRevocationFresh

\* A list that is configured and cannot be trusted revokes every key.
IsRevokedPoint(p) == configured /\ (IsRevocationUsable => p \in revoked)

\* The keys a signature of an address is tried against.
PeerKeys(addr) == {p \in Points : <<addr, p>> \in allow /\ ~IsRevokedPoint(p)}

\* A hub that requires authentication and a revocation position.
ArmOk ==
    /\ identity
    /\ allowPath /\ allowUsable /\ allow # {}
    /\ configured /\ usable

Up == phase # "down"

(***************************************************************************)
(* Files                                                                   *)
(***************************************************************************)
\* AppendRevocationList reads the file whole and renames a longer one over it; it parses
\* nothing, so a bad file stays bad, and a missing one begins with the new lines alone.
Appended(new) ==
    IF new = {} THEN revFile
    ELSE [points |-> revFile.points \cup new,
          form   |-> IF revFile.form = "missing" THEN "good" ELSE revFile.form]

\* Wrong form of the next, for the record of what the properties catch: a file that cannot
\* be parsed leaves the list in force, as it does for the allow-list.
LoadKeepsGoing ==
    IF revFile.form = "good"
    THEN /\ revoked' = revFile.points /\ usable' = TRUE
         /\ known' = known \cup revFile.points /\ struck' = struck \ revFile.points
    ELSE UNCHANGED <<usable, revoked, ghosts>>

Load ==
    IF revFile.form = "good"
    THEN /\ revoked' = revFile.points /\ usable' = TRUE
         /\ known' = known \cup revFile.points /\ struck' = struck \ revFile.points
    ELSE /\ usable' = FALSE
         /\ UNCHANGED <<revoked, ghosts>>

LoadAllow ==
    IF allowFile.form = "good"
    THEN allow' = allowFile.lines /\ allowUsable' = TRUE
    ELSE allow' = allow /\ allowUsable' = FALSE

(***************************************************************************)
(* Configuration                                                           *)
(***************************************************************************)
\* The constructor: what a policy knows before it is configured, and what a process that
\* died leaves to the next one.
Constructed ==
    /\ identity' = FALSE
    /\ allowPath' = FALSE /\ allowUsable' = FALSE /\ allow' = {}
    /\ configured' = FALSE /\ usable' = TRUE /\ revoked' = {}
    /\ authority' = NoPoint /\ epoch' = 0 /\ appliedAt' = 0 /\ believed' = NoPoint

Start ==
    /\ phase = "down"
    /\ phase' = "config"
    /\ Constructed
    /\ UNCHANGED <<lists, files, now, ghosts>>

\* A key already revoked is not installed.
SetIdentity ==
    /\ Up /\ ~IsRevokedPoint(Self)
    /\ identity' = TRUE
    /\ UNCHANGED <<lists, files, now, phase, allowVars, revVars, heardVars, ghosts>>

SetAllowList ==
    /\ Up
    /\ allowPath' = TRUE
    /\ LoadAllow
    /\ UNCHANGED <<lists, files, now, phase, identity, revVars, heardVars, ghosts>>

ReloadAllowList ==
    /\ Up /\ allowPath
    /\ LoadAllow
    /\ UNCHANGED <<lists, files, now, phase, identity, allowPath, revVars, heardVars, ghosts>>

SetRevocationList ==
    /\ Up
    /\ configured' = TRUE
    /\ Load
    /\ UNCHANGED <<lists, files, now, phase, identity, allowVars, heardVars>>

ReloadRevocationList ==
    /\ Up /\ configured
    /\ Load
    /\ UNCHANGED <<lists, files, now, phase, identity, allowVars, configured, heardVars>>

\* Membership is asked, not the policy: a stale or unusable hub can name a new authority.
\* No point at all clears it.
SetRevocationAuthority(p) ==
    /\ Up /\ p \notin revoked
    /\ authority' = p
    /\ UNCHANGED <<lists, files, now, phase, identity, allowVars, revVars, epoch, appliedAt, believed, ghosts>>

\* CreateHub refuses a hub that could not enforce what it is set to require.
CreateHub ==
    /\ phase = "config" /\ ArmOk
    /\ phase' = "running"
    /\ UNCHANGED <<lists, files, now, identity, allowVars, revVars, heardVars, ghosts>>

(***************************************************************************)
(* Lists that an authority distributes                                     *)
(***************************************************************************)
\* An authority publishes its whole list, which only grows, under the count of its entries.
IssueRevocationList(a, s) ==
    /\ s # {} /\ \A l \in lists : l.issuer = a => l.points \subseteq s /\ l.points # s
    /\ lists' = lists \cup {[issuer |-> a, epoch |-> Cardinality(s), points |-> s]}
    /\ UNCHANGED <<files, now, phase, identity, allowVars, revVars, heardVars, ghosts>>

\* The checks before an entry is read: someone to believe, somewhere to put it, and news.
Heeded(l) ==
    /\ Up
    /\ authority # NoPoint /\ configured
    /\ l.issuer = authority
    /\ l.epoch > epoch

New(l) == l.points \ revoked

\* The points reach the file first, and then memory.
AddRevokedPoints(new) ==
    /\ revFile' = Appended(new)
    /\ revoked' = revoked \cup new
    /\ known' = known \cup new
    /\ struck' = struck \ new

\* The whole list is in: it is the epoch, and an authority it revokes is one no more.
Conclude(l) ==
    /\ epoch' = l.epoch
    /\ appliedAt' = now
    /\ believed' = l.issuer
    /\ authority' = IF authority \in revoked' THEN NoPoint ELSE authority

ApplyRevocationList(l) ==
    /\ Heeded(l)
    /\ AddRevokedPoints(New(l))
    /\ Conclude(l)
    /\ UNCHANGED <<lists, allowFile, now, phase, identity, allowVars, configured, usable>>

\* Wrong form of the next: the epoch is reached although entries are missing.
AbandonConcludes(l) == Conclude(l)

\* An entry cannot be made durable: those before it stay, and the epoch is not reached.
AbandonAt(l) == UNCHANGED heardVars

ApplyFails(l, done) ==
    /\ Heeded(l)
    /\ done \subseteq New(l) /\ done # New(l)
    /\ AddRevokedPoints(done)
    /\ usable' = FALSE
    /\ AbandonAt(l)
    /\ UNCHANGED <<lists, allowFile, now, phase, identity, allowVars, configured>>

(***************************************************************************)
(* Crashes, the clock and the operator                                     *)
(***************************************************************************)
Crash ==
    /\ Up
    /\ phase' = "down"
    /\ Constructed
    /\ UNCHANGED <<lists, files, now, ghosts>>

\* What a list had made durable when the process died is a line of the file like any other.
CrashInApply(l, done) ==
    /\ Heeded(l)
    /\ done # {} /\ done \subseteq New(l)
    /\ revFile' = Appended(done)
    /\ known' = known \cup done
    /\ struck' = struck \ done
    /\ phase' = "down"
    /\ Constructed
    /\ UNCHANGED <<lists, allowFile, now>>

Tick ==
    /\ now < MaxNow
    /\ now' = now + 1
    /\ UNCHANGED <<lists, files, phase, identity, allowVars, revVars, heardVars, ghosts>>

\* The operator takes a line out of a file and no longer wants its point refused, or
\* loses the file and every line with it.
Edited(file) ==
    /\ revFile' = file
    /\ struck' = struck \cup (revFile.points \ file.points)
    /\ known' = known \ (revFile.points \ file.points)
    /\ UNCHANGED <<lists, allowFile, now, phase, identity, allowVars, revVars, heardVars>>

EditRevocationFile ==
    \/ \E p \in Points : Edited([points |-> revFile.points \cup {p}, form |-> "good"])
    \/ \E p \in revFile.points : Edited([revFile EXCEPT !.points = @ \ {p}])
    \/ /\ revFile.form # "missing"
       /\ \E form \in {"good", "bad"} : Edited([revFile EXCEPT !.form = form])
    \/ Edited([points |-> {}, form |-> "missing"])

EditAllowFile ==
    /\ \/ \E line \in Lines : allowFile' = [lines |-> allowFile.lines \cup {line}, form |-> "good"]
       \/ \E line \in Lines : allowFile' = [lines |-> allowFile.lines \ {line}, form |-> "bad"]
    /\ UNCHANGED <<lists, revFile, now, phase, identity, allowVars, revVars, heardVars, ghosts>>

Init ==
    /\ lists = {}
    /\ revFile = [points |-> {}, form |-> "good"]
    /\ allowFile = [lines |-> Lines, form |-> "good"]
    /\ now = 1 /\ phase = "down"
    /\ identity = FALSE
    /\ allowPath = FALSE /\ allowUsable = FALSE /\ allow = {}
    /\ configured = FALSE /\ usable = TRUE /\ revoked = {}
    /\ authority = NoPoint /\ epoch = 0 /\ appliedAt = 0 /\ believed = NoPoint
    /\ known = {} /\ struck = {}

Next ==
    \/ Start \/ SetIdentity \/ SetAllowList \/ ReloadAllowList
    \/ SetRevocationList \/ ReloadRevocationList \/ CreateHub
    \/ \E p \in Authorities \cup {NoPoint} : SetRevocationAuthority(p)
    \/ \E a \in Authorities, s \in SUBSET Points : IssueRevocationList(a, s)
    \/ \E l \in lists : \/ ApplyRevocationList(l)
                        \/ \E done \in SUBSET l.points : ApplyFails(l, done) \/ CrashInApply(l, done)
    \/ Crash \/ Tick \/ EditRevocationFile \/ EditAllowFile

Spec == Init /\ [][Next]_vars

(***************************************************************************)
(* Properties                                                              *)
(***************************************************************************)

\* A hub that runs tries no signature against a point it was ever told to refuse, by its
\* file or by a list, across faults of the disk, crashes and restarts, for as long as no
\* operator takes the line back.
RevokedStays ==
    phase = "running" => \A addr \in {line[1] : line \in Lines} : PeerKeys(addr) \cap known = {}

\* The epoch says what is held: every list of the same authority up to it is in force,
\* entry by entry, apart from what an operator took out since.
EpochCovers ==
    Up => \A l \in lists : l.issuer = believed /\ l.epoch <= epoch => l.points \subseteq revoked \cup struck

===============================================================================
