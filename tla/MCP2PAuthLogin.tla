---------------------------- MODULE MCP2PAuthLogin ----------------------------
(***************************************************************************)
(* One policy object (class P2PAuthPolicy): whom it believes and what it   *)
(* remembers having taken.  The two halves share no variable, so each is   *)
(* explored with the other at rest in one initial state and not in the     *)
(* product of both; a run is of one half from its start.                   *)
(***************************************************************************)
EXTENDS P2PAuthPolicy, P2PAuthReplay, TLC

\* One address, listed with every key that is not the hub's own.
MCLines == {<<"peer", p>> : p \in Points \ {Self}}

\* Blocks differ by nothing but what they are in a state.
Symmetry == Permutations(Blocks)

VARIABLE half  \* the half this run explores

OfPolicy == half = "policy" /\ UNCHANGED <<half, cachesVars>>
OfCaches == half = "caches" /\ UNCHANGED <<half, vars>>

PolicyMoves ==
    \/ OfPolicy /\ Start
    \/ OfPolicy /\ SetIdentity
    \/ OfPolicy /\ SetAllowList
    \/ OfPolicy /\ ReloadAllowList
    \/ OfPolicy /\ SetRevocationList
    \/ OfPolicy /\ ReloadRevocationList
    \/ OfPolicy /\ CreateHub
    \/ \E p \in Authorities \cup {NoPoint} : OfPolicy /\ SetRevocationAuthority(p)
    \/ \E a \in Authorities, s \in SUBSET Points : OfPolicy /\ IssueRevocationList(a, s)
    \/ \E l \in lists :
         \/ OfPolicy /\ ApplyRevocationList(l)
         \/ \E done \in SUBSET l.points : OfPolicy /\ ApplyFails(l, done)
         \/ \E done \in SUBSET l.points : OfPolicy /\ CrashInApply(l, done)
    \/ OfPolicy /\ Crash
    \/ OfPolicy /\ Tick
    \/ OfPolicy /\ EditRevocationFile
    \/ OfPolicy /\ EditAllowFile

CachesMove ==
    \/ \E b \in Blocks : OfCaches /\ VerifyLogin(b)
    \/ \E b \in Blocks : OfCaches /\ VerifyRelay(b)
    \/ \E b \in Blocks : OfCaches /\ Open(b)
    \/ OfCaches /\ SetRelayReplayRefused
    \/ OfCaches /\ SetSealReplayRefused
    \/ OfCaches /\ PeerKeysChange
    \/ OfCaches /\ ClockTicks
    \/ OfCaches /\ StepBack
    \/ OfCaches /\ Restart

AuthInit ==
    /\ Init /\ CachesInit
    /\ \/ half = "caches"
       \/ /\ half = "policy" /\ window = 0
          /\ \A b \in Blocks : sent[b] = [kind |-> "login", at |-> 1]

AuthNext == PolicyMoves \/ CachesMove
AuthSpec == AuthInit /\ [][AuthNext]_<<half, vars, cachesVars>>
===============================================================================
