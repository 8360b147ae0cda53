----------------------------- MODULE P2PmsgTimer -----------------------------
(***************************************************************************)
(* The programmable interval timers of one pump (src/P2Pwin32.cpp): the    *)
(* list m_oCListP2PmsgPit, the identifiers MakeTimerID gives out, and the  *)
(* two kinds of timer a connection arms on its pump's thread: the deadline *)
(* of its login (one shot, cancelled by OnLogin) and the poll of a         *)
(* back-pressure hold (re-armed from its own callback).                    *)
(*                                                                         *)
(* Time counts ticks, Second of them to a second, because the code reads   *)
(* the clock in whole seconds.  A due time is kept relative to the current *)
(* whole second (rel), the true remaining time beside it (left); both stop *)
(* at zero, which no comparison the code makes can tell from the past.     *)
(***************************************************************************)
EXTENDS Integers, Sequences, SequencesExt

CONSTANTS
    Logins,         \* connections with a login deadline
    Polls,          \* connections whose reads may be held
    Restarting,     \* those of them that are restarted once closed (CLIENT)
    NoTimer,        \* "no entry"
    ThreadId,       \* m_nThreadId of the pump
    OtherPumps,     \* thread ids of the other pumps
    IdSpan,         \* 0x100
    CounterMod,     \* 2^16: m_nPitimeID is a USHORT
    MaxTimers,      \* 1024
    Second,         \* ticks per second
    LoginDelay,     \* m_xLoginDeadline, in ticks
    PollDelay       \* DEF_P2PeerConThrottlePoll, in ticks

Owners == Logins \cup Polls

ASSUME OwnersAssumption == Logins \cap Polls = {} /\ Restarting \subseteq Polls
ASSUME IdsAssumption ==
    /\ ThreadId \in Nat \ {0} /\ OtherPumps \subseteq Nat \ {0, ThreadId}
    /\ IdSpan \in Nat \ {0} /\ CounterMod \in Nat \ {0}
ASSUME TimesAssumption ==
    /\ MaxTimers \in Nat /\ Second \in Nat \ {0}
    /\ LoginDelay \in Nat /\ PollDelay \in Nat

VARIABLES
    pit,        \* m_oCListP2PmsgPit
    counter,    \* m_nPitimeID
    firing,     \* the timer GetTimer has removed, its callback not yet run
    phase,      \* ticks since the last whole second
    slot,       \* slot[o]: m_uLoginTimerID or m_uThrottleTimerID, 0 when none
    held,       \* the polls' m_bRecvThrottled
    state       \* state[o]: what became of the timer

vars == <<pit, counter, firing, phase, slot, held, state>>

Ids    == (ThreadId * IdSpan) .. (ThreadId * IdSpan + CounterMod - 1)
Timer  == [id : Ids, own : Owners, rel : Nat, left : Nat]
States == {"off", "pending", "done", "dropped", "closed"}

IdsInPit  == {pit[i].id : i \in 1 .. Len(pit)}
Armed     == {pit[i] : i \in 1 .. Len(pit)} \cup ({firing} \ {NoTimer})

Init ==
    /\ pit = <<>> /\ counter = 0 /\ firing = NoTimer /\ phase = 0
    /\ slot = [o \in Owners |-> 0] /\ held = {} /\ state = [o \in Owners |-> "off"]

-----------------------------------------------------------------------------
(* P2PmsgPump's timer list.                                                *)

Less(n, m) == IF n > m THEN n - m ELSE 0

\* The id the k-th attempt of MakeTimerID forms.
IdAt(k) == (ThreadId * IdSpan) + ((counter + k) % CounterMod)

\* Mutant: an id that is still in use is given out again.
AttemptsFirst(k) == k = 0

\* MakeTimerID tries one id after another until none of the list has it.
Attempts(k) ==
    /\ IdAt(k) \notin IdsInPit
    /\ \A j \in 0 .. k - 1 : IdAt(j) \in IdsInPit

NotLater(s, e) == {i \in 1 .. Len(s) : s[i].rel <= e.rel}

\* Mutant: the new timer goes before the last one that is not later, or else to
\* the head.
PlaceHead(s, e, p) == p = IF Len(s) \in NotLater(s, e) \ {1} THEN Len(s) ELSE 1

\* SetTimer walks from the tail to the last entry that is not later.  GetPrev
\* has then already moved on, so the new timer is put after the entry BEFORE
\* that one; and InsertAfter no position at all appends.
Place(s, e, p) ==
    \/ NotLater(s, e) = {} /\ p = 1
    \/ \E last \in NotLater(s, e) :
          /\ \A i \in NotLater(s, e) : i <= last
          /\ p = IF last = 1 THEN Len(s) + 1 ELSE last

\* SetP2PmsgTimer for owner o, when the list has room.
SetTimer(o, delay) ==
    \E k \in 0 .. CounterMod - 1, p \in 1 .. Len(pit) + 1 :
        LET new == [id |-> IdAt(k), own |-> o, rel |-> delay, left |-> delay]
        IN /\ Attempts(k)
           /\ Place(pit, new, p)
           /\ counter' = (counter + k + 1) % CounterMod
           /\ pit' = InsertAt(pit, p, new)
           /\ slot' = [slot EXCEPT ![o] = IdAt(k)]

HasRoom == Len(pit) <= MaxTimers

-----------------------------------------------------------------------------
(* The connections, on the pump's thread.                                  *)

\* ArmLoginDeadline on an accepted connection.
ArmLogin(o) ==
    /\ firing = NoTimer /\ state[o] = "off" /\ HasRoom
    /\ SetTimer(o, LoginDelay)
    /\ state' = [state EXCEPT ![o] = "pending"]
    /\ UNCHANGED <<firing, phase, held>>

\* HoldRecvForBackpressure under pressure; a connection whose flag is up is
\* taken to be holding already, and nothing is armed.
HoldRecv(o) ==
    /\ firing = NoTimer /\ state[o] = "off" /\ o \notin held /\ HasRoom
    /\ SetTimer(o, PollDelay)
    /\ held' = held \cup {o}
    /\ state' = [state EXCEPT ![o] = "pending"]
    /\ UNCHANGED <<firing, phase>>

\* SetP2PmsgTimer throws when the list is full, and the connection is dropped;
\* the flag of a hold is up by then.
ArmRefused(o) ==
    /\ firing = NoTimer /\ state[o] = "off" /\ o \notin held /\ ~HasRoom
    /\ held' = held \cup ({o} \cap Polls)
    /\ state' = [state EXCEPT ![o] = IF o \in Polls THEN "closed" ELSE "dropped"]
    /\ UNCHANGED <<pit, counter, firing, phase, slot>>

\* A login timer is cancelled because the login came, a poll because the
\* connection closes.  Neither clears m_bRecvThrottled.
Settled(o) == IF o \in Logins THEN "done" ELSE "closed"

\* Mutant: the timer is left in the list.
CancelUnlinked(o) ==
    /\ firing = NoTimer /\ state[o] = "pending"
    /\ slot[o] \div IdSpan = ThreadId /\ slot[o] \in IdsInPit
    /\ slot' = [slot EXCEPT ![o] = 0]
    /\ state' = [state EXCEPT ![o] = Settled(o)]
    /\ UNCHANGED <<pit, counter, firing, phase, held>>

\* CancelP2PmsgTimer finds the pump by the id and the timer in its list; the
\* callback, told it is a cancellation, forgets the id.
Cancel(o) ==
    /\ firing = NoTimer /\ state[o] = "pending"
    /\ slot[o] \div IdSpan = ThreadId
    /\ \E i \in 1 .. Len(pit) : pit[i].id = slot[o] /\ pit' = RemoveAt(pit, i)
    /\ slot' = [slot EXCEPT ![o] = 0]
    /\ state' = [state EXCEPT ![o] = Settled(o)]
    /\ UNCHANGED <<counter, firing, phase, held>>

\* The id leads to another pump, which has no such timer: "already fired".
CancelMisses(o) ==
    /\ firing = NoTimer /\ state[o] = "pending"
    /\ slot[o] \div IdSpan \in OtherPumps
    /\ state' = [state EXCEPT ![o] = Settled(o)]
    /\ UNCHANGED <<pit, counter, firing, phase, slot, held>>

\* It leads to no pump at all: "Corrupted PITimerID", thrown out of OnLogin.
CancelThrows(o) ==
    /\ firing = NoTimer /\ state[o] = "pending"
    /\ slot[o] \div IdSpan \notin OtherPumps \cup {ThreadId}
    /\ state' = [state EXCEPT ![o] = "dropped"]
    /\ UNCHANGED <<pit, counter, firing, phase, slot, held>>

\* Restart, and the next session of the same object.
Reopen(o) ==
    /\ firing = NoTimer /\ o \in Restarting /\ state[o] = "closed"
    /\ state' = [state EXCEPT ![o] = "off"]
    /\ UNCHANGED <<pit, counter, firing, phase, slot, held>>

-----------------------------------------------------------------------------
(* The pump: PollTimer and GetTimer under the global lock, then the        *)
(* callback without it.                                                    *)

\* Mutant: the clock is rounded up to the next second.
GetTimerEarly ==
    /\ firing = NoTimer /\ pit # <<>> /\ Head(pit).rel <= Second
    /\ firing' = Head(pit) /\ pit' = Tail(pit)
    /\ UNCHANGED <<counter, phase, slot, held, state>>

GetTimer ==
    /\ firing = NoTimer /\ pit # <<>> /\ Head(pit).rel <= 0
    /\ firing' = Head(pit) /\ pit' = Tail(pit)
    /\ UNCHANGED <<counter, phase, slot, held, state>>

\* On_PITimer: the login timed out, and the connection is dropped.
LoginTimedOut ==
    /\ firing # NoTimer /\ firing.own \in Logins /\ firing.id = slot[firing.own]
    /\ slot' = [slot EXCEPT ![firing.own] = 0]
    /\ state' = [state EXCEPT ![firing.own] = "dropped"]
    /\ firing' = NoTimer
    /\ UNCHANGED <<pit, counter, phase, held>>

\* The budget has recovered: the read is armed again, if the connection is open.
PollResumes ==
    /\ firing # NoTimer /\ firing.own \in Polls /\ firing.id = slot[firing.own]
    /\ slot' = [slot EXCEPT ![firing.own] = 0]
    /\ state' = [state EXCEPT ![firing.own] = IF @ = "pending" THEN "off" ELSE @]
    /\ held' = held \ {firing.own}
    /\ firing' = NoTimer
    /\ UNCHANGED <<pit, counter, phase>>

\* It has not: look again later.
PollAgain ==
    /\ firing # NoTimer /\ firing.own \in Polls /\ firing.id = slot[firing.own]
    /\ HasRoom
    /\ SetTimer(firing.own, PollDelay)
    /\ firing' = NoTimer
    /\ UNCHANGED <<phase, held, state>>

Tick ==
    /\ phase' = (phase + 1) % Second
    /\ pit' = [i \in DOMAIN pit |->
                 [pit[i] EXCEPT !.left = Less(@, 1),
                                !.rel  = IF phase' = 0 THEN Less(@, Second) ELSE @]]
    /\ UNCHANGED <<counter, firing, slot, held, state>>

Callback == LoginTimedOut \/ PollResumes \/ PollAgain

Next ==
    \/ \E o \in Logins : ArmLogin(o)
    \/ \E o \in Polls : HoldRecv(o) \/ Reopen(o)
    \/ \E o \in Owners : ArmRefused(o) \/ Cancel(o) \/ CancelMisses(o) \/ CancelThrows(o)
    \/ GetTimer \/ Callback \/ Tick

Spec == Init /\ [][Next]_vars

\* Time passes and the pump keeps calling PumpP2Pmsg.
FairSpec == Spec /\ WF_vars(Tick) /\ WF_vars(GetTimer) /\ WF_vars(Callback)

-----------------------------------------------------------------------------
\* Every variable holds a value the code could store in it.
TypeOK ==
    /\ pit \in Seq(Timer) /\ counter \in 0 .. CounterMod - 1
    /\ firing \in Timer \cup {NoTimer} /\ phase \in 0 .. Second - 1
    /\ slot \in [Owners -> Ids \cup {0}] /\ state \in [Owners -> States]
    /\ held \subseteq Polls

\* No two timers of a pump have the same id, so that CancelP2PmsgTimer, which
\* looks for nothing else, takes the caller's own - however often the 16-bit
\* counter has wrapped round.
UniqueIds == \A i, j \in 1 .. Len(pit) : pit[i].id = pit[j].id => i = j

\* The last branch of On_PITimer, "PITimer not handled", is marked SNHappen: a
\* timer that is called back is the one its owner has noted.
CallbackKnown == firing # NoTimer => firing.id = slot[firing.own]

\* SetP2PmsgTimer reads the clock in whole seconds, and so does PollTimer: a
\* timer fires early by less than one second, never more.
NeverASecondEarly == firing # NoTimer => firing.left < Second

\* SECURITY.md: "SetLoginDeadline(ms) drops a peer that connects and never logs
\* in" - every deadline that is armed is called back or cancelled in the end.
DeadlineKept == \A o \in Logins : state[o] = "pending" ~> state[o] # "pending"

\* Two held connections, each with its poll in the list or being called back.
TwoPoll == \E p, q \in Armed : {p.own, q.own} \subseteq Polls /\ p.own # q.own

\* A login deadline is called back or cancelled in the end, whatever one held
\* connection does beside it and however often it polls again.  It is kept
\* waiting for ever only while two of them, again and again, poll together.
DeadlinesCome ==
    \A o \in Logins : (state[o] = "pending" ~> state[o] # "pending") \/ []<>TwoPoll
=============================================================================
