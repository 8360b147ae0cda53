------------------------------ MODULE P2PmsgPump ------------------------------
(***************************************************************************)
(* One P2PmsgPump of src/P2Pwin32.cpp: the FIFO of posted P2Pmsg's, the    *)
(* signal queue, the wake-coalescing flag m_bWakePosted, the completion    *)
(* port (or auto-reset event) the pump thread blocks on, the two critical  *)
(* sections that guard them, and the process-wide budget of live P2Pmsg's. *)
(*                                                                         *)
(* The pump thread is RunHub/RunPump calling PumpP2Pmsg() for ever.  Every *)
(* other thread makes calls, and a call is a short program of steps: which *)
(* steps, in which order and under which lock depends on the entry point.  *)
(*   "con"    PostP2Pmsg(addr,code,msg,con,..)  a connection notification  *)
(*   "msg"    PostP2Pmsg(P2PeerMsg,pump)        one routed message         *)
(*   "batch"  PostP2PmsgBatch                   several under one hold     *)
(*   "sys"    PostP2Pmsg(thread,msg,w,l), the event sinks, SwapContext:    *)
(*            the global lock only                                         *)
(*   "redir"  RedirectP2Pmsg: no lock at all                               *)
(*   "sig"    SignalP2PmsgHub / SignalP2PmsgPump                           *)
(***************************************************************************)
EXTENDS Integers, Sequences, FiniteSets

CONSTANTS
    Posters,        \* the threads that post to the pump
    Pump,           \* the pump's own thread
    NoThread,       \* owner of a free critical section
    Calls,          \* Calls[t]: the entry points poster t uses
    UsesIOCP,       \* TRUE: a hub pump (port); FALSE: a CreateP2PmsgPump pump (event)
    TimeoutFires,   \* FALSE: the 8000 ms of RunHub never elapse
    CanClose,       \* TRUE: a CLOSE signal may be sent, and the pump is deleted
    CanFlush,       \* TRUE: a handler may call FlushP2Pmsg
    SelfPosts,      \* TRUE: a handler may post to its own pump
    SelfSignals,    \* TRUE: a handler may signal its own pump
    MaxLive,        \* s_cP2PmsgMAX
    MaxPumpBatch,   \* kMaxPumpBatch
    BatchSize,      \* nCount of a PostP2PmsgBatch call
    MaxSend,        \* bound: messages per poster
    MaxSig,         \* bound: signals per poster
    MaxQue,         \* bound: FIFO length up to which a handler self-posts
    MaxPit,         \* bound: armed timers
    MaxIo           \* bound: I/O completions on the port at once

CallKinds == {"con", "msg", "batch", "sys", "redir", "sig"}

ASSUME ThreadsAssumption ==
    /\ Pump \notin Posters /\ NoThread \notin Posters /\ NoThread # Pump
    /\ IsFiniteSet(Posters)
ASSUME CallsAssumption   == Calls \in [Posters -> SUBSET CallKinds]
ASSUME FlagsAssumption   ==
    {UsesIOCP, TimeoutFires, CanClose, CanFlush, SelfPosts, SelfSignals}
        \subseteq BOOLEAN
ASSUME BoundsAssumption  ==
    /\ MaxLive \in Nat /\ MaxPumpBatch \in Nat /\ BatchSize \in Nat \ {0}
    /\ MaxSend \in Nat /\ MaxSig \in Nat /\ MaxQue \in Nat
    /\ MaxPit \in Nat /\ MaxIo \in Nat

VARIABLES
    que,            \* m_oCListP2Pmsg
    sigs,           \* m_oCListP2PsigID
    pit,            \* how many timers m_oCListP2PmsgPit holds
    wakePosted,     \* m_bWakePosted
    wakes,          \* key-0 packets on the port; 0/1 state of the event
    ioc,            \* completions of connections on the port
    gcs,            \* owner of s_oCSectionP2PmsgPump
    mcs,            \* owner of m_oCSection
    live,           \* s_cP2Pmsg
    alive,          \* FALSE once the pump has been deleted
    pc,             \* where the pump thread is in PumpP2Pmsg
    mayBlock,       \* dwTimeout # 0
    visit,          \* messages dispatched in this call of PumpP2Pmsg
    flush,          \* cMsg, the countdown of FlushP2Pmsg
    op,             \* op[t]: the call poster t is making
    step,           \* step[t]: the next step of that call
    left,           \* left[t]: messages of the batch still to post
    sent,           \* sent[t]: messages t has put on the FIFO
    signalled,      \* signalled[t]: signals t has sent
    taken           \* taken[t]: messages of t the pump has taken

queVars  == <<que, sigs, pit, wakePosted>>
portVars == <<wakes, ioc>>
csVars   == <<gcs, mcs>>
pumpVars == <<pc, mayBlock, visit, flush>>
callVars == <<op, step, left>>
histVars == <<sent, signalled, taken>>
vars == <<queVars, portVars, csVars, live, alive, pumpVars, callVars, histVars>>

Threads == Posters \cup {Pump}
P2Pmsg  == [from : Threads, n : Nat, con : BOOLEAN]
SigIDs  == {"WAKEUP", "CLOSE"}
Steps   == {"idle", "down", "nest", "check", "make", "add", "wake", "leave"}
PumpPCs == {"top", "down", "get", "clear", "dispatch", "flush", "return",
            "bget", "wait", "io", "blocked", "sig", "closing", "closed"}

-----------------------------------------------------------------------------
(* The order of the steps in each entry point, after the registry lookup.  *)

FirstStep(k) == IF k \in {"con", "batch"} THEN "down"
                ELSE IF k \in {"msg", "sys"} THEN "check"
                ELSE IF k = "sig" THEN "nest" ELSE "add"

AfterMake(k) == IF k = "msg" THEN "down" ELSE "add"
AfterDown(k) == IF k = "msg" THEN "add" ELSE "check"

\* Which steps of which call run under m_oCSection, and under the global lock.
HoldsM(t) ==
    \/ op[t] \in {"con", "batch"} /\ step[t] \in {"check", "make", "add", "wake", "leave"}
    \/ op[t] \in {"msg", "sig"}   /\ step[t] \in {"add", "wake", "leave"}
HoldsG(t) ==
    \/ op[t] \in {"con", "batch"} /\ step[t] = "down"
    \/ op[t] = "msg" /\ step[t] \in {"check", "make", "down"}
    \/ op[t] = "sys" /\ step[t] \in {"check", "make", "add", "wake", "leave"}
    \/ op[t] = "sig" /\ step[t] \in {"nest", "add", "wake", "leave"}

-----------------------------------------------------------------------------
Init ==
    /\ que = <<>> /\ sigs = <<>> /\ pit = 0 /\ wakePosted = FALSE
    /\ wakes = 0 /\ ioc = 0
    /\ gcs = NoThread /\ mcs = NoThread
    /\ live = 0 /\ alive = TRUE
    /\ pc = "top" /\ mayBlock = TRUE /\ visit = 0 /\ flush = 0
    /\ op = [t \in Posters |-> "con"] /\ step = [t \in Posters |-> "idle"]
    /\ left = [t \in Posters |-> 0]
    /\ sent = [t \in Posters |-> 0] /\ signalled = [t \in Posters |-> 0]
    /\ taken = [t \in Posters |-> 0]

-----------------------------------------------------------------------------
(* The posting and signalling threads.                                     *)

Goto(t, s) == step' = [step EXCEPT ![t] = s]

\* P2PmsgPump::Wakeup by a thread other than the pump's own.
Wakeup == wakes' = IF UsesIOCP THEN wakes + 1 ELSE 1

\* The call: take the global lock and look the pump up.  A pump that is gone
\* is not found and the call throws, which leaves everything as it was.
Enter(t, k) ==
    /\ step[t] = "idle" /\ k \in Calls[t] /\ alive
    /\ IF k = "sig" THEN signalled[t] < MaxSig
       ELSE sent[t] + (IF k = "batch" THEN BatchSize ELSE 1) <= MaxSend
    /\ IF k = "redir" THEN UNCHANGED gcs
       ELSE gcs = NoThread /\ gcs' = t
    /\ op' = [op EXCEPT ![t] = k]
    /\ Goto(t, FirstStep(k))
    /\ left' = [left EXCEPT ![t] = IF k = "batch" THEN BatchSize ELSE 1]
    /\ live' = IF k = "redir" THEN live + 1 ELSE live
    /\ UNCHANGED <<queVars, portVars, mcs, alive, pumpVars, histVars>>

\* oSafeCS = pP2PmsgPump->m_oCSection: enter the pump's lock, then leave the
\* global one.
Down(t) ==
    /\ step[t] = "down" /\ mcs = NoThread
    /\ mcs' = t /\ gcs' = NoThread
    /\ Goto(t, AfterDown(op[t]))
    /\ UNCHANGED <<queVars, portVars, live, alive, pumpVars, op, left, histVars>>

\* Mutant: the signaller swaps the global lock for the pump's, as it once did.
NestDowngrade(t) ==
    /\ step[t] = "nest" /\ mcs = NoThread
    /\ mcs' = t /\ gcs' = NoThread
    /\ Goto(t, "add")
    /\ UNCHANGED <<queVars, portVars, live, alive, pumpVars, op, left, histVars>>

\* The signalling calls nest the pump's lock inside the global one instead.
Nest(t) ==
    /\ step[t] = "nest" /\ mcs = NoThread
    /\ mcs' = t
    /\ Goto(t, "add")
    /\ UNCHANGED <<queVars, portVars, gcs, live, alive, pumpVars, op, left, histVars>>

\* The locks a call holds are released as its P2PsafeCS objects unwind.
Unlock(t) ==
    /\ gcs' = IF HoldsG(t) THEN NoThread ELSE gcs
    /\ mcs' = IF HoldsM(t) THEN NoThread ELSE mcs

\* if ( s_cP2Pmsg > s_cP2PmsgMAX ) throw P2Pevent_QUEFULL
Check(t) ==
    /\ step[t] = "check"
    /\ \/ /\ live <= MaxLive
          /\ Goto(t, "make") /\ UNCHANGED csVars
       \/ /\ live > MaxLive
          /\ Goto(t, "idle") /\ Unlock(t)
    /\ UNCHANGED <<queVars, portVars, live, alive, pumpVars, op, left, histVars>>

\* P2PmsgFactory
Make(t) ==
    /\ step[t] = "make"
    /\ live' = live + 1
    /\ Goto(t, AfterMake(op[t]))
    /\ UNCHANGED <<queVars, portVars, csVars, alive, pumpVars, op, left, histVars>>

\* The AddTail of PutP2Pmsg.
Add(t) ==
    /\ step[t] = "add" /\ op[t] # "sig"
    /\ que' = Append(que, [from |-> t, n |-> sent[t] + 1, con |-> op[t] = "con"])
    /\ sent' = [sent EXCEPT ![t] = @ + 1]
    /\ Goto(t, "wake")
    /\ UNCHANGED <<sigs, pit, wakePosted, portVars, csVars, live, alive, pumpVars,
                   op, left, signalled, taken>>

\* The AddTail of SignalP2PmsgHub / SignalP2PmsgPump.
AddSignal(t, s) ==
    /\ step[t] = "add" /\ op[t] = "sig"
    /\ s = "CLOSE" => CanClose
    /\ sigs' = Append(sigs, s)
    /\ signalled' = [signalled EXCEPT ![t] = @ + 1]
    /\ Goto(t, "wake")
    /\ UNCHANGED <<que, pit, wakePosted, portVars, csVars, live, alive, pumpVars,
                   op, left, sent, taken>>

\* The end of PutP2Pmsg: only the first post since the pump last saw an empty
\* FIFO wakes it.  A batch goes back for its next message.
Wake(t) ==
    /\ step[t] = "wake" /\ op[t] # "sig"
    /\ IF wakePosted THEN UNCHANGED <<wakePosted, wakes>>
       ELSE wakePosted' = TRUE /\ Wakeup
    /\ left' = [left EXCEPT ![t] = @ - 1]
    /\ Goto(t, IF left[t] > 1 THEN "check" ELSE "leave")
    /\ UNCHANGED <<que, sigs, pit, ioc, csVars, live, alive, pumpVars, op, histVars>>

\* A signal always wakes.
WakeSignal(t) ==
    /\ step[t] = "wake" /\ op[t] = "sig"
    /\ Wakeup
    /\ Goto(t, "leave")
    /\ UNCHANGED <<queVars, ioc, csVars, live, alive, pumpVars, op, left, histVars>>

Leave(t) ==
    /\ step[t] = "leave"
    /\ Unlock(t) /\ Goto(t, "idle")
    /\ UNCHANGED <<queVars, portVars, live, alive, pumpVars, op, left, histVars>>

Post(t) ==
    \/ \E k \in CallKinds : Enter(t, k)
    \/ Down(t) \/ Nest(t) \/ Check(t) \/ Make(t)
    \/ Add(t) \/ (\E s \in SigIDs : AddSignal(t, s))
    \/ Wake(t) \/ WakeSignal(t) \/ Leave(t)

\* The transport completes an operation of some connection.
IoComplete ==
    /\ UsesIOCP /\ alive /\ ioc < MaxIo
    /\ ioc' = ioc + 1
    /\ UNCHANGED <<queVars, wakes, csVars, live, alive, pumpVars, callVars, histVars>>

-----------------------------------------------------------------------------
(* The pump thread.                                                        *)

\* Under the global lock a due timer is taken ahead of the FIFO.
TopTimer ==
    /\ pc = "top" /\ gcs = NoThread /\ pit > 0
    /\ pit' = pit - 1
    /\ pc' = "dispatch" /\ mayBlock' = FALSE /\ visit' = visit + 1
    /\ UNCHANGED <<que, sigs, wakePosted, portVars, csVars, live, alive, flush,
                   callVars, histVars>>

Top ==
    /\ pc = "top" /\ gcs = NoThread
    /\ gcs' = Pump /\ pc' = "down"
    /\ UNCHANGED <<queVars, portVars, mcs, live, alive, mayBlock, visit, flush,
                   callVars, histVars>>

\* Mutant: the pump reads the FIFO without its lock.
PumpDownUnlocked ==
    /\ pc = "down"
    /\ gcs' = NoThread /\ pc' = "get"
    /\ UNCHANGED <<queVars, portVars, mcs, live, alive, mayBlock, visit, flush,
                   callVars, histVars>>

\* The downgrade from the global lock to m_oCSection.
PumpDown ==
    /\ pc = "down" /\ mcs = NoThread
    /\ mcs' = Pump /\ gcs' = NoThread /\ pc' = "get"
    /\ UNCHANGED <<queVars, portVars, live, alive, mayBlock, visit, flush,
                   callVars, histVars>>

\* GetP2Pmsg finds a message: the lock is left before it is dispatched.
GetMsg ==
    /\ pc = "get" /\ que # <<>>
    /\ que' = Tail(que)
    /\ taken' = IF Head(que).from = Pump THEN taken
                ELSE [taken EXCEPT ![Head(que).from] = Head(que).n]
    /\ mcs' = NoThread
    /\ pc' = "dispatch" /\ mayBlock' = FALSE /\ visit' = visit + 1
    /\ UNCHANGED <<sigs, pit, wakePosted, portVars, gcs, live, alive, flush,
                   callVars, sent, signalled>>

\* GetP2Pmsg finds none ...
GetNone ==
    /\ pc = "get" /\ que = <<>>
    /\ pc' = "clear"
    /\ UNCHANGED <<queVars, portVars, csVars, live, alive, mayBlock, visit, flush,
                   callVars, histVars>>

\* Mutant: the flag is never disarmed.
ClearForgotten ==
    /\ pc = "clear"
    /\ mcs' = NoThread /\ pc' = "wait"
    /\ UNCHANGED <<queVars, portVars, gcs, live, alive, mayBlock, visit, flush,
                   callVars, histVars>>

\* ... and the wake flag is disarmed under the same hold.
Clear ==
    /\ pc = "clear"
    /\ wakePosted' = FALSE /\ mcs' = NoThread /\ pc' = "wait"
    /\ UNCHANGED <<que, sigs, pit, portVars, gcs, live, alive, mayBlock, visit, flush,
                   callVars, histVars>>

\* The pump thread is inside a handler (which flushes the FIFO at most once).
InHandler == pc \in {"dispatch", "return", "io"}

\* A handler posts to its own pump: Wakeup elides the packet.  (When the FIFO
\* is empty TryInlineDispatchP2Pmsg runs the message at once, which changes
\* nothing the pump keeps.)
HandlerPost ==
    /\ InHandler /\ SelfPosts
    /\ gcs = NoThread /\ mcs = NoThread
    /\ live <= MaxLive /\ Len(que) < MaxQue
    /\ que' = Append(que, [from |-> Pump, n |-> 0, con |-> FALSE])
    /\ live' = live + 1 /\ wakePosted' = TRUE
    /\ UNCHANGED <<sigs, pit, portVars, csVars, alive, pumpVars, callVars, histVars>>

\* A handler signals its own pump: here too Wakeup elides the packet.
HandlerSignal ==
    /\ InHandler /\ SelfSignals
    /\ gcs = NoThread /\ mcs = NoThread /\ Len(sigs) < MaxSig
    /\ sigs' = Append(sigs, "WAKEUP")
    /\ UNCHANGED <<que, pit, wakePosted, portVars, csVars, live, alive, pumpVars,
                   callVars, histVars>>

\* A handler arms a timer; SetTimer makes a P2Pmsg without asking the budget.
HandlerArm ==
    /\ InHandler /\ gcs = NoThread /\ pit < MaxPit
    /\ pit' = pit + 1 /\ live' = live + 1
    /\ UNCHANGED <<que, sigs, wakePosted, portVars, csVars, alive, pumpVars,
                   callVars, histVars>>

\* FlushP2Pmsg from a handler, under the global lock only.
FlushBegin ==
    /\ pc = "dispatch" /\ CanFlush /\ gcs = NoThread
    /\ gcs' = Pump /\ flush' = Len(que) /\ pc' = "flush"
    /\ UNCHANGED <<queVars, portVars, mcs, live, alive, mayBlock, visit,
                   callVars, histVars>>

\* One turn of its loop: a message with a connection is released, any other
\* goes back to the tail through PutP2Pmsg.
FlushStep ==
    /\ pc = "flush" /\ flush > 0 /\ que # <<>>
    /\ flush' = flush - 1
    /\ IF Head(que).con
       THEN que' = Tail(que) /\ live' = live - 1 /\ UNCHANGED wakePosted
       ELSE que' = Append(Tail(que), Head(que)) /\ wakePosted' = TRUE /\ UNCHANGED live
    /\ UNCHANGED <<sigs, pit, portVars, csVars, alive, pc, mayBlock, visit,
                   callVars, histVars>>

FlushEnd ==
    /\ pc = "flush" /\ flush = 0
    /\ gcs' = NoThread /\ pc' = "return"
    /\ UNCHANGED <<queVars, portVars, mcs, live, alive, mayBlock, visit, flush,
                   callVars, histVars>>

\* Mutant: the batch counter starts again with every message.
DispatchDoneUnbounded ==
    /\ pc \in {"dispatch", "return"}
    /\ live' = live - 1 /\ pc' = "bget" /\ visit' = 0
    /\ UNCHANGED <<queVars, portVars, csVars, alive, mayBlock, flush,
                   callVars, histVars>>

\* The handler returns, the P2Pmsg is released, and up to kMaxPumpBatch more
\* are drained before the port is looked at.
DispatchDone ==
    /\ pc \in {"dispatch", "return"}
    /\ live' = live - 1
    /\ pc' = IF visit <= MaxPumpBatch THEN "bget" ELSE "wait"
    /\ UNCHANGED <<queVars, portVars, csVars, alive, mayBlock, visit, flush,
                   callVars, histVars>>

BatchGet ==
    /\ pc = "bget" /\ mcs = NoThread
    /\ mcs' = Pump /\ pc' = "get"
    /\ UNCHANGED <<queVars, portVars, gcs, live, alive, mayBlock, visit, flush,
                   callVars, histVars>>

\* GetQueuedCompletionStatus returns a key-0 packet.
TakeWake ==
    /\ pc = "wait" /\ UsesIOCP /\ wakes > 0
    /\ wakes' = wakes - 1 /\ pc' = "sig"
    /\ UNCHANGED <<queVars, ioc, csVars, live, alive, mayBlock, visit, flush,
                   callVars, histVars>>

\* It returns a completion, handed to the connection.
TakeIo ==
    /\ pc = "wait" /\ UsesIOCP /\ ioc > 0
    /\ ioc' = ioc - 1 /\ pc' = "io"
    /\ UNCHANGED <<queVars, wakes, csVars, live, alive, mayBlock, visit, flush,
                   callVars, histVars>>

IoDone ==
    /\ pc = "io"
    /\ pc' = "sig"
    /\ UNCHANGED <<queVars, portVars, csVars, live, alive, mayBlock, visit, flush,
                   callVars, histVars>>

\* The port is empty: at once with a zero timeout, else when it elapses.  An
\* armed timer has shortened it to its own due time.
PortEmpty ==
    /\ pc = "wait" /\ UsesIOCP /\ wakes = 0 /\ ioc = 0
    /\ mayBlock => TimeoutFires \/ pit > 0
    /\ pc' = "sig"
    /\ UNCHANGED <<queVars, portVars, csVars, live, alive, mayBlock, visit, flush,
                   callVars, histVars>>

\* A pump without a port waits on its event, unless a signal is already queued.
EventSkip ==
    /\ pc = "wait" /\ ~UsesIOCP
    /\ ~mayBlock \/ (mcs = NoThread /\ sigs # <<>>)
    /\ pc' = "sig"
    /\ UNCHANGED <<queVars, portVars, csVars, live, alive, mayBlock, visit, flush,
                   callVars, histVars>>

\* Mutant: the queued signals are not looked at before waiting.
EventBlockUnguarded ==
    /\ pc = "wait" /\ ~UsesIOCP /\ mayBlock
    /\ pc' = "blocked"
    /\ UNCHANGED <<queVars, portVars, csVars, live, alive, mayBlock, visit, flush,
                   callVars, histVars>>

EventBlock ==
    /\ pc = "wait" /\ ~UsesIOCP /\ mayBlock /\ mcs = NoThread /\ sigs = <<>>
    /\ pc' = "blocked"
    /\ UNCHANGED <<queVars, portVars, csVars, live, alive, mayBlock, visit, flush,
                   callVars, histVars>>

\* WaitForSingleObject returns; dwTimeout = 0; goto TOP.
EventReturn ==
    /\ pc = "blocked"
    /\ wakes > 0 \/ TimeoutFires \/ pit > 0
    /\ wakes' = 0
    /\ mayBlock' = FALSE /\ pc' = "top"
    /\ UNCHANGED <<queVars, ioc, csVars, live, alive, visit, flush, callVars, histVars>>

\* SigPop, the return to RunHub/RunPump, and its next call of PumpP2Pmsg.
SigPop ==
    /\ pc = "sig" /\ mcs = NoThread
    /\ sigs' = IF sigs = <<>> THEN sigs ELSE Tail(sigs)
    /\ pc' = IF sigs # <<>> /\ Head(sigs) = "CLOSE" THEN "closing" ELSE "top"
    /\ mayBlock' = TRUE /\ visit' = 0
    /\ UNCHANGED <<que, pit, wakePosted, portVars, csVars, live, alive, flush,
                   callVars, histVars>>

\* Mutant: the queues are not drained (the leak ~P2PmsgPump once had).
CloseLeak ==
    /\ pc = "closing" /\ gcs = NoThread
    /\ alive' = FALSE /\ pc' = "closed"
    /\ que' = <<>> /\ pit' = 0 /\ sigs' = <<>> /\ wakes' = 0 /\ ioc' = 0
    /\ UNCHANGED <<wakePosted, csVars, live, mayBlock, visit, flush, callVars, histVars>>

\* CloseP2PmsgHub / CloseP2PmsgPump: under the global lock the pump is deleted
\* and what its queues still hold is released.
Close ==
    /\ pc = "closing" /\ gcs = NoThread
    /\ alive' = FALSE /\ pc' = "closed"
    /\ live' = live - Len(que) - pit
    /\ que' = <<>> /\ pit' = 0 /\ sigs' = <<>> /\ wakes' = 0 /\ ioc' = 0
    /\ UNCHANGED <<wakePosted, csVars, mayBlock, visit, flush, callVars, histVars>>

\* What the pump thread does of its own accord; what its handlers choose to do.
PumpStep ==
    \/ Top \/ PumpDown \/ GetMsg \/ GetNone \/ Clear
    \/ FlushStep \/ FlushEnd \/ DispatchDone \/ BatchGet
    \/ TakeWake \/ TakeIo \/ IoDone \/ PortEmpty
    \/ EventSkip \/ EventBlock \/ EventReturn
    \/ SigPop \/ Close
HandlerStep == HandlerPost \/ HandlerSignal \/ HandlerArm \/ FlushBegin

Next ==
    \/ PumpStep \/ TopTimer \/ HandlerStep \/ IoComplete
    \/ \E t \in Posters : Post(t)

Spec == Init /\ [][Next]_vars

(* Fairness.  The pump thread is scheduled and a thread inside a call        *)
(* finishes it; a thread waiting for a critical section gets it in the end,  *)
(* however often others enter it first (hence SF); and the port hands out    *)
(* packets and completions in arrival order, so neither kind is passed over  *)
(* for ever.  Nobody is obliged to post.                                     *)
Fairness ==
    /\ SF_vars(PumpStep) /\ SF_vars(TakeWake) /\ SF_vars(TakeIo)
    /\ \A t \in Posters : SF_vars(step[t] # "idle" /\ Post(t))
FairSpec == Spec /\ Fairness

-----------------------------------------------------------------------------
FlagsOK == wakePosted \in BOOLEAN /\ alive \in BOOLEAN /\ mayBlock \in BOOLEAN
DataOK ==
    /\ que \in Seq(P2Pmsg) /\ sigs \in Seq(SigIDs)
    /\ pit \in Nat /\ wakes \in Nat /\ ioc \in Nat
    /\ gcs \in Threads \cup {NoThread} /\ mcs \in Threads \cup {NoThread}
    /\ live \in Int
    /\ pc \in PumpPCs /\ visit \in Nat /\ flush \in Nat
    /\ op \in [Posters -> CallKinds] /\ step \in [Posters -> Steps]
    /\ left \in [Posters -> Int]
    /\ sent \in [Posters -> Nat] /\ signalled \in [Posters -> Nat]
    /\ taken \in [Posters -> Nat]
\* Every variable holds a value the code could store in it.
TypeOK == FlagsOK /\ DataOK

\* The pump thread is asleep, or about to sleep, with nothing left to re-check.
Parked == pc \in {"wait", "blocked"} /\ mayBlock

\* Comment at PutP2Pmsg and in PumpP2Pmsg: "there is no window where a message
\* is enqueued without a wake".  A pump that can sleep on a non-empty FIFO has
\* a wake on its port, or a poster is at the very point of sending it.
NoLostWake ==
    Parked /\ que # <<>> =>
        \/ wakes > 0
        \/ \E t \in Posters : step[t] = "wake" /\ op[t] # "sig" /\ ~wakePosted

\* BUGFIXES.md #3: reader and writers of the FIFO "serialise on one lock": no
\* two threads are inside PutP2Pmsg / GetP2Pmsg of one pump at a time.
InPut(t) == op[t] # "sig" /\ step[t] \in {"add", "wake"}
InGet    == pc \in {"get", "clear", "flush"}
FifoSerialised ==
    \A t \in Posters : InPut(t) => ~InGet /\ \A u \in Posters \ {t} : ~InPut(u)

\* s_cP2Pmsg counts exactly the P2Pmsg's that exist: queued, armed as timers,
\* manufactured by a call that has not queued its message yet, or in dispatch.
InHand(t) == \/ op[t] = "msg"  /\ step[t] = "down"
             \/ op[t] # "sig" /\ step[t] = "add"
LiveLedger ==
    live = Len(que) + pit + Cardinality({t \in Posters : InHand(t)})
           + (IF pc \in {"dispatch", "flush", "return"} THEN 1 ELSE 0)

\* SignalP2PmsgHub holds the global lock throughout so that "signal vs destroy
\* [are] mutually exclusive": it never works on a deleted pump.
SignalSafe ==
    \A t \in Posters : op[t] = "sig" /\ step[t] # "idle" => alive

\* As long as signals are queued the pump keeps coming to SigPop, which hands
\* them to RunHub oldest first: each is acted upon, even when handlers never
\* stop signalling their own pump (which sends no wake).
SignalsServed == sigs # <<>> ~> pc = "sig" /\ sigs # <<>>

\* kMaxPumpBatch: "a burst can neither starve Step-3 IO servicing ... and a
\* self-requeueing message cannot spin unbounded".
IoServed == ioc = MaxIo ~> ioc < MaxIo

\* To the threads that post to it the pump is a mailbox: each message is taken
\* once, in the order of posting and with nobody's help.
Delivery == INSTANCE P2PmsgDelivery WITH box <- que
Implements == Delivery!Spec
=============================================================================
