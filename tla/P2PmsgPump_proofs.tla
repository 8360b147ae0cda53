-------------------------- MODULE P2PmsgPump_proofs --------------------------
(***************************************************************************)
(* Theorems about P2PmsgPump, for any set of posting threads and any bound.*)
(*                                                                         *)
(* The inductive invariant has four parts besides the types: which locks a *)
(* thread holds at each step (LockInv), which steps each entry point can   *)
(* be at (CallInv), that a signaller finds the pump alive (SignalSafe),    *)
(* and what m_bWakePosted means to a pump about to sleep (WakeInv).  Only  *)
(* the last needs the posting threads to hold m_oCSection.                 *)
(***************************************************************************)
EXTENDS P2PmsgPump, SequenceTheorems, FiniteSetTheorems, TLAPS

\* A poster at this step of this call, never at any other.
CallInv ==
    \A t \in Posters :
        /\ step[t] = "down" => op[t] \in {"con", "batch", "msg"}
        /\ step[t] = "nest" => op[t] = "sig"
        /\ step[t] \in {"check", "make"} => op[t] \in {"con", "batch", "msg", "sys"}
        /\ op[t] # "batch" => left[t] <= 1

\* Whoever is at a step that runs under a lock owns it.
LockInv ==
    /\ \A t \in Posters : HoldsM(t) => mcs = t
    /\ \A t \in Posters : HoldsG(t) => gcs = t
    /\ pc \in {"get", "clear"} => mcs = Pump
    /\ pc \in {"down", "flush"} => gcs = Pump

LEMMA TypeInit == Init => TypeOK
<1> SUFFICES ASSUME Init PROVE TypeOK
  OBVIOUS
<1>1. FlagsOK
  BY Zenon DEF Init, FlagsOK
<1>2. que \in Seq(P2Pmsg) /\ sigs \in Seq(SigIDs)
  BY EmptySeq DEF Init
<1>3. DataOK
  BY <1>2 DEF Init, DataOK, CallKinds, Steps, PumpPCs, Threads
<1> QED BY <1>1, <1>3 DEF TypeOK

\* The three flags only ever become TRUE, FALSE or stay.
LEMMA FlagsStep == FlagsOK /\ [Next]_vars => FlagsOK'
<1> SUFFICES ASSUME FlagsOK, [Next]_vars PROVE FlagsOK'
  OBVIOUS
<1> USE DEF FlagsOK, queVars, pumpVars
<1>1. ASSUME NEW t \in Posters, Post(t) PROVE FlagsOK'
  BY <1>1, Zenon DEF Post, Enter, Down, Nest, Check, Make, Add, AddSignal, Wake,
     WakeSignal, Leave
<1>2. CASE HandlerStep
  BY <1>2, Zenon DEF HandlerStep, HandlerPost, HandlerSignal, HandlerArm, FlushBegin
<1>3. CASE Top \/ PumpDown \/ GetMsg \/ GetNone \/ Clear \/ FlushStep \/ FlushEnd
  BY <1>3, Zenon DEF Top, PumpDown, GetMsg, GetNone, Clear, FlushStep, FlushEnd
<1>4. CASE DispatchDone \/ BatchGet \/ TakeWake \/ TakeIo \/ IoDone \/ PortEmpty
  BY <1>4, Zenon DEF DispatchDone, BatchGet, TakeWake, TakeIo, IoDone, PortEmpty
<1>5. CASE EventSkip \/ EventBlock \/ EventReturn \/ SigPop \/ Close
  BY <1>5, Zenon DEF EventSkip, EventBlock, EventReturn, SigPop, Close
<1>6. CASE IoComplete \/ TopTimer \/ UNCHANGED vars
  BY <1>6, Zenon DEF IoComplete, TopTimer, vars
<1> QED
  BY <1>1, <1>2, <1>3, <1>4, <1>5, <1>6 DEF Next, PumpStep

LEMMA DataStep == DataOK /\ [Next]_vars => DataOK'
<1> SUFFICES ASSUME DataOK, [Next]_vars PROVE DataOK'
  OBVIOUS
<1> USE DEF DataOK, Steps, PumpPCs, Goto, queVars, portVars, csVars, pumpVars,
            callVars, histVars
<1>1. ASSUME NEW t \in Posters, NEW k \in CallKinds, Enter(t, k) PROVE DataOK'
  BY <1>1, BoundsAssumption, SMTT(30) DEF Enter, FirstStep, Threads, CallKinds
<1>2. ASSUME NEW t \in Posters, Down(t) PROVE DataOK'
  BY <1>2 DEF Down, AfterDown, Threads
<1>3. ASSUME NEW t \in Posters, Nest(t) PROVE DataOK'
  BY <1>3 DEF Nest, Threads
<1>4. ASSUME NEW t \in Posters, Check(t) PROVE DataOK'
  BY <1>4 DEF Check, Unlock
<1>5. ASSUME NEW t \in Posters, Make(t) PROVE DataOK'
  BY <1>5 DEF Make, AfterMake
<1>6. ASSUME NEW t \in Posters, Add(t) PROVE DataOK'
  <2>1. [from |-> t, n |-> sent[t] + 1, con |-> op[t] = "con"] \in P2Pmsg
    BY DEF P2Pmsg, Threads
  <2> QED BY <1>6, <2>1, AppendProperties DEF Add
<1>7. ASSUME NEW t \in Posters, NEW s \in SigIDs, AddSignal(t, s) PROVE DataOK'
  BY <1>7, AppendProperties, SMTT(30) DEF AddSignal
<1>8. ASSUME NEW t \in Posters, Wake(t) PROVE DataOK'
  BY <1>8 DEF Wake, Wakeup
<1>9. ASSUME NEW t \in Posters, WakeSignal(t) PROVE DataOK'
  BY <1>9 DEF WakeSignal, Wakeup
<1>10. ASSUME NEW t \in Posters, Leave(t) PROVE DataOK'
  BY <1>10 DEF Leave, Unlock
<1>11. CASE IoComplete
  BY <1>11 DEF IoComplete
<1>12. CASE TopTimer
  BY <1>12 DEF TopTimer
<1>13. CASE HandlerStep
  <2>1. [from |-> Pump, n |-> 0, con |-> FALSE] \in P2Pmsg
    BY DEF P2Pmsg, Threads
  <2>2. CASE HandlerPost
    BY <2>1, <2>2, AppendProperties DEF HandlerPost
  <2>3. CASE HandlerSignal
    BY <2>3, AppendProperties DEF HandlerSignal, SigIDs
  <2>4. CASE HandlerArm
    BY <2>4 DEF HandlerArm
  <2>5. CASE FlushBegin
    BY <2>5 DEF FlushBegin, Threads
  <2> QED BY <1>13, <2>2, <2>3, <2>4, <2>5 DEF HandlerStep
<1>14. CASE PumpStep
  <2>1. CASE Top \/ PumpDown \/ GetNone \/ Clear \/ BatchGet
    BY <2>1 DEF Top, PumpDown, GetNone, Clear, BatchGet, Threads
  <2>2. CASE GetMsg
    <3>1. Head(que) \in P2Pmsg /\ Tail(que) \in Seq(P2Pmsg)
      BY <2>2, HeadTailProperties DEF GetMsg
    <3>2. Head(que).from \in Threads /\ Head(que).n \in Nat
      BY <3>1 DEF P2Pmsg
    <3>3. taken' \in [Posters -> Nat]
      BY <2>2, <3>2 DEF GetMsg, Threads
    <3>4. que' \in Seq(P2Pmsg)
      BY <2>2, <3>1 DEF GetMsg
    <3>5. /\ UNCHANGED <<sigs, pit, wakePosted, wakes, ioc, gcs, live, alive, flush,
                         op, step, left, sent, signalled>>
          /\ mcs' = NoThread /\ pc' = "dispatch" /\ visit' = visit + 1
      BY <2>2 DEF GetMsg
    <3> QED BY <3>3, <3>4, <3>5
  <2>3. CASE FlushStep
    <3>1. Head(que) \in P2Pmsg /\ Tail(que) \in Seq(P2Pmsg)
      BY <2>3, HeadTailProperties DEF FlushStep
    <3>2. Append(Tail(que), Head(que)) \in Seq(P2Pmsg)
      BY <3>1, AppendProperties
    <3>3. CASE Head(que).con
      <4>1. que' = Tail(que) /\ live' = live - 1
        BY <2>3, <3>3 DEF FlushStep
      <4> QED BY <2>3, <3>1, <4>1 DEF FlushStep
    <3>4. CASE ~Head(que).con
      <4>1. que' = Append(Tail(que), Head(que)) /\ live' = live
        BY <2>3, <3>4 DEF FlushStep
      <4> QED BY <2>3, <3>2, <4>1 DEF FlushStep
    <3> QED BY <3>3, <3>4
  <2>4. CASE FlushEnd \/ DispatchDone \/ TakeWake \/ TakeIo \/ IoDone \/ PortEmpty
    BY <2>4 DEF FlushEnd, DispatchDone, TakeWake, TakeIo, IoDone, PortEmpty
  <2>5. CASE EventSkip \/ EventBlock \/ EventReturn
    BY <2>5 DEF EventSkip, EventBlock, EventReturn
  <2>6. CASE SigPop
    <3>1. sigs # <<>> => Tail(sigs) \in Seq(SigIDs)
      BY HeadTailProperties
    <3> QED BY <2>6, <3>1 DEF SigPop
  <2>7. CASE Close
    BY <2>7 DEF Close
  <2> QED BY <1>14, <2>1, <2>2, <2>3, <2>4, <2>5, <2>6, <2>7 DEF PumpStep
<1>15. CASE UNCHANGED vars
  BY <1>15 DEF vars
<1> QED
  BY <1>1, <1>2, <1>3, <1>4, <1>5, <1>6, <1>7, <1>8, <1>9, <1>10, <1>11, <1>12,
     <1>13, <1>14, <1>15 DEF Next, Post

\* Every variable keeps its type: queues hold messages and signals, locks have
\* one owner or none, and the pump thread is at a point of PumpP2Pmsg.
THEOREM TypeCorrect == Spec => []TypeOK
<1>1. Init => TypeOK
  BY TypeInit
<1>2. TypeOK /\ [Next]_vars => TypeOK'
  BY FlagsStep, DataStep DEF TypeOK
<1> QED BY <1>1, <1>2, PTL DEF Spec

-----------------------------------------------------------------------------
(* Locks.                                                                  *)

LEMMA CallStart == Init => CallInv /\ LockInv /\ SignalSafe
  BY DEF Init, CallInv, LockInv, SignalSafe, HoldsM, HoldsG

\* The pump thread and the transport leave the posters' calls alone.
LEMMA PumpKeepsCalls ==
  PumpStep \/ TopTimer \/ HandlerStep \/ IoComplete => UNCHANGED callVars
  BY DEF PumpStep, TopTimer, HandlerStep, IoComplete, Top, PumpDown, GetMsg, GetNone,
     Clear, FlushStep, FlushEnd, DispatchDone, BatchGet, TakeWake, TakeIo, IoDone,
     PortEmpty, EventSkip, EventBlock, EventReturn, SigPop, Close, HandlerPost,
     HandlerSignal, HandlerArm, FlushBegin, callVars

\* A poster moves nobody else's call, and not the pump thread.
LEMMA PostLocal ==
  ASSUME TypeOK, NEW t \in Posters, Post(t)
  PROVE  /\ UNCHANGED <<pc, mayBlock, alive>>
         /\ \A u \in Posters \ {t} :
                op'[u] = op[u] /\ step'[u] = step[u] /\ left'[u] = left[u]
  BY DEF TypeOK, DataOK, Post, Enter, Down, Nest, Check, Make, Add, AddSignal, Wake,
     WakeSignal, Leave, Goto, pumpVars

LEMMA CallInvStep == TypeOK /\ CallInv /\ [Next]_vars => CallInv'
<1> SUFFICES ASSUME TypeOK, CallInv, [Next]_vars PROVE CallInv'
  OBVIOUS
<1>1. CASE PumpStep \/ TopTimer \/ HandlerStep \/ IoComplete
  BY <1>1, PumpKeepsCalls DEF CallInv, callVars
<1>2. CASE UNCHANGED vars
  BY <1>2 DEF vars, callVars, CallInv
<1>3. ASSUME NEW t \in Posters, Post(t) PROVE CallInv'
  <2> DEFINE P == /\ step'[t] = "down" => op'[t] \in {"con", "batch", "msg"}
                  /\ step'[t] = "nest" => op'[t] = "sig"
                  /\ step'[t] \in {"check", "make"} => op'[t] \in {"con", "batch", "msg", "sys"}
                  /\ op'[t] # "batch" => left'[t] <= 1
  <2> USE DEF TypeOK, DataOK, CallInv, Goto
  <2>1. ASSUME NEW k \in CallKinds, Enter(t, k) PROVE P
    BY <2>1, BoundsAssumption DEF Enter, FirstStep, CallKinds
  <2>2. CASE Down(t) \/ Nest(t) \/ Check(t) \/ Make(t)
    BY <2>2 DEF Down, Nest, Check, Make, AfterDown, AfterMake
  <2>3. CASE Add(t) \/ (\E s \in SigIDs : AddSignal(t, s)) \/ WakeSignal(t) \/ Leave(t)
    BY <2>3 DEF Add, AddSignal, WakeSignal, Leave
  <2>4. CASE Wake(t)
    BY <2>4 DEF Wake
  <2>5. P
    BY <1>3, <2>1, <2>2, <2>3, <2>4 DEF Post
  <2> HIDE DEF P
  <2>6. \A u \in Posters \ {t} :
            op'[u] = op[u] /\ step'[u] = step[u] /\ left'[u] = left[u]
    BY <1>3, PostLocal
  <2> QED BY <2>5, <2>6 DEF P
<1> QED BY <1>1, <1>2, <1>3 DEF Next

\* A poster enters a section only when it is free, holds it while its step says
\* so and frees only its own; the pump likewise.
LEMMA LockInvStep == TypeOK /\ CallInv /\ LockInv /\ [Next]_vars => LockInv'
<1> SUFFICES ASSUME TypeOK, CallInv, LockInv, [Next]_vars PROVE LockInv'
  OBVIOUS
<1> USE ThreadsAssumption
<1>1. CASE IoComplete \/ TopTimer \/ HandlerStep
  <2>1. UNCHANGED callVars
    BY <1>1, PumpKeepsCalls
  <2>2. /\ UNCHANGED mcs
        /\ gcs' = gcs \/ (gcs = NoThread /\ gcs' = Pump)
        /\ pc' \in {"get", "clear", "down"} => pc' = pc
        /\ pc' = "flush" => gcs' = Pump
    BY <1>1 DEF IoComplete, TopTimer, HandlerStep, HandlerPost, HandlerSignal,
       HandlerArm, FlushBegin, InHandler, csVars, pumpVars, LockInv
  <2> QED BY <2>1, <2>2 DEF LockInv, HoldsM, HoldsG, callVars
<1>2. CASE PumpStep
  <2>1. UNCHANGED callVars
    BY <1>2, PumpKeepsCalls
  <2>2. \/ gcs' = gcs
        \/ gcs = NoThread /\ gcs' = Pump
        \/ gcs = Pump /\ gcs' = NoThread /\ pc' \notin {"down", "flush"}
    BY <1>2 DEF LockInv, PumpStep, Top, PumpDown, GetMsg, GetNone, Clear, FlushStep,
       FlushEnd, DispatchDone, BatchGet, TakeWake, TakeIo, IoDone, PortEmpty,
       EventSkip, EventBlock, EventReturn, SigPop, Close, csVars
  <2>3. \/ mcs' = mcs
        \/ mcs = NoThread /\ mcs' = Pump
        \/ mcs = Pump /\ mcs' = NoThread /\ pc' \notin {"get", "clear"}
    BY <1>2 DEF LockInv, PumpStep, Top, PumpDown, GetMsg, GetNone, Clear, FlushStep,
       FlushEnd, DispatchDone, BatchGet, TakeWake, TakeIo, IoDone, PortEmpty,
       EventSkip, EventBlock, EventReturn, SigPop, Close, csVars
  <2>4. /\ pc' \in {"get", "clear"} => mcs' = Pump
        /\ pc' \in {"down", "flush"} => gcs' = Pump
    BY <1>2 DEF LockInv, PumpStep, Top, PumpDown, GetMsg, GetNone, Clear, FlushStep,
       FlushEnd, DispatchDone, BatchGet, TakeWake, TakeIo, IoDone, PortEmpty,
       EventSkip, EventBlock, EventReturn, SigPop, Close, csVars
  <2> QED BY <2>1, <2>2, <2>3, <2>4 DEF LockInv, HoldsM, HoldsG, callVars
<1>3. CASE UNCHANGED vars
  BY <1>3 DEF vars, callVars, csVars, pumpVars, LockInv, HoldsM, HoldsG
<1>4. ASSUME NEW t \in Posters, Post(t) PROVE LockInv'
  <2>1. /\ gcs' = gcs \/ (gcs = NoThread /\ gcs' = t) \/ (HoldsG(t) /\ gcs' = NoThread)
        /\ mcs' = mcs \/ (mcs = NoThread /\ mcs' = t) \/ (HoldsM(t) /\ mcs' = NoThread)
    BY <1>4 DEF CallInv, HoldsG, HoldsM, Post, Enter, Down, Nest, Check, Make, Add,
       AddSignal, Wake, WakeSignal, Leave, Unlock, csVars
  <2>2. HoldsG(t)' => gcs' = t
    BY <1>4, <2>1 DEF TypeOK, DataOK, LockInv, CallInv, HoldsG, HoldsM, Post, Enter,
       FirstStep, Down, AfterDown, Nest, Check, Make, AfterMake, Add, AddSignal, Wake,
       WakeSignal, Leave, Unlock, csVars, Goto
  <2>3. HoldsM(t)' => mcs' = t
    BY <1>4, <2>1 DEF TypeOK, DataOK, LockInv, CallInv, HoldsG, HoldsM, Post, Enter,
       FirstStep, Down, AfterDown, Nest, Check, Make, AfterMake, Add, AddSignal, Wake,
       WakeSignal, Leave, Unlock, csVars, Goto
  <2>4. \A u \in Posters \ {t} : op'[u] = op[u] /\ step'[u] = step[u]
    BY <1>4, PostLocal
  <2>5. pc' = pc
    BY <1>4, PostLocal
  <2> QED BY <2>1, <2>2, <2>3, <2>4, <2>5 DEF LockInv, HoldsM, HoldsG
<1> QED BY <1>1, <1>2, <1>3, <1>4 DEF Next

\* A signaller holds the global lock from its lookup to its wake, and the pump
\* is deleted under that lock.
LEMMA SignalSafeStep ==
  TypeOK /\ CallInv /\ LockInv /\ SignalSafe /\ [Next]_vars => SignalSafe'
<1> SUFFICES ASSUME TypeOK, CallInv, LockInv, SignalSafe, [Next]_vars PROVE SignalSafe'
  OBVIOUS
<1>1. CASE Close
  <2>1. \A t \in Posters : op[t] = "sig" => step[t] = "idle"
    BY <1>1, ThreadsAssumption DEF Close, LockInv, CallInv, HoldsG, TypeOK, DataOK, Steps
  <2> QED BY <1>1, <2>1 DEF Close, SignalSafe, callVars
<1>2. CASE (PumpStep /\ ~Close) \/ TopTimer \/ HandlerStep \/ IoComplete
  <2>1. UNCHANGED callVars
    BY <1>2, PumpKeepsCalls
  <2>2. alive' = alive
    BY <1>2 DEF PumpStep, TopTimer, HandlerStep, IoComplete, Top, PumpDown, GetMsg,
       GetNone, Clear, FlushStep, FlushEnd, DispatchDone, BatchGet, TakeWake, TakeIo,
       IoDone, PortEmpty, EventSkip, EventBlock, EventReturn, SigPop, HandlerPost,
       HandlerSignal, HandlerArm, FlushBegin
  <2> QED BY <2>1, <2>2 DEF SignalSafe, callVars
<1>3. CASE UNCHANGED vars
  BY <1>3 DEF vars, callVars, SignalSafe
<1>4. ASSUME NEW t \in Posters, Post(t) PROVE SignalSafe'
  <2>1. op'[t] = "sig" /\ step'[t] # "idle" => alive
    BY <1>4 DEF TypeOK, DataOK, SignalSafe, Post, Enter, Down, Nest, Check, Make, Add,
       AddSignal, Wake, WakeSignal, Leave, Goto
  <2> QED BY <1>4, <2>1, PostLocal DEF SignalSafe
<1> QED BY <1>1, <1>2, <1>3, <1>4 DEF Next

\* For every set of posters, every choice of entry points and every bound.
THEOREM SignalsFindThePump == Spec => []SignalSafe
<1> DEFINE I == TypeOK /\ CallInv /\ LockInv /\ SignalSafe
<1>1. Init => I
  BY TypeInit, CallStart
<1>2. I /\ [Next]_vars => I'
  BY FlagsStep, DataStep, CallInvStep, LockInvStep, SignalSafeStep DEF TypeOK
<1>3. I => SignalSafe
  OBVIOUS
<1> QED BY <1>1, <1>2, <1>3, PTL DEF Spec

-----------------------------------------------------------------------------
(* Wakes.  The two results of this part assume that no thread posts through *)
(* an entry point that does without m_oCSection.                           *)

PumpLockOnly == \A t \in Posters : Calls[t] \cap {"sys", "redir"} = {}

\* What m_bWakePosted means.  The pump disarms it only when it has seen the FIFO
\* empty and nobody can have posted since; a pump that may sleep with the flag
\* armed has been sent a packet; one that may sleep on a non-empty FIFO with the
\* flag disarmed owes it to a poster between its AddTail and its Wakeup.
WakeInv ==
    /\ \A t \in Posters : op[t] \notin {"sys", "redir"}
    /\ pc = "clear" => que = <<>>
    /\ pc \in {"dispatch", "flush", "return"} => ~mayBlock
    /\ Parked /\ wakePosted => wakes > 0
    /\ Parked /\ que # <<>> /\ ~wakePosted =>
           \E t \in Posters : step[t] = "wake" /\ op[t] # "sig"

LEMMA WakeInvStep ==
  ASSUME PumpLockOnly
  PROVE  TypeOK /\ CallInv /\ LockInv /\ WakeInv /\ [Next]_vars => WakeInv'
<1> SUFFICES ASSUME TypeOK, CallInv, LockInv, WakeInv, [Next]_vars PROVE WakeInv'
  OBVIOUS
<1> USE ThreadsAssumption
<1>1. CASE PumpStep \/ TopTimer \/ HandlerStep \/ IoComplete
  <2>1. UNCHANGED callVars
    BY <1>1, PumpKeepsCalls
  <2>2. CASE HandlerPost \/ HandlerSignal \/ HandlerArm \/ FlushBegin
    BY <2>1, <2>2 DEF WakeInv, Parked, InHandler, HandlerPost, HandlerSignal, HandlerArm,
       FlushBegin, callVars, pumpVars, queVars, portVars
  <2>3. CASE Top \/ TopTimer \/ PumpDown \/ GetMsg \/ GetNone \/ Clear \/ BatchGet
    BY <2>1, <2>3 DEF WakeInv, Parked, Top, TopTimer, PumpDown, GetMsg, GetNone, Clear,
       BatchGet, callVars, queVars, portVars
  <2>4. CASE FlushStep \/ FlushEnd \/ DispatchDone
    BY <2>1, <2>4 DEF WakeInv, Parked, FlushStep, FlushEnd, DispatchDone, callVars,
       queVars, portVars
  <2>5. CASE TakeWake \/ TakeIo \/ IoDone \/ PortEmpty \/ SigPop \/ Close
    BY <2>1, <2>5 DEF WakeInv, Parked, TakeWake, TakeIo, IoDone, PortEmpty, SigPop,
       Close, callVars, queVars, portVars
  <2>6. CASE EventSkip \/ EventBlock \/ EventReturn \/ IoComplete
    BY <2>1, <2>6 DEF WakeInv, Parked, EventSkip, EventBlock, EventReturn, IoComplete,
       callVars, queVars, portVars, pumpVars
  <2> QED BY <1>1, <2>2, <2>3, <2>4, <2>5, <2>6 DEF PumpStep, HandlerStep
<1>2. CASE UNCHANGED vars
  BY <1>2 DEF WakeInv, Parked, vars, queVars, portVars, pumpVars, callVars
<1>3. ASSUME NEW t \in Posters, Post(t) PROVE WakeInv'
  <2>1. UNCHANGED <<pc, mayBlock, alive>>
    BY <1>3, PostLocal
  <2>2. \A u \in Posters \ {t} : op'[u] = op[u] /\ step'[u] = step[u]
    BY <1>3, PostLocal
  <2>3. op'[t] \notin {"sys", "redir"}
    BY <1>3 DEF PumpLockOnly, WakeInv, TypeOK, DataOK, Post, Enter, Down, Nest, Check,
       Make, Add, AddSignal, Wake, WakeSignal, Leave
  <2>4. CASE Add(t)
    <3>1. HoldsM(t) /\ step'[t] = "wake" /\ op'[t] # "sig"
      BY <2>4 DEF Add, Goto, HoldsM, WakeInv, TypeOK, DataOK, CallKinds
    <3>2. pc # "clear"
      BY <3>1 DEF LockInv
    <3> QED
      BY <2>1, <2>2, <2>3, <2>4, <3>1, <3>2 DEF Add, WakeInv, Parked, portVars
  <2>5. CASE Wake(t) \/ WakeSignal(t)
    <3>1. wakes' > 0 \/ (wakePosted /\ wakes' = wakes)
      <4>1. wakes \in Nat /\ (Wakeup => wakes' > 0)
        BY DEF Wakeup, TypeOK, DataOK
      <4>2. Wakeup \/ (wakePosted /\ wakes' = wakes)
        BY <2>5, Zenon DEF Wake, WakeSignal
      <4> QED BY <4>1, <4>2
    <3>2. wakes > 0 => wakes' > 0
      BY <3>1
    <3>3. que' = que
      BY <2>5 DEF Wake, WakeSignal, queVars
    <3>4. wakePosted \/ op[t] = "sig" => wakePosted' = wakePosted /\ op' = op
      BY <2>5 DEF Wake, WakeSignal, queVars
    <3>5. ~wakePosted /\ op[t] # "sig" => wakePosted'
      BY <2>5 DEF Wake, WakeSignal
    <3> QED BY <2>1, <2>2, <2>3, <3>1, <3>2, <3>3, <3>4, <3>5 DEF WakeInv, Parked
  <2>6. CASE ~Add(t) /\ ~Wake(t) /\ ~WakeSignal(t)
    <3>1. UNCHANGED <<que, wakePosted, wakes>>
      BY <1>3, <2>6 DEF Post, Enter, Down, Nest, Check, Make, AddSignal, Leave, queVars,
         portVars
    <3>2. step[t] = "wake" => FALSE \/ op[t] = "sig"
      BY <1>3, <2>6 DEF Post, Enter, Down, Nest, Check, Make, AddSignal, Leave
    <3> QED BY <2>1, <2>2, <2>3, <3>1, <3>2 DEF WakeInv, Parked
  <2> QED BY <2>4, <2>5, <2>6
<1> QED BY <1>1, <1>2, <1>3 DEF Next

\* Step-0 of PumpP2Pmsg and PutP2Pmsg together: no message is ever enqueued
\* without a wake, whatever the number of posters and their interleaving.
THEOREM NoWakeLost == ASSUME PumpLockOnly PROVE Spec => []NoLostWake
<1> DEFINE I == TypeOK /\ CallInv /\ LockInv /\ WakeInv
<1>1. Init => I
  BY TypeInit, CallStart DEF Init, WakeInv, Parked
<1>2. I /\ [Next]_vars => I'
  BY FlagsStep, DataStep, CallInvStep, LockInvStep, WakeInvStep DEF TypeOK
<1>3. I => NoLostWake
  BY DEF WakeInv, NoLostWake
<1> QED BY <1>1, <1>2, <1>3, PTL DEF Spec

\* BUGFIXES.md #3, "reader and writers serialise on one lock", for every pump
\* that is not flushed (FlushP2Pmsg takes the global lock instead).
THEOREM FifoIsSerialised ==
  ASSUME PumpLockOnly, ~CanFlush PROVE Spec => []FifoSerialised
<1> DEFINE F == pc # "flush"
           I == TypeOK /\ CallInv /\ LockInv /\ WakeInv /\ F
<1>1. Init => I
  BY TypeInit, CallStart DEF Init, WakeInv, Parked
<1>2. F /\ [Next]_vars => F'
  <2> SUFFICES ASSUME F, [Next]_vars PROVE F'
    OBVIOUS
  <2>1. ASSUME NEW t \in Posters, Post(t) PROVE F'
    BY <2>1 DEF Post, Enter, Down, Nest, Check, Make, Add, AddSignal, Wake, WakeSignal,
       Leave, pumpVars
  <2>2. CASE PumpStep \/ TopTimer
    BY <2>2 DEF PumpStep, TopTimer, Top, PumpDown, GetMsg, GetNone, Clear, FlushStep,
       FlushEnd, DispatchDone, BatchGet, TakeWake, TakeIo, IoDone, PortEmpty,
       EventSkip, EventBlock, EventReturn, SigPop, Close
  <2>3. CASE HandlerStep \/ IoComplete \/ UNCHANGED vars
    BY <2>3 DEF HandlerStep, HandlerPost, HandlerSignal, HandlerArm, FlushBegin,
       IoComplete, vars, pumpVars
  <2> QED BY <2>1, <2>2, <2>3 DEF Next
<1>3. I /\ [Next]_vars => I'
  BY <1>2, FlagsStep, DataStep, CallInvStep, LockInvStep, WakeInvStep DEF TypeOK
<1>4. I => FifoSerialised
  <2> SUFFICES ASSUME I, NEW t \in Posters, InPut(t)
               PROVE  ~InGet /\ \A u \in Posters \ {t} : ~InPut(u)
    BY DEF FifoSerialised
  <2>1. \A u \in Posters : InPut(u) => mcs = u
    BY DEF InPut, LockInv, WakeInv, HoldsM, TypeOK, DataOK, CallKinds
  <2> QED BY <2>1, ThreadsAssumption DEF InGet, LockInv
<1> HIDE DEF I
<1> QED BY <1>1, <1>3, <1>4, PTL DEF Spec

-----------------------------------------------------------------------------
(* The ledger of live messages.                                            *)

\* The posters that have a message in hand, and what the pump has in dispatch.
Holders  == {t \in Posters : InHand(t)}
InDispatch == IF pc \in {"dispatch", "flush", "return"} THEN 1 ELSE 0

\* One poster changes the number of messages in hand by its own at most.
LEMMA HandsOfOne ==
  ASSUME NEW t \in Posters,
         \A u \in Posters \ {t} : op'[u] = op[u] /\ step'[u] = step[u]
  PROVE  Cardinality(Holders') = Cardinality(Holders)
             + (IF InHand(t)' THEN 1 ELSE 0) - (IF InHand(t) THEN 1 ELSE 0)
<1>1. IsFiniteSet(Holders) /\ Cardinality(Holders) \in Nat
  BY ThreadsAssumption, FS_Subset, FS_CardinalityType DEF Holders
<1>2. Holders' = IF InHand(t)' THEN Holders \cup {t} ELSE Holders \ {t}
  BY DEF Holders, InHand
<1>3. t \in Holders <=> InHand(t)
  BY DEF Holders
<1>4. CASE InHand(t)'
  <2>1. Cardinality(Holders \cup {t})
            = IF t \in Holders THEN Cardinality(Holders) ELSE Cardinality(Holders) + 1
    BY <1>1, FS_AddElement
  <2> QED BY <1>1, <1>2, <1>3, <1>4, <2>1
<1>5. CASE ~InHand(t)'
  <2>1. Cardinality(Holders \ {t})
            = IF t \in Holders THEN Cardinality(Holders) - 1 ELSE Cardinality(Holders)
    BY <1>1, FS_RemoveElement
  <2> QED BY <1>1, <1>2, <1>3, <1>5, <2>1
<1> QED BY <1>4, <1>5

LEMMA LedgerInit == Init => LiveLedger
<1> SUFFICES ASSUME Init PROVE LiveLedger
  OBVIOUS
<1>1. {t \in Posters : InHand(t)} = {}
  BY DEF Init, InHand
<1>2. Cardinality({t \in Posters : InHand(t)}) = 0
  BY <1>1, FS_EmptySet
<1>3. Len(que) = 0
  BY EmptySeq DEF Init
<1> QED BY <1>2, <1>3 DEF Init, LiveLedger

\* What a poster's step does to the ledger: it manufactures one message into
\* its hand, puts the one in its hand on the FIFO, or leaves both alone.
LEMMA LedgerPost ==
  ASSUME TypeOK, CallInv, NEW t \in Posters, Post(t)
  PROVE  live' - live = (Len(que') - Len(que))
             + (IF InHand(t)' THEN 1 ELSE 0) - (IF InHand(t) THEN 1 ELSE 0)
<1> USE DEF InHand, Goto, queVars
<1>0. que \in Seq(P2Pmsg) /\ live \in Int /\ Len(que) \in Nat
  BY LenProperties DEF TypeOK, DataOK
<1>1. ASSUME NEW k \in CallKinds, Enter(t, k)
      PROVE  /\ ~InHand(t) /\ que' = que
             /\ live' = live + (IF InHand(t)' THEN 1 ELSE 0)
  BY <1>0, <1>1 DEF TypeOK, DataOK, Enter, FirstStep, CallKinds
<1>2. CASE Down(t) \/ Nest(t)
  <2>1. que' = que /\ live' = live /\ (InHand(t)' <=> InHand(t))
    BY <1>2 DEF TypeOK, DataOK, CallInv, Down, AfterDown, Nest
  <2> QED BY <1>0, <2>1
<1>3. CASE Check(t) \/ WakeSignal(t) \/ Leave(t) \/ Wake(t)
  <2>1. que' = que /\ live' = live /\ ~InHand(t)' /\ ~InHand(t)
    BY <1>3 DEF TypeOK, DataOK, CallInv, Check, WakeSignal, Leave, Wake
  <2> QED BY <1>0, <2>1
<1>4. CASE Make(t)
  <2>1. que' = que /\ live' = live + 1 /\ InHand(t)' /\ ~InHand(t)
    BY <1>4 DEF TypeOK, DataOK, CallInv, Make, AfterMake
  <2> QED BY <1>0, <2>1
<1>5. CASE Add(t)
  <2>1. live' = live /\ ~InHand(t)' /\ InHand(t)
    BY <1>5 DEF TypeOK, DataOK, Add
  <2>2. [from |-> t, n |-> sent[t] + 1, con |-> op[t] = "con"] \in P2Pmsg
    BY DEF TypeOK, DataOK, P2Pmsg, Threads
  <2>3. Len(que') = Len(que) + 1
    BY <1>0, <1>5, <2>2, AppendProperties DEF Add
  <2> QED BY <1>0, <2>1, <2>3
<1>6. ASSUME NEW s \in SigIDs, AddSignal(t, s)
      PROVE  que' = que /\ live' = live /\ ~InHand(t)' /\ ~InHand(t)
  BY <1>6 DEF TypeOK, DataOK, AddSignal
<1>7. CASE \E k \in CallKinds : Enter(t, k)
  <2>1. /\ ~InHand(t) /\ que' = que
        /\ live' = live + (IF InHand(t)' THEN 1 ELSE 0)
    BY <1>1, <1>7
  <2> QED BY <1>0, <2>1
<1>8. CASE \E s \in SigIDs : AddSignal(t, s)
  <2>1. que' = que /\ live' = live /\ ~InHand(t)' /\ ~InHand(t)
    BY <1>6, <1>8
  <2> QED BY <1>0, <2>1
<1> QED BY <1>2, <1>3, <1>4, <1>5, <1>7, <1>8 DEF Post

\* What the pump thread's step does to it.
LEMMA LedgerPump ==
  ASSUME TypeOK, PumpStep \/ TopTimer \/ HandlerStep \/ IoComplete
  PROVE  live' - live = (Len(que') - Len(que)) + (pit' - pit) + (InDispatch' - InDispatch)
<1> USE DEF InDispatch, queVars
<1>0. que \in Seq(P2Pmsg) /\ live \in Int /\ Len(que) \in Nat /\ pit \in Nat
  BY LenProperties DEF TypeOK, DataOK
<1>1. que # <<>> => Len(Tail(que)) = Len(que) - 1 /\ Tail(que) \in Seq(P2Pmsg)
                    /\ Head(que) \in P2Pmsg
  BY <1>0, HeadTailProperties
<1>2. CASE Top \/ PumpDown \/ GetNone \/ Clear \/ FlushEnd \/ BatchGet
  BY <1>0, <1>2 DEF Top, PumpDown, GetNone, Clear, FlushEnd, BatchGet
<1>3. CASE TakeWake \/ TakeIo \/ IoDone \/ PortEmpty \/ EventSkip \/ EventBlock
           \/ EventReturn \/ SigPop \/ IoComplete
  BY <1>0, <1>3 DEF TakeWake, TakeIo, IoDone, PortEmpty, EventSkip, EventBlock,
     EventReturn, SigPop, IoComplete, pumpVars
<1>4. CASE GetMsg
  BY <1>0, <1>1, <1>4 DEF GetMsg
<1>5. CASE TopTimer \/ DispatchDone
  BY <1>0, <1>5 DEF TopTimer, DispatchDone
<1>6. CASE FlushStep
  <2>1. Len(Append(Tail(que), Head(que))) = Len(que)
    BY <1>0, <1>1, <1>6, AppendProperties DEF FlushStep
  <2>2. CASE Head(que).con
    <3>1. que' = Tail(que) /\ live' = live - 1 /\ pit' = pit /\ pc' = pc
      BY <1>6, <2>2 DEF FlushStep
    <3> QED BY <1>0, <1>1, <1>6, <3>1 DEF FlushStep
  <2>3. CASE ~Head(que).con
    <3>1. que' = Append(Tail(que), Head(que)) /\ live' = live /\ pit' = pit /\ pc' = pc
      BY <1>6, <2>3 DEF FlushStep
    <3> QED BY <1>0, <2>1, <3>1
  <2> QED BY <2>2, <2>3
<1>7. CASE Close
  <2>1. Len(que') = 0 /\ pit' = 0 /\ live' = live - Len(que) - pit
        /\ InDispatch = 0 /\ InDispatch' = 0
    BY <1>7, EmptySeq DEF Close
  <2> QED BY <1>0, <2>1
<1>8. CASE HandlerPost
  <2>1. Len(que') = Len(que) + 1 /\ live' = live + 1 /\ pit' = pit /\ pc' = pc
    <3>1. [from |-> Pump, n |-> 0, con |-> FALSE] \in P2Pmsg
      BY DEF P2Pmsg, Threads
    <3> QED BY <1>0, <1>8, <3>1, AppendProperties DEF HandlerPost, pumpVars
  <2> QED BY <1>0, <2>1
<1>9. CASE HandlerSignal \/ HandlerArm \/ FlushBegin
  BY <1>0, <1>9 DEF HandlerSignal, HandlerArm, FlushBegin, pumpVars
<1> QED BY <1>2, <1>3, <1>4, <1>5, <1>6, <1>7, <1>8, <1>9 DEF PumpStep, HandlerStep

LEMMA LedgerStep == TypeOK /\ CallInv /\ LiveLedger /\ [Next]_vars => LiveLedger'
<1> SUFFICES ASSUME TypeOK, CallInv, LiveLedger, [Next]_vars PROVE LiveLedger'
  OBVIOUS
<1>1. live \in Int /\ Len(que) \in Nat /\ pit \in Nat
  BY LenProperties DEF TypeOK, DataOK
<1>2. Cardinality(Holders) \in Nat
  BY ThreadsAssumption, FS_Subset, FS_CardinalityType DEF Holders
<1>3. live = Len(que) + pit + Cardinality(Holders) + InDispatch
  BY DEF LiveLedger, Holders, InDispatch
<1>4. live' \in Int /\ Len(que') \in Nat /\ pit' \in Nat
  <2>1. DataOK'
    BY DataStep DEF TypeOK
  <2> QED BY <2>1, LenProperties DEF DataOK
<1>5. InDispatch \in Int /\ InDispatch' \in Int
  BY DEF InDispatch
<1> DEFINE count == live'
           fifo  == Len(que')
           armed == pit'
           hands == Cardinality(Holders')
           busy  == InDispatch'
<1>6. count \in Int /\ fifo \in Int /\ armed \in Int /\ busy \in Int
  BY <1>4, <1>5
<1>7. SUFFICES count = fifo + armed + hands + busy
  BY DEF LiveLedger, Holders, InDispatch
<1>8. CASE PumpStep \/ TopTimer \/ HandlerStep \/ IoComplete
  <2>1. hands = Cardinality(Holders)
    BY <1>8, PumpKeepsCalls DEF Holders, InHand, callVars
  <2>2. count - live = (fifo - Len(que)) + (armed - pit) + (busy - InDispatch)
    BY <1>8, LedgerPump
  <2> HIDE DEF count, fifo, armed, hands, busy
  <2> QED BY <1>1, <1>2, <1>3, <1>5, <1>6, <2>1, <2>2
<1>9. CASE UNCHANGED vars
  BY <1>3, <1>9 DEF vars, queVars, pumpVars, callVars, Holders, InHand, InDispatch
<1>10. ASSUME NEW t \in Posters, Post(t) PROVE count = fifo + armed + hands + busy
  <2>1. armed = pit /\ busy = InDispatch
    BY <1>10, PostLocal DEF InDispatch, Post, Enter, Down, Nest, Check, Make, Add,
       AddSignal, Wake, WakeSignal, Leave, queVars
  <2> DEFINE after  == IF InHand(t)' THEN 1 ELSE 0
             before == IF InHand(t) THEN 1 ELSE 0
  <2>2. after \in Int /\ before \in Int
    OBVIOUS
  <2>3. \A u \in Posters \ {t} : op'[u] = op[u] /\ step'[u] = step[u]
    BY <1>10, PostLocal
  <2>4. hands = Cardinality(Holders) + after - before
    BY <2>3, HandsOfOne
  <2>5. count - live = (fifo - Len(que)) + after - before
    BY <1>10, LedgerPost
  <2> DEFINE held == Cardinality(Holders)
  <2>6. held \in Int /\ hands = held + after - before
        /\ live = Len(que) + pit + held + InDispatch
    BY <1>2, <1>3, <2>4
  <2> HIDE DEF count, fifo, armed, hands, busy, after, before, held
  <2> QED BY <1>1, <1>5, <1>6, <2>1, <2>2, <2>5, <2>6
<1> QED BY <1>8, <1>9, <1>10 DEF Next

\* s_cP2Pmsg is exact at every step of every call, through flushes, timers,
\* budget refusals and the deletion of the pump: nothing is counted twice and
\* nothing leaks, whatever the entry points and however many posters.
THEOREM LedgerIsExact == Spec => []LiveLedger
<1> DEFINE I == TypeOK /\ CallInv /\ LiveLedger
<1>1. Init => I
  BY TypeInit, CallStart, LedgerInit
<1>2. I /\ [Next]_vars => I'
  BY FlagsStep, DataStep, CallInvStep, LedgerStep DEF TypeOK
<1> QED BY <1>1, <1>2, PTL DEF Spec

-----------------------------------------------------------------------------
(* The mailbox.  Its safety part holds of every entry point, those without *)
(* m_oCSection included: PutP2Pmsg is one step here.                       *)

DeliverySafety == Delivery!Init /\ [][Delivery!Next]_(Delivery!vars)

\* A pump that is sent no CLOSE does not close.
NeverCloses == sigs \in Seq({"WAKEUP"}) /\ pc \notin {"closing", "flush"}

LEMMA NeverClosesStep ==
  ASSUME ~CanClose, ~CanFlush
  PROVE  NeverCloses /\ [Next]_vars => NeverCloses'
<1> SUFFICES ASSUME NeverCloses, [Next]_vars PROVE NeverCloses'
  OBVIOUS
<1> USE DEF NeverCloses
<1>1. ASSUME NEW t \in Posters, Post(t) PROVE NeverCloses'
  <2>1. ASSUME NEW s \in SigIDs, AddSignal(t, s) PROVE NeverCloses'
    <3>1. s = "WAKEUP" /\ sigs' = Append(sigs, s)
      BY <2>1 DEF AddSignal, SigIDs
    <3>2. pc' = pc
      BY <2>1 DEF AddSignal, pumpVars
    <3> QED BY <3>1, <3>2, AppendProperties
  <2>2. CASE ~(\E s \in SigIDs : AddSignal(t, s))
    BY <1>1, <2>2 DEF Post, Enter, Down, Nest, Check, Make, Add, Wake, WakeSignal, Leave,
       pumpVars, queVars
  <2> QED BY <2>1, <2>2
<1>2. CASE HandlerSignal
  BY <1>2, AppendProperties DEF HandlerSignal, pumpVars
<1>3. CASE SigPop
  <2>1. sigs # <<>> => Tail(sigs) \in Seq({"WAKEUP"}) /\ Head(sigs) = "WAKEUP"
    BY HeadTailProperties
  <2> QED BY <1>3, <2>1 DEF SigPop
<1>4. CASE (PumpStep /\ ~SigPop) \/ TopTimer
  BY <1>4 DEF PumpStep, TopTimer, Top, PumpDown, GetMsg, GetNone, Clear, FlushStep,
     FlushEnd, DispatchDone, BatchGet, TakeWake, TakeIo, IoDone, PortEmpty,
     EventSkip, EventBlock, EventReturn, Close, queVars
<1>5. CASE (HandlerStep /\ ~HandlerSignal) \/ IoComplete \/ UNCHANGED vars
  BY <1>5 DEF HandlerStep, HandlerPost, HandlerArm, FlushBegin, IoComplete, vars,
     pumpVars, queVars
<1> QED BY <1>1, <1>2, <1>3, <1>4, <1>5 DEF Next

LEMMA StepIsDelivery ==
  ASSUME TypeOK, NeverCloses, ~CanFlush, [Next]_vars
  PROVE  [Delivery!Next]_(Delivery!vars)
<1> USE DEF Delivery!vars, queVars, histVars
<1>1. ASSUME NEW t \in Posters, Post(t) PROVE [Delivery!Next]_(Delivery!vars)
  <2>1. CASE Add(t)
    <3> DEFINE c == op[t] = "con"
    <3>1. c \in BOOLEAN
      OBVIOUS
    <3>2. Delivery!Put(t, c)
      BY <2>1 DEF Add, Delivery!Put
    <3> HIDE DEF c
    <3> QED BY <3>1, <3>2 DEF Delivery!Next
  <2>2. CASE ~Add(t)
    BY <1>1, <2>2 DEF Post, Enter, Down, Nest, Check, Make, AddSignal, Wake, WakeSignal,
       Leave
  <2> QED BY <2>1, <2>2
<1>2. CASE HandlerStep
  <2>1. CASE HandlerPost
    <3>1. Delivery!PutOwn
      BY <2>1 DEF HandlerPost, Delivery!PutOwn
    <3> QED BY <3>1 DEF Delivery!Next
  <2>2. CASE ~HandlerPost
    BY <1>2, <2>2 DEF HandlerStep, HandlerSignal, HandlerArm, FlushBegin
  <2> QED BY <2>1, <2>2
<1>3. CASE GetMsg
  <2>1. Delivery!Take
    BY <1>3 DEF GetMsg, Delivery!Take
  <2> QED BY <2>1 DEF Delivery!Next
<1>4. CASE (PumpStep /\ ~GetMsg) \/ TopTimer
  BY <1>4 DEF NeverCloses, PumpStep, TopTimer, Top, PumpDown, GetNone, Clear, FlushStep,
     FlushEnd, DispatchDone, BatchGet, TakeWake, TakeIo, IoDone, PortEmpty,
     EventSkip, EventBlock, EventReturn, SigPop, Close
<1>5. CASE IoComplete \/ UNCHANGED vars
  BY <1>5 DEF IoComplete, vars
<1> QED BY <1>1, <1>2, <1>3, <1>4, <1>5 DEF Next

\* Whatever the entry points and however many posters, a pump that is neither
\* flushed nor closed hands out every message at most once, in posting order,
\* and invents none.
THEOREM PumpIsMailbox ==
  ASSUME ~CanClose, ~CanFlush PROVE Spec => DeliverySafety
<1>1. Init => Delivery!Init /\ TypeOK /\ NeverCloses
  BY TypeInit, EmptySeq DEF Init, Delivery!Init, NeverCloses
<1>2. TypeOK /\ NeverCloses /\ [Next]_vars => TypeOK' /\ NeverCloses'
  BY FlagsStep, DataStep, NeverClosesStep DEF TypeOK
<1>3. TypeOK /\ NeverCloses /\ [Next]_vars => [Delivery!Next]_(Delivery!vars)
  BY StepIsDelivery
<1> QED BY <1>1, <1>2, <1>3, PTL DEF Spec, DeliverySafety
=============================================================================
