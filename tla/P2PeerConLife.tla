---------------------------- MODULE P2PeerConLife ----------------------------
(***************************************************************************)
(* How long a connection lives (src/P2PeerCon.cpp P2PeerConPlc, the hub's  *)
(* registry and CloseP2PmsgHub in src/P2Pwin32.cpp, the walks of           *)
(* src/P2PeerHub.cpp).  A connection counts its references: one for each   *)
(* operation a completion is owed for, each pump message that names it,    *)
(* each walk or caller that retained it.  It rests at zero while it is     *)
(* listed; the Release that reaches zero after Destroy() claims the count, *)
(* unlinks the connection and deletes it.  Closing the hub pins what is    *)
(* listed, cancels, drains the port for a bounded time and lets go.        *)
(*                                                                         *)
(* A Release is four steps, for two threads may be inside one at a time.   *)
(***************************************************************************)
EXTENDS Integers, Sequences, FiniteSets, SequencesExt

CONSTANTS
    Connections,    \* the connections the application makes
    Address,        \* m_oThatP2Paddr of each
    Apps,           \* the threads beside the hub's own that call the hub
    Hub,            \* the hub's own thread: pump, completions, close
    None,           \* no connection, no thread
    MaxSignals      \* bound: signals ConSignal posts

Threads == Apps \cup {Hub}
Signals == {"close", "destroy"}

\* kDyingRef: far enough below zero that no count brings it back.
Dying == -100

ASSUME ThreadsAssumption ==
    Hub \notin Apps /\ None \notin Connections \cup Threads /\ IsFiniteSet(Apps)
ASSUME AddressAssumption == DOMAIN Address = Connections
ASSUME SignalsAssumption == MaxSignals \in Nat

VARIABLES
    heap,           \* "live", or "freed" once deleted
    ref,            \* m_cRef
    destroyed,      \* m_bDestroy
    keyed,          \* m_nP2PconID, and the registry's key for the address
    hubList,        \* m_oCListP2PmsgCon
    bound,          \* m_hCPort is set: the pump has been told of it
    open,           \* m_hFile
    recv,           \* the member operation: "idle", "flying" or "port"
    port,           \* packets on the completion port: [con, op]
    fifo,           \* the pump's messages that name a connection: [con, msg]
    hub,            \* where the hub's thread is
    cursor,         \* the connection RunHub's walk stands at
    pins,           \* oConPinned of CloseP2PmsgHub
    section,        \* who holds m_oCSectionHub
    job,            \* what an application's thread is doing: [do, con]
    held,           \* what it has retained for a walk
    safe,           \* what it keeps in a SafeP2PeerCon
    rel,            \* the Release a thread is inside: [con, at, seen]
    offered,        \* history: connections given to PostP2PeerCon
    signals,        \* signals posted so far
    crimes          \* history: freed memory "touched", or freed "twice"

pumpVars == <<bound, open, recv, port, fifo>>
regVars  == <<keyed, hubList>>
hubVars  == <<hub, cursor, pins>>
appVars  == <<section, job, held, safe, offered, signals>>
vars == <<heap, ref, destroyed, pumpVars, regVars, hubVars, appVars, rel, crimes>>

Idle     == [do |-> "idle", con |-> None]
Returned == [con |-> None, at |-> "none", seen |-> 0]

Init ==
    /\ heap = [c \in Connections |-> "live"] /\ ref = [c \in Connections |-> 0]
    /\ destroyed = [c \in Connections |-> FALSE] /\ keyed = [c \in Connections |-> FALSE]
    /\ hubList = <<>> /\ bound = [c \in Connections |-> FALSE]
    /\ open = [c \in Connections |-> FALSE] /\ recv = [c \in Connections |-> "idle"]
    /\ port = <<>> /\ fifo = <<>>
    /\ hub = "run" /\ cursor = None /\ pins = {}
    /\ section = None /\ job = [t \in Apps |-> Idle]
    /\ held = [t \in Apps |-> {}] /\ safe = [t \in Apps |-> None]
    /\ rel = [t \in Threads |-> Returned]
    /\ offered = {} /\ signals = 0 /\ crimes = {}

\* CloseP2PmsgHub holds s_oCSectionP2PmsgHub from its first line to its last.
HasRegistry(t) == hub \in {"pinned", "draining", "unpinning"} => t = Hub
Free(t) == rel[t] = Returned

PostDestroyState(c) == destroyed[c] \/ ref[c] <= 0

\* Where freed memory is used nothing more is said of what follows.
Freed(c) == heap[c] = "freed"

-----------------------------------------------------------------------------
(* P2PeerConPlc::Release, by thread t.                                     *)

Releasing(c) == [con |-> c, at |-> "down", seen |-> 0]

\* --m_cRef.
Decrement(t) ==
    /\ rel[t].at = "down"
    /\ LET c == rel[t].con IN
         /\ ref' = [ref EXCEPT ![c] = @ - 1]
         /\ rel' = [rel EXCEPT ![t] =
              IF ref[c] - 1 > 0 THEN Returned
              ELSE [con |-> c, at |-> "look", seen |-> ref[c] - 1]]
         /\ crimes' = IF Freed(c) THEN crimes \cup {"touched"} ELSE crimes
    /\ UNCHANGED <<heap, destroyed, pumpVars, regVars, hubVars, appVars>>

\* A connection that was never posted destroys itself.
Look(t) ==
    /\ rel[t].at = "look"
    /\ LET c == rel[t].con
           gone == destroyed[c] \/ ~keyed[c]
       IN /\ destroyed' = [destroyed EXCEPT ![c] = gone]
          /\ rel' = [rel EXCEPT ![t] =
               IF gone /\ ~Freed(c) THEN [@ EXCEPT !.at = "claim"] ELSE Returned]
          /\ crimes' = IF Freed(c) THEN crimes \cup {"touched"} ELSE crimes
    /\ UNCHANGED <<heap, ref, pumpVars, regVars, hubVars, appVars>>

\* The compare-exchange: nobody has taken a reference since.
Claim(t) ==
    /\ rel[t].at = "claim"
    /\ LET c == rel[t].con
           won == ref[c] = rel[t].seen /\ ~Freed(c)
       IN /\ ref' = IF won THEN [ref EXCEPT ![c] = Dying] ELSE ref
          /\ rel' = [rel EXCEPT ![t] =
               IF won THEN [@ EXCEPT !.at = "drop"] ELSE Returned]
          /\ crimes' = IF Freed(c) THEN crimes \cup {"touched"} ELSE crimes
    /\ UNCHANGED <<heap, destroyed, pumpVars, regVars, hubVars, appVars>>

DropKeyless(t) ==
    /\ rel[t].at = "drop" /\ HasRegistry(t)
    /\ LET c == rel[t].con IN
         /\ heap' = [heap EXCEPT ![c] = "freed"]
         /\ hubList' = RemoveFirst(hubList, c)
         /\ keyed' = [keyed EXCEPT ![c] = @ /\ hub = "gone"]
         /\ crimes' = IF Freed(c) THEN crimes \cup {"twice"} ELSE crimes
    /\ rel' = [rel EXCEPT ![t] = Returned]
    /\ UNCHANGED <<ref, destroyed, pumpVars, hubVars, appVars>>

\* DropP2PmsgCon, then delete this.  The hub may be gone, the key goes anyway.
DropAndDelete(t) ==
    /\ rel[t].at = "drop" /\ HasRegistry(t)
    /\ LET c == rel[t].con IN
         /\ heap' = [heap EXCEPT ![c] = "freed"]
         /\ hubList' = RemoveFirst(hubList, c)
         /\ keyed' = [keyed EXCEPT ![c] = FALSE]
         /\ crimes' = IF Freed(c) THEN crimes \cup {"twice"} ELSE crimes
    /\ rel' = [rel EXCEPT ![t] = Returned]
    /\ UNCHANGED <<ref, destroyed, pumpVars, hubVars, appVars>>

Release(t) == Decrement(t) \/ Look(t) \/ Claim(t) \/ DropAndDelete(t)

-----------------------------------------------------------------------------
(* An application's thread: PostP2PeerCon, ConSignal, ConQuery.            *)

\* All that is listed and whose TryAddRef succeeds.
Retained == {c \in ToSet(hubList) : ref[c] >= 0}

RetainRaw(t) ==
    /\ held' = [held EXCEPT ![t] = ToSet(hubList)]
    /\ ref' = [c \in Connections |-> ref[c] + (IF c \in ToSet(hubList) THEN 1 ELSE 0)]

\* RetainP2PmsgCons, under the registry's lock.
Retain(t) ==
    /\ held' = [held EXCEPT ![t] = Retained]
    /\ ref' = [c \in Connections |-> ref[c] + (IF c \in Retained THEN 1 ELSE 0)]

\* The hub can still be found by its identifier.
Enters(t) == /\ job[t] = Idle /\ Free(t) /\ section = None
             /\ HasRegistry(t) /\ hub # "gone"

\* ConSignal and ConQuery: under m_oCSectionHub, every connection retained.
BeginWalk(t) ==
    /\ Enters(t) /\ Retain(t)
    /\ section' = t
    /\ job' = [job EXCEPT ![t].do = "walk"]
    /\ UNCHANGED <<heap, destroyed, pumpVars, regVars, hubVars, safe, offered,
                   signals, rel, crimes>>

\* P2PeerCon::Signal on one of them; the port may be closed already.
SignalOne(t, c, s) ==
    /\ job[t].do = "walk" /\ c \in held[t] /\ signals < MaxSignals
    /\ signals' = signals + 1
    /\ IF hub = "gone" THEN UNCHANGED <<port, ref>>
       ELSE /\ port' = Append(port, [con |-> c, op |-> s])
            /\ ref' = [ref EXCEPT ![c] = @ + 1]
    /\ UNCHANGED <<heap, destroyed, bound, open, recv, fifo, regVars, hubVars,
                   section, job, held, safe, offered, rel, crimes>>

\* ConQuery leaves one in the caller's SafeP2PeerCon.
Keep(t, c) ==
    /\ job[t].do = "walk" /\ c \in held[t] /\ safe[t] = None
    /\ safe' = [safe EXCEPT ![t] = c]
    /\ ref' = [ref EXCEPT ![c] = @ + 1]
    /\ UNCHANGED <<heap, destroyed, pumpVars, regVars, hubVars, section, job, held,
                   offered, signals, rel, crimes>>

EndWalk(t) ==
    /\ job[t].do = "walk"
    /\ job' = [job EXCEPT ![t].do = "leave"]
    /\ UNCHANGED <<heap, ref, destroyed, pumpVars, regVars, hubVars, section, held,
                   safe, offered, signals, rel, crimes>>

\* Whose address is c's among those the walk retained.
Duplicates(t, c) == {d \in held[t] : Address[d] = Address[c]}

\* PostP2PeerCon up to its scan.
BeginPost(t, c) ==
    /\ Enters(t) /\ c \notin offered
    /\ held' = [held EXCEPT ![t] = Retained]
    /\ ref' = [d \in Connections |-> ref[d] + (IF d \in Retained \cup {c} THEN 1 ELSE 0)]
    /\ section' = t /\ offered' = offered \cup {c}
    /\ job' = [job EXCEPT ![t] = [do |-> "post", con |-> c]]
    /\ UNCHANGED <<heap, destroyed, pumpVars, regVars, hubVars, safe, signals, rel, crimes>>

\* The hub is not operational, or the address is in use.
RefusePost(t) ==
    /\ job[t].do = "post"
    /\ hub # "run" \/ Duplicates(t, job[t].con) # {}
    /\ job' = [job EXCEPT ![t].do = "leave"]
    /\ UNCHANGED <<heap, ref, destroyed, pumpVars, regVars, hubVars, section, held,
                   safe, offered, signals, rel, crimes>>

ListTwin(t) ==
    /\ job[t].do = "post" /\ HasRegistry(t) /\ hub # "gone"
    /\ hubList' = Append(hubList, job[t].con)
    /\ keyed' = [keyed EXCEPT ![job[t].con] = TRUE]
    /\ job' = [job EXCEPT ![t].do = "start"]
    /\ UNCHANGED <<heap, ref, destroyed, pumpVars, hubVars, section, held, safe,
                   offered, signals, rel, crimes>>

\* PostP2PmsgCon.
List(t) ==
    /\ job[t].do = "post" /\ Duplicates(t, job[t].con) = {}
    /\ HasRegistry(t) /\ hub # "gone"
    /\ hubList' = Append(hubList, job[t].con)
    /\ keyed' = [keyed EXCEPT ![job[t].con] = TRUE]
    /\ job' = [job EXCEPT ![t].do = "start"]
    /\ UNCHANGED <<heap, ref, destroyed, pumpVars, hubVars, section, held, safe,
                   offered, signals, rel, crimes>>

\* PostP2Pmsg with P2P_Startup, which gives the connection its port.
Startup(t) ==
    /\ job[t].do = "start" /\ HasRegistry(t) /\ hub # "gone"
    /\ LET c == job[t].con IN
         /\ bound' = [bound EXCEPT ![c] = TRUE]
         /\ fifo' = Append(fifo, [con |-> c, msg |-> "startup"])
         /\ ref' = [ref EXCEPT ![c] = @ + 1]
    /\ job' = [job EXCEPT ![t].do = "leave"]
    /\ UNCHANGED <<heap, destroyed, open, recv, port, regVars, hubVars, section,
                   held, safe, offered, signals, rel, crimes>>

\* Both calls throw when neither the hub nor its pump is there any more, and
\* PostP2Pmsg at the message ceiling: the connection stays listed, not started.
PostThrows(t) ==
    /\ \/ job[t].do = "post" /\ hub = "gone"
       \/ job[t].do = "start" /\ HasRegistry(t)
    /\ job' = [job EXCEPT ![t].do = "leave"]
    /\ UNCHANGED <<heap, ref, destroyed, pumpVars, regVars, hubVars, section, held,
                   safe, offered, signals, rel, crimes>>

\* The destructors: the walk's references, the section, the caller's own.
LetGo(t) ==
    /\ job[t].do = "leave" /\ Free(t) /\ held[t] # {}
    /\ LET c == CHOOSE d \in held[t] : TRUE IN
         /\ held' = [held EXCEPT ![t] = @ \ {c}]
         /\ rel' = [rel EXCEPT ![t] = Releasing(c)]
    /\ UNCHANGED <<heap, ref, destroyed, pumpVars, regVars, hubVars, section, job,
                   safe, offered, signals, crimes>>

Leave(t) ==
    /\ job[t].do = "leave" /\ Free(t) /\ held[t] = {}
    /\ section' = None
    /\ job' = [job EXCEPT ![t] = Idle]
    /\ rel' = IF job[t].con = None THEN rel
              ELSE [rel EXCEPT ![t] = Releasing(job[t].con)]
    /\ UNCHANGED <<heap, ref, destroyed, pumpVars, regVars, hubVars, held, safe,
                   offered, signals, crimes>>

\* ~SafeP2PeerCon.
DropSafe(t) ==
    /\ job[t] = Idle /\ Free(t) /\ safe[t] # None
    /\ safe' = [safe EXCEPT ![t] = None]
    /\ rel' = [rel EXCEPT ![t] = Releasing(safe[t])]
    /\ UNCHANGED <<heap, ref, destroyed, pumpVars, regVars, hubVars, section, job,
                   held, offered, signals, crimes>>

-----------------------------------------------------------------------------
(* The hub's thread: the pump.                                             *)

Closing(c) == \E i \in DOMAIN fifo : fifo[i] = [con |-> c, msg |-> "close"]

\* Drop(): the file goes, which cancels what is flying, and the close is
\* notified unless it is already or the connection is being destroyed.
Notifies(c)  == ~PostDestroyState(c) /\ ~Closing(c)
Notified(c)  == Append(fifo, [con |-> c, msg |-> "close"])

\* P2P_Startup: Listen() or Connect(), a read outstanding.
DispatchStartup ==
    /\ hub = "run" /\ Free(Hub) /\ fifo # <<>> /\ Head(fifo).msg = "startup"
    /\ LET c == Head(fifo).con IN
         /\ open' = [open EXCEPT ![c] = TRUE]
         /\ recv' = [recv EXCEPT ![c] = "flying"]
         /\ ref' = [ref EXCEPT ![c] = @ + 1]
         /\ rel' = [rel EXCEPT ![Hub] = Releasing(c)]
    /\ fifo' = Tail(fifo)
    /\ UNCHANGED <<heap, destroyed, bound, port, regVars, hubVars, appVars, crimes>>

\* P2P_Close: the handler drops the connection, or keeps it closed unless it
\* is being destroyed.
DispatchClose(drop) ==
    /\ hub = "run" /\ Free(Hub) /\ fifo # <<>> /\ Head(fifo).msg = "close"
    /\ LET c == Head(fifo).con IN
         /\ PostDestroyState(c) => drop
         /\ destroyed' = [destroyed EXCEPT ![c] = @ \/ drop]
         /\ open' = [open EXCEPT ![c] = @ /\ ~drop]
         /\ rel' = [rel EXCEPT ![Hub] = Releasing(c)]
    /\ fifo' = Tail(fifo)
    /\ UNCHANGED <<heap, ref, bound, recv, port, regVars, hubVars, appVars, crimes>>

\* The operating system: an operation is done, failed or cancelled.
Deliver(c) ==
    /\ recv[c] = "flying" /\ hub # "gone"
    /\ recv' = [recv EXCEPT ![c] = "port"]
    /\ port' = Append(port, [con |-> c, op |-> "recv"])
    /\ UNCHANGED <<heap, ref, destroyed, bound, open, fifo, regVars, hubVars,
                   appVars, rel, crimes>>

\* The pump retains the connection around the handler.
Completes(op) ==
    /\ hub = "run" /\ Free(Hub) /\ port # <<>> /\ Head(port).op = op
    /\ port' = Tail(port)
    /\ rel' = [rel EXCEPT ![Hub] = Releasing(Head(port).con)]

\* A read that arrived is issued again: one reference back, one taken.
CompleteRead ==
    /\ Completes("recv")
    /\ LET c == Head(port).con IN
         /\ open[c]
         /\ recv' = [recv EXCEPT ![c] = "flying"]
         /\ ref' = [ref EXCEPT ![c] = @ + 1]
    /\ UNCHANGED <<heap, destroyed, bound, open, fifo, regVars, hubVars, appVars,
                   crimes>>

\* It failed: the handler throws and the pump drops the connection.
CompleteFailed ==
    /\ Completes("recv")
    /\ LET c == Head(port).con IN
         /\ open[c]
         /\ recv' = [recv EXCEPT ![c] = "idle"]
         /\ open' = [open EXCEPT ![c] = FALSE]
         /\ fifo' = IF Notifies(c) THEN Notified(c) ELSE fifo
         /\ ref' = [ref EXCEPT ![c] = @ + (IF Notifies(c) THEN 1 ELSE 0)]
    /\ UNCHANGED <<heap, destroyed, bound, regVars, hubVars, appVars, crimes>>

\* It was cancelled: the buffer is deleted.
CompleteCancelled ==
    /\ Completes("recv")
    /\ ~open[Head(port).con]
    /\ recv' = [recv EXCEPT ![Head(port).con] = "idle"]
    /\ UNCHANGED <<heap, ref, destroyed, bound, open, fifo, regVars, hubVars,
                   appVars, crimes>>

CompleteClose ==
    /\ Completes("close")
    /\ LET c == Head(port).con IN
         /\ open' = [open EXCEPT ![c] = FALSE]
         /\ fifo' = IF Notifies(c) THEN Notified(c) ELSE fifo
         /\ ref' = [ref EXCEPT ![c] = @ + (IF Notifies(c) THEN 1 ELSE 0)]
    /\ UNCHANGED <<heap, destroyed, bound, recv, regVars, hubVars, appVars, crimes>>

\* P2PsigCon_DESTROY posts its close whatever is queued.
CompleteDestroy ==
    /\ Completes("destroy")
    /\ LET c == Head(port).con IN
         /\ destroyed' = [destroyed EXCEPT ![c] = TRUE]
         /\ fifo' = Notified(c)
         /\ ref' = [ref EXCEPT ![c] = @ + 1]
    /\ UNCHANGED <<heap, bound, open, recv, regVars, hubVars, appVars, crimes>>

-----------------------------------------------------------------------------
(* The hub's thread: RunHub's end and CloseP2PmsgHub.                      *)

HubSteps(at, to) == /\ hub = at /\ Free(Hub) /\ hub' = to

\* P2PsigHub_CLOSE.
CloseHub ==
    /\ HubSteps("run", "signalling")
    /\ cursor' = None
    /\ UNCHANGED <<heap, ref, destroyed, pumpVars, regVars, pins, appVars, rel,
                   crimes>>

\* EnumP2PmsgCon: the one after cursor, as long as cursor is still listed.
After(c) == {i \in DOMAIN hubList : i > 1 /\ hubList[i - 1] = c}
NextCon ==
    /\ cursor' = IF cursor = None /\ hubList # <<>> THEN Head(hubList)
                 ELSE IF After(cursor) # {} THEN hubList[CHOOSE i \in After(cursor) : TRUE]
                 ELSE None
    /\ hub' = IF cursor' = None THEN "ended" ELSE "signal"

Enumerate ==
    /\ hub = "signalling" /\ Free(Hub) /\ NextCon
    /\ UNCHANGED <<heap, ref, destroyed, pumpVars, regVars, pins, appVars, rel,
                   crimes>>

\* Signal(P2PsigCon_DESTROY) on the pointer, retained by nobody; without a
\* port it throws, and RunHub ends there.
SignalDestroy ==
    /\ hub = "signal"
    /\ IF Freed(cursor)
       THEN crimes' = crimes \cup {"touched"} /\ UNCHANGED <<port, ref>>
       ELSE /\ UNCHANGED crimes
            /\ IF bound[cursor]
               THEN /\ port' = Append(port, [con |-> cursor, op |-> "destroy"])
                    /\ ref' = [ref EXCEPT ![cursor] = @ + 1]
               ELSE UNCHANGED <<port, ref>>
    /\ hub' = IF bound[cursor] THEN "signalling" ELSE "ended"
    /\ UNCHANGED <<heap, destroyed, bound, open, recv, fifo, regVars, cursor, pins,
                   appVars, rel>>

\* CloseP2PmsgHub: an AddRef on everything that is listed.
Pin ==
    /\ HubSteps("ended", "pinned")
    /\ pins' = ToSet(hubList)
    /\ ref' = [c \in Connections |-> ref[c] + (IF c \in pins' THEN 1 ELSE 0)]
    /\ UNCHANGED <<heap, destroyed, pumpVars, regVars, cursor, appVars, rel, crimes>>

SweepLeaves ==
    /\ HubSteps("pinned", "draining")
    /\ open' = [c \in Connections |-> open[c] /\ c \notin pins]
    /\ UNCHANGED <<heap, ref, destroyed, bound, recv, port, fifo, regVars, cursor,
                   pins, appVars, rel, crimes>>

\* Destroy() and Drop() of each, which notifies nobody any more.
Sweep ==
    /\ HubSteps("pinned", "draining")
    /\ destroyed' = [c \in Connections |-> destroyed[c] \/ c \in pins]
    /\ open' = [c \in Connections |-> open[c] /\ c \notin pins]
    /\ UNCHANGED <<heap, ref, bound, recv, port, fifo, regVars, cursor, pins,
                   appVars, rel, crimes>>

DrainTwice ==
    /\ hub = "draining" /\ Free(Hub) /\ port # <<>>
    /\ LET c == Head(port).con IN
         /\ recv' = IF Head(port).op = "recv" THEN [recv EXCEPT ![c] = "idle"] ELSE recv
         /\ ref' = [ref EXCEPT ![c] = @ - 1]
         /\ rel' = [rel EXCEPT ![Hub] = Releasing(c)]
    /\ port' = Tail(port)
    /\ UNCHANGED <<heap, destroyed, bound, open, fifo, regVars, hubVars, appVars,
                   crimes>>

\* DrainOVERLAPPED: the operation is no longer queued, its reference goes.
Drain ==
    /\ hub = "draining" /\ Free(Hub) /\ port # <<>>
    /\ LET c == Head(port).con IN
         /\ recv' = IF Head(port).op = "recv" THEN [recv EXCEPT ![c] = "idle"] ELSE recv
         /\ rel' = [rel EXCEPT ![Hub] = Releasing(c)]
    /\ port' = Tail(port)
    /\ UNCHANGED <<heap, ref, destroyed, bound, open, fifo, regVars, hubVars, appVars,
                   crimes>>

\* The port is dry: nothing is owed, or the slices are spent.
EndDrain ==
    /\ HubSteps("draining", "unpinning") /\ port = <<>>
    /\ UNCHANGED <<heap, ref, destroyed, pumpVars, regVars, cursor, pins, appVars, rel,
                   crimes>>

UnpinForgets ==
    /\ hub = "unpinning" /\ Free(Hub) /\ pins # {}
    /\ pins' = {}
    /\ UNCHANGED <<heap, ref, destroyed, pumpVars, regVars, hub, cursor, appVars, rel,
                   crimes>>

Unpin ==
    /\ hub = "unpinning" /\ Free(Hub) /\ pins # {}
    /\ LET c == CHOOSE d \in pins : TRUE IN
         /\ pins' = pins \ {c}
         /\ rel' = [rel EXCEPT ![Hub] = Releasing(c)]
    /\ UNCHANGED <<heap, ref, destroyed, pumpVars, regVars, hub, cursor, appVars,
                   crimes>>

\* delete pP2PmsgHub: the hub's own lookup goes first, then its pumps.
DeleteHub ==
    /\ HubSteps("unpinning", "gone") /\ pins = {}
    /\ UNCHANGED <<heap, ref, destroyed, pumpVars, regVars, cursor, pins, appVars, rel,
                   crimes>>

\* ~P2PmsgPump releases the messages nobody dispatched.
FlushOne ==
    /\ hub = "gone" /\ Free(Hub) /\ fifo # <<>>
    /\ rel' = [rel EXCEPT ![Hub] = Releasing(Head(fifo).con)]
    /\ fifo' = Tail(fifo)
    /\ UNCHANGED <<heap, ref, destroyed, bound, open, recv, port, regVars, hubVars,
                   appVars, crimes>>

-----------------------------------------------------------------------------
Dispatch == DispatchStartup \/ \E drop \in BOOLEAN : DispatchClose(drop)
Complete == \/ CompleteRead \/ CompleteFailed \/ CompleteCancelled \/ CompleteClose
            \/ CompleteDestroy
HubCloses == \/ Enumerate \/ SignalDestroy \/ Pin \/ Sweep \/ Drain \/ EndDrain \/ Unpin
             \/ DeleteHub \/ FlushOne
App(t) == \/ EndWalk(t) \/ RefusePost(t) \/ List(t) \/ Startup(t) \/ PostThrows(t)
          \/ LetGo(t) \/ Leave(t) \/ DropSafe(t)
Calls(t) == \/ BeginWalk(t)
            \/ \E c \in Connections : BeginPost(t, c) \/ Keep(t, c)
                                      \/ \E s \in Signals : SignalOne(t, c, s)

Next ==
    \/ \E t \in Threads : Release(t)
    \/ \E t \in Apps : App(t) \/ Calls(t)
    \/ \E c \in Connections : Deliver(c)
    \/ Dispatch \/ Complete \/ CloseHub \/ HubCloses

\* Threads run, and what has been cancelled completes.  The pump serves its
\* messages and its port in turn (SignalsServed, IoServed of P2PmsgPump).
Fairness ==
    /\ \A t \in Threads : WF_vars(Release(t))
    /\ \A t \in Apps : WF_vars(App(t))
    /\ \A c \in Connections : WF_vars(Deliver(c) /\ ~open[c])
    /\ SF_vars(Dispatch) /\ SF_vars(Complete) /\ WF_vars(HubCloses)

Spec == Init /\ [][Next]_vars /\ Fairness

-----------------------------------------------------------------------------
Count(q, c) == Cardinality({i \in DOMAIN q : q[i].con = c})

\* Everything that holds a reference to c.
Holders(c) ==
    Count(port, c) + Count(fifo, c)
      + (IF recv[c] = "flying" THEN 1 ELSE 0) + (IF c \in pins THEN 1 ELSE 0)
      + Cardinality({t \in Apps : c \in held[t]}) + Cardinality({t \in Apps : safe[t] = c})
      + Cardinality({t \in Apps : job[t].con = c})
      + Cardinality({t \in Threads : rel[t].con = c /\ rel[t].at = "down"})

Claimed(c) == ref[c] < 0

\* The count is the number of holders until the last Release claims it: what a
\* completion, a message, a walk took it gives back, once, by whatever way the
\* connection ends.
CountsExact ==
    \A c \in Connections : heap[c] = "live" /\ ~Claimed(c) => ref[c] = Holders(c)

\* While the hub runs nobody holds a reference to a connection that has been
\* deleted, or that its last Release is deleting.
CountedIsLive ==
    hub = "run" => \A c \in Connections :
                     heap[c] = "freed" \/ Claimed(c) => Holders(c) = 0

\* The registry is keyed by address: it never names one that has been freed.
RegistryLive ==
    /\ \A c \in Connections : keyed[c] => heap[c] = "live"
    /\ \A i \in DOMAIN hubList : heap[hubList[i]] = "live"

\* Two connections of one address are never both in the hub, however many
\* threads post; one that is being deleted no longer counts.
NoTwins ==
    \A i, j \in DOMAIN hubList :
      i # j /\ ~Claimed(hubList[i]) /\ ~Claimed(hubList[j]) =>
        Address[hubList[i]] # Address[hubList[j]]

\* What is left of the hub after its close: connections somebody still holds,
\* and those whose completion came too late to be drained.
Rest == hub = "gone" /\ fifo = <<>> /\ \A t \in Threads : rel[t] = Returned
Reclaimed ==
    Rest =>
      \A c \in Connections : heap[c] = "live" /\ c \in offered => Holders(c) > 0

\* Once the applications leave the hub alone (each walk retains what is listed,
\* and may win against every claim), a connection that is being destroyed is
\* deleted, unless the hub went first with a completion still owed, or freed
\* memory was used.
Quiet   == \A t \in Apps : job[t] = Idle /\ safe[t] = None
Owed(c) == recv[c] = "flying" \/ Count(port, c) > 0
Gone(c) == heap[c] = "freed" \/ (hub = "gone" /\ Owed(c)) \/ crimes # {}
DestroyedGoes ==
    <>[]Quiet => []<>(\A c \in Connections : destroyed[c] => Gone(c))

=============================================================================
