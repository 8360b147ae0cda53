----------------------------- MODULE P2PeerConWsa -----------------------------
(***************************************************************************)
(* A socket endpoint that has to stay in service (src/P2PeerConWsa.cpp,    *)
(* the default handlers of src/P2PeerTarget.cpp): a SERVICE that listens   *)
(* and admits connections within its bounds, or a CLIENT that dials again  *)
(* after every close.  Its handlers run on one pump, between two messages  *)
(* of which the pump serves completions and timers; the operating system   *)
(* finishes an operation when it pleases, even after its socket is closed. *)
(* Whatever fails ends in Drop(), which leaves a P2P_Close to come unless  *)
(* one is coming already; the close handler brings the endpoint back, or   *)
(* destroys it.                                                            *)
(*                                                                         *)
(* An accepted connection is followed only as far as its slot: how the     *)
(* last reference to it goes is P2PeerConLife, its login P2PeerConLogin.   *)
(***************************************************************************)
EXTENDS Integers, Sequences, FiniteSets

CONSTANTS
    Modes,          \* "SERVICE", "CLIENT"
    Sources,        \* the origins peers connect from, by P2PsourceKey
    Unnamed,        \* the zero key: the socket could not name its peer
    Barred,         \* keys the allow-list or the fence refuses
    Children,       \* room for accepted connections
    None,           \* INVALID_SOCKET
    Fresh,          \* an accepting socket no peer has connected to yet
    MaxAccepted,    \* m_xMaxAccepted
    MaxPerSource,   \* m_xMaxAcceptedPerSource, 0 for no bound
    MaxCalls        \* bound: calls of the application

ASSUME ModesAssumption   == Modes \subseteq {"SERVICE", "CLIENT"}
ASSUME SourcesAssumption == /\ Unnamed \notin Sources /\ {None, Fresh} \cap Sources = {}
                            /\ None # Fresh /\ Barred \subseteq Sources \cup {Unnamed}
ASSUME BoundsAssumption  == /\ IsFiniteSet(Children)
                            /\ MaxAccepted \in 1 .. Cardinality(Children)
                            /\ MaxPerSource \in Nat /\ MaxCalls \in Nat

VARIABLES
    mode,           \* m_eP2PeerConMode
    sock,           \* m_oSocket is open
    asock,          \* m_oSocketAccept: None, Fresh, or the peer's origin
    op,             \* m_pOVERLAPPEDaccept of a SERVICE, ...connect of a CLIENT
    recv,           \* m_pOVERLAPPEDrecv of a CLIENT
    latched,        \* m_pEvent
    destroyed,      \* m_bDestroy
    timer,          \* m_uRestartTimerID
    fifo,           \* the pump's messages for this connection
    child,          \* the accepted connections
    accepted,       \* m_pxAccepted
    tally,          \* m_pxSourceTally
    calls,          \* calls the application has made
    lapses          \* history: what no close is coming for

sockVars  == <<sock, asock, op, recv>>
stateVars == <<latched, destroyed, timer, fifo, lapses>>
slotVars  == <<child, accepted, tally>>
vars == <<mode, sockVars, stateVars, slotVars, calls>>

\* An operation: no OVERLAPPED, one at rest, one the system owes a completion
\* for, one whose socket was closed meanwhile, and a completion on the port.
Rest   == {"none", "idle"}
OpStates == Rest \cup {"flying", "cut", "ok", "err"}
Queued(o) == o \notin Rest

Messages == {"Startup", "Listen", "Accept", "Connect", "Close", "Shutdown"}
Keys     == Sources \cup {Unnamed}
Accepted == [st : {"free", "posted", "limbo", "open", "in", "closing", "deaf"},
             src : Sources \cup {None}, key : Keys, deadline : {"off", "armed", "failed"}]

\* Every variable holds a value the code could store in it.
TypeOK ==
    /\ mode \in {"SERVICE", "CLIENT"}
    /\ sock \in BOOLEAN /\ asock \in Sources \cup {None, Fresh}
    /\ op \in OpStates /\ recv \in OpStates
    /\ latched \in BOOLEAN /\ destroyed \in BOOLEAN /\ timer \in BOOLEAN
    /\ fifo \in Seq(Messages) /\ lapses \subseteq {"overlap", "misread", "spent"}
    /\ child \in [Children -> Accepted] /\ accepted \in Nat
    /\ tally \in [Sources -> Nat] /\ calls \in 0 .. MaxCalls

Vacant == [st |-> "free", src |-> None, key |-> Unnamed, deadline |-> "off"]

Init ==
    /\ mode \in Modes
    /\ sock = FALSE /\ asock = None /\ op = "none" /\ recv = "none"
    /\ latched = FALSE /\ destroyed = FALSE /\ timer = FALSE
    /\ fifo = <<"Startup">>
    /\ child = [c \in Children |-> Vacant] /\ accepted = 0
    /\ tally = [s \in Sources |-> 0]
    /\ calls = 0 /\ lapses = {}

\* Where one OVERLAPPED serves two calls nothing more is said of what follows.
Sound == "overlap" \notin lapses
Serves(m) == Sound /\ fifo # <<>> /\ Head(fifo) = m
Others == Tail(fifo)

-----------------------------------------------------------------------------
\* closesocket(): what the system still owes fails, when it gets round to it.
Cut(o)    == IF o = "flying" THEN "cut" ELSE o
\* DropOVERLAPPED, unless it is queued.
Dropped(o) == IF o = "idle" THEN "none" ELSE o

\* Drop() of the base class posts a P2P_Close for the first event.
Notifies == ~latched /\ ~destroyed

DropQuietly(event, f, o, r, hears) ==
    /\ sock' = FALSE /\ asock' = None /\ timer' = FALSE
    /\ op' = Dropped(Cut(o)) /\ recv' = Dropped(Cut(r))
    /\ latched' = (latched \/ event)
    /\ fifo' = IF event /\ Notifies /\ ~hears THEN Append(f, "Close") ELSE f
    /\ lapses' = IF event /\ Notifies /\ hears THEN lapses \cup {"misread"} ELSE lapses

\* Drop(pEVENT), with the FIFO and the operations as its caller leaves them.
\* CheckP2PmsgPumpState() says whether a P2P_Close is in dispatch, of whatever
\* connection: if so no other is posted.
Drop(event, f, o, r, hears) ==
    /\ sock' = FALSE /\ asock' = None /\ timer' = FALSE
    /\ op' = Dropped(Cut(o)) /\ recv' = Dropped(Cut(r))
    /\ latched' = (latched \/ event)
    /\ fifo' = IF Notifies /\ ~hears THEN Append(f, "Close") ELSE f
    /\ lapses' = IF Notifies /\ hears THEN lapses \cup {"misread"} ELSE lapses

\* DispatchP2Pmsg catches what a handler throws.
Thrown == Drop(TRUE, Others, op, recv, FALSE)

-----------------------------------------------------------------------------
(* P2P_Startup: OnStartup(), then Listen() or Connect().                   *)

Listen ==
    /\ sock' = TRUE /\ fifo' = Append(Others, "Listen")
    /\ UNCHANGED <<asock, op, recv, latched, timer, lapses>>

\* An OVERLAPPED that is still owed is prepared all the same.
Connect ==
    /\ sock' = TRUE /\ op' = "flying" /\ fifo' = Others
    /\ lapses' = IF Queued(op) THEN lapses \cup {"overlap"} ELSE lapses
    /\ UNCHANGED <<asock, recv, latched, timer>>

\* OnStartup() throws when an event is latched.
OnStartup == ~latched

On_ConStartup ==
    /\ Serves("Startup")
    /\ \/ Thrown                                  \* by OnStartup(), or a call failed
       \/ /\ OnStartup /\ sock /\ fifo' = Others
          /\ UNCHANGED <<sockVars, latched, timer, lapses>>
       \/ /\ OnStartup /\ ~sock
          /\ IF mode = "SERVICE" THEN Listen ELSE Connect
    /\ UNCHANGED <<mode, destroyed, slotVars, calls>>

-----------------------------------------------------------------------------
(* A SERVICE: P2P_Listen, the accept, P2P_Accept.                          *)

\* Accept(): the accepting socket is s when it is called.
Accept(s) ==
    \/ /\ s # None /\ asock' = s /\ fifo' = Others
       /\ UNCHANGED <<sock, op, recv, latched, timer, lapses>>
    \/ /\ s = None /\ sock /\ ~Queued(op)
       /\ asock' = Fresh /\ op' = "flying" /\ fifo' = Others
       /\ UNCHANGED <<sock, recv, latched, timer, lapses>>
    \/ s = None /\ Thrown

On_ConListen ==
    /\ Serves("Listen") /\ Accept(asock)
    /\ UNCHANGED <<mode, destroyed, slotVars, calls>>

\* A peer connects, or the system gives the accept up.
PeerConnects(s) ==
    /\ Sound /\ mode = "SERVICE" /\ op = "flying" /\ s \in Sources
    /\ op' = "ok" /\ asock' = s
    /\ UNCHANGED <<mode, sock, recv, stateVars, slotVars, calls>>

\* The accept is done.  Between two messages the pump still points at the one
\* it dispatched last, which has been deleted: when a batch was cut short that
\* may read as a P2P_Close.
CompleteAccept(hears) ==
    /\ Sound /\ mode = "SERVICE" /\ op \in {"ok", "err"}
    /\ \/ Drop(TRUE, fifo, "idle", recv, hears)   \* it failed, or setsockopt() did
       \/ /\ op = "ok"
          /\ op' = "idle"
          /\ fifo' = IF asock = None THEN fifo ELSE Append(fifo, "Accept")
          /\ UNCHANGED <<sock, asock, recv, latched, timer, lapses>>
    /\ UNCHANGED <<mode, destroyed, slotVars, calls>>

AtCapacity == accepted >= MaxAccepted
SourceFull(k) == k # Unnamed /\ MaxPerSource > 0 /\ tally[k] >= MaxPerSource

Admits(k) == k \notin Barred /\ ~AtCapacity /\ ~SourceFull(k)

\* getpeername(): a peer that has gone can not be named.
Reading(s) == {s, Unnamed}
Refuses == asock # None => \E k \in Reading(asock) : ~Admits(k)

SpawnUnarmed(c, s, k, st, deadline) ==
    /\ child[c] = Vacant
    /\ child' = [child EXCEPT ![c] = [st |-> st, src |-> s, key |-> k, deadline |-> "off"]]
    /\ accepted' = accepted + 1
    /\ tally' = IF k = Unnamed THEN tally ELSE [tally EXCEPT ![k] = @ + 1]

\* AcceptSpawn() of the base: counted under a key it reads for itself.
Spawn(c, s, k, st, deadline) ==
    /\ child[c] = Vacant
    /\ child' = [child EXCEPT ![c] = [st |-> st, src |-> s, key |-> k, deadline |-> deadline]]
    /\ accepted' = accepted + 1
    /\ tally' = IF k = Unnamed THEN tally ELSE [tally EXCEPT ![k] = @ + 1]

RearmAdmitted ==
    /\ Serves("Accept")
    /\ \/ /\ Refuses /\ asock' = None /\ fifo' = Others
          /\ UNCHANGED <<sock, op, recv, latched, timer, lapses, slotVars>>
       \/ \E c \in Children, k \in Reading(asock) :
            /\ asock # None /\ Admits(k)
            /\ Spawn(c, asock, k, "posted", "armed") /\ Accept(None)
    /\ UNCHANGED <<mode, destroyed, calls>>

\* P2P_Accept of the service.  A peer it refuses loses its connection, the
\* service nothing.  A child that can not be given the port has been listed
\* and counted; one whose deadline can not be armed has been posted to.
On_ConAccept ==
    /\ Serves("Accept")
    /\ \/ Refuses /\ Accept(None) /\ UNCHANGED slotVars
       \/ \E c \in Children, k \in Reading(asock) :
            /\ asock # None /\ Admits(k)
            /\ \E counted \in Reading(k) :
                 \/ Spawn(c, asock, counted, "posted", "armed") /\ Accept(None)
                 \/ Spawn(c, asock, counted, "limbo", "off") /\ Thrown
                 \/ Spawn(c, asock, counted, "posted", "failed") /\ Thrown
    /\ UNCHANGED <<mode, destroyed, calls>>

-----------------------------------------------------------------------------
(* A CLIENT: the connect, P2P_Connect, what arrives.                       *)

CompleteConnect(hears) ==
    /\ Sound /\ mode = "CLIENT" /\ op \in {"ok", "err"}
    /\ \/ Drop(TRUE, fifo, "idle", recv, hears)   \* it failed, or the socket has gone
       \/ /\ op = "ok" /\ sock
          /\ op' = "idle" /\ fifo' = Append(fifo, "Connect")
          /\ UNCHANGED <<sock, asock, recv, latched, timer, lapses>>
    /\ UNCHANGED <<mode, destroyed, slotVars, calls>>

\* The read that starts the loop is posted, unless one is still owed.
OnConnect == IF Queued(recv) THEN recv ELSE "ok"

On_ConConnect ==
    /\ Serves("Connect")
    /\ \/ Drop(TRUE, Others, op, OnConnect, FALSE)   \* KeyX or Login() failed
       \/ /\ recv' = OnConnect /\ fifo' = Others
          /\ UNCHANGED <<sock, asock, op, latched, timer, lapses>>
    /\ UNCHANGED <<mode, destroyed, slotVars, calls>>

\* A read without a socket is ignored, whatever it brought.
CompleteRecv(hears) ==
    /\ Sound /\ recv \in {"ok", "err"}
    /\ \/ /\ sock /\ Drop(TRUE, fifo, op, "idle", hears)
       \/ /\ recv' = IF sock THEN "flying" ELSE "idle"
          /\ sock => recv = "ok"
          /\ UNCHANGED <<sock, asock, op, latched, timer, fifo, lapses>>
    /\ UNCHANGED <<mode, destroyed, slotVars, calls>>

\* The system completes a connect, a read, or what it was told to give up.
Finish ==
    /\ Sound
    /\ \/ /\ op = "cut" \/ (op = "flying" /\ mode = "CLIENT")
          /\ op' \in {"err"} \cup {o \in {"ok"} : op = "flying"} /\ UNCHANGED recv
       \/ /\ recv = "cut"
          /\ recv' = "err" /\ UNCHANGED op
    /\ UNCHANGED <<mode, sock, asock, stateVars, slotVars, calls>>

\* What it need not do: an accept that fails, a read that brings something.
Happens ==
    /\ Sound
    /\ \/ /\ op = "flying" /\ mode = "SERVICE" /\ op' = "err" /\ UNCHANGED recv
       \/ /\ recv = "flying" /\ recv' \in {"ok", "err"} /\ UNCHANGED op
    /\ UNCHANGED <<mode, sock, asock, stateVars, slotVars, calls>>

-----------------------------------------------------------------------------
(* P2P_Close and what leads to it.                                         *)

\* The sockets are closed; the event is cleared, by the steps that follow.
OnClose == sock' = FALSE /\ asock' = None /\ fifo' = Others

\* The timer is set again, or the table of timers is full and the exception
\* latches an event while its own P2P_Close is in dispatch.
Restart ==
    \/ /\ timer' = TRUE /\ latched' = FALSE /\ lapses' = {}
       /\ op' = Cut(op) /\ recv' = Cut(recv)
    \/ /\ timer' = FALSE /\ latched' = TRUE /\ lapses' = {"spent"}
       /\ op' = Dropped(Cut(op)) /\ recv' = Dropped(Cut(recv))

\* A client restarts; a service is dropped and destroyed.
On_ConClose ==
    /\ Serves("Close") /\ OnClose
    /\ \/ mode = "CLIENT" /\ ~destroyed /\ Restart /\ UNCHANGED destroyed
       \/ /\ mode = "SERVICE" \/ destroyed
          /\ timer' = FALSE /\ latched' = FALSE /\ destroyed' = TRUE /\ lapses' = {}
          /\ op' = Dropped(Cut(op)) /\ recv' = Dropped(Cut(recv))
    /\ UNCHANGED <<mode, slotVars, calls>>

\* OnShutdown() clears the event; Restart() insists on being called from the
\* close handler and throws.
On_ConShutdown ==
    /\ Serves("Shutdown")
    /\ timer' = FALSE /\ sock' = FALSE /\ asock' = None
    /\ op' = Dropped(Cut(op)) /\ recv' = Dropped(Cut(recv))
    /\ latched' = ~destroyed
    /\ fifo' = IF destroyed THEN Others ELSE Append(Others, "Close")
    /\ UNCHANGED <<mode, destroyed, slotVars, calls, lapses>>

On_PITimer ==
    /\ Sound /\ timer
    /\ timer' = FALSE /\ fifo' = Append(fifo, "Startup")
    /\ UNCHANGED <<mode, sockVars, latched, destroyed, slotVars, calls, lapses>>

\* The application's Close() and Shutdown().
Post(m) ==
    /\ Sound /\ calls < MaxCalls
    /\ calls' = calls + 1 /\ fifo' = Append(fifo, m)
    /\ UNCHANGED <<mode, sockVars, latched, destroyed, timer, slotVars, lapses>>

\* Its Signal(P2PsigCon_CLOSE), which the pump takes off the port.
SignalClose(hears) ==
    /\ Sound /\ calls < MaxCalls /\ calls' = calls + 1
    /\ Drop(FALSE, fifo, op, recv, hears)
    /\ UNCHANGED <<mode, destroyed, slotVars>>

-----------------------------------------------------------------------------
(* An accepted connection.                                                 *)

Becomes(c, st) == child' = [child EXCEPT ![c].st = st]
Elsewhere == UNCHANGED <<mode, sockVars, stateVars, calls>>

\* Its own Drop(): a close to come, or an event for which none will.
ChildDrops(c, hears) ==
    IF hears THEN Becomes(c, "deaf") ELSE Becomes(c, "closing")

\* OnAccept(""), which may fail.
ChildAccept(c) ==
    /\ child[c].st = "posted"
    /\ Becomes(c, "open") \/ ChildDrops(c, FALSE)
    /\ UNCHANGED <<accepted, tally>> /\ Elsewhere

\* OnLogin() cancels the deadline.
ChildLogin(c) ==
    /\ child[c].st = "open"
    /\ child' = [child EXCEPT ![c].st = "in", ![c].deadline = "off"]
    /\ UNCHANGED <<accepted, tally>> /\ Elsewhere

\* The peer goes, a read fails.
ChildFails(c, hears) ==
    /\ child[c].st \in {"open", "in"} /\ ChildDrops(c, hears)
    /\ UNCHANGED <<accepted, tally>> /\ Elsewhere

\* "Login timed out".
Deadline(c, hears) ==
    /\ child[c].deadline = "armed"
    /\ child' = [child EXCEPT ![c].deadline = "off",
                              ![c].st = IF @ \notin {"posted", "open"} THEN @
                                        ELSE IF hears THEN "deaf" ELSE "closing"]
    /\ UNCHANGED <<accepted, tally>> /\ Elsewhere

ChildGoneUncounted(c) ==
    /\ child[c].st = "closing"
    /\ child' = [child EXCEPT ![c] = Vacant]
    /\ accepted' = accepted - 1
    /\ UNCHANGED tally /\ Elsewhere

\* P2P_Close destroys it; ~P2PeerCon gives its slot and its share back.
ChildGone(c) ==
    /\ child[c].st = "closing"
    /\ child' = [child EXCEPT ![c] = Vacant]
    /\ accepted' = accepted - 1
    /\ tally' = IF child[c].key = Unnamed THEN tally
                ELSE [tally EXCEPT ![child[c].key] = @ - 1]
    /\ Elsewhere

-----------------------------------------------------------------------------
Dispatch == On_ConStartup \/ On_ConListen \/ On_ConAccept \/ On_ConConnect
            \/ On_ConClose \/ On_ConShutdown
Completes(hears) == CompleteAccept(hears) \/ CompleteConnect(hears)
Child(c, hears) == \/ ChildAccept(c) \/ ChildLogin(c) \/ ChildFails(c, hears)
                   \/ Deadline(c, hears) \/ ChildGone(c)

Next ==
    \/ Dispatch \/ Finish \/ Happens \/ On_PITimer
    \/ \E hears \in BOOLEAN :
         \/ Completes(hears) \/ CompleteRecv(hears) \/ SignalClose(hears)
         \/ \E c \in Children : Child(c, hears)
    \/ \E s \in Sources : PeerConnects(s)
    \/ \E m \in {"Close", "Shutdown"} : Post(m)

\* The pump serves messages, port and timers in turn (P2PmsgPump), the system
\* completes what it was asked to give up and a connect either way.  A peer
\* need not connect, log in or send.
Fairness ==
    /\ WF_vars(Dispatch) /\ WF_vars(Finish) /\ WF_vars(On_PITimer)
    /\ WF_vars(\E hears \in BOOLEAN : Completes(hears))
    /\ WF_vars(\E hears \in BOOLEAN : CompleteRecv(hears))
    /\ \A c \in Children :
         WF_vars(ChildAccept(c) \/ ChildGone(c) \/ \E hears \in BOOLEAN : Deadline(c, hears))

Spec == Init /\ [][Next]_vars /\ Fairness

-----------------------------------------------------------------------------
Has(m) == \E i \in DOMAIN fifo : fifo[i] = m

\* "P2P_Close notification MUST be performed once per attached event": however
\* messages, completions, timers and the application's calls fall, an endpoint
\* is never left to itself.  With an event latched a close is coming; closed, it
\* has a restart, a startup or a close before it; open, an operation the system
\* owes or a message.  Excepted is what "lapses" names: a Drop() that mistook
\* another connection's close for this one's, a close handler that found the
\* table of timers full, an OVERLAPPED used twice.
NeverForgotten ==
    ~destroyed /\ lapses = {} =>
      /\ latched => Has("Close")
      /\ ~sock => timer \/ Has("Startup") \/ Has("Close") \/ Has("Shutdown")
      /\ sock => Queued(op) \/ Queued(recv) \/ fifo # <<>>

Live == {c \in Children : child[c].st # "free"}
From(s) == {c \in Live : child[c].src = s /\ child[c].key = s}

\* The counts say how many accepted connections there are, whatever becomes of
\* them and of their service, and admission holds them to its bounds: of one
\* source too, except that a child whose peer could not be named any more when
\* it was counted counts for no source.
AdmissionHolds ==
    /\ accepted = Cardinality(Live) /\ accepted <= MaxAccepted
    /\ \A s \in Sources : /\ tally[s] = Cardinality(From(s))
                          /\ MaxPerSource > 0 => tally[s] <= MaxPerSource

\* An endpoint keeps coming back: a service to an accept that waits for a peer,
\* whomever it refused, a client to the next try, unless it is destroyed or one
\* of the lapses has silenced it.
InService == IF mode = "SERVICE" THEN asock = Fresh /\ op = "flying"
                                 ELSE sock \/ Has("Startup")
ComesBack == []<>(InService \/ destroyed \/ lapses # {})

\* A peer that says nothing does not keep its slot: an accepted connection logs
\* in or is gone, unless its deadline could not be armed or no close came for it.
SlotsReturn ==
    \A c \in Children :
      child[c].st \in {"posted", "open"} ~>
        child[c].st \in {"free", "in", "deaf"} \/ child[c].deadline = "failed"

===============================================================================
