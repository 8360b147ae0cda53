-------------------------- MODULE P2PeerConWsa_proofs --------------------------
(***************************************************************************)
(* Theorems about P2PeerConWsa, for any sources, bounds and calls of the   *)
(* application.                                                            *)
(*                                                                         *)
(* An endpoint is never forgotten because a close is coming for it or it   *)
(* is tended by something else, which each step that ends one hands on to  *)
(* the next.  The counts are exact because a service asks for one accept   *)
(* at a time, so that the peer an admission counts is the one that came.   *)
(***************************************************************************)
EXTENDS P2PeerConWsa, SequenceTheorems, FiniteSetTheorems, TLAPS

-------------------------------------------------------------------------------
(* The inductive invariant.                                                *)

In(m, f) == \E i \in DOMAIN f : f[i] = m

\* What takes a service from its startup to an accept that is under way: one of
\* these at a time, and none while the accept is.
Errands == {"Startup", "Listen", "Accept"}
Alone(f) == \A i, j \in DOMAIN f : f[i] \in Errands /\ f[j] \in Errands => i = j
Idle(f)  == \A i \in DOMAIN f : f[i] \notin Errands

OneErrand ==
    /\ mode = "SERVICE" =>
         /\ ~timer /\ Alone(fifo)
         /\ Queued(op) => Idle(fifo)
         /\ In("Startup", fifo) \/ In("Listen", fifo) => asock = None
         /\ asock = Fresh => Queued(op) /\ op # "ok"
    /\ mode = "CLIENT" => ~In("Accept", fifo)

\* What tends an endpoint no close is coming for.
Tended ==
    /\ ~latched
    /\ ~sock => timer \/ In("Startup", fifo) \/ In("Shutdown", fifo)
    /\ sock /\ mode = "CLIENT" => Queued(op) \/ Queued(recv) \/ In("Connect", fifo)
    /\ mode = "SERVICE" =>
         /\ sock => Queued(op) \/ In("Listen", fifo) \/ In("Accept", fifo)
         /\ asock # None => Queued(op) \/ In("Accept", fifo)
         /\ Queued(op) => asock # None

LookedAfter == ~destroyed /\ lapses = {} => In("Close", fifo) \/ Tended

EndTypes ==
    /\ mode \in {"SERVICE", "CLIENT"}
    /\ sock \in BOOLEAN /\ asock \in Sources \cup {None, Fresh}
    /\ op \in OpStates /\ recv \in OpStates
    /\ latched \in BOOLEAN /\ destroyed \in BOOLEAN /\ timer \in BOOLEAN
    /\ fifo \in Seq(Messages) /\ lapses \subseteq {"overlap", "misread", "spent"}

EndInv == EndTypes /\ (Sound => OneErrand) /\ LookedAfter

\* An accepted connection that counts for a source comes from it.
SlotTypes == child \in [Children -> Accepted] /\ accepted \in Nat /\ tally \in [Sources -> Nat]
Named == \A c \in Live : child[c].key # Unnamed => child[c].key = child[c].src
SlotInv == SlotTypes /\ Named /\ AdmissionHolds

IInv == EndInv /\ SlotInv /\ calls \in 0 .. MaxCalls

-------------------------------------------------------------------------------
(* The pump's messages: one is appended, or the first is taken.            *)

LEMMA Positions ==
    ASSUME NEW f \in Seq(Messages)
    PROVE  DOMAIN f = 1 .. Len(f) /\ Len(f) \in Nat
BY LenProperties

LEMMA Posted ==
    ASSUME NEW f \in Seq(Messages), NEW e \in Messages
    PROVE  /\ Append(f, e) \in Seq(Messages)
           /\ \A m : In(m, Append(f, e)) <=> In(m, f) \/ m = e
           /\ Alone(f) /\ (e \notin Errands \/ Idle(f)) => Alone(Append(f, e))
           /\ Idle(f) /\ e \notin Errands => Idle(Append(f, e))
<1> DEFINE g == Append(f, e)
<1>1. /\ g \in Seq(Messages) /\ Len(g) = Len(f) + 1 /\ g[Len(f) + 1] = e
      /\ \A i \in 1 .. Len(f) : g[i] = f[i]
  BY AppendProperties
<1>2. DOMAIN g = 1 .. Len(f) + 1 /\ DOMAIN f = 1 .. Len(f) /\ Len(f) \in Nat
  BY <1>1, Positions
<1> HIDE DEF g
<1>3. \A i \in 1 .. Len(f) + 1 : i \in 1 .. Len(f) \/ i = Len(f) + 1
  BY <1>2
<1>4. \A m : In(m, g) <=> In(m, f) \/ m = e
  BY <1>1, <1>2, <1>3 DEF In
<1>5. Alone(f) /\ (e \notin Errands \/ Idle(f)) => Alone(g)
  BY <1>1, <1>2, <1>3 DEF Alone, Idle
<1>6. Idle(f) /\ e \notin Errands => Idle(g)
  BY <1>1, <1>2, <1>3 DEF Idle
<1> QED BY <1>1, <1>4, <1>5, <1>6 DEF g

LEMMA Taken ==
    ASSUME NEW f \in Seq(Messages), f # <<>>
    PROVE  /\ Tail(f) \in Seq(Messages) /\ Head(f) \in Messages
           /\ \A m : In(m, f) <=> In(m, Tail(f)) \/ m = Head(f)
           /\ Alone(f) => Alone(Tail(f))
           /\ Alone(f) /\ Head(f) \in Errands => Idle(Tail(f))
           /\ Idle(f) => Idle(Tail(f)) /\ Head(f) \notin Errands
<1> DEFINE g == Tail(f)
<1>1. /\ g \in Seq(Messages) /\ Head(f) \in Messages /\ Len(g) = Len(f) - 1
      /\ \A i \in 1 .. Len(g) : g[i] = f[i + 1]
  BY HeadTailProperties
<1>2. Head(f) = f[1] /\ Len(f) \in Nat \ {0}
  BY EmptySeq
<1>3. DOMAIN g = 1 .. Len(f) - 1 /\ DOMAIN f = 1 .. Len(f)
  BY <1>1, Positions
<1> HIDE DEF g
<1>4. /\ \A i \in 1 .. Len(f) - 1 : i + 1 \in 1 .. Len(f) /\ i + 1 # 1 /\ g[i] = f[i + 1]
      /\ \A i \in 1 .. Len(f) : i = 1 \/ (i - 1 \in 1 .. Len(f) - 1 /\ g[i - 1] = f[i])
      /\ 1 \in 1 .. Len(f)
  <2>1. \A i \in 1 .. Len(f) : i = 1 \/ (i - 1 \in 1 .. Len(f) - 1 /\ (i - 1) + 1 = i)
    BY <1>2
  <2>2. \A i \in 1 .. Len(f) - 1 : i + 1 \in 1 .. Len(f) /\ i + 1 # 1
    BY <1>2
  <2>3. 1 \in 1 .. Len(f)
    BY <1>2
  <2> QED BY <1>1, <2>1, <2>2, <2>3
<1>5. \A m : In(m, f) <=> In(m, g) \/ m = Head(f)
  <2> TAKE m
  <2>1. ASSUME NEW i \in 1 .. Len(f), f[i] = m PROVE In(m, g) \/ m = Head(f)
    BY <1>2, <1>3, <1>4, <2>1 DEF In
  <2>2. ASSUME NEW i \in 1 .. Len(f) - 1, g[i] = m PROVE In(m, f)
    <3>1. i + 1 \in 1 .. Len(f) /\ f[i + 1] = m
      BY <1>4, <2>2
    <3> QED BY <1>3, <3>1 DEF In
  <2>3. m = Head(f) => In(m, f)
    BY <1>2, <1>3, <1>4 DEF In
  <2> QED BY <1>3, <2>1, <2>2, <2>3 DEF In
<1>6. Alone(f) => Alone(g)
  <2> SUFFICES ASSUME Alone(f), NEW i \in 1 .. Len(f) - 1, NEW j \in 1 .. Len(f) - 1,
                      g[i] \in Errands, g[j] \in Errands
               PROVE  i = j
    BY <1>3 DEF Alone
  <2>1. i + 1 = j + 1
    BY <1>3, <1>4 DEF Alone
  <2> QED BY <2>1, <1>2
<1>7. Alone(f) /\ Head(f) \in Errands => Idle(g)
  BY <1>2, <1>3, <1>4 DEF Alone, Idle
<1>8. Idle(f) => Idle(g) /\ Head(f) \notin Errands
  BY <1>2, <1>3, <1>4 DEF Idle
<1> QED BY <1>1, <1>5, <1>6, <1>7, <1>8 DEF g

LEMMA NoneIn ==
    ASSUME NEW f, Idle(f), NEW m \in Errands PROVE ~In(m, f)
BY DEF Idle, In

-------------------------------------------------------------------------------
(* The endpoint.                                                           *)

\* A Drop(), with what its caller leaves of the messages and of the operations.
LEMMA DropEnd ==
    ASSUME EndInv, Sound, NEW event \in BOOLEAN, NEW f \in Seq(Messages),
           NEW o \in OpStates, NEW r \in OpStates, NEW hears \in BOOLEAN,
           In("Close", fifo) => In("Close", f),
           mode = "SERVICE" => Alone(f) /\ (Queued(o) => Idle(f)),
           mode = "CLIENT" => ~In("Accept", f),
           UNCHANGED <<mode, destroyed>>, Drop(event, f, o, r, hears)
    PROVE  EndInv'
<1> DEFINE g == Append(f, "Close")
<1>1. /\ g \in Seq(Messages) /\ \A m : In(m, g) <=> In(m, f) \/ m = "Close"
      /\ Alone(f) => Alone(g)
      /\ Idle(f) => Idle(g)
  BY Posted DEF Messages, Errands
<1> HIDE DEF g
<1>2. /\ sock' = FALSE /\ asock' = None /\ timer' = FALSE
      /\ op' = Dropped(Cut(o)) /\ recv' = Dropped(Cut(r))
      /\ latched' = (latched \/ event)
      /\ fifo' = IF Notifies /\ ~hears THEN g ELSE f
      /\ lapses' = IF Notifies /\ hears THEN lapses \cup {"misread"} ELSE lapses
      /\ mode' = mode /\ destroyed' = destroyed
  BY DEF Drop, g
<1>3. op' \in OpStates /\ recv' \in OpStates /\ (Queued(op') => Queued(o))
  BY <1>2 DEF Dropped, Cut, OpStates, Rest, Queued
<1>4. EndTypes'
  BY <1>1, <1>2, <1>3 DEF EndInv, EndTypes
<1>5. OneErrand'
  <2>1. In("Accept", fifo') => In("Accept", f)
    BY <1>1, <1>2
  <2>2. (Alone(f) => Alone(fifo')) /\ (Idle(f) => Idle(fifo'))
    BY <1>1, <1>2
  <2> QED BY <1>2, <1>3, <2>1, <2>2, SourcesAssumption DEF OneErrand, EndInv, EndTypes
<1>6. LookedAfter'
  <2> SUFFICES ASSUME ~destroyed, lapses' = {} PROVE In("Close", fifo')
    BY <1>2 DEF LookedAfter
  <2>1. CASE Notifies
    <3>1. ~hears
      BY <1>2, <2>1
    <3> QED BY <1>1, <1>2, <2>1, <3>1
  <2>2. CASE ~Notifies
    <3>1. latched /\ lapses = {}
      BY <1>2, <2>2 DEF Notifies
    <3>2. In("Close", fifo)
      BY <3>1 DEF EndInv, LookedAfter, Tended
    <3> QED BY <1>2, <2>2, <3>2
  <2> QED BY <2>1, <2>2
<1> QED BY <1>4, <1>5, <1>6 DEF EndInv

\* What a handler finds in its message and what it leaves to the next.
LEMMA Served ==
    ASSUME EndInv, NEW m, Serves(m)
    PROVE  /\ Sound /\ OneErrand /\ Others \in Seq(Messages) /\ m \in Messages
           /\ \A n : In(n, fifo) <=> In(n, Others) \/ n = m
           /\ Alone(fifo) => Alone(Others)
           /\ Alone(fifo) /\ m \in Errands => Idle(Others)
           /\ Idle(fifo) => Idle(Others) /\ m \notin Errands
BY Taken DEF EndInv, EndTypes, Serves, Others

\* A handler that throws.
LEMMA ThrownEnd ==
    ASSUME EndInv, NEW m, Serves(m), m # "Close", UNCHANGED <<mode, destroyed>>,
           NEW r \in OpStates, Drop(TRUE, Others, op, r, FALSE)
    PROVE  EndInv'
<1>1. /\ Sound /\ Others \in Seq(Messages)
      /\ In("Close", fifo) => In("Close", Others)
      /\ mode = "SERVICE" => Alone(Others) /\ (Queued(op) => Idle(Others))
      /\ mode = "CLIENT" => ~In("Accept", Others)
  BY Served DEF OneErrand
<1>2. op \in OpStates
  BY DEF EndInv, EndTypes
<1> QED BY <1>1, <1>2, DropEnd

LEMMA ListenEnd ==
    ASSUME EndInv, Serves("Startup"), OnStartup, ~sock, mode = "SERVICE", Listen,
           UNCHANGED <<mode, destroyed>>
    PROVE  EndInv'
<1> DEFINE g == Append(Others, "Listen")
<1>1. /\ Others \in Seq(Messages) /\ Idle(Others) /\ OneErrand /\ ~Queued(op) /\ asock = None
      /\ In("Close", fifo) => In("Close", Others)
  <2>1. "Startup" \in Errands
    BY DEF Errands
  <2>2. OneErrand /\ In("Startup", fifo) /\ Alone(fifo)
    BY Served DEF OneErrand
  <2>3. Idle(Others) /\ ~Idle(fifo)
    BY <2>1, <2>2, Served
  <2> QED BY <2>2, <2>3, Served DEF OneErrand
<1>2. /\ g \in Seq(Messages) /\ Alone(g) /\ In("Listen", g)
      /\ In("Close", Others) => In("Close", g)
  <2>1. "Listen" \in Messages /\ Alone(Others)
    BY <1>1 DEF Messages, Alone, Idle
  <2> QED BY <1>1, <2>1, Posted
<1> HIDE DEF g
<1>3. sock' = TRUE /\ fifo' = g /\ UNCHANGED <<mode, destroyed, asock, op, recv, latched, timer, lapses>>
  BY DEF Listen, g
<1>4. EndTypes'
  BY <1>2, <1>3 DEF EndInv, EndTypes
<1>5. OneErrand'
  BY <1>1, <1>2, <1>3, SourcesAssumption DEF OneErrand, Queued
<1>6. LookedAfter'
  BY <1>1, <1>2, <1>3 DEF EndInv, LookedAfter, Tended, Queued, OnStartup
<1> QED BY <1>4, <1>5, <1>6 DEF EndInv

LEMMA ConnectEnd ==
    ASSUME EndInv, Serves("Startup"), OnStartup, ~sock, mode = "CLIENT", Connect,
           UNCHANGED <<mode, destroyed>>
    PROVE  EndInv'
<1>1. /\ sock' = TRUE /\ op' = "flying" /\ fifo' = Others
      /\ lapses' = IF Queued(op) THEN lapses \cup {"overlap"} ELSE lapses
      /\ UNCHANGED <<mode, destroyed, asock, recv, latched, timer>>
  BY DEF Connect
<1>2. /\ Sound /\ OneErrand /\ Others \in Seq(Messages)
      /\ In("Accept", Others) => In("Accept", fifo)
  BY Served
<1>3. EndTypes'
  BY <1>1, <1>2 DEF EndInv, EndTypes, OpStates
<1>4. OneErrand'
  BY <1>1, <1>2 DEF OneErrand
<1>5. Tended'
  BY <1>1 DEF Tended, OnStartup, Queued, Rest
<1> QED BY <1>3, <1>4, <1>5 DEF EndInv, LookedAfter

LEMMA StartupEnd == EndInv /\ On_ConStartup => EndInv'
<1> SUFFICES ASSUME EndInv, On_ConStartup PROVE EndInv'
  OBVIOUS
<1>1. Serves("Startup") /\ UNCHANGED <<mode, destroyed>>
  BY DEF On_ConStartup
<1>2. CASE Thrown
  <2>1. recv \in OpStates
    BY DEF EndInv, EndTypes
  <2> QED BY <1>1, <1>2, <2>1, ThrownEnd DEF Thrown
<1>3. CASE OnStartup /\ sock /\ fifo' = Others /\ UNCHANGED <<sockVars, latched, timer, lapses>>
  <2>1. UNCHANGED <<mode, destroyed, sock, asock, op, recv, latched, timer, lapses>> /\ fifo' = Others
    BY <1>1, <1>3 DEF sockVars
  <2>2. /\ Sound /\ OneErrand /\ Others \in Seq(Messages)
        /\ \A n : In(n, fifo) <=> In(n, Others) \/ n = "Startup"
        /\ Alone(fifo) => Alone(Others)
        /\ Idle(fifo) => Idle(Others)
    BY <1>1, Served
  <2>3. EndTypes'
    BY <2>1, <2>2 DEF EndInv, EndTypes
  <2>4. OneErrand'
    BY <2>1, <2>2 DEF OneErrand, Queued
  <2>5. LookedAfter'
    BY <1>3, <2>1, <2>2 DEF EndInv, LookedAfter, Tended, Queued
  <2> QED BY <2>3, <2>4, <2>5 DEF EndInv
<1>4. CASE OnStartup /\ ~sock /\ IF mode = "SERVICE" THEN Listen ELSE Connect
  <2>1. mode \in {"SERVICE", "CLIENT"}
    BY DEF EndInv, EndTypes
  <2> QED BY <1>1, <1>4, <2>1, ListenEnd, ConnectEnd
<1> QED BY <1>2, <1>3, <1>4 DEF On_ConStartup

\* An accept on the socket that is there, or on a new one.
LEMMA AcceptEnd ==
    ASSUME EndInv, NEW m \in {"Listen", "Accept"}, Serves(m), NEW s,
           s = IF m = "Listen" THEN asock ELSE None, Accept(s), UNCHANGED <<mode, destroyed>>
    PROVE  EndInv'
<1>1. /\ Sound /\ OneErrand /\ Others \in Seq(Messages)
      /\ \A n : In(n, fifo) <=> In(n, Others) \/ n = m
      /\ Alone(fifo) => Alone(Others) /\ Idle(Others)
      /\ Idle(fifo) => Idle(Others)
  BY Served DEF Errands
<1>2. CASE s # None /\ asock' = s /\ fifo' = Others /\ UNCHANGED <<sock, op, recv, latched, timer, lapses>>
  <2>1. /\ asock # None /\ asock' = asock /\ fifo' = Others
        /\ UNCHANGED <<mode, destroyed, sock, asock, op, recv, latched, timer, lapses>>
    BY <1>2
  <2>2. EndTypes'
    BY <1>1, <2>1 DEF EndInv, EndTypes
  <2>3. OneErrand'
    BY <1>1, <2>1 DEF OneErrand, Queued
  <2>4. LookedAfter'
    <3>1. mode = "CLIENT"
      <4>1. m = "Listen" /\ In("Listen", fifo)
        BY <1>1, <1>2
      <4> QED BY <1>1, <2>1, <4>1 DEF OneErrand, EndInv, EndTypes
    <3> QED BY <1>1, <2>1, <3>1 DEF EndInv, LookedAfter, Tended, Queued, OneErrand
  <2> QED BY <2>2, <2>3, <2>4 DEF EndInv
<1>3. CASE /\ s = None /\ sock /\ ~Queued(op)
           /\ asock' = Fresh /\ op' = "flying" /\ fifo' = Others
           /\ UNCHANGED <<sock, recv, latched, timer, lapses>>
  <2>1. /\ asock' = Fresh /\ op' = "flying" /\ fifo' = Others /\ sock
        /\ UNCHANGED <<mode, destroyed, sock, recv, latched, timer, lapses>>
    BY <1>3
  <2>2. Queued("flying")
    BY DEF Queued, Rest
  <2>3. EndTypes'
    BY <1>1, <2>1 DEF EndInv, EndTypes, OpStates
  <2>4. OneErrand'
    <3>1. mode = "SERVICE" => Idle(Others) /\ ~In("Startup", Others) /\ ~In("Listen", Others)
      BY <1>1, NoneIn DEF OneErrand, Errands
    <3> QED BY <1>1, <2>1, <2>2, <3>1 DEF OneErrand, Queued
  <2>5. LookedAfter'
    BY <1>1, <2>1, <2>2, SourcesAssumption DEF EndInv, LookedAfter, Tended, Queued
  <2> QED BY <2>3, <2>4, <2>5 DEF EndInv
<1>4. CASE Thrown
  <2>1. recv \in OpStates /\ m # "Close"
    BY DEF EndInv, EndTypes
  <2> QED BY <1>4, <2>1, ThrownEnd DEF Thrown
<1> QED BY <1>2, <1>3, <1>4 DEF Accept

LEMMA OnListenEnd == EndInv /\ On_ConListen => EndInv'
BY AcceptEnd DEF On_ConListen

LEMMA OnAcceptEnd == EndInv /\ On_ConAccept => EndInv'
<1> SUFFICES ASSUME EndInv, On_ConAccept PROVE EndInv'
  OBVIOUS
<1>1. Serves("Accept") /\ UNCHANGED <<mode, destroyed>> /\ (Accept(None) \/ Thrown)
  BY DEF On_ConAccept
<1>2. Accept(None)
  BY <1>1 DEF Accept
<1> QED BY <1>1, <1>2, AcceptEnd

\* A step of the operating system: the messages stay, what was owed is owed.
LEMMA SystemEnd ==
    ASSUME EndInv, Sound, op' \in OpStates, recv' \in OpStates, Queued(op') <=> Queued(op),
           Queued(recv) => Queued(recv'),
           \/ asock' = asock
           \/ Queued(op) /\ asock' \in Sources,
           asock' = Fresh => op' # "ok",
           UNCHANGED <<mode, sock, latched, destroyed, timer, fifo, lapses>>
    PROVE  EndInv'
<1>1. EndTypes'
  BY DEF EndInv, EndTypes
<1>2. OneErrand'
  <2>1. Queued(op) /\ mode = "SERVICE" => ~In("Startup", fifo) /\ ~In("Listen", fifo)
    BY NoneIn DEF EndInv, OneErrand, Errands
  <2> QED BY <2>1, SourcesAssumption DEF EndInv, OneErrand, Queued
<1>3. LookedAfter'
  BY SourcesAssumption DEF EndInv, LookedAfter, Tended, Queued
<1> QED BY <1>1, <1>2, <1>3 DEF EndInv

LEMMA PeerConnectsEnd == ASSUME EndInv, NEW s, PeerConnects(s) PROVE EndInv'
<1>1. /\ Sound /\ mode = "SERVICE" /\ op = "flying" /\ s \in Sources /\ op' = "ok" /\ asock' = s
      /\ UNCHANGED <<mode, sock, recv, latched, destroyed, timer, fifo, lapses>>
  BY DEF PeerConnects, stateVars
<1>2. /\ op' \in OpStates /\ recv' \in OpStates /\ Queued(op) /\ Queued(op') /\ s # Fresh
      /\ Queued(recv) => Queued(recv')
  BY <1>1, SourcesAssumption DEF OpStates, Rest, Queued, EndInv, EndTypes
<1> QED BY <1>1, <1>2, SystemEnd

LEMMA FinishEnd == EndInv /\ Finish => EndInv'
<1> SUFFICES ASSUME EndInv, Finish PROVE EndInv'
  OBVIOUS
<1>1. /\ Sound /\ UNCHANGED <<mode, sock, asock, latched, destroyed, timer, fifo, lapses>>
      /\ \/ /\ op = "cut" \/ (op = "flying" /\ mode = "CLIENT")
            /\ op' \in {"err"} \cup {o \in {"ok"} : op = "flying"} /\ recv' = recv
         \/ recv = "cut" /\ recv' = "err" /\ op' = op
  BY DEF Finish, stateVars
<1>2. /\ op' \in OpStates /\ recv' \in OpStates /\ (Queued(op') <=> Queued(op))
      /\ Queued(recv) => Queued(recv')
  BY <1>1 DEF OpStates, Rest, Queued, EndInv, EndTypes
<1>3. CASE mode = "SERVICE"
  <2>1. op' = "ok" => op = "ok"
    BY <1>1, <1>3
  <2>2. asock' = Fresh => op' # "ok"
    BY <1>1, <1>3, <2>1 DEF EndInv, OneErrand
  <2> QED BY <1>1, <1>2, <2>2, SystemEnd
<1>4. CASE mode = "CLIENT"
  <2>1. EndTypes'
    BY <1>1, <1>2 DEF EndInv, EndTypes
  <2>2. OneErrand'
    BY <1>1, <1>4 DEF EndInv, OneErrand
  <2>3. LookedAfter'
    BY <1>1, <1>2, <1>4 DEF EndInv, LookedAfter, Tended, Queued
  <2> QED BY <2>1, <2>2, <2>3 DEF EndInv
<1> QED BY <1>3, <1>4 DEF EndInv, EndTypes

LEMMA HappensEnd == EndInv /\ Happens => EndInv'
<1> SUFFICES ASSUME EndInv, Happens PROVE EndInv'
  OBVIOUS
<1>1. /\ Sound /\ UNCHANGED <<mode, sock, asock, latched, destroyed, timer, fifo, lapses>>
      /\ \/ op = "flying" /\ mode = "SERVICE" /\ op' = "err" /\ recv' = recv
         \/ recv = "flying" /\ recv' \in {"ok", "err"} /\ op' = op
  BY DEF Happens, stateVars
<1>2. /\ op' \in OpStates /\ recv' \in OpStates /\ (Queued(op') <=> Queued(op))
      /\ Queued(recv) => Queued(recv')
  BY <1>1 DEF OpStates, Rest, Queued, EndInv, EndTypes
<1>3. EndTypes'
  BY <1>1, <1>2 DEF EndInv, EndTypes
<1>4. OneErrand'
  BY <1>1, <1>2 DEF EndInv, OneErrand, Queued
<1>5. LookedAfter'
  BY <1>1, <1>2 DEF EndInv, LookedAfter, Tended, Queued
<1> QED BY <1>3, <1>4, <1>5 DEF EndInv

\* The Drop() of a completion, of a timer or of the application's signal, between two
\* messages.
LEMMA BetweenEnd ==
    ASSUME EndInv, Sound, NEW event \in BOOLEAN, NEW o \in OpStates, NEW r \in OpStates,
           NEW hears \in BOOLEAN, Queued(o) => Queued(op), UNCHANGED <<mode, destroyed>>,
           Drop(event, fifo, o, r, hears)
    PROVE  EndInv'
<1>1. /\ fifo \in Seq(Messages)
      /\ mode = "SERVICE" => Alone(fifo) /\ (Queued(o) => Idle(fifo))
      /\ mode = "CLIENT" => ~In("Accept", fifo)
  BY DEF EndInv, EndTypes, OneErrand
<1> QED BY <1>1, DropEnd

LEMMA CompleteAcceptEnd == ASSUME EndInv, NEW hears \in BOOLEAN, CompleteAccept(hears) PROVE EndInv'
<1>1. /\ Sound /\ mode = "SERVICE" /\ op \in {"ok", "err"} /\ UNCHANGED <<mode, destroyed>>
      /\ OneErrand /\ EndTypes /\ LookedAfter
  BY DEF CompleteAccept, EndInv
<1>2. CASE Drop(TRUE, fifo, "idle", recv, hears)
  <2>1. "idle" \in OpStates /\ ~Queued("idle") /\ recv \in OpStates
    BY <1>1 DEF EndTypes, OpStates, Rest, Queued
  <2> QED BY <1>1, <1>2, <2>1, BetweenEnd
<1>3. CASE /\ op = "ok" /\ op' = "idle"
           /\ fifo' = IF asock = None THEN fifo ELSE Append(fifo, "Accept")
           /\ UNCHANGED <<sock, asock, recv, latched, timer, lapses>>
  <2>1. /\ fifo' \in Seq(Messages) /\ Alone(fifo')
        /\ asock # None => In("Accept", fifo')
        /\ \A m : m # "Accept" => (In(m, fifo') <=> In(m, fifo))
        /\ ~In("Startup", fifo) /\ ~In("Listen", fifo)
    <3>1. Alone(fifo) /\ Idle(fifo)
      BY <1>1, <1>3 DEF OneErrand, Queued, Rest
    <3>2. fifo \in Seq(Messages) /\ "Accept" \in Messages
      BY <1>1 DEF EndTypes, Messages
    <3>3. ~In("Startup", fifo) /\ ~In("Listen", fifo)
      BY <3>1, NoneIn DEF Errands
    <3>4. CASE asock = None
      BY <1>3, <3>1, <3>2, <3>3, <3>4
    <3>5. CASE asock # None
      BY <1>3, <3>1, <3>2, <3>3, <3>5, Posted
    <3> QED BY <3>4, <3>5
  <2>2. ~Queued(op') /\ op' \in OpStates /\ Queued(op)
    BY <1>3 DEF Queued, Rest, OpStates
  <2>3. EndTypes'
    BY <1>1, <1>3, <2>1, <2>2 DEF EndTypes
  <2>4. OneErrand'
    BY <1>1, <1>3, <2>1, <2>2 DEF OneErrand
  <2>5. LookedAfter'
    BY <1>1, <1>3, <2>1, <2>2 DEF LookedAfter, Tended
  <2> QED BY <2>3, <2>4, <2>5 DEF EndInv
<1> QED BY <1>2, <1>3 DEF CompleteAccept

LEMMA CompleteConnectEnd == ASSUME EndInv, NEW hears \in BOOLEAN, CompleteConnect(hears) PROVE EndInv'
<1>1. /\ Sound /\ mode = "CLIENT" /\ op \in {"ok", "err"} /\ UNCHANGED <<mode, destroyed>>
      /\ OneErrand /\ EndTypes /\ LookedAfter
  BY DEF CompleteConnect, EndInv
<1>2. CASE Drop(TRUE, fifo, "idle", recv, hears)
  <2>1. "idle" \in OpStates /\ ~Queued("idle") /\ recv \in OpStates
    BY <1>1 DEF EndTypes, OpStates, Rest, Queued
  <2> QED BY <1>1, <1>2, <2>1, BetweenEnd
<1>3. CASE /\ op = "ok" /\ sock /\ op' = "idle" /\ fifo' = Append(fifo, "Connect")
           /\ UNCHANGED <<sock, asock, recv, latched, timer, lapses>>
  <2>1. /\ fifo' \in Seq(Messages)
        /\ \A m : In(m, fifo') <=> In(m, fifo) \/ m = "Connect"
    BY <1>1, <1>3, Posted DEF EndTypes, Messages
  <2>2. op' \in OpStates
    BY <1>3 DEF Rest, OpStates
  <2>3. EndTypes'
    BY <1>1, <1>3, <2>1, <2>2 DEF EndTypes
  <2>4. OneErrand'
    BY <1>1, <2>1 DEF OneErrand
  <2>5. LookedAfter'
    BY <1>1, <1>3, <2>1 DEF LookedAfter, Tended
  <2> QED BY <2>3, <2>4, <2>5 DEF EndInv
<1> QED BY <1>2, <1>3 DEF CompleteConnect

LEMMA OnConnectEnd == EndInv /\ On_ConConnect => EndInv'
<1> SUFFICES ASSUME EndInv, On_ConConnect PROVE EndInv'
  OBVIOUS
<1>1. Serves("Connect") /\ UNCHANGED <<mode, destroyed>>
  BY DEF On_ConConnect
<1>2. OnConnect \in OpStates /\ Queued(OnConnect)
  BY DEF OnConnect, OpStates, Rest, Queued, EndInv, EndTypes
<1>3. CASE Drop(TRUE, Others, op, OnConnect, FALSE)
  BY <1>1, <1>2, <1>3, ThrownEnd
<1>4. CASE recv' = OnConnect /\ fifo' = Others /\ UNCHANGED <<sock, asock, op, latched, timer, lapses>>
  <2>1. /\ Sound /\ OneErrand /\ Others \in Seq(Messages)
        /\ \A n : In(n, fifo) <=> In(n, Others) \/ n = "Connect"
        /\ Alone(fifo) => Alone(Others)
        /\ Idle(fifo) => Idle(Others)
    BY <1>1, Served
  <2>2. EndTypes'
    BY <1>1, <1>2, <1>4, <2>1 DEF EndInv, EndTypes
  <2>3. OneErrand'
    BY <1>1, <1>4, <2>1 DEF OneErrand, Queued
  <2>4. Queued(recv')
    BY <1>2, <1>4
  <2>5. LookedAfter'
    BY <1>1, <1>4, <2>1, <2>4 DEF EndInv, LookedAfter, Tended, Queued
  <2> QED BY <2>2, <2>3, <2>5 DEF EndInv
<1> QED BY <1>3, <1>4 DEF On_ConConnect

LEMMA CompleteRecvEnd == ASSUME EndInv, NEW hears \in BOOLEAN, CompleteRecv(hears) PROVE EndInv'
<1>1. /\ Sound /\ UNCHANGED <<mode, destroyed>> /\ op \in OpStates
      /\ EndTypes /\ OneErrand /\ LookedAfter
  BY DEF CompleteRecv, EndInv, EndTypes
<1>2. CASE Drop(TRUE, fifo, op, "idle", hears)
  <2>1. "idle" \in OpStates
    BY DEF OpStates, Rest
  <2> QED BY <1>1, <1>2, <2>1, BetweenEnd
<1>3. CASE /\ recv' = IF sock THEN "flying" ELSE "idle"
           /\ UNCHANGED <<sock, asock, op, latched, timer, fifo, lapses>>
  <2>1. recv' \in OpStates /\ (sock => Queued(recv'))
    BY <1>3 DEF OpStates, Rest, Queued
  <2>2. EndTypes'
    BY <1>1, <1>3, <2>1 DEF EndTypes
  <2>3. OneErrand'
    BY <1>1, <1>3 DEF OneErrand, Queued
  <2>4. LookedAfter'
    BY <1>1, <1>3, <2>1 DEF LookedAfter, Tended, Queued
  <2> QED BY <2>2, <2>3, <2>4 DEF EndInv
<1> QED BY <1>2, <1>3 DEF CompleteRecv

LEMMA OnCloseEnd == EndInv /\ On_ConClose => EndInv'
<1> SUFFICES ASSUME EndInv, On_ConClose PROVE EndInv'
  OBVIOUS
<1>1. /\ Serves("Close") /\ mode' = mode /\ sock' = FALSE /\ asock' = None /\ fifo' = Others
  BY DEF On_ConClose, OnClose
<1>2. /\ Sound /\ OneErrand /\ Others \in Seq(Messages)
      /\ \A n : In(n, fifo) <=> In(n, Others) \/ n = "Close"
      /\ Alone(fifo) => Alone(Others)
      /\ Idle(fifo) => Idle(Others)
  BY <1>1, Served
<1>3. /\ op' \in OpStates /\ recv' \in OpStates /\ (Queued(op') => Queued(op))
      /\ timer' \in BOOLEAN /\ latched' \in BOOLEAN /\ destroyed' \in BOOLEAN
      /\ lapses' \subseteq {"overlap", "misread", "spent"}
  BY DEF On_ConClose, Restart, Dropped, Cut, OpStates, Rest, Queued, EndInv, EndTypes
<1>4. /\ mode = "SERVICE" => timer' = FALSE
      /\ ~destroyed' /\ lapses' = {} => mode = "CLIENT" /\ timer' /\ ~latched'
  BY DEF On_ConClose, Restart
<1>5. EndTypes'
  BY <1>1, <1>2, <1>3, SourcesAssumption DEF EndInv, EndTypes
<1>6. OneErrand'
  BY <1>1, <1>2, <1>3, <1>4, SourcesAssumption DEF OneErrand
<1>7. LookedAfter'
  BY <1>1, <1>4 DEF LookedAfter, Tended
<1> QED BY <1>5, <1>6, <1>7 DEF EndInv

LEMMA OnShutdownEnd == EndInv /\ On_ConShutdown => EndInv'
<1> SUFFICES ASSUME EndInv, On_ConShutdown PROVE EndInv'
  OBVIOUS
<1>1. /\ Serves("Shutdown") /\ timer' = FALSE /\ sock' = FALSE /\ asock' = None
      /\ op' = Dropped(Cut(op)) /\ recv' = Dropped(Cut(recv)) /\ latched' = ~destroyed
      /\ fifo' = IF destroyed THEN Others ELSE Append(Others, "Close")
      /\ UNCHANGED <<mode, destroyed, lapses>>
  BY DEF On_ConShutdown
<1>2. /\ Sound /\ OneErrand /\ Others \in Seq(Messages)
      /\ \A n : In(n, fifo) <=> In(n, Others) \/ n = "Shutdown"
      /\ Alone(fifo) => Alone(Others)
      /\ Idle(fifo) => Idle(Others)
  BY <1>1, Served
<1>3. /\ fifo' \in Seq(Messages) /\ (~destroyed => In("Close", fifo'))
      /\ \A n : In(n, fifo') => In(n, Others) \/ n = "Close"
      /\ Alone(fifo) => Alone(fifo')
      /\ Idle(fifo) => Idle(fifo')
  <2>1. "Close" \in Messages /\ "Close" \notin Errands
    BY DEF Messages, Errands
  <2>2. CASE destroyed
    BY <1>1, <1>2, <2>2
  <2>3. CASE ~destroyed
    BY <1>1, <1>2, <2>1, <2>3, Posted
  <2> QED BY <2>2, <2>3
<1>4. op' \in OpStates /\ recv' \in OpStates /\ (Queued(op') => Queued(op))
  BY <1>1 DEF Dropped, Cut, OpStates, Rest, Queued, EndInv, EndTypes
<1>5. EndTypes'
  BY <1>1, <1>3, <1>4, SourcesAssumption DEF EndInv, EndTypes
<1>6. OneErrand'
  BY <1>1, <1>2, <1>3, <1>4, SourcesAssumption DEF OneErrand
<1>7. LookedAfter'
  BY <1>1, <1>3 DEF LookedAfter
<1> QED BY <1>5, <1>6, <1>7 DEF EndInv

\* A message that is no errand of a service is appended.
LEMMA PostEnd ==
    ASSUME EndInv, Sound, NEW m \in Messages, m = "Startup" => mode = "CLIENT", m # "Listen", m # "Accept",
           fifo' = Append(fifo, m), timer' \in BOOLEAN, timer' => timer,
           timer => timer' \/ m = "Startup",
           UNCHANGED <<mode, sock, asock, op, recv, latched, destroyed, lapses>>
    PROVE  EndInv'
<1>1. /\ fifo' \in Seq(Messages)
      /\ \A n : In(n, fifo') <=> In(n, fifo) \/ n = m
      /\ Alone(fifo) /\ m \notin Errands => Alone(fifo')
      /\ Idle(fifo) /\ m \notin Errands => Idle(fifo')
  BY Posted DEF EndInv, EndTypes
<1>2. mode = "SERVICE" => m \notin Errands
  BY DEF Errands
<1>3. EndTypes'
  BY <1>1 DEF EndInv, EndTypes
<1>4. OneErrand'
  BY <1>1, <1>2 DEF EndInv, OneErrand, Queued, Errands
<1>5. LookedAfter'
  BY <1>1 DEF EndInv, LookedAfter, Tended, Queued
<1> QED BY <1>3, <1>4, <1>5 DEF EndInv

LEMMA TimerEnd == EndInv /\ On_PITimer => EndInv'
<1> SUFFICES ASSUME EndInv, On_PITimer PROVE EndInv'
  OBVIOUS
<1>1. /\ Sound /\ timer /\ timer' = FALSE /\ fifo' = Append(fifo, "Startup")
      /\ UNCHANGED <<mode, sock, asock, op, recv, latched, destroyed, lapses>>
  BY DEF On_PITimer, sockVars
<1>2. mode = "CLIENT"
  BY <1>1 DEF EndInv, EndTypes, OneErrand
<1> QED BY <1>1, <1>2, PostEnd DEF Messages

LEMMA CallEnd == ASSUME EndInv, NEW m \in {"Close", "Shutdown"}, Post(m) PROVE EndInv'
<1>1. /\ Sound /\ fifo' = Append(fifo, m) /\ timer' = timer /\ timer \in BOOLEAN
      /\ UNCHANGED <<mode, sock, asock, op, recv, latched, destroyed, lapses>>
  BY DEF Post, sockVars, EndInv, EndTypes
<1> QED BY <1>1, PostEnd DEF Messages

LEMMA SignalEnd == ASSUME EndInv, NEW hears \in BOOLEAN, SignalClose(hears) PROVE EndInv'
<1>1. /\ Sound /\ op \in OpStates /\ recv \in OpStates /\ UNCHANGED <<mode, destroyed>>
      /\ Drop(FALSE, fifo, op, recv, hears)
  BY DEF SignalClose, EndInv, EndTypes
<1> QED BY <1>1, BetweenEnd

LEMMA RestEnd ==
    ASSUME EndInv, UNCHANGED <<mode, sockVars, stateVars>> PROVE EndInv'
BY DEF sockVars, stateVars, EndInv, EndTypes, Sound, OneErrand, LookedAfter, Tended, Queued

-------------------------------------------------------------------------------
(* The accepted connections.                                               *)

LEMMA FiniteSlots ==
    ASSUME SlotTypes
    PROVE  /\ Live \subseteq Children /\ IsFiniteSet(Live) /\ Cardinality(Live) \in Nat
           /\ \A s : From(s) \subseteq Live /\ IsFiniteSet(From(s)) /\ Cardinality(From(s)) \in Nat
<1>1. Live \subseteq Children /\ \A s : From(s) \subseteq Live
  BY DEF Live, From
<1>2. IsFiniteSet(Children)
  BY BoundsAssumption
<1>3. \A T \in SUBSET Children : IsFiniteSet(T) /\ Cardinality(T) \in Nat
  BY <1>2, FS_Subset, FS_CardinalityType
<1> QED BY <1>1, <1>3

\* A connection is admitted: what is counted for it is what it is.
LEMMA SpawnSlots ==
    ASSUME SlotInv, NEW c \in Children, asock \in Sources, NEW k \in Reading(asock), Admits(k),
           NEW counted \in Reading(k), NEW st \in {"posted", "limbo"},
           NEW deadline \in {"off", "armed", "failed"}, Spawn(c, asock, counted, st, deadline)
    PROVE  SlotInv'
<1> DEFINE new == [st |-> st, src |-> asock, key |-> counted, deadline |-> deadline]
<1>1. /\ new \in Accepted /\ new.st # "free" /\ new.src = asock /\ new.key = counted
      /\ counted \in {asock, Unnamed} /\ (counted # Unnamed => counted = k)
  BY DEF Accepted, Keys, Reading
<1>2. child[c].st = "free"
  BY DEF Spawn, Vacant
<1>3. /\ child' = [child EXCEPT ![c] = new] /\ accepted' = accepted + 1
      /\ tally' = IF counted = Unnamed THEN tally ELSE [tally EXCEPT ![counted] = @ + 1]
  BY DEF Spawn
<1> HIDE DEF new
<1>4. /\ SlotTypes /\ child \in [Children -> Accepted] /\ accepted \in Nat /\ tally \in [Sources -> Nat]
      /\ Named /\ AdmissionHolds
  BY DEF SlotInv, SlotTypes
<1>5. SlotTypes'
  <2>1. child' \in [Children -> Accepted]
    BY <1>1, <1>3, <1>4
  <2>2. tally' \in [Sources -> Nat]
    BY <1>1, <1>3, <1>4
  <2> QED BY <1>3, <1>4, <2>1, <2>2 DEF SlotTypes
<1>6. /\ c \notin Live /\ Live' = Live \cup {c}
  <2>1. child'[c].st # "free" /\ \A d \in Children : d # c => child'[d] = child[d]
    BY <1>1, <1>3, <1>4
  <2> QED BY <1>2, <2>1 DEF Live
<1>7. Named'
  BY <1>1, <1>3, <1>4, <1>6 DEF Named, Live
<1>8. \A s \in Sources : From(s)' = IF s = counted THEN From(s) \cup {c} ELSE From(s)
  <2> SUFFICES ASSUME NEW s \in Sources
               PROVE  From(s)' = IF s = counted THEN From(s) \cup {c} ELSE From(s)
    OBVIOUS
  <2>1. From(s)' = {d \in Live' : child'[d].src = s /\ child'[d].key = s}
    BY DEF From
  <2>2. child'[c] = new /\ \A d \in Live : child'[d] = child[d]
    BY <1>3, <1>4, <1>6 DEF Live
  <2>3. s # Unnamed
    BY SourcesAssumption
  <2> QED BY <1>1, <1>6, <2>1, <2>2, <2>3 DEF From
<1>9. /\ \A s : IsFiniteSet(From(s)) /\ c \notin From(s) /\ IsFiniteSet(Live)
  BY <1>4, <1>6, FiniteSlots
<1>10. Cardinality(Live') = Cardinality(Live) + 1
  BY <1>6, <1>9, FS_AddElement
<1>11. accepted' = Cardinality(Live') /\ accepted' <= MaxAccepted
  <2>1. accepted < MaxAccepted
    <3>1. accepted \in Int /\ MaxAccepted \in Int
      <4>1. Cardinality(Children) \in Nat
        BY BoundsAssumption, FS_CardinalityType
      <4> QED BY <4>1, <1>4, BoundsAssumption
    <3> QED BY <3>1 DEF Admits, AtCapacity
  <2>2. MaxAccepted \in Int
    <3>1. Cardinality(Children) \in Nat
      BY BoundsAssumption, FS_CardinalityType
    <3> QED BY <3>1, BoundsAssumption
  <2> QED BY <1>3, <1>4, <1>10, <2>1, <2>2 DEF AdmissionHolds
<1>12. ASSUME NEW s \in Sources
       PROVE  /\ tally'[s] = Cardinality(From(s)')
              /\ MaxPerSource > 0 => tally'[s] <= MaxPerSource
  <2>1. tally[s] = Cardinality(From(s)) /\ (MaxPerSource > 0 => tally[s] <= MaxPerSource)
        /\ tally[s] \in Nat
    BY <1>4 DEF AdmissionHolds
  <2>2. CASE s = counted
    <3>1. s # Unnamed /\ s = k
      BY <1>1, <2>2, SourcesAssumption
    <3>2. tally'[s] = tally[s] + 1
      BY <1>3, <1>4, <2>2, <3>1
    <3>3. From(s)' = From(s) \cup {c}
      BY <1>8, <2>2
    <3>4. Cardinality(From(s)') = Cardinality(From(s)) + 1
      BY <1>9, <3>3, FS_AddElement
    <3>5. MaxPerSource > 0 => ~(tally[s] >= MaxPerSource)
      BY <3>1 DEF Admits, SourceFull
    <3>6. MaxPerSource \in Nat
      BY BoundsAssumption
    <3> QED BY <2>1, <3>2, <3>4, <3>5, <3>6
  <2>3. CASE s # counted
    <3>1. tally'[s] = tally[s] /\ From(s)' = From(s)
      BY <1>3, <1>4, <1>8, <2>3
    <3> QED BY <2>1, <3>1
  <2> QED BY <2>2, <2>3
<1>13. AdmissionHolds'
  <2>1. \A s \in Sources : /\ tally'[s] = Cardinality(From(s)')
                           /\ MaxPerSource > 0 => tally'[s] <= MaxPerSource
    BY <1>12
  <2> QED BY <1>11, <2>1 DEF AdmissionHolds
<1> QED BY <1>5, <1>7, <1>13 DEF SlotInv

\* What an accepted connection becomes while it is counted.
LEMMA BecomesSlots ==
    ASSUME SlotInv, NEW c \in Children,
           NEW new \in Accepted, new.st # "free" <=> child[c].st # "free",
           new.src = child[c].src, new.key = child[c].key,
           child' = [child EXCEPT ![c] = new], UNCHANGED <<accepted, tally>>
    PROVE  SlotInv'
<1>1. SlotTypes /\ child \in [Children -> Accepted]
  BY DEF SlotInv, SlotTypes
<1>2. SlotTypes'
  BY <1>1 DEF SlotTypes
<1>3. \A d \in Children : /\ child'[d].st # "free" <=> child[d].st # "free"
                          /\ child'[d].src = child[d].src /\ child'[d].key = child[d].key
  BY <1>1
<1>4. Live' = Live /\ \A s \in Sources : From(s)' = From(s)
  BY <1>3 DEF Live, From
<1>5. Named'
  BY <1>3, <1>4 DEF SlotInv, Named, Live
<1>6. AdmissionHolds'
  BY <1>4 DEF SlotInv, AdmissionHolds
<1> QED BY <1>2, <1>5, <1>6 DEF SlotInv

LEMMA ChildSlots ==
    ASSUME SlotInv, NEW c \in Children, NEW hears \in BOOLEAN,
           ChildAccept(c) \/ ChildLogin(c) \/ ChildFails(c, hears) \/ Deadline(c, hears)
    PROVE  SlotInv'
<1>1. child \in [Children -> Accepted] /\ child[c] \in Accepted
  BY DEF SlotInv, SlotTypes
<1>2. /\ child[c].src \in Sources \cup {None} /\ child[c].key \in Keys
      /\ child[c].st \in {"free", "posted", "limbo", "open", "in", "closing", "deaf"}
      /\ child[c].deadline \in {"off", "armed", "failed"}
  BY <1>1 DEF Accepted
<1>3. ASSUME NEW st \in {"open", "in", "closing", "deaf"}, child[c].st # "free",
             NEW deadline \in {"off", "armed", "failed"},
             child' = [child EXCEPT ![c] = [child[c] EXCEPT !.st = st, !.deadline = deadline]],
             UNCHANGED <<accepted, tally>>
      PROVE  SlotInv'
  <2> DEFINE new == [child[c] EXCEPT !.st = st, !.deadline = deadline]
  <2>1. /\ new \in Accepted /\ new.st # "free"
        /\ new.src = child[c].src /\ new.key = child[c].key
    BY <1>1, <1>3 DEF Accepted
  <2> HIDE DEF new
  <2>2. child' = [child EXCEPT ![c] = new]
    BY <1>3 DEF new
  <2> QED BY <1>3, <2>1, <2>2, BecomesSlots
<1>4. ASSUME NEW st \in {"open", "in", "closing", "deaf"}, Becomes(c, st)
      PROVE  child' = [child EXCEPT ![c] = [child[c] EXCEPT !.st = st, !.deadline = child[c].deadline]]
  BY <1>1, <1>4 DEF Becomes, Accepted
<1>5. CASE ChildAccept(c) \/ ChildFails(c, hears)
  <2>1. PICK st \in {"open", "closing", "deaf"} : Becomes(c, st)
    BY <1>5 DEF ChildAccept, ChildFails, ChildDrops
  <2>2. child[c].st # "free" /\ UNCHANGED <<accepted, tally>>
    BY <1>5 DEF ChildAccept, ChildFails
  <2> QED BY <1>2, <1>3, <1>4, <2>1, <2>2
<1>6. CASE ChildLogin(c)
  <2>1. child' = [child EXCEPT ![c] = [child[c] EXCEPT !.st = "in", !.deadline = "off"]]
    BY <1>1, <1>6 DEF ChildLogin
  <2>2. child[c].st # "free" /\ UNCHANGED <<accepted, tally>>
    BY <1>6 DEF ChildLogin
  <2> QED BY <1>3, <2>1, <2>2
<1>7. CASE Deadline(c, hears)
  <2> DEFINE st == IF child[c].st \notin {"posted", "open"} THEN child[c].st
                   ELSE IF hears THEN "deaf" ELSE "closing"
             new == [child[c] EXCEPT !.st = st, !.deadline = "off"]
  <2>1. st \in {"free", "posted", "limbo", "open", "in", "closing", "deaf"}
        /\ (st # "free" <=> child[c].st # "free")
    BY <1>2
  <2>2. child' = [child EXCEPT ![c] = new] /\ UNCHANGED <<accepted, tally>>
    BY <1>1, <1>7 DEF Deadline
  <2> HIDE DEF st
  <2>3. /\ new \in Accepted /\ (new.st # "free" <=> child[c].st # "free")
        /\ new.src = child[c].src /\ new.key = child[c].key
    BY <1>1, <2>1 DEF Accepted
  <2> HIDE DEF new
  <2> QED BY <2>2, <2>3, BecomesSlots
<1> QED BY <1>5, <1>6, <1>7

\* A connection that goes gives back what was counted for it.
LEMMA GoneSlots ==
    ASSUME SlotInv, NEW c \in Children, ChildGone(c)
    PROVE  SlotInv'
<1> DEFINE key == child[c].key
<1>1. /\ child[c].st = "closing" /\ child' = [child EXCEPT ![c] = Vacant] /\ accepted' = accepted - 1
      /\ tally' = IF key = Unnamed THEN tally ELSE [tally EXCEPT ![key] = @ - 1]
  BY DEF ChildGone
<1>2. /\ SlotTypes /\ child \in [Children -> Accepted] /\ accepted \in Nat /\ tally \in [Sources -> Nat]
      /\ Named /\ AdmissionHolds
  BY DEF SlotInv, SlotTypes
<1>3. Vacant \in Accepted /\ Vacant.st = "free"
  BY DEF Vacant, Accepted, Keys
<1>4. c \in Live /\ key \in Keys /\ (key # Unnamed => key \in Sources /\ child[c].src = key)
  BY <1>1, <1>2 DEF Live, Named, Accepted, Keys
<1>5. Live' = Live \ {c} /\ \A d \in Live' : child'[d] = child[d]
  BY <1>1, <1>2, <1>3 DEF Live
<1>6. \A s \in Sources : From(s)' = IF s = key THEN From(s) \ {c} ELSE From(s)
  <2> SUFFICES ASSUME NEW s \in Sources
               PROVE  From(s)' = IF s = key THEN From(s) \ {c} ELSE From(s)
    OBVIOUS
  <2>1. From(s)' = {d \in Live' : child'[d].src = s /\ child'[d].key = s}
    BY DEF From
  <2>2. From(s)' = From(s) \ {c}
    BY <1>5, <2>1 DEF From
  <2>3. s # key => c \notin From(s)
    BY DEF From
  <2> QED BY <2>2, <2>3
<1>7. \A s \in Sources : s = key => c \in From(s)
  BY <1>4, SourcesAssumption DEF From
<1>8. IsFiniteSet(Live) /\ \A s : IsFiniteSet(From(s)) /\ Cardinality(From(s)) \in Nat
  BY <1>2, FiniteSlots
<1>9. Cardinality(Live') = Cardinality(Live) - 1 /\ Cardinality(Live') \in Nat
  <2>1. Cardinality(Live') = Cardinality(Live) - 1
    BY <1>4, <1>5, <1>8, FS_RemoveElement
  <2>2. IsFiniteSet(Live')
    BY <1>5, <1>8, FS_RemoveElement
  <2> QED BY <2>1, <2>2, FS_CardinalityType
<1>10. accepted' = Cardinality(Live') /\ accepted' <= MaxAccepted /\ accepted' \in Nat
  <2>1. MaxAccepted \in Int
    <3>1. Cardinality(Children) \in Nat
      BY BoundsAssumption, FS_CardinalityType
    <3> QED BY <3>1, BoundsAssumption
  <2> QED BY <1>1, <1>2, <1>9, <2>1 DEF AdmissionHolds
<1>11. ASSUME NEW s \in Sources
       PROVE  /\ tally'[s] = Cardinality(From(s)') /\ tally'[s] \in Nat
              /\ MaxPerSource > 0 => tally'[s] <= MaxPerSource
  <2>1. tally[s] = Cardinality(From(s)) /\ (MaxPerSource > 0 => tally[s] <= MaxPerSource)
        /\ tally[s] \in Nat
    BY <1>2 DEF AdmissionHolds
  <2>2. CASE s = key
    <3>1. tally'[s] = tally[s] - 1
      BY <1>1, <1>2, <2>2, SourcesAssumption
    <3>2. From(s)' = From(s) \ {c} /\ c \in From(s)
      BY <1>6, <1>7, <2>2
    <3>3. Cardinality(From(s)') = Cardinality(From(s)) - 1 /\ IsFiniteSet(From(s)')
      BY <1>8, <3>2, FS_RemoveElement
    <3>4. Cardinality(From(s)') \in Nat
      BY <3>3, FS_CardinalityType
    <3>5. MaxPerSource \in Nat
      BY BoundsAssumption
    <3> QED BY <2>1, <3>1, <3>3, <3>4, <3>5
  <2>3. CASE s # key
    <3>1. tally'[s] = tally[s] /\ From(s)' = From(s)
      BY <1>1, <1>2, <1>6, <2>3
    <3> QED BY <2>1, <3>1
  <2> QED BY <2>2, <2>3
<1>12. SlotTypes'
  <2>1. child' \in [Children -> Accepted]
    BY <1>1, <1>2, <1>3
  <2>2. DOMAIN tally' = Sources /\ tally' = [s \in Sources |-> tally'[s]]
    BY <1>1, <1>2
  <2>3. tally' \in [Sources -> Nat]
    BY <1>11, <2>2
  <2> QED BY <1>10, <2>1, <2>3 DEF SlotTypes
<1>13. Named'
  BY <1>2, <1>5 DEF Named
<1>14. AdmissionHolds'
  <2>1. \A s \in Sources : /\ tally'[s] = Cardinality(From(s)')
                           /\ MaxPerSource > 0 => tally'[s] <= MaxPerSource
    BY <1>11
  <2> QED BY <1>10, <2>1 DEF AdmissionHolds
<1> QED BY <1>12, <1>13, <1>14 DEF SlotInv

LEMMA RestSlots == SlotInv /\ UNCHANGED slotVars => SlotInv'
BY DEF slotVars, SlotInv, SlotTypes, Named, AdmissionHolds, Live, From

\* The service asks for one accept at a time, so the socket it serves has a peer.
LEMMA OnAcceptSlots == EndInv /\ SlotInv /\ On_ConAccept => SlotInv'
<1> SUFFICES ASSUME EndInv, SlotInv, On_ConAccept PROVE SlotInv'
  OBVIOUS
<1>1. Serves("Accept")
  BY DEF On_ConAccept
<1>2. CASE UNCHANGED slotVars
  BY <1>2, RestSlots
<1>3. ASSUME NEW c \in Children, NEW k \in Reading(asock), asock # None, Admits(k),
             NEW counted \in Reading(k),
             \/ Spawn(c, asock, counted, "posted", "armed")
             \/ Spawn(c, asock, counted, "limbo", "off")
             \/ Spawn(c, asock, counted, "posted", "failed")
      PROVE  SlotInv'
  <2>1. Sound /\ OneErrand /\ In("Accept", fifo) /\ Idle(fifo) => FALSE
    BY NoneIn DEF Errands
  <2>2. Sound /\ OneErrand /\ In("Accept", fifo)
    BY <1>1, Served
  <2>3. mode = "SERVICE" /\ ~Queued(op)
    BY <2>1, <2>2 DEF OneErrand, EndInv, EndTypes
  <2>4. asock \in Sources
    BY <1>3, <2>2, <2>3 DEF OneErrand, EndInv, EndTypes
  <2> QED BY <1>3, <2>4, SpawnSlots
<1> QED BY <1>2, <1>3 DEF On_ConAccept

-------------------------------------------------------------------------------
(* The endpoint and what it has accepted.                                  *)

LEMMA InitInv == Init => IInv
<1> SUFFICES ASSUME Init PROVE IInv
  OBVIOUS
<1> DEFINE f == <<"Startup">>
<1>1. /\ f \in Seq(Messages) /\ DOMAIN f = {1} /\ f[1] = "Startup"
  BY DEF Messages
<1>2. fifo = f
  BY DEF Init
<1> HIDE DEF f
<1>3. /\ Alone(fifo) /\ In("Startup", fifo) /\ ~In("Accept", fifo) /\ ~In("Listen", fifo)
  BY <1>1, <1>2 DEF Alone, In
<1>4. EndTypes
  BY <1>1, <1>2, ModesAssumption DEF Init, EndTypes, OpStates, Rest
<1>5. OneErrand /\ Tended
  BY <1>3, SourcesAssumption DEF Init, OneErrand, Tended, Queued, Rest
<1>6. EndInv
  BY <1>4, <1>5 DEF EndInv, LookedAfter
<1>7. SlotTypes
  BY DEF Init, SlotTypes, Vacant, Accepted, Keys
<1>8. Live = {} /\ \A s \in Sources : From(s) = {}
  BY DEF Init, Live, From, Vacant
<1>9. Cardinality({}) = 0 /\ MaxPerSource \in Nat /\ 0 <= MaxAccepted
  <2>1. Cardinality(Children) \in Nat
    BY BoundsAssumption, FS_CardinalityType
  <2> QED BY <2>1, BoundsAssumption, FS_EmptySet
<1>10. Named /\ AdmissionHolds
  BY <1>8, <1>9 DEF Init, Named, AdmissionHolds
<1>11. calls \in 0 .. MaxCalls
  BY BoundsAssumption DEF Init
<1> QED BY <1>6, <1>7, <1>10, <1>11 DEF IInv, SlotInv

LEMMA NextInv == IInv /\ [Next]_vars => IInv'
<1> SUFFICES ASSUME IInv, [Next]_vars PROVE IInv'
  OBVIOUS
<1>1. EndInv /\ SlotInv /\ calls \in 0 .. MaxCalls
  BY DEF IInv
<1>2. CASE On_ConAccept
  <2>1. EndInv' /\ SlotInv'
    BY <1>1, <1>2, OnAcceptEnd, OnAcceptSlots
  <2>2. calls' = calls
    BY <1>2 DEF On_ConAccept
  <2> QED BY <1>1, <2>1, <2>2 DEF IInv
<1>3. CASE On_ConStartup \/ On_ConListen \/ On_ConConnect \/ On_ConClose \/ On_ConShutdown
  <2>1. EndInv'
    BY <1>1, <1>3, StartupEnd, OnListenEnd, OnConnectEnd, OnCloseEnd, OnShutdownEnd
  <2>2. UNCHANGED slotVars /\ calls' = calls
    BY <1>3 DEF On_ConStartup, On_ConListen, On_ConConnect, On_ConClose, On_ConShutdown
  <2> QED BY <1>1, <2>1, <2>2, RestSlots DEF IInv
<1>4. CASE Finish \/ Happens \/ On_PITimer \/ \E s \in Sources : PeerConnects(s)
  <2>1. EndInv'
    BY <1>1, <1>4, FinishEnd, HappensEnd, TimerEnd, PeerConnectsEnd
  <2>2. UNCHANGED slotVars /\ calls' = calls
    BY <1>4 DEF Finish, Happens, On_PITimer, PeerConnects
  <2> QED BY <1>1, <2>1, <2>2, RestSlots DEF IInv
<1>5. ASSUME NEW hears \in BOOLEAN, Completes(hears) \/ CompleteRecv(hears) PROVE IInv'
  <2>1. EndInv'
    BY <1>1, <1>5, CompleteAcceptEnd, CompleteConnectEnd, CompleteRecvEnd DEF Completes
  <2>2. UNCHANGED slotVars /\ calls' = calls
    BY <1>5 DEF Completes, CompleteAccept, CompleteConnect, CompleteRecv
  <2> QED BY <1>1, <2>1, <2>2, RestSlots DEF IInv
<1>6. ASSUME NEW hears \in BOOLEAN, SignalClose(hears) PROVE IInv'
  <2>1. EndInv'
    BY <1>1, <1>6, SignalEnd
  <2>2. UNCHANGED slotVars /\ calls' = calls + 1 /\ calls < MaxCalls
    BY <1>6 DEF SignalClose
  <2> QED BY <1>1, <2>1, <2>2, RestSlots, BoundsAssumption DEF IInv
<1>7. ASSUME NEW m \in {"Close", "Shutdown"}, Post(m) PROVE IInv'
  <2>1. EndInv'
    BY <1>1, <1>7, CallEnd
  <2>2. UNCHANGED slotVars /\ calls' = calls + 1 /\ calls < MaxCalls
    BY <1>7 DEF Post
  <2> QED BY <1>1, <2>1, <2>2, RestSlots, BoundsAssumption DEF IInv
<1>8. ASSUME NEW hears \in BOOLEAN, NEW c \in Children, Child(c, hears) PROVE IInv'
  <2>1. SlotInv'
    BY <1>1, <1>8, ChildSlots, GoneSlots DEF Child
  <2>2. UNCHANGED <<mode, sockVars, stateVars>> /\ calls' = calls
    BY <1>8 DEF Child, ChildAccept, ChildLogin, ChildFails, Deadline, ChildGone, Elsewhere
  <2> QED BY <1>1, <2>1, <2>2, RestEnd DEF IInv
<1>9. CASE UNCHANGED vars
  <2>1. UNCHANGED <<mode, sockVars, stateVars>> /\ UNCHANGED slotVars /\ calls' = calls
    BY <1>9 DEF vars
  <2> QED BY <1>1, <2>1, RestEnd, RestSlots DEF IInv
<1> QED BY <1>2, <1>3, <1>4, <1>5, <1>6, <1>7, <1>8, <1>9 DEF Next, Dispatch

\* The inductive invariant, from which the rest follows.
THEOREM Inductive == Spec => []IInv
BY InitInv, NextInv, PTL DEF Spec

\* The endpoint and its accepted connections never leave the states their fields can hold.
THEOREM TypeCorrect == Spec => []TypeOK
<1>1. IInv => TypeOK
  BY DEF IInv, EndInv, EndTypes, SlotInv, SlotTypes, TypeOK
<1> QED BY <1>1, Inductive, PTL

\* However messages, completions, timers and the application's calls fall, an endpoint that
\* none of the lapses has silenced has a close to come or something that brings it back.
THEOREM NeverLeft == Spec => []NeverForgotten
<1>1. ASSUME IInv PROVE NeverForgotten
  <2> SUFFICES ASSUME ~destroyed, lapses = {}
               PROVE  /\ latched => Has("Close")
                      /\ ~sock => timer \/ Has("Startup") \/ Has("Close") \/ Has("Shutdown")
                      /\ sock => Queued(op) \/ Queued(recv) \/ fifo # <<>>
    BY DEF NeverForgotten
  <2>1. \A m : In(m, fifo) <=> Has(m)
    BY DEF In, Has
  <2>2. \A m : In(m, fifo) => fifo # <<>>
    BY DEF In
  <2>3. mode \in {"SERVICE", "CLIENT"} /\ (Has("Close") \/ Tended)
    BY <1>1, <2>1 DEF IInv, EndInv, EndTypes, LookedAfter
  <2> QED BY <2>1, <2>2, <2>3 DEF Tended
<1> QED BY <1>1, Inductive, PTL

\* Whatever fails on the way, a service's counts are of the connections it has, in all and
\* for each source, and admission keeps them to its bounds.
THEOREM AdmissionIsExact == Spec => []AdmissionHolds
<1>1. IInv => AdmissionHolds
  BY DEF IInv, SlotInv
<1> QED BY <1>1, Inductive, PTL

===============================================================================
