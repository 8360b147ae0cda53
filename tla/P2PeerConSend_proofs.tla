------------------------- MODULE P2PeerConSend_proofs -------------------------
(***************************************************************************)
(* Theorems about P2PeerConSend, for any messages, priorities and posting  *)
(* threads.                                                                *)
(*                                                                         *)
(* NothingStranded is not inductive.  It holds when the pump goes idle     *)
(* because GetSendableP2PeerMsg, under the lock, has found nothing and who *)
(* posts after that takes it on himself to wake the pump; it holds while   *)
(* the pump is idle because a message in flight is always one the          *)
(* transport has still to report.  Owed states both, and FreshSession what *)
(* the next session finds.  That a message is owned once rests on each     *)
(* handshake message being posted once in a session (StageInv), and that   *)
(* equals stay in order on where Place puts them (InOrder).                *)
(***************************************************************************)
EXTENDS P2PeerConSend, SequenceTheorems, TLAPS

-------------------------------------------------------------------------------
(* What a CList's steps, InsertAt and RemoveAt, do to each entry.          *)

LEMMA InsertEntries ==
    ASSUME NEW S, NEW s \in Seq(S), NEW p \in 1 .. Len(s) + 1, NEW e \in S
    PROVE  /\ InsertAt(s, p, e) \in Seq(S)
           /\ Len(InsertAt(s, p, e)) = Len(s) + 1
           /\ \A i \in 1 .. Len(s) + 1 :
                 InsertAt(s, p, e)[i] = IF i < p THEN s[i] ELSE IF i = p THEN e ELSE s[i - 1]
<1> DEFINE front == SubSeq(s, 1, p - 1)
           back  == SubSeq(s, p, Len(s))
<1>1. /\ front \in Seq(S) /\ Len(front) = p - 1
      /\ \A i \in 1 .. p - 1 : front[i] = s[i]
  <2>1. \A i \in 1 .. p - 1 : s[i] \in S
    BY ElementOfSeq, LenProperties
  <2> QED BY <2>1, SubSeqProperties
<1>2. /\ back \in Seq(S) /\ Len(back) = Len(s) - p + 1
      /\ \A i \in 1 .. Len(s) - p + 1 : back[i] = s[p + i - 1]
  <2>1. \A i \in p .. Len(s) : s[i] \in S
    BY ElementOfSeq, LenProperties
  <2> QED BY <2>1, SubSeqProperties
<1> DEFINE most == Append(front, e)
<1> HIDE DEF front, back
<1>3. most = front \o <<e>>
  BY <1>1, AppendIsConcat
<1>4. /\ most \in Seq(S) /\ Len(most) = p
      /\ \A i \in 1 .. p : most[i] = IF i < p THEN s[i] ELSE e
  BY <1>1, AppendProperties
<1> HIDE DEF most
<1>5. /\ most \o back \in Seq(S)
      /\ Len(most \o back) = Len(s) + 1
      /\ \A i \in 1 .. Len(s) + 1 :
            (most \o back)[i] = IF i <= p THEN most[i] ELSE back[i - p]
  <2>1. /\ most \o back \in Seq(S)
        /\ Len(most \o back) = Len(most) + Len(back)
        /\ \A i \in 1 .. Len(most) + Len(back) :
              (most \o back)[i] = IF i <= Len(most) THEN most[i] ELSE back[i - Len(most)]
    BY <1>2, <1>4, ConcatProperties
  <2>2. Len(most) = p /\ Len(most) + Len(back) = Len(s) + 1
    BY <1>2, <1>4, LenProperties
  <2> QED BY <2>1, <2>2
<1>6. InsertAt(s, p, e) = most \o back
  BY <1>3 DEF InsertAt, front, back
<1> QED BY <1>2, <1>4, <1>5, <1>6

LEMMA RemoveEntries ==
    ASSUME NEW S, NEW s \in Seq(S), NEW p \in 1 .. Len(s)
    PROVE  /\ RemoveAt(s, p) \in Seq(S)
           /\ Len(RemoveAt(s, p)) = Len(s) - 1
           /\ \A i \in 1 .. Len(s) - 1 :
                 RemoveAt(s, p)[i] = IF i < p THEN s[i] ELSE s[i + 1]
<1> DEFINE front == SubSeq(s, 1, p - 1)
           back  == SubSeq(s, p + 1, Len(s))
<1>1. /\ front \in Seq(S) /\ Len(front) = p - 1
      /\ \A i \in 1 .. p - 1 : front[i] = s[i]
  <2>1. \A i \in 1 .. p - 1 : s[i] \in S
    BY ElementOfSeq, LenProperties
  <2> QED BY <2>1, SubSeqProperties
<1>2. /\ back \in Seq(S) /\ Len(back) = Len(s) - p
      /\ \A i \in 1 .. Len(s) - p : back[i] = s[p + i]
  <2>1. \A i \in p + 1 .. Len(s) : s[i] \in S
    BY ElementOfSeq, LenProperties
  <2> QED BY <2>1, SubSeqProperties
<1> HIDE DEF front, back
<1>3. /\ front \o back \in Seq(S)
      /\ Len(front \o back) = Len(s) - 1
      /\ \A i \in 1 .. Len(s) - 1 :
            (front \o back)[i] = IF i < p THEN front[i] ELSE back[i - (p - 1)]
  <2>1. /\ front \o back \in Seq(S)
        /\ Len(front \o back) = Len(front) + Len(back)
        /\ \A i \in 1 .. Len(front) + Len(back) :
              (front \o back)[i] = IF i <= Len(front) THEN front[i] ELSE back[i - Len(front)]
    BY <1>1, <1>2, ConcatProperties
  <2>2. Len(front) = p - 1 /\ Len(front) + Len(back) = Len(s) - 1 /\ Len(s) \in Nat
    BY <1>1, <1>2, LenProperties
  <2>3. \A i \in 1 .. Len(s) - 1 : i <= Len(front) <=> i < p
    BY <2>2
  <2> QED BY <2>1, <2>2, <2>3
<1>4. RemoveAt(s, p) = front \o back
  BY DEF RemoveAt, front, back
<1>5. ASSUME NEW i \in 1 .. Len(s) - 1
      PROVE  (front \o back)[i] = IF i < p THEN s[i] ELSE s[i + 1]
  <2>1. CASE i < p
    BY <1>1, <1>3, <2>1
  <2>2. CASE i >= p
    <3>1. PICK j \in 1 .. Len(s) - p : j = i - (p - 1)
      BY <2>2, LenProperties
    <3>2. p + j = i + 1
      BY <3>1, LenProperties
    <3>3. back[j] = s[i + 1]
      BY <1>2, <3>2
    <3>4. (front \o back)[i] = back[j]
      BY <1>3, <2>2, <3>1
    <3> QED BY <2>2, <3>3, <3>4
  <2>3. Len(s) \in Nat
    BY LenProperties
  <2>4. i < p \/ i >= p
    BY <2>3
  <2> QED BY <2>1, <2>2, <2>4, Zenon
<1> QED BY <1>3, <1>4, <1>5

\* What is in a list after an entry has been put in, or taken out.
LEMMA InsertRange ==
    ASSUME NEW S, NEW s \in Seq(S), NEW p \in 1 .. Len(s) + 1, NEW e \in S
    PROVE  Range(InsertAt(s, p, e)) = Range(s) \cup {e}
<1> DEFINE t == InsertAt(s, p, e)
<1>1. /\ DOMAIN s = 1 .. Len(s) /\ DOMAIN t = 1 .. Len(s) + 1 /\ Len(s) \in Nat
      /\ \A i \in 1 .. Len(s) + 1 :
            t[i] = IF i < p THEN s[i] ELSE IF i = p THEN e ELSE s[i - 1]
  BY InsertEntries, LenProperties
<1> HIDE DEF t
<1>2. ASSUME NEW i \in DOMAIN t PROVE t[i] \in Range(s) \cup {e}
  <2>1. CASE i = p
    BY <1>1, <2>1
  <2>2. CASE i # p
    <3>1. PICK j \in DOMAIN s : j = IF i < p THEN i ELSE i - 1
      BY <1>1, <2>2
    <3> QED BY <1>1, <2>2, <3>1 DEF Range
  <2> QED BY <2>1, <2>2
<1>3. e \in Range(t)
  BY <1>1 DEF Range
<1>4. ASSUME NEW j \in DOMAIN s PROVE s[j] \in Range(t)
  <2>1. PICK i \in DOMAIN t : i = IF j < p THEN j ELSE j + 1
    BY <1>1
  <2> QED BY <1>1, <2>1 DEF Range
<1> QED BY <1>2, <1>3, <1>4 DEF Range, t

LEMMA RemoveRange ==
    ASSUME NEW S, NEW s \in Seq(S), NEW p \in 1 .. Len(s)
    PROVE  Range(RemoveAt(s, p)) \subseteq Range(s)
<1> DEFINE t == RemoveAt(s, p)
<1>1. /\ DOMAIN s = 1 .. Len(s) /\ DOMAIN t = 1 .. Len(s) - 1 /\ Len(s) \in Nat
      /\ \A i \in 1 .. Len(s) - 1 : t[i] = IF i < p THEN s[i] ELSE s[i + 1]
  BY RemoveEntries, LenProperties
<1> HIDE DEF t
<1>2. ASSUME NEW i \in DOMAIN t PROVE t[i] \in Range(s)
  <2>1. PICK j \in DOMAIN s : j = IF i < p THEN i ELSE i + 1
    BY <1>1
  <2> QED BY <1>1, <2>1 DEF Range
<1> QED BY <1>2 DEF Range, t
-------------------------------------------------------------------------------

\* The pump is in the send branch only on an open connection, with nothing in
\* flight; what GetSendableP2PeerMsg returned it hands over before it returns.
PumpInv ==
    /\ next # NoMsg => pc = "send"
    /\ pc # "wait" => sending = NoMsg /\ conn = "open" /\ buf \in {"idle", "posted"}
    /\ conn = "open" => buf # "none"
    /\ conn = "open" /\ sending # NoMsg => buf = "writing"

\* A session begins with no login, no handshake message and nothing in flight.
FreshSession ==
    /\ conn \in {"closed", "dialling"} => stage = "none" /\ ~login /\ sending = NoMsg
    /\ stage = "none" => Range(que) \cap Handshakes = {}

\* A pump that is about to go idle on an open connection has been told that
\* nothing may be sent, and whoever has posted since is still in his call.
Owed ==
    /\ conn = "open" /\ buf = "idle" /\ call = "none" /\ ~stalled
    /\ pc = "wait" \/ (pc = "send" /\ next = NoMsg)
    => Sendable = {}

\* What is about to be sent, like what has been, waited for the login.
LoginFirst ==
    /\ pc = "send" /\ next \in Apps => login
    /\ NoAppBeforeLogin

-----------------------------------------------------------------------------
\* A message put into the queue leaves it a queue of messages.
LEMMA InsertTyped ==
    ASSUME TypeOK, NEW m \in Msgs, NEW p \in 1 .. Len(que) + 1
    PROVE  InsertAt(que, p, m) \in Seq(Msgs)
BY InsertEntries DEF TypeOK

\* The steps by which a message is posted, whoever posts it.
LEMMA PostTyped ==
    ASSUME TypeOK, NEW m \in Msgs, NEW b \in {"none", "idle", "posted", "writing"}, Post(m, b)
    PROVE  que' \in Seq(Msgs) /\ buf' \in {"none", "idle", "posted", "writing"} /\ stalled' \in BOOLEAN
<1>1. que' \in Seq(Msgs)
  BY InsertTyped DEF Post
<1>2. /\ buf' = (IF sending = NoMsg /\ b = "idle" THEN "posted" ELSE b)
      /\ stalled' = (stalled /\ ~(sending = NoMsg /\ b = "idle"))
  BY DEF Post, WakeUp
<1>3. stalled' \in BOOLEAN
  BY <1>2, Zenon
<1> QED BY <1>1, <1>2, <1>3

LEMMA LoginSendTyped ==
    ASSUME TypeOK, NEW b \in {"none", "idle", "posted", "writing"}, LoginSend(b)
    PROVE  que' \in Seq(Msgs) /\ buf' \in {"none", "idle", "posted", "writing"} /\ stalled' \in BOOLEAN
<1>1. que' \in Seq(Msgs)
  BY InsertTyped DEF LoginSend, Msgs, Handshakes
<1>2. /\ buf' = (IF sending = NoMsg /\ b = "idle" THEN "posted" ELSE b)
      /\ stalled' = (stalled /\ ~(sending = NoMsg /\ b = "idle"))
  BY DEF LoginSend, WakeUp
<1>3. stalled' \in BOOLEAN
  BY <1>2, Zenon
<1> QED BY <1>1, <1>2, <1>3

LEMMA TypeStep == TypeOK /\ [Next]_vars => TypeOK'
<1> SUFFICES ASSUME TypeOK, [Next]_vars PROVE TypeOK'
  OBVIOUS
<1> USE DEF TypeOK, msgVars, pumpVars, conVars
<1>1. ASSUME NEW m \in Apps, PostApp(m) PROVE TypeOK'
  <2>1. log' \in Seq(Apps)
    BY <1>1, AppendProperties DEF PostApp
  <2>2. m \in Msgs
    BY DEF Msgs
  <2>3. que' \in Seq(Msgs) /\ buf' \in {"none", "idle", "posted", "writing"} /\ stalled' \in BOOLEAN
    BY <1>1, <2>2, PostTyped DEF PostApp
  <2> QED BY <1>1, <2>1, <2>3 DEF PostApp, Post
<1>2. ASSUME NEW m \in Apps, Enqueue(m) PROVE TypeOK'
  <2>1. log' \in Seq(Apps)
    BY <1>2, AppendProperties DEF Enqueue
  <2>2. que' \in Seq(Msgs)
    BY <1>2, InsertTyped DEF Enqueue, Msgs
  <2> QED BY <1>2, <2>1, <2>2 DEF Enqueue
<1>3. CASE Look
  BY <1>3 DEF Look
<1>4. CASE Kick
  <2>1. stalled' \in BOOLEAN
    BY <1>4, Zenon DEF Kick
  <2> QED BY <1>4, <2>1 DEF Kick
<1>5. CASE FetchOne
  <2>1. PICK i \in 1 .. Len(que) : next' = que[i] /\ que' = RemoveAt(que, i)
    BY <1>5 DEF FetchOne, Sendable
  <2>2. que[i] \in Msgs /\ que' \in Seq(Msgs)
    BY <2>1, RemoveEntries, ElementOfSeq
  <2> QED BY <1>5, <2>1, <2>2 DEF FetchOne
<1>6. CASE FetchNone
  <2>1. held' \in BOOLEAN
    BY <1>6, Zenon DEF FetchNone
  <2> QED BY <1>6, <2>1 DEF FetchNone
<1>7. CASE SendOne
  <2>1. out' \in Seq(Msgs)
    BY <1>7, AppendProperties DEF SendOne
  <2> QED BY <1>7, <2>1 DEF SendOne
<1>8. CASE SendThrows
  BY <1>8 DEF SendThrows, Dropped, Reclaimed
<1>9. CASE SendNothing
  <2>1. CASE ~held /\ closeOnIdle
    BY <1>9, <2>1 DEF SendNothing, GoIdle, Dropped, Reclaimed
  <2>2. CASE ~(~held /\ closeOnIdle)
    BY <1>9, <2>2 DEF SendNothing, GoIdle
  <2> QED BY <2>1, <2>2
<1>10. CASE SendRefused
  <2>1. stalled' \in BOOLEAN
    BY <1>10, Zenon DEF SendRefused
  <2>2. freed' \subseteq Apps
    BY <1>10, MsgsAssumption DEF SendRefused
  <2>3. CASE ~held /\ closeOnIdle
    BY <1>10, <2>1, <2>2, <2>3 DEF SendRefused, GoIdle, Dropped, Reclaimed
  <2>4. CASE ~(~held /\ closeOnIdle)
    BY <1>10, <2>1, <2>2, <2>4 DEF SendRefused, GoIdle
  <2> QED BY <2>3, <2>4
<1>11. CASE Complete
  BY <1>11 DEF Complete
<1>12. CASE CompleteFailed \/ CompleteClosed
  <2>1. login' \in BOOLEAN /\ closeOnIdle' \in BOOLEAN /\ stalled' \in BOOLEAN /\ held' \in BOOLEAN
    BY <1>12, Zenon DEF CompleteFailed, CompleteClosed, Dropped, pumpVars
  <2> QED BY <1>12, <2>1 DEF CompleteFailed, CompleteClosed, Dropped
<1>13. CASE OnConnect
  <2>1. que' \in Seq(Msgs) /\ buf' \in {"none", "idle", "posted", "writing"} /\ stalled' \in BOOLEAN
    BY <1>13, PostTyped DEF OnConnect, Made, Msgs, Handshakes
  <2> QED BY <1>13, <2>1 DEF OnConnect, Post
<1>14. CASE OnConnectLogin \/ KeyXOnAck
  <2>1. PICK b \in {"none", "idle", "posted", "writing"} : LoginSend(b)
    BY <1>14 DEF OnConnectLogin, KeyXOnAck, Made
  <2>2. que' \in Seq(Msgs) /\ buf' \in {"none", "idle", "posted", "writing"} /\ stalled' \in BOOLEAN
    BY <2>1, LoginSendTyped
  <2> QED BY <2>1, <2>2 DEF LoginSend
<1>15. CASE OnLoginAck
  <2>1. \/ UNCHANGED <<buf, stalled>>
        \/ /\ buf' = (IF sending = NoMsg /\ buf = "idle" THEN "posted" ELSE buf)
           /\ stalled' = (stalled /\ ~(sending = NoMsg /\ buf = "idle"))
    BY <1>15 DEF OnLoginAck, WakeUp
  <2>2. stalled' \in BOOLEAN
    BY <2>1, Zenon
  <2> QED BY <1>15, <2>1, <2>2 DEF OnLoginAck
<1>16. CASE OnClose
  BY <1>16, EmptySeq DEF OnClose
<1>17. CASE OnCloseOnIdle \/ OnWakeup \/ Drop
  <2>1. CASE OnCloseOnIdle /\ sending = NoMsg
    BY <2>1 DEF OnCloseOnIdle, Dropped, Reclaimed
  <2>2. CASE OnCloseOnIdle /\ sending # NoMsg
    BY <2>2 DEF OnCloseOnIdle
  <2>3. CASE OnWakeup
    <3>1. login' \in BOOLEAN /\ closeOnIdle' \in BOOLEAN /\ stalled' \in BOOLEAN /\ held' \in BOOLEAN
      BY <2>3, Zenon DEF OnWakeup, pumpVars
    <3> QED BY <2>3, <3>1 DEF OnWakeup
  <2>4. CASE Drop
    <3>1. buf' \in {"none", "idle", "posted", "writing"}
      BY <2>4 DEF Drop, Reclaimed
    <3>2. login' \in BOOLEAN /\ closeOnIdle' \in BOOLEAN /\ stalled' \in BOOLEAN /\ held' \in BOOLEAN
      BY <2>4, Zenon DEF Drop, Dropped, pumpVars
    <3> QED BY <2>4, <3>1, <3>2 DEF Drop, Dropped
  <2> QED BY <1>17, <2>1, <2>2, <2>3, <2>4
<1>18. CASE Connected \/ Redial
  <2>1. login' \in BOOLEAN /\ closeOnIdle' \in BOOLEAN /\ stalled' \in BOOLEAN /\ held' \in BOOLEAN
    BY <1>18, Zenon DEF Connected, Redial, pumpVars
  <2> QED BY <1>18, <2>1, EmptySeq DEF Connected, Redial, Made
<1>19. CASE UNCHANGED vars
  BY <1>19 DEF vars
<1> QED
  BY <1>1, <1>2, <1>3, <1>4, <1>5, <1>6, <1>7, <1>8, <1>9, <1>10, <1>11, <1>12,
     <1>13, <1>14, <1>15, <1>16, <1>17, <1>18, <1>19
  DEF Next, PosterStep, SendStep, PortStep, Handler

\* The state keeps its types: the queue holds messages, the buffer is in one of
\* its states, what has been deleted was an application's.
THEOREM TypeCorrect == Spec => []TypeOK
<1>1. Init => TypeOK
  BY EmptySeq DEF Init, TypeOK
<1> QED BY <1>1, TypeStep, PTL DEF Spec

-----------------------------------------------------------------------------
\* PumpInv is kept: the send branch begins by releasing the buffer and ends with
\* a message in it, with none, or with the connection dropped.
LEMMA PumpStep == TypeOK /\ PumpInv /\ FreshSession /\ [Next]_vars => PumpInv'
<1> SUFFICES ASSUME TypeOK, PumpInv, FreshSession, [Next]_vars PROVE PumpInv'
  OBVIOUS
<1> USE DEF PumpInv, msgVars, pumpVars, conVars
<1>1. ASSUME NEW m \in Msgs, NEW b, Post(m, b) \/ LoginSend(b), b = buf \/ b = Made
      PROVE  PumpInv'
  <2>1. conn = "open" => b = buf
    BY <1>1 DEF Made
  <2>2. buf' = IF sending = NoMsg /\ b = "idle" THEN "posted" ELSE b
    BY <1>1 DEF Post, LoginSend, WakeUp
  <2>3. pc = "wait" /\ UNCHANGED <<sending, conn, next, pc>>
    BY <1>1 DEF Post, LoginSend
  <2> QED BY <2>1, <2>2, <2>3
<1>2. CASE \E m \in Apps : PostApp(m)
  BY <1>1, <1>2 DEF PostApp, Msgs
<1>3. CASE OnConnect \/ OnConnectLogin \/ KeyXOnAck
  BY <1>1, <1>3 DEF OnConnect, OnConnectLogin, KeyXOnAck, Msgs, Handshakes
<1>4. CASE OnLoginAck
  <2>1. buf' = buf \/ buf' = IF sending = NoMsg /\ buf = "idle" THEN "posted" ELSE buf
    BY <1>4 DEF OnLoginAck, WakeUp
  <2>2. pc = "wait" /\ UNCHANGED <<sending, conn, next, pc>>
    BY <1>4 DEF OnLoginAck
  <2> QED BY <2>1, <2>2
<1>5. CASE PosterStep
  BY <1>5 DEF PosterStep, Look, Kick, Enqueue
<1>6. CASE FetchOne \/ FetchNone
  BY <1>6 DEF FetchOne, FetchNone
<1>7. CASE SendOne \/ SendThrows
  BY <1>7 DEF SendOne, SendThrows, Dropped
<1>8. CASE SendNothing \/ SendRefused
  <2>1. /\ pc' = "wait" /\ next' = NoMsg /\ sending' = sending /\ sending = NoMsg
        /\ conn' = "dropped" \/ (UNCHANGED <<conn, buf>>)
    BY <1>8 DEF SendNothing, SendRefused, GoIdle, Dropped
  <2> QED BY <2>1
<1>9. CASE PortStep
  BY <1>9 DEF PortStep, Complete, CompleteFailed, CompleteClosed, Queued, Dropped
<1>10. CASE OnCloseOnIdle
  <2>1. /\ pc' = pc /\ next' = next /\ sending' = sending /\ pc = "wait"
        /\ conn' = "dropped" \/ (UNCHANGED <<conn, buf>>)
    BY <1>10 DEF OnCloseOnIdle, Dropped
  <2> QED BY <2>1
<1>11. CASE OnClose \/ OnWakeup \/ Drop
  BY <1>11 DEF OnClose, OnWakeup, Drop, Dropped
<1>12. CASE Connected \/ Redial
  BY <1>12 DEF Connected, Redial, Made, FreshSession
<1>13. CASE UNCHANGED vars
  BY <1>13 DEF vars
<1> QED
  BY <1>2, <1>3, <1>4, <1>5, <1>6, <1>7, <1>8, <1>9, <1>10, <1>11, <1>12, <1>13
  DEF Next, SendStep, Handler

\* Before its connection, nothing of a session but application messages: OnClose
\* has emptied the queue, and a handler that outlives the last session does not
\* outlive P2P_Close.
LEMMA FreshStep == TypeOK /\ FreshSession /\ PumpInv /\ [Next]_vars => FreshSession'
<1> SUFFICES ASSUME TypeOK, FreshSession, PumpInv, [Next]_vars PROVE FreshSession'
  OBVIOUS
<1> USE DEF FreshSession, msgVars, pumpVars, conVars
<1>1. ASSUME NEW m \in Apps, NEW p \in 1 .. Len(que) + 1, que' = InsertAt(que, p, m),
             UNCHANGED <<conn, stage, login, sending>>
      PROVE  FreshSession'
  <2>1. Range(que') = Range(que) \cup {m} /\ m \notin Handshakes
    BY <1>1, InsertRange, MsgsAssumption DEF TypeOK, Msgs
  <2> QED BY <1>1, <2>1
<1>2. CASE \E m \in Apps : PostApp(m)
  BY <1>1, <1>2 DEF PostApp, Post
<1>3. CASE \E m \in Apps : Enqueue(m)
  BY <1>1, <1>3 DEF Enqueue
<1>4. CASE FetchOne
  <2>1. PICK i \in 1 .. Len(que) : que' = RemoveAt(que, i)
    BY <1>4 DEF FetchOne, Sendable
  <2>2. Range(que') \subseteq Range(que)
    BY <2>1, RemoveRange DEF TypeOK
  <2> QED BY <1>4, <2>2 DEF FetchOne
<1>5. CASE OnConnect \/ OnConnectLogin \/ KeyXOnAck \/ OnLoginAck
  <2>1. stage \in {"connected", "agree", "ack"} /\ stage' \in {"agree", "ack", "done"} /\ conn' = conn
    BY <1>5 DEF OnConnect, OnConnectLogin, KeyXOnAck, OnLoginAck, Post, LoginSend
  <2> QED BY <2>1
<1>6. CASE OnClose
  <2>1. que' = <<>> /\ stage' = "none" /\ ~login' /\ sending' = NoMsg
    BY <1>6 DEF OnClose
  <2> QED BY <2>1 DEF Range
<1>7. CASE Look \/ Kick \/ FetchNone \/ OnWakeup \/ Redial \/ Connected
  BY <1>7 DEF Look, Kick, FetchNone, OnWakeup, Redial, Connected
<1>8. CASE SendOne \/ SendThrows
  BY <1>8 DEF SendOne, SendThrows, Dropped, PumpInv
<1>9. CASE SendNothing \/ SendRefused \/ OnCloseOnIdle \/ Drop \/ PortStep
  <2>1. /\ UNCHANGED <<que, stage>>
        /\ conn' = "dropped" \/ (conn' = conn /\ login' = login)
        /\ sending' = sending \/ sending' = NoMsg
    BY <1>9 DEF SendNothing, SendRefused, OnCloseOnIdle, Drop, GoIdle, Dropped,
                PortStep, Complete, CompleteFailed, CompleteClosed
  <2> QED BY <2>1
<1>10. CASE UNCHANGED vars
  BY <1>10 DEF vars
<1> QED
  BY <1>2, <1>3, <1>4, <1>5, <1>6, <1>7, <1>8, <1>9, <1>10
  DEF Next, PosterStep, SendStep, Handler

\* Owed is kept: the lock keeps posts out while GetSendableP2PeerMsg finds nothing,
\* and a post, a login or a wake-up leaves the buffer posted or in use.
LEMMA OwedStep == TypeOK /\ PumpInv /\ FreshSession /\ Owed /\ [Next]_vars => Owed'
<1> SUFFICES ASSUME TypeOK, PumpInv, FreshSession, Owed, [Next]_vars PROVE Owed'
  OBVIOUS
<1> USE DEF PumpInv, msgVars, pumpVars, conVars
<1>0. ASSUME UNCHANGED <<que, login>> PROVE Sendable' = Sendable
  BY <1>0 DEF Sendable
<1>1. ASSUME NEW m, NEW b, Post(m, b) \/ LoginSend(b), b = buf \/ b = Made
      PROVE  Owed'
  <2>1. conn = "open" => b = buf
    BY <1>1 DEF Made
  <2>2. buf' = IF sending = NoMsg /\ b = "idle" THEN "posted" ELSE b
    BY <1>1 DEF Post, LoginSend, WakeUp
  <2>3. pc = "wait" /\ UNCHANGED <<sending, conn>>
    BY <1>1 DEF Post, LoginSend
  <2>4. conn' = "open" => buf' # "idle"
    BY <2>1, <2>2, <2>3
  <2> QED BY <2>4 DEF Owed
<1>2. CASE \E m \in Apps : PostApp(m)
  BY <1>1, <1>2 DEF PostApp
<1>3. CASE OnConnect \/ OnConnectLogin \/ KeyXOnAck
  BY <1>1, <1>3 DEF OnConnect, OnConnectLogin, KeyXOnAck
<1>4. CASE OnLoginAck
  <2>1. CASE que = <<>>
    <3>1. Sendable' = {}
      BY <1>4, <2>1 DEF OnLoginAck, Sendable
    <3> QED BY <3>1 DEF Owed
  <2>2. CASE que # <<>>
    <3>1. buf' = IF sending = NoMsg /\ buf = "idle" THEN "posted" ELSE buf
      BY <1>4, <2>2 DEF OnLoginAck, WakeUp
    <3>2. UNCHANGED <<conn, sending>>
      BY <1>4 DEF OnLoginAck
    <3>3. conn' = "open" => buf' # "idle"
      BY <3>1, <3>2
    <3> QED BY <3>3 DEF Owed
  <2> QED BY <2>1, <2>2
<1>5. CASE \E m \in Apps : Enqueue(m)
  BY <1>5 DEF Enqueue, Owed
<1>6. CASE Look
  <2>1. UNCHANGED <<que, login, conn, pc, next, sending, buf, stalled>>
    BY <1>6 DEF Look
  <2>2. CASE Kickable
    BY <1>6, <2>2 DEF Look, Owed, Kickable
  <2>3. CASE ~Kickable
    BY <2>1, <2>3 DEF Kickable, Owed
  <2> QED BY <2>2, <2>3
<1>7. CASE Kick
  <2>1. buf' # "idle"
    BY <1>7 DEF Kick
  <2> QED BY <2>1 DEF Owed
<1>8. CASE FetchOne
  <2>1. next' \in Msgs /\ pc' = "send"
    BY <1>8, ElementOfSeq DEF FetchOne, Sendable, TypeOK
  <2> QED BY <2>1, MsgsAssumption DEF Owed
<1>9. CASE FetchNone
  <2>1. Sendable = {} /\ UNCHANGED <<que, login>>
    BY <1>9 DEF FetchNone
  <2> QED BY <1>0, <2>1 DEF Owed
<1>10. CASE SendOne \/ SendThrows
  BY <1>10 DEF SendOne, SendThrows, Dropped, Owed
<1>11. CASE SendNothing
  <2>1. CASE ~held /\ closeOnIdle
    BY <1>11, <2>1 DEF SendNothing, GoIdle, Dropped, Owed
  <2>2. CASE ~(~held /\ closeOnIdle)
    <3>1. UNCHANGED <<que, login, conn, buf, call, stalled>> /\ pc = "send" /\ next = NoMsg
      BY <1>11, <2>2 DEF SendNothing, GoIdle
    <3>2. Sendable' = Sendable
      BY <1>0, <3>1
    <3> QED BY <3>1, <3>2 DEF Owed
  <2> QED BY <2>1, <2>2
<1>12. CASE SendRefused
  <2>1. conn' = "dropped" \/ buf' = buf
    BY <1>12 DEF SendRefused, GoIdle, Dropped
  <2>2. ~stalled' => buf \in {"posted", "writing"}
    BY <1>12 DEF SendRefused, Queued
  <2> QED BY <2>1, <2>2 DEF Owed
<1>13. CASE PortStep
  BY <1>13 DEF PortStep, Complete, CompleteFailed, CompleteClosed, Dropped, Owed
<1>14. CASE OnClose \/ Drop \/ Redial
  BY <1>14 DEF OnClose, Drop, Redial, Dropped, Owed
<1>15. CASE OnCloseOnIdle \/ OnWakeup
  <2>1. CASE conn' = "dropped"
    BY <2>1 DEF Owed
  <2>2. CASE conn' # "dropped"
    <3>1. UNCHANGED <<que, login, conn, buf, call, stalled, pc, next>>
      BY <1>15, <2>2 DEF OnCloseOnIdle, OnWakeup, Dropped
    <3>2. Sendable' = Sendable
      BY <1>0, <3>1
    <3> QED BY <3>1, <3>2 DEF Owed
  <2> QED BY <2>1, <2>2
<1>16. CASE Connected
  <2>1. ~login /\ Range(que) \cap Handshakes = {} /\ UNCHANGED <<que, login>>
    BY <1>16 DEF Connected, FreshSession
  <2>2. \A i \in 1 .. Len(que) : que[i] \in Range(que)
    BY LenProperties DEF TypeOK, Range
  <2>3. Sendable' = {}
    BY <2>1, <2>2 DEF Sendable
  <2> QED BY <2>3 DEF Owed
<1>17. CASE UNCHANGED vars
  BY <1>0, <1>17 DEF vars, Owed
<1> QED
  BY <1>2, <1>3, <1>4, <1>5, <1>6, <1>7, <1>8, <1>9, <1>10, <1>11, <1>12,
     <1>13, <1>14, <1>15, <1>16, <1>17
  DEF Next, PosterStep, SendStep, Handler

\* LoginFirst is kept: GetSendableP2PeerMsg hands out no application message before
\* the login, and the login lasts as long as the connection is open.
LEMMA LoginStep == TypeOK /\ PumpInv /\ LoginFirst /\ [Next]_vars => LoginFirst'
<1> SUFFICES ASSUME TypeOK, PumpInv, LoginFirst, [Next]_vars PROVE LoginFirst'
  OBVIOUS
<1> USE DEF PumpInv, msgVars, pumpVars, conVars, LoginFirst, NoAppBeforeLogin
<1>1. CASE FetchOne
  <2>1. PICK i \in Sendable : next' = que[i]
    BY <1>1 DEF FetchOne
  <2>2. next' \in Apps => login
    BY <2>1, MsgsAssumption DEF Sendable
  <2> QED BY <1>1, <2>2 DEF FetchOne
<1>2. CASE SendOne
  <2>1. out' = Append(out, next) /\ next \in Msgs /\ UNCHANGED <<conn, login>> /\ pc = "send"
    BY <1>2 DEF SendOne
  <2>2. Range(out') \subseteq Range(out) \cup {next}
    BY <2>1, AppendProperties, LenProperties DEF TypeOK, Range
  <2>3. pc' = "wait"
    BY <1>2 DEF SendOne
  <2> QED BY <2>1, <2>2, <2>3
<1>3. CASE Connected
  <2>1. Range(out') = {} /\ pc' = "wait"
    BY <1>3 DEF Connected, Range
  <2> QED BY <2>1
<1>4. CASE FetchNone
  BY <1>4, MsgsAssumption DEF FetchNone, Msgs
<1>5. CASE SendThrows \/ Drop
  BY <1>5 DEF SendThrows, Drop, Dropped
<1>6. CASE SendNothing \/ SendRefused \/ OnCloseOnIdle
  <2>1. /\ out' = out /\ pc' = "wait"
        /\ conn' = "dropped" \/ (UNCHANGED <<conn, login>>)
    BY <1>6 DEF SendNothing, SendRefused, OnCloseOnIdle, GoIdle, Dropped
  <2> QED BY <2>1
<1>7. CASE PosterStep
  BY <1>7 DEF PosterStep, Look, Kick, Enqueue
<1>8. CASE PortStep
  BY <1>8 DEF PortStep, Complete, CompleteFailed, CompleteClosed, Dropped
<1>9. CASE Handler
  <2>1. out' = out /\ pc' = "wait"
    BY <1>9 DEF Handler, OnConnect, OnConnectLogin, KeyXOnAck, OnLoginAck, OnClose, PostApp,
                Post, LoginSend
  <2>2. (conn' = conn /\ (login' = login \/ login')) \/ conn' = "closed"
    BY <1>9 DEF Handler, OnConnect, OnConnectLogin, KeyXOnAck, OnLoginAck, OnClose, PostApp,
                Post, LoginSend
  <2> QED BY <2>1, <2>2
<1>10. CASE OnWakeup \/ Redial
  BY <1>10 DEF OnWakeup, Redial
<1>11. CASE UNCHANGED vars
  BY <1>11 DEF vars
<1> QED
  BY <1>1, <1>2, <1>3, <1>4, <1>5, <1>6, <1>7, <1>8, <1>9, <1>10, <1>11
  DEF Next, SendStep

-----------------------------------------------------------------------------
(* Who owns a message.                                                     *)

\* What the pump has in its hand and in the send buffer.
Hand == {next, sending} \ {NoMsg}

\* A handshake message is posted once in a session, and a session begins when
\* none of the last one is left.
StageInv ==
    /\ stage \in {"none", "connected"} => (Range(que) \cup Hand) \cap Handshakes = {}
    /\ stage = "agree" => Login \notin Range(que) \cup Hand

\* A list without repetitions stays one when a new entry goes in,
LEMMA InsertOnce ==
    ASSUME NEW S, NEW s \in Seq(S), NEW p \in 1 .. Len(s) + 1, NEW e \in S,
           IsInjective(s), e \notin Range(s)
    PROVE  IsInjective(InsertAt(s, p, e))
<1> DEFINE t == InsertAt(s, p, e)
<1>1. /\ DOMAIN s = 1 .. Len(s) /\ DOMAIN t = 1 .. Len(s) + 1 /\ Len(s) \in Nat
      /\ \A i \in 1 .. Len(s) + 1 :
            t[i] = IF i < p THEN s[i] ELSE IF i = p THEN e ELSE s[i - 1]
  BY InsertEntries, LenProperties
<1> HIDE DEF t
<1>2. \A i \in 1 .. Len(s) : s[i] # e
  BY <1>1 DEF Range
<1>3. \A i, j \in 1 .. Len(s) : s[i] = s[j] => i = j
  BY <1>1 DEF IsInjective
<1>4. ASSUME NEW i \in DOMAIN t, NEW j \in DOMAIN t, i < j PROVE t[i] # t[j]
  <2>1. CASE i = p
    <3>1. t[i] = e /\ t[j] = s[j - 1] /\ j - 1 \in 1 .. Len(s)
      BY <1>1, <1>4, <2>1
    <3> QED BY <1>2, <3>1
  <2>2. CASE j = p
    <3>1. t[j] = e /\ t[i] = s[i] /\ i \in 1 .. Len(s)
      BY <1>1, <1>4, <2>2
    <3> QED BY <1>2, <3>1
  <2>3. CASE i # p /\ j # p
    <3>1. PICK a \in 1 .. Len(s) : a = IF i < p THEN i ELSE i - 1
      BY <1>1, <1>4, <2>3
    <3>2. PICK b \in 1 .. Len(s) : b = IF j < p THEN j ELSE j - 1
      BY <1>1, <1>4, <2>3
    <3>3. t[i] = s[a] /\ t[j] = s[b] /\ a # b
      BY <1>1, <1>4, <2>3, <3>1, <3>2
    <3> QED BY <1>3, <3>3
  <2> QED BY <2>1, <2>2, <2>3
<1>5. \A i, j \in DOMAIN t : i < j \/ j < i \/ i = j
  BY <1>1
<1> QED BY <1>4, <1>5 DEF IsInjective, t

\* and when one is taken out, which is then no longer in it.
LEMMA RemoveOnce ==
    ASSUME NEW S, NEW s \in Seq(S), NEW p \in 1 .. Len(s), IsInjective(s)
    PROVE  IsInjective(RemoveAt(s, p)) /\ Range(RemoveAt(s, p)) = Range(s) \ {s[p]}
<1> DEFINE t == RemoveAt(s, p)
<1>1. /\ DOMAIN s = 1 .. Len(s) /\ DOMAIN t = 1 .. Len(s) - 1 /\ Len(s) \in Nat
      /\ \A i \in 1 .. Len(s) - 1 : t[i] = IF i < p THEN s[i] ELSE s[i + 1]
  BY RemoveEntries, LenProperties
<1> HIDE DEF t
<1>2. \A i, j \in 1 .. Len(s) : s[i] = s[j] => i = j
  BY <1>1 DEF IsInjective
<1>3. ASSUME NEW i \in DOMAIN t
      PROVE  \E a \in 1 .. Len(s) : a = (IF i < p THEN i ELSE i + 1) /\ a # p /\ t[i] = s[a]
  BY <1>1
<1>4. IsInjective(t)
  <2> SUFFICES ASSUME NEW i \in DOMAIN t, NEW j \in DOMAIN t, t[i] = t[j] PROVE i = j
    BY DEF IsInjective
  <2>1. PICK a \in 1 .. Len(s) : a = (IF i < p THEN i ELSE i + 1) /\ t[i] = s[a]
    BY <1>3
  <2>2. PICK b \in 1 .. Len(s) : b = (IF j < p THEN j ELSE j + 1) /\ t[j] = s[b]
    BY <1>3
  <2>3. a = b
    BY <1>2, <2>1, <2>2
  <2> QED BY <1>1, <2>1, <2>2, <2>3
<1>5. ASSUME NEW i \in DOMAIN t PROVE t[i] \in Range(s) \ {s[p]}
  BY <1>1, <1>2, <1>3 DEF Range
<1>6. ASSUME NEW a \in 1 .. Len(s), a # p PROVE s[a] \in Range(t)
  <2>1. PICK i \in DOMAIN t : i = IF a < p THEN a ELSE a - 1
    BY <1>1, <1>6
  <2>2. t[i] = s[a]
    BY <1>1, <1>6, <2>1
  <2> QED BY <2>2 DEF Range
<1>7. Range(t) = Range(s) \ {s[p]}
  BY <1>1, <1>5, <1>6 DEF Range
<1> QED BY <1>4, <1>7 DEF t

\* A message nobody has yet goes into the queue.
LEMMA PostOwned ==
    ASSUME TypeOK, OwnedOnce,
           NEW m \in Msgs, m \notin Range(que) \cup Hand \cup freed,
           NEW p \in 1 .. Len(que) + 1, que' = InsertAt(que, p, m),
           UNCHANGED <<next, sending, freed>>,
           Range(log') = Range(log) \cup ({m} \cap Apps)
    PROVE  OwnedOnce' /\ Range(que') = Range(que) \cup {m}
<1>1. IsInjective(que') /\ Range(que') = Range(que) \cup {m}
  BY InsertOnce, InsertRange DEF OwnedOnce, TypeOK
<1>2. Hand' = Hand
  BY DEF Hand
<1> QED BY <1>1, <1>2 DEF OwnedOnce, Hand

\* The log grows by the message posted.
LEMMA LogGrows ==
    ASSUME TypeOK, NEW m \in Apps, log' = Append(log, m)
    PROVE  Range(log') = Range(log) \cup {m}
<1>1. /\ DOMAIN log = 1 .. Len(log) /\ DOMAIN log' = 1 .. Len(log) + 1 /\ Len(log) \in Nat
      /\ \A i \in 1 .. Len(log) + 1 : log'[i] = IF i <= Len(log) THEN log[i] ELSE m
  BY AppendProperties, LenProperties DEF TypeOK
<1> QED BY <1>1 DEF Range

LEMMA OwnedStep ==
    TypeOK /\ PumpInv /\ FreshSession /\ StageInv /\ OwnedOnce /\ [Next]_vars
        => OwnedOnce' /\ StageInv'
<1> SUFFICES ASSUME TypeOK, PumpInv, FreshSession, StageInv, OwnedOnce, [Next]_vars
             PROVE  OwnedOnce' /\ StageInv'
  OBVIOUS
<1> USE DEF msgVars, pumpVars, conVars
<1>0. /\ IsInjective(que) /\ Hand \cap Range(que) = {}
      /\ (Range(que) \cup Hand) \cap freed = {}
      /\ Range(log) = freed \cup ((Range(que) \cup Hand) \cap Apps)
      /\ freed \subseteq Apps /\ que \in Seq(Msgs)
      /\ Hand \subseteq Msgs /\ Range(que) \subseteq Msgs
      /\ Apps \cap Handshakes = {} /\ Msgs = Apps \cup Handshakes /\ NoMsg \notin Msgs
  <2>1. Range(que) \subseteq Msgs
    BY ElementOfSeq, LenProperties DEF TypeOK, Range
  <2> QED BY <2>1, MsgsAssumption DEF OwnedOnce, Hand, TypeOK, Msgs
<1>1. ASSUME UNCHANGED <<que, log, freed>>, Hand' = Hand,
             next' = sending' => next' = NoMsg,
             stage' = stage \/ stage' = "done" \/ (stage = "none" /\ stage' = "connected")
      PROVE  OwnedOnce' /\ StageInv'
  BY <1>1 DEF OwnedOnce, StageInv, Hand
<1>2. ASSUME NEW m \in Apps, m \notin Range(log), log' = Append(log, m),
             NEW p \in 1 .. Len(que) + 1, que' = InsertAt(que, p, m),
             UNCHANGED <<next, sending, freed, stage>>
      PROVE  OwnedOnce' /\ StageInv'
  <2>1. m \in Msgs /\ m \notin Range(que) \cup Hand \cup freed /\ m \notin Handshakes
    BY <1>0, <1>2
  <2>2. Range(log') = Range(log) \cup ({m} \cap Apps)
    BY <1>2, LogGrows
  <2>3. OwnedOnce' /\ Range(que') = Range(que) \cup {m}
    BY <1>2, <2>1, <2>2, PostOwned
  <2>4. Hand' = Hand /\ Login \in Handshakes
    BY <1>2 DEF Hand, Handshakes
  <2> QED BY <1>2, <2>1, <2>3, <2>4 DEF StageInv
<1>3. ASSUME NEW m \in Handshakes, m \notin Range(que) \cup Hand,
             NEW p \in 1 .. Len(que) + 1, que' = InsertAt(que, p, m),
             UNCHANGED <<next, sending, freed, log>>,
             \/ stage' = "ack"
             \/ stage' = "agree" /\ stage = "connected" /\ m = KeyX
      PROVE  OwnedOnce' /\ StageInv'
  <2>1. m \in Msgs /\ m \notin freed /\ {m} \cap Apps = {}
    BY <1>0, <1>3
  <2>2. OwnedOnce' /\ Range(que') = Range(que) \cup {m}
    BY <1>3, <2>1, PostOwned
  <2>3. Hand' = Hand
    BY <1>3 DEF Hand
  <2> QED BY <1>3, <2>2, <2>3, MsgsAssumption DEF StageInv, Handshakes
<1>4. CASE \E m \in Apps : PostApp(m)
  BY <1>2, <1>4 DEF PostApp, Post
<1>5. CASE \E m \in Apps : Enqueue(m)
  BY <1>2, <1>5 DEF Enqueue
<1>6. CASE OnConnect
  <2>1. KeyX \notin Range(que) \cup Hand
    BY <1>6 DEF OnConnect, StageInv, Handshakes
  <2> QED BY <1>3, <1>6, <2>1 DEF OnConnect, Post, Handshakes
<1>7. CASE OnConnectLogin \/ KeyXOnAck
  <2>1. Login \notin Range(que) \cup Hand
    BY <1>7 DEF OnConnectLogin, KeyXOnAck, StageInv, Handshakes
  <2> QED BY <1>3, <1>7, <2>1 DEF OnConnectLogin, KeyXOnAck, LoginSend, Handshakes
<1>8. CASE FetchOne
  <2>1. PICK i \in 1 .. Len(que) : next' = que[i] /\ que' = RemoveAt(que, i)
    BY <1>8 DEF FetchOne, Sendable
  <2>2. IsInjective(que') /\ Range(que') = Range(que) \ {que[i]}
    BY <1>0, <2>1, RemoveOnce
  <2>3. que[i] \in Range(que) /\ que[i] # NoMsg
    BY <1>0, LenProperties DEF Range
  <2>4. next = NoMsg /\ sending = NoMsg /\ UNCHANGED <<sending, log, freed, stage>>
    BY <1>8 DEF FetchOne, PumpInv
  <2>5. Hand = {} /\ Hand' = {que[i]} /\ next' # sending'
    BY <2>1, <2>3, <2>4 DEF Hand
  <2> QED BY <1>0, <2>2, <2>3, <2>4, <2>5 DEF OwnedOnce, StageInv, Hand
<1>9. CASE SendOne \/ SendThrows
  <2>1. /\ sending = NoMsg /\ next \in Msgs /\ sending' = next /\ next' = NoMsg
        /\ UNCHANGED <<que, log, freed, stage>>
    BY <1>9 DEF SendOne, SendThrows, PumpInv, Dropped
  <2>2. Hand' = Hand /\ next' # sending'
    BY <1>0, <2>1 DEF Hand
  <2> QED BY <1>1, <2>1, <2>2
<1>10. CASE SendRefused
  <2>1. /\ sending = NoMsg /\ next \in Apps /\ UNCHANGED <<que, sending, log, stage>>
        /\ next' = NoMsg /\ freed' = freed \cup {next}
    BY <1>10, MsgsAssumption DEF SendRefused, PumpInv, GoIdle, Dropped
  <2>2. Hand = {next} /\ Hand' = {}
    BY <1>0, <2>1 DEF Hand
  <2> QED BY <1>0, <2>1, <2>2 DEF OwnedOnce, StageInv, Hand
<1>11. CASE Complete
  <2>1. /\ next = NoMsg /\ UNCHANGED <<que, next, log, stage>>
        /\ sending' = NoMsg /\ freed' = freed \cup ({sending} \cap Apps)
    BY <1>11 DEF Complete, PumpInv
  <2>2. Hand = {sending} \ {NoMsg} /\ Hand' = {}
    BY <2>1 DEF Hand
  <2> QED BY <1>0, <2>1, <2>2 DEF OwnedOnce, StageInv, Hand
<1>12. CASE OnClose
  <2>1. /\ next = NoMsg /\ UNCHANGED <<next, log>> /\ que' = <<>> /\ sending' = NoMsg
        /\ freed' = freed \cup ((Range(que) \cup {sending}) \cap Apps)
    BY <1>12 DEF OnClose, PumpInv
  <2>2. Hand = {sending} \ {NoMsg} /\ Hand' = {}
    BY <2>1 DEF Hand
  <2>3. IsInjective(que') /\ Range(que') = {}
    BY <2>1 DEF IsInjective, Range
  <2>4. Range(log') = freed'
    BY <1>0, <2>1, <2>2
  <2> QED BY <1>12, <2>1, <2>2, <2>3, <2>4 DEF OnClose, OwnedOnce, StageInv, Hand
<1>13. CASE OnLoginAck \/ Look \/ Kick \/ FetchNone \/ SendNothing \/ CompleteFailed
            \/ CompleteClosed \/ OnCloseOnIdle \/ OnWakeup \/ Drop \/ Redial
            \/ Connected \/ UNCHANGED vars
  <2>1. UNCHANGED <<que, log, freed, sending>> /\ (next' = next \/ (FetchNone /\ next' = NoMsg))
    BY <1>13 DEF OnLoginAck, Look, Kick, FetchNone, SendNothing, CompleteFailed,
       CompleteClosed, OnCloseOnIdle, OnWakeup, Drop, Redial, Connected, vars
  <2>2. FetchNone => next = NoMsg
    BY DEF FetchNone, PumpInv
  <2>3. Hand' = Hand /\ next' = next
    BY <2>1, <2>2 DEF Hand
  <2>4. stage' = stage \/ stage' = "done" \/ (stage = "none" /\ stage' = "connected")
    BY <1>13 DEF OnLoginAck, Look, Kick, FetchNone, SendNothing, CompleteFailed,
       CompleteClosed, OnCloseOnIdle, OnWakeup, Drop, Redial, Connected, vars, GoIdle,
       Dropped, FreshSession
  <2> QED BY <1>1, <2>1, <2>3, <2>4 DEF OwnedOnce
<1> QED
  BY <1>4, <1>5, <1>6, <1>7, <1>8, <1>9, <1>10, <1>11, <1>12, <1>13
  DEF Next, PosterStep, SendStep, PortStep, Handler

-----------------------------------------------------------------------------
(* Messages of one priority.                                               *)

\* Of two messages of one priority in the queue the one posted first is ahead.
InOrder ==
    \A a, b \in 1 .. Len(que), i, j \in 1 .. Len(log) :
        que[a] = log[i] /\ que[b] = log[j] /\ Pri[log[i]] = Pri[log[j]] /\ i < j => a < b

FifoInv == IsInjective(log) /\ InOrder /\ SamePriorityFifo

\* However Place chooses, everything behind m is less urgent than m.
LEMMA PlaceBehind ==
    ASSUME TypeOK, NEW m \in Msgs, NEW p \in 1 .. Len(que) + 1, Place(m, p)
    PROVE  \A i \in 1 .. Len(que) : i >= p => Pri[que[i]] # Pri[m]
<1>1. Len(que) \in Nat
  BY LenProperties DEF TypeOK
<1>2. Pri[m] \in Nat
  BY PriAssumption
<1>3. SUFFICES ASSUME NEW i \in 1 .. Len(que), i >= p, Pri[que[i]] = Pri[m] PROVE FALSE
  OBVIOUS
<1>4. i \in {k \in 1 .. Len(que) : Pri[que[k]] <= Pri[m]}
  BY <1>2, <1>3
<1> QED BY <1>1, <1>3, <1>4 DEF Place

\* Where the entries of the queue are after m has gone in at p.
LEMMA InsertMoves ==
    ASSUME TypeOK, NEW m \in Msgs, NEW p \in 1 .. Len(que) + 1
    PROVE  LET after == InsertAt(que, p, m)
           IN  /\ Len(after) = Len(que) + 1 /\ Len(que) \in Nat
               /\ \A k \in 1 .. Len(que) + 1 :
                     after[k] = IF k < p THEN que[k] ELSE IF k = p THEN m ELSE que[k - 1]
<1>1. que \in Seq(Msgs) /\ Len(que) \in Nat
  BY LenProperties DEF TypeOK
<1> QED BY <1>1, InsertEntries

\* Putting a message in moves nothing past anything.
LEMMA InsertKeepsOrder ==
    ASSUME TypeOK, InOrder, NEW m \in Msgs, NEW p \in 1 .. Len(que) + 1,
           que' = InsertAt(que, p, m),
           NEW i \in 1 .. Len(log), NEW j \in 1 .. Len(log),
           log[i] # m, log[j] # m, Pri[log[i]] = Pri[log[j]], i < j,
           NEW a \in 1 .. Len(que'), NEW b \in 1 .. Len(que'),
           que'[a] = log[i], que'[b] = log[j]
    PROVE  a < b
<1>1. /\ Len(que') = Len(que) + 1 /\ Len(que) \in Nat
      /\ \A k \in 1 .. Len(que) + 1 :
            que'[k] = IF k < p THEN que[k] ELSE IF k = p THEN m ELSE que[k - 1]
  BY InsertMoves
<1>2. a # p /\ b # p
  BY <1>1
<1>3. PICK c \in 1 .. Len(que) : c = IF a < p THEN a ELSE a - 1
  BY <1>1, <1>2
<1>4. PICK d \in 1 .. Len(que) : d = IF b < p THEN b ELSE b - 1
  BY <1>1, <1>2
<1>5. que[c] = log[i] /\ que[d] = log[j]
  BY <1>1, <1>2, <1>3, <1>4
<1>6. c < d
  BY <1>5 DEF InOrder
<1> QED BY <1>1, <1>2, <1>3, <1>4, <1>6

\* An application message goes behind those of its priority, and behind them in
\* the log.
LEMMA PostKeepsFifo ==
    ASSUME TypeOK, OwnedOnce, FifoInv, NEW m \in Apps, m \notin Range(log),
           NEW p \in 1 .. Len(que) + 1, Place(m, p), que' = InsertAt(que, p, m),
           log' = Append(log, m)
    PROVE  FifoInv'
<1>1. /\ m \in Msgs /\ que \in Seq(Msgs) /\ Len(que) \in Nat
      /\ Range(que') = Range(que) \cup {m}
  BY InsertRange, LenProperties DEF TypeOK, Msgs
<1>2. /\ DOMAIN log = 1 .. Len(log) /\ DOMAIN log' = 1 .. Len(log')
      /\ Len(log') = Len(log) + 1 /\ Len(log) \in Nat
      /\ \A i \in 1 .. Len(log) : log'[i] = log[i] /\ log[i] # m
      /\ log'[Len(log) + 1] = m
  BY AppendProperties, LenProperties DEF TypeOK, Range
<1>3. IsInjective(log')
  BY <1>2 DEF FifoInv, IsInjective
<1>4. SamePriorityFifo'
  <2> SUFFICES ASSUME NEW i \in 1 .. Len(log'), NEW j \in 1 .. Len(log'), i < j,
                      Pri[log'[i]] = Pri[log'[j]], log'[i] \in Range(que')
               PROVE  log'[j] \in Range(que')
    BY DEF SamePriorityFifo
  <2>1. i \in 1 .. Len(log) /\ log'[i] = log[i] /\ log[i] \in Range(que)
    BY <1>1, <1>2
  <2>2. CASE j = Len(log) + 1
    BY <1>1, <1>2, <2>2
  <2>3. CASE j # Len(log) + 1
    <3>1. j \in 1 .. Len(log) /\ log'[j] = log[j]
      BY <1>2, <2>3
    <3>2. log[j] \in Range(que)
      BY <2>1, <3>1 DEF FifoInv, SamePriorityFifo
    <3> QED BY <1>1, <3>1, <3>2
  <2> QED BY <2>2, <2>3
<1>5. InOrder'
  <2> SUFFICES ASSUME NEW a \in 1 .. Len(que'), NEW b \in 1 .. Len(que'),
                      NEW i \in 1 .. Len(log'), NEW j \in 1 .. Len(log'),
                      que'[a] = log'[i], que'[b] = log'[j],
                      Pri[log'[i]] = Pri[log'[j]], i < j
               PROVE  a < b
    BY DEF InOrder
  <2>1. i \in 1 .. Len(log) /\ log'[i] = log[i] /\ log[i] # m
    BY <1>2
  <2>2. CASE j \in 1 .. Len(log)
    <3>1. log'[j] = log[j] /\ log[j] # m
      BY <1>2, <2>2
    <3> QED BY <1>1, <2>1, <2>2, <3>1, InsertKeepsOrder DEF FifoInv
  <2>3. CASE j = Len(log) + 1
    <3>1. /\ Len(que') = Len(que) + 1
          /\ \A k \in 1 .. Len(que) + 1 :
                que'[k] = IF k < p THEN que[k] ELSE IF k = p THEN m ELSE que[k - 1]
      BY <1>1, InsertMoves
    <3>2. \A k \in 1 .. Len(que) : que[k] # m
      <4>1. m \notin Range(que)
        BY DEF OwnedOnce, Msgs
      <4> QED BY <1>1, <4>1, LenProperties DEF Range
    <3>3. b = p
      <4>1. que'[b] = m
        BY <1>2, <2>3
      <4>2. CASE b < p
        BY <1>1, <3>1, <3>2, <4>1, <4>2
      <4>3. CASE b > p
        <5>1. b - 1 \in 1 .. Len(que) /\ que'[b] = que[b - 1]
          BY <1>1, <3>1, <4>3
        <5> QED BY <3>2, <4>1, <5>1
      <4> QED BY <1>1, <3>1, <4>2, <4>3
    <3>4. Pri[log[i]] = Pri[m]
      BY <1>2, <2>1, <2>3
    <3>5. a # p
      BY <2>1, <3>1
    <3>6. CASE a > p
      <4>1. a - 1 \in 1 .. Len(que) /\ que[a - 1] = log[i] /\ a - 1 >= p
        BY <1>1, <2>1, <3>1, <3>6
      <4> QED BY <1>1, <3>4, <4>1, PlaceBehind
    <3> QED BY <1>1, <3>1, <3>3, <3>5, <3>6
  <2> QED BY <1>2, <2>2, <2>3
<1> QED BY <1>3, <1>4, <1>5 DEF FifoInv

\* A handshake message goes anywhere.
LEMMA HandshakeKeepsFifo ==
    ASSUME TypeOK, FifoInv, NEW m \in Handshakes,
           NEW p \in 1 .. Len(que) + 1, que' = InsertAt(que, p, m), log' = log
    PROVE  FifoInv'
<1>1. m \in Msgs /\ Range(que') = Range(que) \cup {m}
  BY InsertRange DEF TypeOK, Msgs
<1>2. \A i \in 1 .. Len(log) : log[i] # m
  BY ElementOfSeq, MsgsAssumption DEF TypeOK
<1>3. SamePriorityFifo'
  BY <1>1, <1>2 DEF FifoInv, SamePriorityFifo
<1>4. InOrder'
  <2> SUFFICES ASSUME NEW a \in 1 .. Len(que'), NEW b \in 1 .. Len(que'),
                      NEW i \in 1 .. Len(log), NEW j \in 1 .. Len(log),
                      que'[a] = log[i], que'[b] = log[j],
                      Pri[log[i]] = Pri[log[j]], i < j
               PROVE  a < b
    BY DEF InOrder
  <2> QED BY <1>1, <1>2, InsertKeepsOrder DEF FifoInv
<1> QED BY <1>3, <1>4 DEF FifoInv

\* What GetSendableP2PeerMsg takes is at the head, or a handshake message.
LEMMA FetchKeepsFifo ==
    ASSUME TypeOK, OwnedOnce, FifoInv, FetchOne
    PROVE  FifoInv'
<1>1. PICK p \in Sendable : (\A k \in Sendable : p <= k) /\ que' = RemoveAt(que, p)
  BY DEF FetchOne
<1>2. /\ p \in 1 .. Len(que) /\ que \in Seq(Msgs) /\ Len(que) \in Nat
      /\ DOMAIN que = 1 .. Len(que) /\ log' = log
  BY LenProperties DEF Sendable, TypeOK, FetchOne
<1>3. que[p] \in Apps => p = 1
  BY <1>1, <1>2, MsgsAssumption DEF Sendable
<1>4. Range(que') = Range(que) \ {que[p]}
  BY <1>1, <1>2, RemoveOnce DEF OwnedOnce
<1>5. /\ Len(que') = Len(que) - 1
      /\ \A k \in 1 .. Len(que) - 1 : que'[k] = IF k < p THEN que[k] ELSE que[k + 1]
  BY <1>1, <1>2, RemoveEntries
<1>6. SamePriorityFifo'
  <2> SUFFICES ASSUME NEW i \in 1 .. Len(log), NEW j \in 1 .. Len(log), i < j,
                      Pri[log[i]] = Pri[log[j]], log[i] \in Range(que')
               PROVE  log[j] \in Range(que')
    BY <1>2 DEF SamePriorityFifo
  <2>1. log[i] \in Range(que) /\ log[i] # que[p] /\ log[j] \in Range(que)
    BY <1>4 DEF FifoInv, SamePriorityFifo
  <2>2. CASE log[j] = que[p]
    <3>1. log[j] \in Apps
      BY ElementOfSeq DEF TypeOK
    <3>2. p = 1
      BY <1>3, <2>2, <3>1
    <3>3. PICK a \in 1 .. Len(que) : que[a] = log[i]
      BY <1>2, <2>1 DEF Range
    <3>4. a < p
      BY <1>2, <2>2, <3>3 DEF FifoInv, InOrder
    <3> QED BY <1>2, <3>2, <3>4
  <2> QED BY <1>4, <2>1, <2>2
<1>7. InOrder'
  <2> SUFFICES ASSUME NEW a \in 1 .. Len(que'), NEW b \in 1 .. Len(que'),
                      NEW i \in 1 .. Len(log), NEW j \in 1 .. Len(log),
                      que'[a] = log[i], que'[b] = log[j],
                      Pri[log[i]] = Pri[log[j]], i < j
               PROVE  a < b
    BY <1>2 DEF InOrder
  <2>1. PICK c \in 1 .. Len(que) : c = IF a < p THEN a ELSE a + 1
    BY <1>2, <1>5
  <2>2. PICK d \in 1 .. Len(que) : d = IF b < p THEN b ELSE b + 1
    BY <1>2, <1>5
  <2>3. que[c] = log[i] /\ que[d] = log[j]
    BY <1>2, <1>5, <2>1, <2>2
  <2>4. c < d
    BY <2>3 DEF FifoInv, InOrder
  <2> QED BY <1>2, <1>5, <2>1, <2>2, <2>4
<1> QED BY <1>2, <1>6, <1>7 DEF FifoInv

LEMMA FifoStep ==
    TypeOK /\ OwnedOnce /\ FifoInv /\ [Next]_vars => FifoInv'
<1> SUFFICES ASSUME TypeOK, OwnedOnce, FifoInv, [Next]_vars PROVE FifoInv'
  OBVIOUS
<1> USE DEF msgVars
<1>1. CASE \E m \in Apps : PostApp(m) \/ Enqueue(m)
  BY <1>1, PostKeepsFifo DEF PostApp, Post, Enqueue
<1>2. CASE OnConnect \/ OnConnectLogin \/ KeyXOnAck
  BY <1>2, HandshakeKeepsFifo DEF OnConnect, OnConnectLogin, KeyXOnAck, Post, LoginSend,
     Handshakes
<1>3. CASE FetchOne
  BY <1>3, FetchKeepsFifo
<1>4. CASE OnClose
  <2>1. que' = <<>> /\ log' = log /\ Range(que') = {} /\ Len(que') = 0
    BY <1>4, EmptySeq DEF OnClose, Range
  <2> QED BY <2>1 DEF FifoInv, InOrder, SamePriorityFifo
<1>5. CASE UNCHANGED <<que, log>>
  BY <1>5 DEF FifoInv, InOrder, SamePriorityFifo
<1>6. CASE \/ Look \/ Kick \/ FetchNone \/ SendOne \/ SendThrows \/ SendNothing
           \/ SendRefused \/ PortStep
  BY <1>5, <1>6 DEF Look, Kick, FetchNone, SendOne, SendThrows, SendNothing, SendRefused,
     PortStep, Complete, CompleteFailed, CompleteClosed
<1>7. CASE OnLoginAck \/ OnCloseOnIdle \/ OnWakeup \/ Drop \/ Connected \/ Redial
           \/ UNCHANGED vars
  BY <1>5, <1>7 DEF OnLoginAck, OnCloseOnIdle, OnWakeup, Drop, Connected, Redial, vars
<1> QED
  BY <1>1, <1>2, <1>3, <1>4, <1>6, <1>7 DEF Next, PosterStep, SendStep, Handler

-----------------------------------------------------------------------------
IInv ==
    /\ TypeOK /\ PumpInv /\ FreshSession /\ Owed /\ LoginFirst
    /\ StageInv /\ OwnedOnce /\ FifoInv

LEMMA Inductive == Spec => []IInv
<1>1. Init => IInv
  <2>1. ASSUME Init PROVE Sendable = {} /\ Range(que) = {} /\ Range(out) = {} /\ Range(log) = {}
    BY <2>1 DEF Init, Sendable, Range
  <2>2. Init => TypeOK
    BY EmptySeq DEF Init, TypeOK
  <2>3. Init => PumpInv /\ FreshSession
    BY <2>1 DEF Init, PumpInv, FreshSession
  <2>4. Init => Owed
    BY DEF Init, Owed
  <2>5. Init => LoginFirst
    BY DEF Init, LoginFirst, NoAppBeforeLogin
  <2>6. Init => StageInv /\ OwnedOnce
    <3> SUFFICES ASSUME Init PROVE StageInv /\ OwnedOnce
      OBVIOUS
    <3>1. que = <<>> /\ freed = {} /\ Hand = {} /\ {next, sending} \ {NoMsg} = {}
      BY DEF Init, Hand
    <3>2. Range(que) = {} /\ Range(log) = {}
      BY <2>1
    <3>3. IsInjective(que)
      BY <3>1 DEF IsInjective
    <3> QED BY <3>1, <3>2, <3>3 DEF Init, StageInv, OwnedOnce
  <2>7. Init => FifoInv
    BY EmptySeq DEF Init, FifoInv, InOrder, SamePriorityFifo, IsInjective
  <2> QED BY <2>2, <2>3, <2>4, <2>5, <2>6, <2>7 DEF IInv
<1>2. IInv /\ [Next]_vars => IInv'
  BY TypeStep, PumpStep, FreshStep, OwedStep, LoginStep, OwnedStep, FifoStep DEF IInv
<1> QED BY <1>1, <1>2, PTL DEF Spec

\* Whatever is posted, from whichever thread, and wherever the login comes: a send
\* path that waits on an open connection has nothing in the queue it may send.
THEOREM NothingIsStranded == Spec => []NothingStranded
<1>1. IInv => NothingStranded
  BY DEF IInv, Owed, NothingStranded
<1> QED BY <1>1, Inductive, PTL

\* No application message is handed to the transport before the login of its
\* session has been acknowledged.
THEOREM LoginComesFirst == Spec => []NoAppBeforeLogin
<1>1. IInv => NoAppBeforeLogin
  BY DEF IInv, LoginFirst
<1> QED BY <1>1, Inductive, PTL

\* Every message has one owner and is deleted once, whatever interleaving of
\* posts, completions, refusals and drops: none is lost, none freed twice.
THEOREM MessagesOwnedOnce == Spec => []OwnedOnce
<1>1. IInv => OwnedOnce
  BY DEF IInv
<1> QED BY <1>1, Inductive, PTL

\* Messages of one priority leave the queue in the order they entered it, for
\* any priorities, and whatever handshake messages pass them.
THEOREM PriorityIsFifo == Spec => []SamePriorityFifo
<1>1. IInv => SamePriorityFifo
  BY DEF IInv, FifoInv
<1> QED BY <1>1, Inductive, PTL
=============================================================================
