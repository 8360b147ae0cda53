---------------------------- MODULE P2PeerConSend ----------------------------
(***************************************************************************)
(* The send path of a CLIENT connection (src/P2PeerCon.cpp): the queue     *)
(* PostP2PeerMsg fills by priority from any thread, the message in flight, *)
(* the one overlapped send buffer, and the completions with which the pump *)
(* fetches the next message.  Until its login is acknowledged a client     *)
(* lets handshake messages out and nothing else.  The connection is        *)
(* dropped, deletes what it still holds, and dials again.                  *)
(*                                                                         *)
(* The pump runs completions and handlers one at a time; another thread's  *)
(* PostP2PeerMsg holds m_oCSectMsgQue for its three steps, and the pump    *)
(* takes that lock only where it touches the queue.                        *)
(***************************************************************************)
EXTENDS Integers, Sequences, SequencesExt, Functions

CONSTANTS
    Apps,           \* application messages
    KeyX, Login,    \* the handshake messages of a session
    NoMsg,          \* a null P2PeerMsg pointer
    Foreign,        \* the application messages posted from other threads
    Unsealable,     \* those SealAppMsgOutbound or VNetMountOut refuses
    Pri             \* Pri[m]: its priority; the lower value wins

Handshakes == {KeyX, Login}
Msgs       == Apps \cup Handshakes

ASSUME MsgsAssumption ==
    /\ KeyX # Login /\ Apps \cap Handshakes = {} /\ NoMsg \notin Msgs
    /\ Foreign \subseteq Apps /\ Unsealable \subseteq Apps
ASSUME PriAssumption == Pri \in [Msgs -> Nat]

VARIABLES
    que,            \* m_oCListMsgQue
    sending,        \* m_pP2PeerMsgSend
    buf,            \* m_pOVERLAPPEDsend: none, idle, or queued by a wake-up or a write
    pc,             \* where the pump is in the send branch of a completion
    next, held,     \* what GetSendableP2PeerMsg returned, and its bHeld
    call,           \* the step of the thread that is inside PostP2PeerMsg
    conn,           \* dialling, open, dropped (P2P_Close posted) or closed
    login,          \* ConState_Login
    closeOnIdle,    \* ConState_CloseOnIdle
    stage,          \* how far the handshake of this session has come
    stalled,        \* the path went idle at a message it could not seal
    out,            \* history: what this session has handed to the transport
    log,            \* history: the application messages in the order posted
    freed           \* history: those of them that have been deleted

msgVars  == <<que, sending, log, freed>>
pumpVars == <<pc, next, held>>
conVars  == <<conn, login, closeOnIdle, stage>>
vars     == <<msgVars, buf, pumpVars, call, conVars, stalled, out>>

Queued   == buf \in {"posted", "writing"}
Kickable == sending = NoMsg /\ buf = "idle"

Init ==
    /\ que = <<>> /\ sending = NoMsg /\ buf = "none"
    /\ pc = "wait" /\ next = NoMsg /\ held = FALSE /\ call = "none"
    /\ conn = "dialling" /\ login = FALSE /\ closeOnIdle = FALSE /\ stage = "none"
    /\ stalled = FALSE /\ out = <<>> /\ log = <<>> /\ freed = {}

-----------------------------------------------------------------------------
(* The queue.                                                              *)

\* Mutant: the walk from the tail stops behind more urgent messages only.
PlaceBefore(m, p) ==
    LET before == {i \in 1 .. Len(que) : Pri[que[i]] < Pri[m]}
    IN \/ before = {} /\ p = 1
       \/ \E i \in before : (\A j \in before : j <= i) /\ p = i + 1

\* PostP2PeerMsg appends when the tail is not less urgent, and also - its "first
\* entry" - when the head is; otherwise it inserts behind the last that is not
\* less urgent.
Place(m, p) ==
    LET notLess == {i \in 1 .. Len(que) : Pri[que[i]] <= Pri[m]}
        atTail  == \/ que = <<>>
                   \/ Len(que) \in notLess
                   \/ 1 \notin notLess
    IN \/ atTail /\ p = Len(que) + 1
       \/ ~atTail /\ \E i \in notLess : (\A j \in notLess : j <= i) /\ p = i + 1

\* PostHandshakeP2PeerMsg: behind the handshakes at the head, before the rest.
PlaceInFront(p) ==
    /\ \A i \in 1 .. p - 1 : que[i] \in Handshakes
    /\ p <= Len(que) => que[p] \notin Handshakes

\* Mutant: whatever is at the head may leave.
SendableAny == 1 .. Len(que)

\* What GetSendableP2PeerMsg may take: a client that has not logged in sends
\* handshakes only.
Sendable == {i \in 1 .. Len(que) : login \/ que[i] \in Handshakes}

\* Mutant: a post on the pump's own thread does not wake the send path.
WakeUpNever(b) == buf' = b /\ UNCHANGED stalled

\* A send path that is idle waits for a message: post its buffer b.
WakeUp(b) ==
    LET idle == sending = NoMsg /\ b = "idle"
    IN /\ buf' = IF idle THEN "posted" ELSE b
       /\ stalled' = (stalled /\ ~idle)

-----------------------------------------------------------------------------
(* Posting.                                                                *)

\* PostP2PeerMsg from a handler on the pump's thread.
Post(m, b) ==
    /\ pc = "wait" /\ call = "none"
    /\ \E p \in 1 .. Len(que) + 1 : Place(m, p) /\ que' = InsertAt(que, p, m)
    /\ WakeUp(b)
    /\ UNCHANGED <<sending, freed, pumpVars, call, conn, login, closeOnIdle, out>>

PostApp(m) ==
    /\ m \in Apps \ Foreign /\ m \notin Range(log)
    /\ Post(m, buf)
    /\ log' = Append(log, m)
    /\ UNCHANGED stage

\* PostP2PeerMsg from another thread: under the lock, the message is queued,
Enqueue(m) ==
    /\ call = "none" /\ m \in Foreign /\ m \notin Range(log)
    /\ \E p \in 1 .. Len(que) + 1 : Place(m, p) /\ que' = InsertAt(que, p, m)
    /\ log' = Append(log, m)
    /\ call' = "look"
    /\ UNCHANGED <<sending, freed, buf, pumpVars, conVars, stalled, out>>

\* the pump's state, which no lock covers, is looked at (what the pump has fetched
\* may have reached m_pP2PeerMsgSend by now, or not),
Look ==
    /\ call = "look"
    /\ \/ Kickable /\ call' = "kick"
       \/ (~Kickable \/ next # NoMsg) /\ call' = "none"
    /\ UNCHANGED <<msgVars, buf, pumpVars, conVars, stalled, out>>

\* and the buffer is posted - or, in use by now, refused with an exception.  (A
\* buffer that Drop has deleted meanwhile is not followed further.)
Kick ==
    /\ call = "kick"
    /\ call' = "none"
    /\ buf' = IF buf = "idle" THEN "posted" ELSE buf
    /\ stalled' = (stalled /\ buf # "idle")
    /\ UNCHANGED <<msgVars, pumpVars, conVars, out>>

-----------------------------------------------------------------------------
(* Drop and its parts.                                                     *)

Dropped ==
    /\ conn' = "dropped" /\ login' = FALSE /\ closeOnIdle' = FALSE
    /\ UNCHANGED stage

\* Drop deletes a buffer that is not queued.
Reclaimed(b) == IF b = "idle" THEN "none" ELSE b

-----------------------------------------------------------------------------
(* The send branch of On_QueuedCompletionStatus.                           *)

\* The buffer is released and the message it carried deleted.  (The two are one
\* step: in between, a thread that looks sees a message in flight, as before.)
Complete ==
    /\ pc = "wait" /\ Queued /\ conn = "open"
    /\ buf' = "idle"
    /\ sending' = NoMsg
    /\ freed' = freed \cup ({sending} \cap Apps)
    /\ pc' = "fetch"
    /\ UNCHANGED <<que, log, next, held, call, conVars, stalled, out>>

\* The write failed: an exception, and Drop.
CompleteFailed ==
    /\ pc = "wait" /\ buf = "writing" /\ conn = "open"
    /\ buf' = "none"
    /\ Dropped
    /\ UNCHANGED <<msgVars, pumpVars, call, stalled, out>>

\* The handle is gone: DropOVERLAPPED.
CompleteClosed ==
    /\ pc = "wait" /\ Queued /\ conn # "open"
    /\ buf' = "none"
    /\ UNCHANGED <<msgVars, pumpVars, call, conVars, stalled, out>>

\* GetSendableP2PeerMsg, under the queue's lock.
FetchOne ==
    /\ pc = "fetch" /\ call = "none"
    /\ \E i \in Sendable :
          /\ \A j \in Sendable : i <= j
          /\ next' = que[i]
          /\ que' = RemoveAt(que, i)
    /\ held' = FALSE
    /\ pc' = "send"
    /\ UNCHANGED <<sending, log, freed, buf, call, conVars, stalled, out>>

FetchNone ==
    /\ pc = "fetch" /\ call = "none" /\ Sendable = {}
    /\ next' = NoMsg
    /\ held' = (que # <<>>)
    /\ pc' = "send"
    /\ UNCHANGED <<msgVars, buf, call, conVars, stalled, out>>

\* SendP2PeerMsg finds the buffer free and hands the message over;
SendOne ==
    /\ pc = "send" /\ next \in Msgs \ Unsealable /\ ~Queued
    /\ sending' = next /\ next' = NoMsg
    /\ buf' = "writing"
    /\ out' = Append(out, next)
    /\ pc' = "wait"
    /\ UNCHANGED <<que, log, freed, held, call, conVars, stalled>>

\* or it throws, because the buffer is in use or the transport refuses: Drop.
SendThrows ==
    /\ pc = "send" /\ next \in Msgs \ Unsealable
    /\ sending' = next /\ next' = NoMsg
    /\ buf' = Reclaimed(buf)
    /\ Dropped
    /\ pc' = "wait"
    /\ UNCHANGED <<que, log, freed, held, call, stalled, out>>

\* Nothing to send: the path goes idle, or the connection closes on it.
GoIdle ==
    /\ pc' = "wait"
    /\ IF ~held /\ closeOnIdle
       THEN Dropped /\ buf' = Reclaimed(buf)
       ELSE UNCHANGED <<conVars, buf>>

SendNothing ==
    /\ pc = "send" /\ next = NoMsg
    /\ GoIdle
    /\ UNCHANGED <<msgVars, next, held, call, stalled, out>>

\* The message may not go out as it is, and is deleted; what is queued behind it
\* stays until something else wakes the path.
SendRefused ==
    /\ pc = "send" /\ next \in Unsealable
    /\ next' = NoMsg
    /\ freed' = freed \cup {next}
    /\ stalled' = ~Queued
    /\ GoIdle
    /\ UNCHANGED <<que, sending, log, held, call, out>>

-----------------------------------------------------------------------------
(* Signals and failures, on the pump.                                      *)

\* P2PsigCon_CLOSEONIDLE: latched, and acted upon at once if nothing is in
\* flight - whatever is queued.
OnCloseOnIdle ==
    /\ pc = "wait"
    /\ IF sending = NoMsg
       THEN Dropped /\ buf' = Reclaimed(buf)
       ELSE /\ closeOnIdle' = TRUE
            /\ UNCHANGED <<conn, login, stage, buf>>
    /\ UNCHANGED <<msgVars, pumpVars, call, stalled, out>>

\* P2PsigCon_WAKEUP.
OnWakeup ==
    /\ pc = "wait" /\ closeOnIdle
    /\ closeOnIdle' = FALSE
    /\ UNCHANGED <<msgVars, buf, pumpVars, call, conn, login, stage, stalled, out>>

\* P2PsigCon_CLOSE, or a failure of the receive side.
Drop ==
    /\ pc = "wait" /\ conn \in {"dialling", "open"}
    /\ Dropped
    /\ buf' = Reclaimed(buf)
    /\ UNCHANGED <<msgVars, pumpVars, call, stalled, out>>

-----------------------------------------------------------------------------
(* The life of a session.                                                  *)

\* The send buffer, made if there is none.
Made == IF buf = "none" THEN "idle" ELSE buf

\* The CONNECT completion, which posts P2P_Connect;
Connected ==
    /\ pc = "wait" /\ conn = "dialling"
    /\ conn' = "open"
    /\ buf' = Made
    /\ stage' = "connected"
    /\ out' = <<>>
    /\ UNCHANGED <<msgVars, pumpVars, call, login, closeOnIdle, stalled>>

\* its handler, which runs even if the connection has dropped since, calls Login,
\* which begins the key agreement: PostP2PeerMsg queues its message;
OnConnect ==
    /\ stage = "connected"
    /\ Post(KeyX, Made)
    /\ stage' = "agree"
    /\ UNCHANGED log

\* LoginSend puts the login in front of what is queued.
LoginSend(b) ==
    /\ pc = "wait" /\ call = "none"
    /\ \E p \in 1 .. Len(que) + 1 : PlaceInFront(p) /\ que' = InsertAt(que, p, Login)
    /\ WakeUp(b)
    /\ stage' = "ack"
    /\ UNCHANGED <<sending, log, freed, pumpVars, call, conn, login, closeOnIdle, out>>

\* On a hub that requires no agreement, Login sends it at once;
OnConnectLogin ==
    /\ stage = "connected"
    /\ LoginSend(Made)

\* with one, it follows the acknowledgement read off the wire.
KeyXOnAck ==
    /\ stage = "agree" /\ conn = "open" /\ KeyX \in Range(out)
    /\ LoginSend(buf)

\* Mutant: the login is noted, and nothing wakes the send path.
OnLoginAckQuiet ==
    /\ pc = "wait" /\ call = "none" /\ stage = "ack" /\ Login \in Range(out)
    /\ login' = TRUE
    /\ stage' = "done"
    /\ UNCHANGED <<msgVars, buf, pumpVars, call, conn, closeOnIdle, stalled, out>>

\* OnLoginAck sets the state, and ReleaseLoginHold wakes the send path.
OnLoginAck ==
    /\ pc = "wait" /\ call = "none" /\ stage = "ack" /\ Login \in Range(out)
    /\ login' = TRUE
    /\ stage' = "done"
    /\ IF que # <<>> THEN WakeUp(buf) ELSE UNCHANGED <<buf, stalled>>
    /\ UNCHANGED <<msgVars, pumpVars, call, conn, closeOnIdle, out>>

\* Mutant: the message in flight is deleted and its pointer kept.
OnCloseDangling ==
    /\ pc = "wait" /\ call = "none" /\ conn = "dropped" /\ stage # "connected"
    /\ que' = <<>> /\ UNCHANGED sending
    /\ freed' = freed \cup ((Range(que) \cup {sending}) \cap Apps)
    /\ conn' = "closed" /\ login' = FALSE /\ closeOnIdle' = FALSE /\ stage' = "none"
    /\ stalled' = FALSE
    /\ UNCHANGED <<log, buf, pumpVars, call, out>>

\* OnClose deletes the message in flight and all that is queued.  (P2P_Connect
\* lies before P2P_Close in the pump's FIFO.)
OnClose ==
    /\ pc = "wait" /\ call = "none" /\ conn = "dropped" /\ stage # "connected"
    /\ que' = <<>> /\ sending' = NoMsg
    /\ freed' = freed \cup ((Range(que) \cup {sending}) \cap Apps)
    /\ conn' = "closed" /\ login' = FALSE /\ closeOnIdle' = FALSE /\ stage' = "none"
    /\ stalled' = FALSE
    /\ UNCHANGED <<log, buf, pumpVars, call, out>>

\* The restart timer fires.  The port is a FIFO: what the closed session was
\* owed has come by then.
Redial ==
    /\ pc = "wait" /\ conn = "closed" /\ ~Queued
    /\ conn' = "dialling"
    /\ UNCHANGED <<msgVars, buf, pumpVars, call, login, closeOnIdle, stage, stalled, out>>

-----------------------------------------------------------------------------
PosterStep == Look \/ Kick \/ \E m \in Apps : Enqueue(m)
SendStep   == FetchOne \/ FetchNone \/ SendOne \/ SendThrows \/ SendNothing \/ SendRefused
PortStep   == Complete \/ CompleteFailed \/ CompleteClosed
Handler    == \/ OnConnect \/ OnConnectLogin \/ KeyXOnAck \/ OnLoginAck \/ OnClose
              \/ \E m \in Apps : PostApp(m)

Next ==
    \/ PosterStep \/ SendStep \/ PortStep \/ Handler
    \/ OnCloseOnIdle \/ OnWakeup \/ Drop
    \/ Connected \/ Redial

Spec == Init /\ [][Next]_vars

\* A thread finishes its call, the pump what it has begun, and the transport
\* reports every write; nobody is obliged to post, to connect or to log in.
FairSpec == Spec /\ WF_vars(Look \/ Kick) /\ WF_vars(SendStep) /\ WF_vars(PortStep)

-----------------------------------------------------------------------------
\* Every variable holds a value the code could store in it.
TypeOK ==
    /\ que \in Seq(Msgs) /\ sending \in Msgs \cup {NoMsg} /\ next \in Msgs \cup {NoMsg}
    /\ buf \in {"none", "idle", "posted", "writing"} /\ pc \in {"wait", "fetch", "send"}
    /\ call \in {"none", "look", "kick"}
    /\ conn \in {"dialling", "open", "dropped", "closed"}
    /\ stage \in {"none", "connected", "agree", "ack", "done"}
    /\ held \in BOOLEAN /\ login \in BOOLEAN /\ closeOnIdle \in BOOLEAN /\ stalled \in BOOLEAN
    /\ out \in Seq(Msgs) /\ log \in Seq(Apps) /\ freed \subseteq Apps

\* "P2PeerCon may be idle and waiting for next P2PeerMsg": when it is, on an open
\* connection and with no thread inside PostP2PeerMsg, nothing it may send is
\* left in the queue.  The one way out is a message that could not be sealed.
NothingStranded ==
    conn = "open" /\ pc = "wait" /\ buf = "idle" /\ call = "none" /\ ~stalled => Sendable = {}

\* Messages of one priority leave the queue in the order they entered it,
\* whatever is posted around them and from whichever thread.
SamePriorityFifo ==
    \A i, j \in 1 .. Len(log) :
        /\ i < j /\ Pri[log[i]] = Pri[log[j]]
        /\ log[i] \in Range(que)
        => log[j] \in Range(que)

\* "a CLIENT connection sends only handshake messages until its login is
\* complete": the far end drops a link that sends anything else first.
NoAppBeforeLogin == conn = "open" /\ ~login => Range(out) \cap Apps = {}

\* A message has one owner and is deleted once: the queue, the pump's hand, the
\* send buffer, or nobody any more.
OwnedOnce ==
    LET inHand == {next, sending} \ {NoMsg}
    IN /\ IsInjective(que)
       /\ next = sending => next = NoMsg
       /\ inHand \cap Range(que) = {}
       /\ (Range(que) \cup inHand) \cap freed = {}
       /\ Range(log) = freed \cup ((Range(que) \cup inHand) \cap Apps)

\* What an open connection that has logged in has queued leaves in the end, on
\* the wake-ups of posts, completions and the login alone.
QueuedLeaves ==
    \A m \in Apps :
        conn = "open" /\ login /\ m \in Range(que)
            ~> conn # "open" \/ stalled \/ m \notin Range(que)
=============================================================================
