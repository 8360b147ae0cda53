----------------------------- MODULE P2PeerConLogin -----------------------------
(***************************************************************************)
(* One connection from the dial to the last message: key agreement, login, *)
(* its acknowledgement and application messages, between the connection of *)
(* a client and the one its server accepts, over a link that may be cut    *)
(* and is dialled again with the same client object.                       *)
(*                                                                         *)
(* At each end a receive loop takes messages off the wire, a send path     *)
(* puts them on it and a pump applies what the loop posted to it.  The     *)
(* loop and the send path run on the thread that serves completions; the   *)
(* pump is the same thread, or another one when the handlers of a          *)
(* connection were swapped to it (apart).                                  *)
(*                                                                         *)
(* Cryptography is ideal, keys are known to both hubs and clocks agree.    *)
(* P2PeerConSend says that a message which may leave is sent, so the send  *)
(* path is one step here; P2PmsgPump that what is posted is dispatched, in *)
(* order.  Back-pressure is in P2PmsgTimer.                                *)
(***************************************************************************)
EXTENDS Integers, Sequences, SequencesExt

CONSTANTS
    Policies,  \* those a hub may have, a subset of AllPolicies
    MaxCuts,   \* bound: how often a link is cut or a deadline met
    MaxApps    \* bound: the application messages each end posts

VARIABLES
    policy,    \* what each end's hub requires of this link
    apart,     \* whether pumps and completions have threads of their own
    con,       \* the connection object of each end
    link,      \* whether the transport stands
    wire,      \* messages on their way to each end
    lingering, \* the server still lists an earlier connection under the client's address
    refused,   \* an end refused what the other sent it
    cuts, apps

vars == <<policy, apart, con, link, wire, lingering, refused, cuts, apps>>

Ends == {"client", "server"}
Other(e) == IF e = "client" THEN "server" ELSE "client"

\* "full" requires authentication on this link, "open" only on links of another class,
\* "key" and "off" on none, with and without an identity key to sign with.
AllPolicies == {"full", "open", "key", "off"}

ASSUME LoginAssumption == Policies \subseteq AllPolicies /\ MaxCuts \in Nat /\ MaxApps \in Nat

KeyXWanted(e)      == policy[e] = "full"
AuthLinkRelaxed(e) == policy[e] = "open"
CanAuthSign(e)     == policy[e] # "off"

\* A session, told from the ones before it; "none" where the code has no value.
Sessions == {"none", "this", "past"}

\* What a login or its acknowledgement carries: no block, or one over a channel binding.
AuthBlocks == Sessions \cup {"absent"}

Kinds    == {"KeyX", "KeyXAck", "Login", "LoginAck", "App"}
Messages == [kind : Kinds, block : AuthBlocks, sealed : BOOLEAN]
Notices  == [what : {"Accept", "Connect", "Login", "LoginAck", "Close"}, block : AuthBlocks]

Connections ==
    [ up       : BOOLEAN,                     \* m_hFile
      login    : BOOLEAN,                     \* ConState_Login
      hold     : {"none", "hold", "parked"},  \* ConState_LoginHold, ConState_LoginParked
      queued   : BOOLEAN,                     \* m_pOVERLAPPEDrecv->bQueued
      looping  : BOOLEAN,                     \* in the receive loop
      keyx     : {"none", "begun", "done"},   \* m_pKeyX with m_bLoginDefer, m_bKeyXDone
      bind     : Sessions,                    \* m_KeyXBind, m_bKeyXBound
      cypher   : BOOLEAN,                     \* m_pP2Pcrypto
      nonce    : BOOLEAN,                     \* m_bAuthNonce
      proven   : Sessions,                    \* m_oAuthPeer, m_cbAuthStrip
      deadline : BOOLEAN,                     \* m_uLoginTimerID
      acking   : BOOLEAN,                     \* between OnLogin() and LoginAck()
      named    : BOOLEAN,                     \* listed under its peer's address
      queue    : Seq(Messages),               \* m_oCListMsgQue
      notices  : Seq(Notices) ]               \* what the pump owes it

\* Every variable holds a value the code could store in it.
TypeOK ==
    /\ policy \in [Ends -> AllPolicies] /\ apart \in BOOLEAN
    /\ con \in [Ends -> Connections]
    /\ link \in BOOLEAN /\ wire \in [Ends -> Seq(Messages)]
    /\ lingering \in BOOLEAN /\ refused \in BOOLEAN
    /\ cuts \in 0 .. MaxCuts /\ apps \in [Ends -> 0 .. MaxApps]

Msg(kind, block)    == [kind |-> kind, block |-> block, sealed |-> FALSE]
Notice(what, block) == [what |-> what, block |-> block]

\* A connection that no session has used.
Unused ==
    [ up |-> FALSE, login |-> FALSE, hold |-> "none", queued |-> FALSE, looping |-> FALSE,
      keyx |-> "none", bind |-> "none", cypher |-> FALSE, nonce |-> FALSE, proven |-> "none",
      deadline |-> FALSE, acking |-> FALSE, named |-> FALSE, queue |-> <<>>, notices |-> <<>> ]

(***************************************************************************)
(* Wrong forms of operators below, for the record of what the properties   *)
(* catch; nothing uses them                                                *)
(***************************************************************************)
\* The loop reads on whatever the pump owes the connection.
NeverStopped(k) == FALSE

\* A release posts a receive whether or not the loop had stopped.
AlwaysRearmed(k) == [k EXCEPT !.hold = "none", !.queued = k.hold # "none" \/ k.queued]

\* A release forgets that the loop had stopped.
NeverRearmed(k) == [k EXCEPT !.hold = "none"]

\* A login is verified over whatever binding there is, none included.
VerifiesAnyhow(e, block) == KeyXWanted(e) => block = con[e].bind

(***************************************************************************)
(* Drop, and the queue of messages                                         *)
(***************************************************************************)
Drop(k) ==
    [k EXCEPT !.up = FALSE, !.login = FALSE, !.hold = "none", !.queued = FALSE,
              !.looping = FALSE, !.cypher = FALSE,
              !.notices = IF k.up THEN Append(@, Notice("Close", "absent")) ELSE @]

\* An end drops its connection, which is the end of the link.
Drops(e, k) ==
    /\ con' = [con EXCEPT ![e] = Drop(k)]
    /\ link' = FALSE
    /\ wire' = [wire EXCEPT ![e] = <<>>]

Posted(k, m) == [k EXCEPT !.queue = Append(@, m)]

Fetched(k, i) == [k EXCEPT !.queue = RemoveAt(@, i)]

IsHandshake(m) == m.kind # "App"

\* A login goes behind the handshakes at the head and before everything else.
Behind(q) ==
    CHOOSE p \in 1 .. Len(q) + 1 :
        /\ \A i \in 1 .. p - 1 : IsHandshake(q[i])
        /\ p = Len(q) + 1 \/ ~IsHandshake(q[p])

PostedHandshake(k, m) == [k EXCEPT !.queue = InsertAt(@, Behind(@), m)]

\* The messages GetSendableP2PeerMsg() would take next: a client that has not logged in
\* sends handshakes alone.
Sendable(e) ==
    LET q == con[e].queue
        held == e = "client" /\ ~con[e].login
        may == {i \in 1 .. Len(q) : held => IsHandshake(q[i])}
    IN  {i \in may : \A j \in may : i <= j}

(***************************************************************************)
(* Key agreement                                                           *)
(***************************************************************************)
KeyXBegin(k) ==
    IF k.keyx # "none" THEN k
    ELSE Posted([k EXCEPT !.keyx = "begun"], Msg("KeyX", "absent"))

KeyXDerive(k) == [k EXCEPT !.keyx = "done", !.bind = "this", !.cypher = TRUE]

\* Restart() forgets the session before the object carries another.
KeyXReset(k) == [k EXCEPT !.keyx = "none", !.bind = "none", !.nonce = FALSE, !.proven = "none"]

LoginSend(e, k) ==
    IF CanAuthSign(e) /\ ~AuthLinkRelaxed(e)
    THEN PostedHandshake([k EXCEPT !.nonce = TRUE], Msg("Login", k.bind))
    ELSE PostedHandshake(k, Msg("Login", "absent"))

\* The login waits for the agreement where there has to be one.
Login(e, k) == IF KeyXWanted(e) /\ k.keyx # "done" THEN KeyXBegin(k) ELSE LoginSend(e, k)

(***************************************************************************)
(* The hold, and the gate                                                  *)
(***************************************************************************)
\* The loop stops once the pump owes its connection a login.
ParkForLogin(k) == k.hold = "hold"

ReleaseLoginHold(k) ==
    [k EXCEPT !.hold = "none", !.queued = k.hold = "parked" \/ k.queued]

AuthVerifies(e, block) ==
    KeyXWanted(e) => con[e].keyx = "done" /\ block = con[e].bind

AuthGateInbound(e, m) ==
    /\ AuthVerifies(e, m.block)
    /\ KeyXWanted(e) /\ m.kind = "LoginAck" => con[e].nonce

\* What a message that passes the gate leaves behind it.
Gated(e, m, k) ==
    IF KeyXWanted(e)
    THEN [k EXCEPT !.proven = "this", !.nonce = @ \/ m.kind = "Login"]
    ELSE k

(***************************************************************************)
(* The receive loop                                                        *)
(***************************************************************************)
\* The handlers of an end do not run inside its loop, nor the loop inside them.
LoopRuns(e) == con[e].looping /\ (apart \/ ~con[e].acking)
PumpRuns(e) == apart \/ ~con[e].looping

\* A completion, of a read or of a post that arms one.
Receive(e) ==
    /\ con[e].queued /\ wire[e] # <<>> /\ (apart \/ ~con[e].acking)
    /\ con' = [con EXCEPT ![e] = [@ EXCEPT !.queued = FALSE, !.looping = TRUE]]
    /\ UNCHANGED <<policy, apart, link, wire, lingering, refused, cuts, apps>>

Park(e) ==
    /\ LoopRuns(e) /\ ParkForLogin(con[e])
    /\ con' = [con EXCEPT ![e] = [@ EXCEPT !.hold = "parked", !.looping = FALSE]]
    /\ UNCHANGED <<policy, apart, link, wire, lingering, refused, cuts, apps>>

\* Nothing to parse: the loop leaves a read behind it.
AwaitMore(e) ==
    /\ LoopRuns(e) /\ ~ParkForLogin(con[e]) /\ wire[e] = <<>>
    /\ con' = [con EXCEPT ![e] = [@ EXCEPT !.queued = TRUE, !.looping = FALSE]]
    /\ UNCHANGED <<policy, apart, link, wire, lingering, refused, cuts, apps>>

\* A message that is not sealed does not open under a cypher.  The pump is told, and drops
\* the connection: one step with the reading, here.
Opens(k, m) == k.cypher => m.sealed

Admits(e, m) ==
    CASE m.kind = "KeyX"     -> ~AuthLinkRelaxed(e) /\ con[e].keyx = "none"
      [] m.kind = "KeyXAck"  -> con[e].keyx = "begun"
      [] m.kind = "App"      -> con[e].login
      [] m.kind \in {"Login", "LoginAck"} -> AuthGateInbound(e, m)

Owed(k, notice) == [k EXCEPT !.notices = Append(@, notice)]

Taken(e, m, k) ==
    CASE m.kind = "KeyX"    -> KeyXDerive(Posted(k, Msg("KeyXAck", "absent")))
      [] m.kind = "KeyXAck" -> LoginSend(e, KeyXDerive(k))
      [] m.kind = "App"     -> k
      [] m.kind \in {"Login", "LoginAck"} ->
           Owed([Gated(e, m, k) EXCEPT !.hold = "hold"], Notice(m.kind, m.block))

Read(e) ==
    /\ LoopRuns(e) /\ ~ParkForLogin(con[e]) /\ wire[e] # <<>>
    /\ LET k == con[e]
           m == Head(wire[e])
       IN  IF Opens(k, m) /\ Admits(e, m)
           THEN /\ con' = [con EXCEPT ![e] = Taken(e, m, k)]
                /\ wire' = [wire EXCEPT ![e] = Tail(@)]
                /\ UNCHANGED <<link, refused>>
           ELSE Drops(e, k) /\ refused' = TRUE
    /\ UNCHANGED <<policy, apart, lingering, cuts, apps>>

\* The link is gone and a read says so.
ReceiveFails(e) ==
    /\ con[e].queued /\ ~link /\ (apart \/ ~con[e].acking)
    /\ Drops(e, con[e])
    /\ UNCHANGED <<policy, apart, lingering, refused, cuts, apps>>

(***************************************************************************)
(* The send path                                                           *)
(***************************************************************************)
\* Everything but the agreement itself is sealed by the cypher that is installed.
OnWire(k, m) == [m EXCEPT !.sealed = k.cypher /\ m.kind \notin {"KeyX", "KeyXAck"}]

Send(e) ==
    /\ con[e].up /\ ~con[e].looping /\ (apart \/ ~con[e].acking)
    /\ \E i \in Sendable(e) :
         IF link
         THEN /\ con' = [con EXCEPT ![e] = Fetched(@, i)]
              /\ wire' = [wire EXCEPT ![Other(e)] = Append(@, OnWire(con[e], con[e].queue[i]))]
              /\ UNCHANGED link
         ELSE Drops(e, Fetched(con[e], i))
    /\ UNCHANGED <<policy, apart, lingering, refused, cuts, apps>>

(***************************************************************************)
(* The pump: the default handlers                                          *)
(***************************************************************************)
\* A payload the handler can see; a block is stripped once it was verified.
Visible(k, notice) == notice.block # "absent" /\ k.proven = "none"

\* The notice at the head is dispatched.
Dispatches(e, what) ==
    /\ PumpRuns(e) /\ ~con[e].acking
    /\ con[e].notices # <<>> /\ Head(con[e].notices).what = what

Noticed(e) == [con[e] EXCEPT !.notices = Tail(@)]

\* A post on a connection that was dropped meanwhile comes back as cancelled.
Armed(k) == [k EXCEPT !.queued = k.up]

On_ConAccept ==
    /\ Dispatches("server", "Accept")
    /\ con' = [con EXCEPT !["server"] = Armed(Noticed("server"))]
    /\ UNCHANGED <<policy, apart, link, wire, lingering, refused, cuts, apps>>

On_ConConnect ==
    /\ Dispatches("client", "Connect")
    /\ con' = [con EXCEPT !["client"] = Login("client", Armed(Noticed("client")))]
    /\ UNCHANGED <<policy, apart, link, wire, lingering, refused, cuts, apps>>

OnLogin(k) ==
    ReleaseLoginHold([k EXCEPT !.login = TRUE, !.named = TRUE, !.deadline = FALSE, !.acking = TRUE])

\* Of two connections under one address the older keeps it.
On_ConLogin ==
    /\ Dispatches("server", "Login")
    /\ LET k == Noticed("server")
           visible == Visible(k, Head(con["server"].notices))
       IN  IF visible \/ lingering
           THEN Drops("server", k) /\ refused' = (refused \/ visible)
           ELSE /\ con' = [con EXCEPT !["server"] = OnLogin(k)]
                /\ UNCHANGED <<link, wire, refused>>
    /\ UNCHANGED <<policy, apart, lingering, cuts, apps>>

\* The rest of the same handler.
LoginAck ==
    /\ con["server"].acking /\ PumpRuns("server")
    /\ LET k == con["server"]
           block == IF k.nonce /\ CanAuthSign("server") THEN k.bind ELSE "absent"
       IN  con' = [con EXCEPT !["server"] =
                     ReleaseLoginHold(PostedHandshake([k EXCEPT !.login = TRUE, !.acking = FALSE],
                                                      Msg("LoginAck", block)))]
    /\ UNCHANGED <<policy, apart, link, wire, lingering, refused, cuts, apps>>

On_ConLoginAck ==
    /\ Dispatches("client", "LoginAck")
    /\ LET k == Noticed("client")
       IN  IF Visible(k, Head(con["client"].notices))
           THEN Drops("client", k) /\ refused' = TRUE
           ELSE /\ con' = [con EXCEPT !["client"] = ReleaseLoginHold([k EXCEPT !.login = TRUE])]
                /\ UNCHANGED <<link, wire, refused>>
    /\ UNCHANGED <<policy, apart, lingering, cuts, apps>>

\* A client waits for its restart; what a server accepted is destroyed.
On_ConClose(e) ==
    /\ Dispatches(e, "Close")
    /\ con' = [con EXCEPT ![e] =
                 IF e = "client"
                 THEN KeyXReset([Noticed(e) EXCEPT !.login = FALSE, !.queue = <<>>])
                 ELSE Unused]
    /\ UNCHANGED <<policy, apart, link, wire, lingering, refused, cuts, apps>>

(***************************************************************************)
(* Dialling, deadlines and the outside                                     *)
(***************************************************************************)
\* What an object carries over from one session to the next belongs to the past.
Aged(value) == IF value = "this" THEN "past" ELSE value

\* The restart timer elapses, the client connects and the server accepts, whether or not
\* it noticed that the last connection is dead.
Restart ==
    /\ ~con["client"].up /\ con["client"].notices = <<>>
    /\ LET k == con["client"]
           old == con["server"]
       IN  /\ con' = [client |-> [k EXCEPT !.up = TRUE, !.bind = Aged(@), !.proven = Aged(@),
                                           !.notices = <<Notice("Connect", "absent")>>],
                      server |-> [Unused EXCEPT !.up = TRUE, !.deadline = TRUE,
                                                !.notices = <<Notice("Accept", "absent")>>]]
           /\ lingering' = (lingering \/ old.named \/ \E i \in 1 .. Len(old.notices) : old.notices[i].what = "Login")
    /\ link' = TRUE
    /\ wire' = [e \in Ends |-> <<>>]
    /\ UNCHANGED <<policy, apart, refused, cuts, apps>>

\* The server notices that the earlier connection is dead, and destroys it.
Vacated ==
    /\ lingering
    /\ lingering' = FALSE
    /\ UNCHANGED <<policy, apart, con, link, wire, refused, cuts, apps>>

\* The login deadline of an accepted connection.
On_PITimer ==
    /\ con["server"].deadline /\ con["server"].up /\ cuts < MaxCuts
    /\ PumpRuns("server") /\ ~con["server"].acking
    /\ Drops("server", [con["server"] EXCEPT !.deadline = FALSE])
    /\ cuts' = cuts + 1
    /\ UNCHANGED <<policy, apart, lingering, refused, apps>>

Cut ==
    /\ link /\ cuts < MaxCuts
    /\ link' = FALSE
    /\ cuts' = cuts + 1
    /\ UNCHANGED <<policy, apart, con, wire, lingering, refused, apps>>

\* An application posts to its client connection at any time; a server's routing wants a
\* connection that has logged in.
PostP2PeerMsg(e) ==
    /\ apps[e] < MaxApps
    /\ e = "server" => con[e].login
    /\ apps' = [apps EXCEPT ![e] = @ + 1]
    /\ con' = [con EXCEPT ![e] = Posted(@, Msg("App", "absent"))]
    /\ UNCHANGED <<policy, apart, link, wire, lingering, refused, cuts>>

Init ==
    /\ policy \in [Ends -> Policies] /\ apart \in BOOLEAN
    /\ con = [e \in Ends |-> Unused]
    /\ link = FALSE /\ wire = [e \in Ends |-> <<>>]
    /\ lingering = FALSE /\ refused = FALSE
    /\ cuts = 0 /\ apps = [e \in Ends |-> 0]

Pump == On_ConAccept \/ On_ConConnect \/ On_ConLogin \/ LoginAck \/ On_ConLoginAck

Loop(e) == Receive(e) \/ Park(e) \/ AwaitMore(e) \/ Read(e) \/ ReceiveFails(e)

Next ==
    \/ Pump \/ Restart \/ Vacated \/ On_PITimer \/ Cut
    \/ \E e \in Ends : Loop(e) \/ Send(e) \/ On_ConClose(e) \/ PostP2PeerMsg(e)

Spec == Init /\ [][Next]_vars

\* Completions are served, pumps run, restart timers elapse, and the transport of a
\* connection whose peer is gone says so in the end.
Fairness ==
    /\ WF_vars(Pump) /\ WF_vars(Restart) /\ WF_vars(Vacated)
    /\ \A e \in Ends : WF_vars(Loop(e)) /\ WF_vars(Send(e)) /\ WF_vars(On_ConClose(e))

FairSpec == Spec /\ Fairness

(***************************************************************************)
(* Properties                                                              *)
(***************************************************************************)

\* Hubs whose settings for the link agree.
Compatible ==
    \/ \A e \in Ends : policy[e] = "full"
    \/ policy["client"] \in {"open", "off"} /\ policy["server"] # "full"

Standing(e) == con[e].up /\ con[e].login

\* A hub that requires authentication has a session that is up and logged in only with a
\* peer proven in this very session, over the channel of this session, and nothing an
\* application posts leaves it in the clear.
ProvenAndSealed ==
    \A e \in Ends : policy[e] = "full" =>
        /\ Standing(e) => con[e].proven = "this" /\ con[e].bind = "this" /\ con[e].cypher
        /\ \A i \in 1 .. Len(wire[Other(e)]) : wire[Other(e)][i].kind = "App" => wire[Other(e)][i].sealed

\* Between hubs whose settings agree neither end ever refuses what the other sent, across
\* cuts, deadlines and restarts at any point of the exchange: a login on its way to the
\* pump is never overtaken by the message behind it.
SessionsStand == Compatible /\ ~apart => ~refused

\* The loop is never inside a receive that is queued as well, whichever thread the pump is.
OneReceive == \A e \in Ends : ~(con[e].queued /\ con[e].looping)

\* Once the link stays up, hubs whose settings agree come to be logged in at both ends, for
\* good and with nothing left unsent or unread.
Settles ==
    Compatible /\ ~apart =>
        <>[](\A e \in Ends : Standing(e) /\ con[e].queue = <<>> /\ wire[e] = <<>>)
===============================================================================
