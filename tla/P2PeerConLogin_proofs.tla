------------------------- MODULE P2PeerConLogin_proofs -------------------------
(***************************************************************************)
(* Theorems about P2PeerConLogin, for any policies and any number of cuts, *)
(* deadlines and application messages.                                     *)
(*                                                                         *)
(* What is claimed of a connection that is up and logged in is inductive   *)
(* once it is said of everything that can still become one: a login that   *)
(* is on its way to the pump, and the object a restart will use again.     *)
(* Good collects what holds of the object of an end, so that each operator *)
(* on a connection has a lemma and each action follows from a few of them. *)
(* That nothing is refused between hubs that agree needs the session of    *)
(* both ends at once: the stage of its login, which the end that acts      *)
(* moves on and its peer does not see, or a send moves on for both.        *)
(***************************************************************************)
EXTENDS P2PeerConLogin, SequenceTheorems, WellFoundedInduction, TLAPS

-------------------------------------------------------------------------------
(* What a CList's steps, InsertAt and RemoveAt, do to each entry.          *)

LEMMA InsertEntries ==
    ASSUME NEW S, NEW s \in Seq(S), NEW p \in 1 .. Len(s) + 1, NEW e \in S
    PROVE  /\ InsertAt(s, p, e) \in Seq(S)
           /\ Len(InsertAt(s, p, e)) = Len(s) + 1
           /\ \A i \in 1 .. Len(s) + 1 :
                 InsertAt(s, p, e)[i] = IF i < p THEN s[i] ELSE IF i = p THEN e ELSE s[i - 1]
<1> DEFINE front == SubSeq(s, 1, p - 1)
           back  == SubSeq(s, p, Len(s))
<1>1. /\ front \in Seq(S) /\ Len(front) = p - 1
      /\ \A i \in 1 .. p - 1 : front[i] = s[i]
  <2>1. \A i \in 1 .. p - 1 : s[i] \in S
    BY ElementOfSeq, LenProperties
  <2> QED BY <2>1, SubSeqProperties
<1>2. /\ back \in Seq(S) /\ Len(back) = Len(s) - p + 1
      /\ \A i \in 1 .. Len(s) - p + 1 : back[i] = s[p + i - 1]
  <2>1. \A i \in p .. Len(s) : s[i] \in S
    BY ElementOfSeq, LenProperties
  <2> QED BY <2>1, SubSeqProperties
<1> DEFINE most == Append(front, e)
<1> HIDE DEF front, back
<1>3. most = front \o <<e>>
  BY <1>1, AppendIsConcat
<1>4. /\ most \in Seq(S) /\ Len(most) = p
      /\ \A i \in 1 .. p : most[i] = IF i < p THEN s[i] ELSE e
  BY <1>1, AppendProperties
<1> HIDE DEF most
<1>5. /\ most \o back \in Seq(S)
      /\ Len(most \o back) = Len(s) + 1
      /\ \A i \in 1 .. Len(s) + 1 :
            (most \o back)[i] = IF i <= p THEN most[i] ELSE back[i - p]
  <2>1. /\ most \o back \in Seq(S)
        /\ Len(most \o back) = Len(most) + Len(back)
        /\ \A i \in 1 .. Len(most) + Len(back) :
              (most \o back)[i] = IF i <= Len(most) THEN most[i] ELSE back[i - Len(most)]
    BY <1>2, <1>4, ConcatProperties
  <2>2. Len(most) = p /\ Len(most) + Len(back) = Len(s) + 1
    BY <1>2, <1>4, LenProperties
  <2> QED BY <2>1, <2>2
<1>6. InsertAt(s, p, e) = most \o back
  BY <1>3 DEF InsertAt, front, back
<1> QED BY <1>2, <1>4, <1>5, <1>6

LEMMA RemoveEntries ==
    ASSUME NEW S, NEW s \in Seq(S), NEW p \in 1 .. Len(s)
    PROVE  /\ RemoveAt(s, p) \in Seq(S)
           /\ Len(RemoveAt(s, p)) = Len(s) - 1
           /\ \A i \in 1 .. Len(s) - 1 :
                 RemoveAt(s, p)[i] = IF i < p THEN s[i] ELSE s[i + 1]
<1> DEFINE front == SubSeq(s, 1, p - 1)
           back  == SubSeq(s, p + 1, Len(s))
<1>1. /\ front \in Seq(S) /\ Len(front) = p - 1
      /\ \A i \in 1 .. p - 1 : front[i] = s[i]
  <2>1. \A i \in 1 .. p - 1 : s[i] \in S
    BY ElementOfSeq, LenProperties
  <2> QED BY <2>1, SubSeqProperties
<1>2. /\ back \in Seq(S) /\ Len(back) = Len(s) - p
      /\ \A i \in 1 .. Len(s) - p : back[i] = s[p + i]
  <2>1. \A i \in p + 1 .. Len(s) : s[i] \in S
    BY ElementOfSeq, LenProperties
  <2> QED BY <2>1, SubSeqProperties
<1> HIDE DEF front, back
<1>3. /\ front \o back \in Seq(S)
      /\ Len(front \o back) = Len(s) - 1
      /\ \A i \in 1 .. Len(s) - 1 :
            (front \o back)[i] = IF i < p THEN front[i] ELSE back[i - (p - 1)]
  <2>1. /\ front \o back \in Seq(S)
        /\ Len(front \o back) = Len(front) + Len(back)
        /\ \A i \in 1 .. Len(front) + Len(back) :
              (front \o back)[i] = IF i <= Len(front) THEN front[i] ELSE back[i - Len(front)]
    BY <1>1, <1>2, ConcatProperties
  <2>2. Len(front) = p - 1 /\ Len(front) + Len(back) = Len(s) - 1 /\ Len(s) \in Nat
    BY <1>1, <1>2, LenProperties
  <2>3. \A i \in 1 .. Len(s) - 1 : i <= Len(front) <=> i < p
    BY <2>2
  <2> QED BY <2>1, <2>2, <2>3
<1>4. RemoveAt(s, p) = front \o back
  BY DEF RemoveAt, front, back
<1>5. ASSUME NEW i \in 1 .. Len(s) - 1
      PROVE  (front \o back)[i] = IF i < p THEN s[i] ELSE s[i + 1]
  <2>1. CASE i < p
    BY <1>1, <1>3, <2>1
  <2>2. CASE i >= p
    <3>1. PICK j \in 1 .. Len(s) - p : j = i - (p - 1)
      BY <2>2, LenProperties
    <3>2. p + j = i + 1
      BY <3>1, LenProperties
    <3>3. back[j] = s[i + 1]
      BY <1>2, <3>2
    <3>4. (front \o back)[i] = back[j]
      BY <1>3, <2>2, <3>1
    <3> QED BY <2>2, <3>3, <3>4
  <2>3. Len(s) \in Nat
    BY LenProperties
  <2>4. i < p \/ i >= p
    BY <2>3
  <2> QED BY <2>1, <2>2, <2>4, Zenon
<1> QED BY <1>3, <1>4, <1>5

-------------------------------------------------------------------------------

\* The notice of a new connection is the first, that of its end the last.
NoticesInv(k) ==
    \A i \in 1 .. Len(k.notices) :
        /\ k.notices[i].what \in {"Accept", "Connect"} =>
             i = 1 /\ ~k.queued /\ ~k.looping /\ k.hold = "none"
        /\ k.notices[i].what = "Close" => i = Len(k.notices) /\ ~k.up

\* A loop that has stopped has left no read behind, and a dropped connection neither.
LoopInv(k) ==
    /\ ~(k.queued /\ k.looping)
    /\ k.hold = "parked" => ~k.queued /\ ~k.looping
    /\ ~k.up => ~k.queued /\ ~k.looping /\ k.hold = "none"

\* Of a hub that requires authentication: who is logged in or about to be is proven, who
\* is proven has agreed on keys in this session, and they are in use.
SessionInv(e, k) ==
    /\ k.up /\ k.bind = "this" => k.cypher
    /\ k.keyx = "done" => k.bind = "this"
    /\ k.proven # "none" => k.keyx = "done" /\ k.proven = "this"
    /\ k.login => k.proven = "this"
    /\ e = "server" /\ k.acking => k.proven = "this"
    /\ \A i \in 1 .. Len(k.notices) : k.notices[i].what \in {"Login", "LoginAck"} => k.proven = "this"
    /\ e = "server" /\ k.up => \A i \in 1 .. Len(k.queue) : k.queue[i].kind = "App" => k.login

\* A client's object is restarted as one that no session has used.
FreshInv(k) ==
    \/ k.up
    \/ Len(k.notices) > 0 /\ k.notices[Len(k.notices)].what = "Close"
    \/ /\ Len(k.notices) = 0 /\ ~k.login
       /\ k.keyx = "none" /\ k.bind = "none" /\ k.proven = "none"

Good(full, e, k) ==
    /\ k \in Connections
    /\ NoticesInv(k) /\ LoopInv(k)
    /\ full => SessionInv(e, k)
    /\ e = "client" => FreshInv(k)

WireInv ==
    \A e \in Ends : policy[e] = "full" =>
        \A i \in 1 .. Len(wire[Other(e)]) : wire[Other(e)][i].kind = "App" => wire[Other(e)][i].sealed

RestOK ==
    /\ policy \in [Ends -> AllPolicies] /\ apart \in BOOLEAN
    /\ link \in BOOLEAN /\ wire \in [Ends -> Seq(Messages)]
    /\ lingering \in BOOLEAN /\ refused \in BOOLEAN
    /\ cuts \in 0 .. MaxCuts /\ apps \in [Ends -> 0 .. MaxApps]

EndsGood == con \in [Ends -> Connections] /\ \A e \in Ends : Good(policy[e] = "full", e, con[e])

IInv == RestOK /\ EndsGood /\ WireInv

-------------------------------------------------------------------------------
(* What each operator on a connection keeps.                               *)

LEMMA NoticeOK ==
    ASSUME NEW w \in {"Accept", "Connect", "Login", "LoginAck", "Close"}, NEW b \in AuthBlocks
    PROVE  Notice(w, b) \in Notices /\ Notice(w, b).what = w
BY DEF Notice, Notices

LEMMA MsgOK ==
    ASSUME NEW w \in Kinds, NEW b \in AuthBlocks
    PROVE  Msg(w, b) \in Messages /\ Msg(w, b).kind = w
BY DEF Msg, Messages

LEMMA DropGood ==
    ASSUME NEW full \in BOOLEAN, NEW e \in Ends, NEW k, Good(full, e, k)
    PROVE  Good(full, e, Drop(k))
<1> DEFINE d == Drop(k)
           close == Notice("Close", "absent")
<1>1. close \in Notices /\ close.what = "Close"
  BY NoticeOK DEF AuthBlocks
<1>2. /\ k.notices \in Seq(Notices)
      /\ Len(k.notices) \in Nat
      /\ Append(k.notices, close) \in Seq(Notices)
      /\ Len(Append(k.notices, close)) = Len(k.notices) + 1
      /\ \A i \in 1 .. Len(k.notices) : Append(k.notices, close)[i] = k.notices[i]
      /\ Append(k.notices, close)[Len(k.notices) + 1] = close
  BY <1>1, AppendProperties, LenProperties DEF Good, Connections
<1> HIDE DEF close
<1>3. d \in Connections
  BY <1>2, ZenonT(60) DEF Good, Connections, Drop, close
<1>4. /\ ~d.up /\ ~d.login /\ d.hold = "none" /\ ~d.queued /\ ~d.looping
      /\ d.keyx = k.keyx /\ d.bind = k.bind /\ d.proven = k.proven /\ d.acking = k.acking
      /\ d.notices = IF k.up THEN Append(k.notices, close) ELSE k.notices
  BY DEF Good, Connections, Drop, close
<1> HIDE DEF d
<1>5. NoticesInv(d)
  BY <1>1, <1>2, <1>4 DEF Good, NoticesInv
<1>6. LoopInv(d)
  BY <1>4 DEF LoopInv
<1>7. full => SessionInv(e, d)
  BY <1>1, <1>2, <1>4 DEF Good, SessionInv
<1>8. e = "client" => FreshInv(d)
  BY <1>1, <1>2, <1>4 DEF Good, FreshInv
<1> QED BY <1>3, <1>5, <1>6, <1>7, <1>8 DEF Good, d

LEMMA PostedGood ==
    ASSUME NEW full \in BOOLEAN, NEW e \in Ends, NEW k, Good(full, e, k), NEW m \in Messages,
           e = "server" /\ m.kind = "App" => k.login
    PROVE  Good(full, e, Posted(k, m))
<1> DEFINE d == Posted(k, m)
           q == Append(k.queue, m)
<1>1. /\ k.queue \in Seq(Messages) /\ Len(k.queue) \in Nat
      /\ q \in Seq(Messages) /\ Len(q) = Len(k.queue) + 1
      /\ \A i \in 1 .. Len(k.queue) : q[i] = k.queue[i]
      /\ q[Len(k.queue) + 1] = m
  BY AppendProperties, LenProperties DEF Good, Connections
<1>2. /\ d \in Connections /\ d.queue = q /\ d.notices = k.notices
      /\ d.up = k.up /\ d.login = k.login /\ d.hold = k.hold /\ d.queued = k.queued
      /\ d.looping = k.looping /\ d.keyx = k.keyx /\ d.bind = k.bind
      /\ d.cypher = k.cypher /\ d.proven = k.proven /\ d.acking = k.acking
  BY <1>1 DEF Good, Connections, Posted
<1> HIDE DEF q, d
<1>3. NoticesInv(d) /\ LoopInv(d) /\ (e = "client" => FreshInv(d))
  BY <1>2 DEF Good, NoticesInv, LoopInv, FreshInv
<1>4. full => SessionInv(e, d)
  BY <1>1, <1>2 DEF Good, SessionInv
<1> QED BY <1>2, <1>3, <1>4 DEF Good, d

LEMMA BehindOK ==
    ASSUME NEW q \in Seq(Messages)
    PROVE  Behind(q) \in 1 .. Len(q) + 1
<1> DEFINE Stops == {p \in 1 .. Len(q) + 1 : p = Len(q) + 1 \/ ~IsHandshake(q[p])}
<1>1. Len(q) \in Nat /\ Len(q) + 1 \in Stops /\ Stops \subseteq Nat
  BY LenProperties
<1>2. PICK p \in Stops : \A j \in Stops : ~ <<j, p>> \in OpToRel(<, Nat)
  <2> HIDE DEF Stops
  <2> QED BY <1>1, WFMin, NatLessThanWellFounded
<1>3. ASSUME NEW j \in Stops PROVE p <= j
  <2>1. p \in Nat /\ j \in Nat
    BY <1>1
  <2>2. <<j, p>> \in Nat \X Nat /\ <<j, p>>[1] = j /\ <<j, p>>[2] = p
    BY <2>1
  <2>3. ASSUME j < p PROVE <<j, p>> \in OpToRel(<, Nat)
    BY <2>2, <2>3, Zenon DEF OpToRel
  <2>4. ~ (j < p)
    BY <1>2, <2>3, Zenon
  <2> QED BY <2>1, <2>4
<1>4. \A i \in 1 .. p - 1 : IsHandshake(q[i])
  BY <1>1, <1>3
<1> QED BY <1>1, <1>4 DEF Behind

LEMMA PostedHandshakeGood ==
    ASSUME NEW full \in BOOLEAN, NEW e \in Ends, NEW k, Good(full, e, k), NEW m \in Messages,
           IsHandshake(m)
    PROVE  Good(full, e, PostedHandshake(k, m))
<1> DEFINE d == PostedHandshake(k, m)
           p == Behind(k.queue)
           q == InsertAt(k.queue, p, m)
<1>1. k.queue \in Seq(Messages) /\ Len(k.queue) \in Nat /\ p \in 1 .. Len(k.queue) + 1
  BY BehindOK, LenProperties DEF Good, Connections
<1> HIDE DEF p
<1>2. /\ q \in Seq(Messages) /\ Len(q) = Len(k.queue) + 1
      /\ \A i \in 1 .. Len(k.queue) + 1 :
            q[i] = IF i < p THEN k.queue[i] ELSE IF i = p THEN m ELSE k.queue[i - 1]
  <2>1. \A s \in Seq(Messages) : \A j \in 1 .. Len(s) + 1 :
          /\ InsertAt(s, j, m) \in Seq(Messages) /\ Len(InsertAt(s, j, m)) = Len(s) + 1
          /\ \A i \in 1 .. Len(s) + 1 :
                InsertAt(s, j, m)[i] = IF i < j THEN s[i] ELSE IF i = j THEN m ELSE s[i - 1]
    BY InsertEntries
  <2> HIDE DEF d
  <2> QED BY <1>1, <2>1
<1> HIDE DEF q
<1>3. /\ d \in Connections /\ d.queue = q /\ d.notices = k.notices
      /\ d.up = k.up /\ d.login = k.login /\ d.hold = k.hold /\ d.queued = k.queued
      /\ d.looping = k.looping /\ d.keyx = k.keyx /\ d.bind = k.bind
      /\ d.cypher = k.cypher /\ d.proven = k.proven /\ d.acking = k.acking
  BY <1>2 DEF Good, Connections, PostedHandshake, p, q
<1> HIDE DEF d
<1>4. NoticesInv(d) /\ LoopInv(d) /\ (e = "client" => FreshInv(d))
  BY <1>3 DEF Good, NoticesInv, LoopInv, FreshInv
<1>5. ASSUME NEW i \in 1 .. Len(q), q[i].kind = "App"
      PROVE  \E j \in 1 .. Len(k.queue) : k.queue[j].kind = "App"
  <2>1. i # p
    BY <1>2, <1>5 DEF IsHandshake
  <2>2. CASE i < p
    BY <1>1, <1>2, <1>5, <2>2
  <2>3. CASE i > p
    <3>1. q[i] = k.queue[i - 1] /\ i - 1 \in 1 .. Len(k.queue)
      BY <1>1, <1>2, <2>3
    <3> QED BY <1>5, <3>1
  <2> QED BY <1>1, <1>2, <2>1, <2>2, <2>3
<1>6. full => SessionInv(e, d)
  BY <1>3, <1>5 DEF Good, SessionInv
<1> QED BY <1>3, <1>4, <1>6 DEF Good, d

\* The first notice is taken off; the others stay what they were.
LEMMA NoticedGood ==
    ASSUME NEW full \in BOOLEAN, NEW e \in Ends, NEW k, Good(full, e, k),
           k.notices # <<>>, Head(k.notices).what # "Close"
    PROVE  LET d == [k EXCEPT !.notices = Tail(@)] IN
           /\ Good(full, e, d)
           /\ \A i \in 1 .. Len(d.notices) : d.notices[i].what \notin {"Accept", "Connect"}
           /\ e = "client" => d.up \/ Len(d.notices) > 0
           /\ Head(k.notices).what \in {"Accept", "Connect"} =>
                ~d.queued /\ ~d.looping /\ d.hold = "none"
           /\ full /\ Head(k.notices).what \in {"Login", "LoginAck"} => d.proven = "this"
<1> DEFINE d == [k EXCEPT !.notices = Tail(@)]
           n == Tail(k.notices)
<1>1. /\ k.notices \in Seq(Notices) /\ Len(k.notices) \in Nat /\ Len(k.notices) > 0
      /\ n \in Seq(Notices) /\ Len(n) = Len(k.notices) - 1
      /\ \A i \in 1 .. Len(n) : n[i] = k.notices[i + 1]
      /\ Head(k.notices) = k.notices[1]
  BY HeadTailProperties, LenProperties, EmptySeq DEF Good, Connections
<1>2. /\ d \in Connections /\ d.queue = k.queue /\ d.notices = n
      /\ d.up = k.up /\ d.login = k.login /\ d.hold = k.hold /\ d.queued = k.queued
      /\ d.looping = k.looping /\ d.keyx = k.keyx /\ d.bind = k.bind
      /\ d.cypher = k.cypher /\ d.proven = k.proven /\ d.acking = k.acking
  BY <1>1 DEF Good, Connections
<1> HIDE DEF d, n
<1>3. \A i \in 1 .. Len(n) : i + 1 \in 1 .. Len(k.notices) /\ i + 1 # 1
  BY <1>1
<1>4. NoticesInv(d) /\ \A i \in 1 .. Len(n) : n[i].what \notin {"Accept", "Connect"}
  <2>1. ASSUME NEW i \in 1 .. Len(n)
        PROVE  /\ n[i].what \notin {"Accept", "Connect"}
               /\ n[i].what = "Close" => i = Len(n) /\ ~d.up
    <3>1. n[i] = k.notices[i + 1] /\ i + 1 \in 1 .. Len(k.notices) /\ i + 1 # 1
      BY <1>1, <1>3
    <3>2. /\ k.notices[i + 1].what \notin {"Accept", "Connect"}
          /\ k.notices[i + 1].what = "Close" => i + 1 = Len(k.notices) /\ ~k.up
      BY <3>1 DEF Good, NoticesInv
    <3> QED BY <1>1, <1>2, <3>1, <3>2
  <2> QED BY <1>2, <2>1 DEF NoticesInv
<1>5. LoopInv(d)
  BY <1>2 DEF Good, LoopInv
<1>6. full => SessionInv(e, d)
  BY <1>1, <1>2, <1>3 DEF Good, SessionInv
<1>7. e = "client" => FreshInv(d) /\ (d.up \/ Len(n) > 0)
  BY <1>1, <1>2 DEF Good, FreshInv
<1>8. Head(k.notices).what \in {"Accept", "Connect"} => ~d.queued /\ ~d.looping /\ d.hold = "none"
  BY <1>1, <1>2 DEF Good, NoticesInv
<1>9. full /\ Head(k.notices).what \in {"Login", "LoginAck"} => d.proven = "this"
  BY <1>1, <1>2 DEF Good, SessionInv
<1> QED BY <1>2, <1>4, <1>5, <1>6, <1>7, <1>8, <1>9 DEF Good, d


LEMMA ArmedGood ==
    ASSUME NEW full \in BOOLEAN, NEW e \in Ends, NEW k, Good(full, e, k),
           \A i \in 1 .. Len(k.notices) : k.notices[i].what \notin {"Accept", "Connect"},
           ~k.looping, k.hold = "none"
    PROVE  Good(full, e, Armed(k))
<1> DEFINE d == Armed(k)
<1>1. /\ d \in Connections /\ d.queue = k.queue /\ d.notices = k.notices
      /\ d.up = k.up /\ d.login = k.login /\ d.hold = "none" /\ d.queued = k.up
      /\ ~d.looping /\ d.keyx = k.keyx /\ d.bind = k.bind
      /\ d.cypher = k.cypher /\ d.proven = k.proven /\ d.acking = k.acking
  BY DEF Good, Connections, Armed
<1> HIDE DEF d
<1>2. NoticesInv(d) /\ LoopInv(d) /\ (e = "client" => FreshInv(d))
  BY <1>1 DEF Good, NoticesInv, LoopInv, FreshInv
<1>3. full => SessionInv(e, d)
  BY <1>1 DEF Good, SessionInv
<1> QED BY <1>1, <1>2, <1>3 DEF Good, d

\* A field that no invariant mentions.
LEMMA NonceGood ==
    ASSUME NEW full \in BOOLEAN, NEW e \in Ends, NEW k, Good(full, e, k), NEW b \in BOOLEAN
    PROVE  Good(full, e, [k EXCEPT !.nonce = b])
<1> DEFINE d == [k EXCEPT !.nonce = b]
<1>1. /\ d \in Connections /\ d.queue = k.queue /\ d.notices = k.notices
      /\ d.up = k.up /\ d.login = k.login /\ d.hold = k.hold /\ d.queued = k.queued
      /\ d.looping = k.looping /\ d.keyx = k.keyx /\ d.bind = k.bind
      /\ d.cypher = k.cypher /\ d.proven = k.proven /\ d.acking = k.acking
  BY DEF Good, Connections
<1> HIDE DEF d
<1>2. NoticesInv(d) /\ LoopInv(d) /\ (e = "client" => FreshInv(d))
  BY <1>1 DEF Good, NoticesInv, LoopInv, FreshInv
<1>3. full => SessionInv(e, d)
  BY <1>1 DEF Good, SessionInv
<1> QED BY <1>1, <1>2, <1>3 DEF Good, d

LEMMA LoginSendGood ==
    ASSUME NEW full \in BOOLEAN, NEW e \in Ends, NEW k, Good(full, e, k)
    PROVE  Good(full, e, LoginSend(e, k))
<1>1. k.bind \in AuthBlocks /\ "absent" \in AuthBlocks
  BY DEF Good, Connections, AuthBlocks
<1>2. \A b \in AuthBlocks : Msg("Login", b) \in Messages /\ IsHandshake(Msg("Login", b))
  BY MsgOK DEF Kinds, IsHandshake
<1>3. Good(full, e, [k EXCEPT !.nonce = TRUE])
  BY NonceGood
<1> QED BY <1>1, <1>2, <1>3, PostedHandshakeGood DEF LoginSend

\* The agreement begins and the login waits for it, or the login goes.
LEMMA LoginGood ==
    ASSUME NEW full \in BOOLEAN, NEW e \in Ends, NEW k, Good(full, e, k),
           e = "client" => k.up \/ Len(k.notices) > 0
    PROVE  Good(full, e, Login(e, k))
<1> DEFINE d == [k EXCEPT !.keyx = "begun"]
<1>1. ASSUME k.keyx = "none" PROVE Good(full, e, d)
  <2>1. /\ d \in Connections /\ d.queue = k.queue /\ d.notices = k.notices
        /\ d.up = k.up /\ d.login = k.login /\ d.hold = k.hold /\ d.queued = k.queued
        /\ d.looping = k.looping /\ d.keyx = "begun" /\ d.bind = k.bind
        /\ d.cypher = k.cypher /\ d.proven = k.proven /\ d.acking = k.acking
    BY DEF Good, Connections
  <2> HIDE DEF d
  <2>2. NoticesInv(d) /\ LoopInv(d)
    BY <2>1 DEF Good, NoticesInv, LoopInv
  <2>3. full => SessionInv(e, d)
    BY <1>1, <2>1 DEF Good, SessionInv
  <2>4. e = "client" => FreshInv(d)
    BY <2>1, LenProperties DEF Good, FreshInv, Connections
  <2> QED BY <2>1, <2>2, <2>3, <2>4 DEF Good, d
<1>2. Msg("KeyX", "absent") \in Messages /\ Msg("KeyX", "absent").kind # "App"
  BY MsgOK DEF Kinds, AuthBlocks
<1>3. Good(full, e, KeyXBegin(k))
  BY <1>1, <1>2, PostedGood DEF KeyXBegin
<1> QED BY <1>3, LoginSendGood DEF Login

LEMMA KeyXDeriveGood ==
    ASSUME NEW full \in BOOLEAN, NEW e \in Ends, NEW k, Good(full, e, k), k.up
    PROVE  Good(full, e, KeyXDerive(k))
<1> DEFINE d == KeyXDerive(k)
<1>1. /\ d \in Connections /\ d.queue = k.queue /\ d.notices = k.notices
      /\ d.up = k.up /\ d.login = k.login /\ d.hold = k.hold /\ d.queued = k.queued
      /\ d.looping = k.looping /\ d.keyx = "done" /\ d.bind = "this"
      /\ d.cypher /\ d.proven = k.proven /\ d.acking = k.acking
  BY DEF Good, Connections, KeyXDerive, Sessions
<1> HIDE DEF d
<1>2. NoticesInv(d) /\ LoopInv(d) /\ (e = "client" => FreshInv(d))
  BY <1>1 DEF Good, NoticesInv, LoopInv, FreshInv
<1>3. full => SessionInv(e, d)
  BY <1>1 DEF Good, SessionInv
<1> QED BY <1>1, <1>2, <1>3 DEF Good, d

LEMMA ReleaseGood ==
    ASSUME NEW full \in BOOLEAN, NEW e \in Ends, NEW k, Good(full, e, k)
    PROVE  Good(full, e, ReleaseLoginHold(k))
<1> DEFINE d == ReleaseLoginHold(k)
<1>1. /\ d \in Connections /\ d.queue = k.queue /\ d.notices = k.notices
      /\ d.up = k.up /\ d.login = k.login /\ d.hold = "none"
      /\ d.queued = (k.hold = "parked" \/ k.queued)
      /\ d.looping = k.looping /\ d.keyx = k.keyx /\ d.bind = k.bind
      /\ d.cypher = k.cypher /\ d.proven = k.proven /\ d.acking = k.acking
  BY DEF Good, Connections, ReleaseLoginHold
<1> HIDE DEF d
<1>2. NoticesInv(d)
  BY <1>1 DEF Good, NoticesInv
<1>3. LoopInv(d)
  BY <1>1 DEF Good, LoopInv
<1>4. e = "client" => FreshInv(d)
  BY <1>1 DEF Good, FreshInv
<1>5. full => SessionInv(e, d)
  BY <1>1 DEF Good, SessionInv
<1> QED BY <1>1, <1>2, <1>3, <1>4, <1>5 DEF Good, d

\* The login is applied, with what goes with it at either end.
LEMMA LoggedInGood ==
    ASSUME NEW full \in BOOLEAN, NEW e \in Ends, NEW k, Good(full, e, k),
           full => k.proven = "this", e = "client" => k.up \/ Len(k.notices) > 0,
           NEW n \in BOOLEAN, NEW t \in BOOLEAN, NEW a \in BOOLEAN
    PROVE  Good(full, e, [k EXCEPT !.login = TRUE, !.named = n, !.deadline = t, !.acking = a])
<1> DEFINE d == [k EXCEPT !.login = TRUE, !.named = n, !.deadline = t, !.acking = a]
<1>1. /\ d \in Connections /\ d.queue = k.queue /\ d.notices = k.notices
      /\ d.up = k.up /\ d.login /\ d.hold = k.hold /\ d.queued = k.queued
      /\ d.looping = k.looping /\ d.keyx = k.keyx /\ d.bind = k.bind
      /\ d.cypher = k.cypher /\ d.proven = k.proven
  <2>1. k \in Connections
    BY DEF Good
  <2>2. d \in Connections
    BY <2>1 DEF Connections
  <2> QED BY <2>1, <2>2 DEF Connections
<1> HIDE DEF d
<1>2. NoticesInv(d) /\ LoopInv(d)
  BY <1>1 DEF Good, NoticesInv, LoopInv
<1>3. e = "client" => FreshInv(d)
  BY <1>1, LenProperties DEF Good, FreshInv, Connections
<1>4. full => SessionInv(e, d)
  BY <1>1 DEF Good, SessionInv
<1> QED BY <1>1, <1>2, <1>3, <1>4 DEF Good, d


\* Where the receive loop is, while no new connection is announced and none has parked.
LEMMA LoopGood ==
    ASSUME NEW full \in BOOLEAN, NEW e \in Ends, NEW k, Good(full, e, k), k.up,
           NEW h \in {"none", "hold", "parked"}, NEW q \in BOOLEAN, NEW l \in BOOLEAN,
           \A i \in 1 .. Len(k.notices) : k.notices[i].what \notin {"Accept", "Connect"},
           ~(q /\ l), h = "parked" => ~q /\ ~l
    PROVE  Good(full, e, [k EXCEPT !.hold = h, !.queued = q, !.looping = l])
<1> DEFINE d == [k EXCEPT !.hold = h, !.queued = q, !.looping = l]
<1>1. /\ d \in Connections /\ d.queue = k.queue /\ d.notices = k.notices
      /\ d.up /\ d.login = k.login /\ d.hold = h /\ d.queued = q
      /\ d.looping = l /\ d.keyx = k.keyx /\ d.bind = k.bind
      /\ d.cypher = k.cypher /\ d.proven = k.proven /\ d.acking = k.acking
  BY DEF Good, Connections
<1> HIDE DEF d
<1>2. NoticesInv(d) /\ LoopInv(d) /\ (e = "client" => FreshInv(d))
  BY <1>1 DEF Good, NoticesInv, LoopInv, FreshInv
<1>3. full => SessionInv(e, d)
  BY <1>1 DEF Good, SessionInv
<1> QED BY <1>1, <1>2, <1>3 DEF Good, d

\* A loop that runs, or a read that is queued, is that of a connection announced before.
LEMMA AnnouncedBefore ==
    ASSUME NEW full \in BOOLEAN, NEW e \in Ends, NEW k, Good(full, e, k), k.looping \/ k.queued
    PROVE  /\ k.up
           /\ \A i \in 1 .. Len(k.notices) : k.notices[i].what \notin {"Accept", "Connect", "Close"}
BY DEF Good, NoticesInv, LoopInv

LEMMA OwedGood ==
    ASSUME NEW full \in BOOLEAN, NEW e \in Ends, NEW k, Good(full, e, k), k.looping,
           NEW w \in {"Login", "LoginAck"}, NEW b \in AuthBlocks,
           full => k.proven = "this"
    PROVE  Good(full, e, Owed(k, Notice(w, b)))
<1> DEFINE d == Owed(k, Notice(w, b))
           n == Append(k.notices, Notice(w, b))
<1>1. /\ k.notices \in Seq(Notices) /\ Len(k.notices) \in Nat
      /\ n \in Seq(Notices) /\ Len(n) = Len(k.notices) + 1
      /\ \A i \in 1 .. Len(k.notices) : n[i] = k.notices[i]
      /\ n[Len(k.notices) + 1].what = w
  BY NoticeOK, AppendProperties, LenProperties DEF Good, Connections
<1>2. k.up /\ \A i \in 1 .. Len(k.notices) : k.notices[i].what \notin {"Accept", "Connect", "Close"}
  BY AnnouncedBefore
<1>3. /\ d \in Connections /\ d.queue = k.queue /\ d.notices = n
      /\ d.up = k.up /\ d.login = k.login /\ d.hold = k.hold /\ d.queued = k.queued
      /\ d.looping = k.looping /\ d.keyx = k.keyx /\ d.bind = k.bind
      /\ d.cypher = k.cypher /\ d.proven = k.proven /\ d.acking = k.acking
  BY <1>1 DEF Good, Connections, Owed
<1> HIDE DEF d, n
<1>4. \A i \in 1 .. Len(n) : n[i].what \notin {"Accept", "Connect", "Close"}
  BY <1>1, <1>2
<1>5. NoticesInv(d) /\ LoopInv(d) /\ (e = "client" => FreshInv(d))
  BY <1>2, <1>3, <1>4 DEF Good, NoticesInv, LoopInv, FreshInv
<1>6. full => SessionInv(e, d)
  BY <1>3 DEF Good, SessionInv
<1> QED BY <1>3, <1>5, <1>6 DEF Good, d

LEMMA ProvenGood ==
    ASSUME NEW full \in BOOLEAN, NEW e \in Ends, NEW k, Good(full, e, k), k.up, k.keyx = "done",
           NEW b \in BOOLEAN
    PROVE  Good(full, e, [k EXCEPT !.proven = "this", !.nonce = b])
<1> DEFINE d == [k EXCEPT !.proven = "this", !.nonce = b]
<1>1. /\ d \in Connections /\ d.queue = k.queue /\ d.notices = k.notices
      /\ d.up = k.up /\ d.login = k.login /\ d.hold = k.hold /\ d.queued = k.queued
      /\ d.looping = k.looping /\ d.keyx = k.keyx /\ d.bind = k.bind
      /\ d.cypher = k.cypher /\ d.proven = "this" /\ d.acking = k.acking
  BY DEF Good, Connections, Sessions
<1> HIDE DEF d
<1>2. NoticesInv(d) /\ LoopInv(d) /\ (e = "client" => FreshInv(d))
  BY <1>1 DEF Good, NoticesInv, LoopInv, FreshInv
<1>3. full => SessionInv(e, d)
  BY <1>1 DEF Good, SessionInv
<1> QED BY <1>1, <1>2, <1>3 DEF Good, d

\* A login that the gate lets by is one of a peer that is proven, where that is required.
LEMMA GatedGood ==
    ASSUME NEW full \in BOOLEAN, NEW e \in Ends, Good(full, e, con[e]), con[e].looping,
           full <=> policy[e] = "full",
           NEW m \in Messages, m.kind \in {"Login", "LoginAck"}, AuthGateInbound(e, m)
    PROVE  Good(full, e, Owed([Gated(e, m, con[e]) EXCEPT !.hold = "hold"], Notice(m.kind, m.block)))
<1> DEFINE k == con[e]
           g == Gated(e, m, k)
           d == [g EXCEPT !.hold = "hold"]
           f == [g EXCEPT !.hold = "hold", !.queued = FALSE, !.looping = TRUE]
<1>1. /\ k.up /\ ~k.queued /\ k \in Connections
      /\ \A i \in 1 .. Len(k.notices) : k.notices[i].what \notin {"Accept", "Connect"}
  BY AnnouncedBefore DEF Good, LoopInv
<1>2. Good(full, e, g) /\ (full => g.proven = "this")
  <2>1. CASE full
    <3>1. k.keyx = "done"
      BY <2>1 DEF AuthGateInbound, AuthVerifies, KeyXWanted
    <3>2. (k.nonce \/ m.kind = "Login") \in BOOLEAN
      OBVIOUS
    <3>3. Good(full, e, [k EXCEPT !.proven = "this", !.nonce = (k.nonce \/ m.kind = "Login")])
      BY <1>1, <3>1, <3>2, ProvenGood
    <3>4. g = [k EXCEPT !.proven = "this", !.nonce = (k.nonce \/ m.kind = "Login")]
      BY <2>1, Zenon DEF Gated, KeyXWanted
    <3>5. g.proven = "this"
      BY <1>1, <3>4 DEF Connections
    <3> QED BY <3>3, <3>4, <3>5
  <2>2. CASE ~full
    <3>1. g = k
      BY <2>2, Zenon DEF Gated, KeyXWanted
    <3> QED BY <2>2, <3>1
  <2> QED BY <2>1, <2>2
<1>3. g.up = k.up /\ g.notices = k.notices /\ g.looping = k.looping /\ g.queued = k.queued /\ g \in Connections
  <2>1. \A b : LET x == [k EXCEPT !.proven = "this", !.nonce = b]
               IN  x.up = k.up /\ x.notices = k.notices /\ x.looping = k.looping /\ x.queued = k.queued
    BY <1>1 DEF Connections
  <2>2. g = k \/ \E b : g = [k EXCEPT !.proven = "this", !.nonce = b]
    BY Zenon DEF Gated
  <2> HIDE DEF g
  <2>3. g \in Connections
    BY <1>2 DEF Good
  <2> QED BY <2>1, <2>2, <2>3
<1> HIDE DEF g
<1>4. Good(full, e, f)
  BY <1>1, <1>2, <1>3, LoopGood
<1>5. d = f
  BY <1>1, <1>3 DEF Connections
<1>6. d.proven = g.proven /\ d.looping /\ m.block \in AuthBlocks
  BY <1>3 DEF Connections, Messages
<1> HIDE DEF d, f
<1>7. full => d.proven = "this"
  BY <1>2, <1>6
<1>8. Good(full, e, Owed(d, Notice(m.kind, m.block)))
  BY <1>4, <1>5, <1>6, <1>7, OwedGood
<1> QED BY <1>8 DEF d, g

LEMMA TakenGood ==
    ASSUME NEW full \in BOOLEAN, NEW e \in Ends, Good(full, e, con[e]), con[e].looping,
           full <=> policy[e] = "full", NEW m \in Messages, Admits(e, m)
    PROVE  Good(full, e, Taken(e, m, con[e]))
<1> DEFINE k == con[e]
<1>1. k.up /\ k \in Connections
  BY AnnouncedBefore DEF Good
<1>2. CASE m.kind = "KeyX"
  <2>1. Msg("KeyXAck", "absent") \in Messages /\ Msg("KeyXAck", "absent").kind # "App"
    BY MsgOK DEF Kinds, AuthBlocks
  <2>2. Good(full, e, Posted(k, Msg("KeyXAck", "absent")))
    BY <2>1, PostedGood
  <2>3. Posted(k, Msg("KeyXAck", "absent")).up
    BY <1>1 DEF Posted, Connections
  <2> QED BY <1>2, <2>2, <2>3, KeyXDeriveGood DEF Taken
<1>3. CASE m.kind = "KeyXAck"
  BY <1>1, <1>3, KeyXDeriveGood, LoginSendGood DEF Taken
<1>4. CASE m.kind = "App"
  BY <1>4 DEF Taken
<1>5. CASE m.kind \in {"Login", "LoginAck"}
  BY <1>5, GatedGood DEF Taken, Admits
<1> QED BY <1>2, <1>3, <1>4, <1>5 DEF Messages, Kinds


\* A message is fetched from the queue.
LEMMA FetchedGood ==
    ASSUME NEW full \in BOOLEAN, NEW e \in Ends, NEW k, Good(full, e, k),
           NEW p \in 1 .. Len(k.queue)
    PROVE  Good(full, e, Fetched(k, p))
<1> DEFINE d == Fetched(k, p)
           q == RemoveAt(k.queue, p)
<1>1. /\ k.queue \in Seq(Messages) /\ Len(k.queue) \in Nat
      /\ q \in Seq(Messages) /\ Len(q) = Len(k.queue) - 1
      /\ \A i \in 1 .. Len(k.queue) - 1 : q[i] = IF i < p THEN k.queue[i] ELSE k.queue[i + 1]
  <2>1. \A s \in Seq(Messages) : \A j \in 1 .. Len(s) :
          /\ RemoveAt(s, j) \in Seq(Messages) /\ Len(RemoveAt(s, j)) = Len(s) - 1
          /\ \A i \in 1 .. Len(s) - 1 : RemoveAt(s, j)[i] = IF i < j THEN s[i] ELSE s[i + 1]
    BY RemoveEntries
  <2>2. k.queue \in Seq(Messages) /\ Len(k.queue) \in Nat
    BY LenProperties DEF Good, Connections
  <2> HIDE DEF d
  <2> QED BY <2>1, <2>2
<1>2. /\ d \in Connections /\ d.queue = q /\ d.notices = k.notices
      /\ d.up = k.up /\ d.login = k.login /\ d.hold = k.hold /\ d.queued = k.queued
      /\ d.looping = k.looping /\ d.keyx = k.keyx /\ d.bind = k.bind
      /\ d.cypher = k.cypher /\ d.proven = k.proven /\ d.acking = k.acking
  BY <1>1 DEF Good, Connections, Fetched
<1> HIDE DEF q, d
<1>3. NoticesInv(d) /\ LoopInv(d) /\ (e = "client" => FreshInv(d))
  BY <1>2 DEF Good, NoticesInv, LoopInv, FreshInv
<1>4. ASSUME NEW i \in 1 .. Len(q) PROVE \E j \in 1 .. Len(k.queue) : q[i] = k.queue[j]
  <2>1. i \in 1 .. Len(k.queue) /\ i + 1 \in 1 .. Len(k.queue)
    BY <1>1
  <2> QED BY <1>1, <2>1
<1>5. full => SessionInv(e, d)
  BY <1>2, <1>4 DEF Good, SessionInv
<1> QED BY <1>2, <1>3, <1>5 DEF Good, d

\* An object that no session has used, dialled or accepted.
LEMMA UnusedFields ==
    /\ Unused \in Connections /\ ~Unused.up /\ ~Unused.queued /\ ~Unused.looping
    /\ Unused.hold = "none" /\ ~Unused.login /\ ~Unused.acking
    /\ Unused.keyx = "none" /\ Unused.bind = "none" /\ Unused.proven = "none"
    /\ Len(Unused.notices) = 0 /\ Len(Unused.queue) = 0
BY DEF Unused, Connections, Sessions

LEMMA UnusedGood ==
    ASSUME NEW full \in BOOLEAN
    PROVE  \A e \in Ends : Good(full, e, Unused)
BY UnusedFields DEF Good, NoticesInv, LoopInv, SessionInv, FreshInv

LEMMA AcceptedGood ==
    ASSUME NEW full \in BOOLEAN
    PROVE  Good(full, "server", [Unused EXCEPT !.up = TRUE, !.deadline = TRUE,
                                               !.notices = <<Notice("Accept", "absent")>>])
<1> DEFINE n == <<Notice("Accept", "absent")>>
           d == [Unused EXCEPT !.up = TRUE, !.deadline = TRUE, !.notices = n]
<1>1. n \in Seq(Notices) /\ Len(n) = 1 /\ n[1].what = "Accept"
  BY NoticeOK DEF AuthBlocks
<1> HIDE DEF n
<1>2. /\ d \in Connections /\ d.up /\ ~d.queued /\ ~d.looping
      /\ d.hold = "none" /\ ~d.login /\ ~d.acking
      /\ d.keyx = "none" /\ d.bind = "none" /\ d.proven = "none"
      /\ d.notices = n /\ Len(d.queue) = 0
  BY <1>1, UnusedFields DEF Connections
<1> HIDE DEF d
<1>3. \A i \in 1 .. Len(n) : i = 1 /\ n[i].what = "Accept"
  BY <1>1
<1>4. NoticesInv(d) /\ LoopInv(d)
  BY <1>1, <1>2, <1>3 DEF NoticesInv, LoopInv
<1>5. SessionInv("server", d)
  <2>1. \A i \in 1 .. Len(d.queue) : FALSE
    BY <1>2
  <2> QED BY <1>2, <1>3, <2>1 DEF SessionInv
<1> QED BY <1>2, <1>4, <1>5 DEF Good, d, n

LEMMA RestartedGood ==
    ASSUME NEW full \in BOOLEAN, NEW k, Good(full, "client", k), ~k.up, k.notices = <<>>
    PROVE  Good(full, "client", [k EXCEPT !.up = TRUE, !.bind = Aged(@), !.proven = Aged(@),
                                          !.notices = <<Notice("Connect", "absent")>>])
<1> DEFINE n == <<Notice("Connect", "absent")>>
           d == [k EXCEPT !.up = TRUE, !.bind = Aged(@), !.proven = Aged(@), !.notices = n]
<1>1. n \in Seq(Notices) /\ Len(n) = 1 /\ n[1].what = "Connect"
  BY NoticeOK DEF AuthBlocks
<1> HIDE DEF n
<1>2. /\ ~k.login /\ k.keyx = "none" /\ k.bind = "none" /\ k.proven = "none"
      /\ ~k.queued /\ ~k.looping /\ k.hold = "none"
  BY DEF Good, FreshInv, LoopInv
<1>3. Aged(k.bind) = "none" /\ Aged(k.proven) = "none"
  BY <1>2 DEF Aged
<1>4. /\ d \in Connections /\ d.up /\ ~d.queued /\ ~d.looping
      /\ d.hold = "none" /\ ~d.login
      /\ d.keyx = "none" /\ d.bind = "none" /\ d.proven = "none" /\ d.notices = n
  BY <1>1, <1>2, <1>3 DEF Good, Connections, Sessions
<1> HIDE DEF d
<1>5. \A i \in 1 .. Len(n) : i = 1 /\ n[i].what = "Connect"
  BY <1>1
<1>6. NoticesInv(d) /\ LoopInv(d) /\ SessionInv("client", d) /\ FreshInv(d)
  BY <1>1, <1>4, <1>5 DEF NoticesInv, LoopInv, SessionInv, FreshInv
<1> QED BY <1>4, <1>6 DEF Good, d, n

\* The end of a session at a client: its close is the last it is told.
LEMMA ClosedGood ==
    ASSUME NEW full \in BOOLEAN, NEW k, Good(full, "client", k),
           k.notices # <<>>, Head(k.notices).what = "Close"
    PROVE  Good(full, "client",
                KeyXReset([[k EXCEPT !.notices = Tail(@)] EXCEPT !.login = FALSE, !.queue = <<>>]))
<1> DEFINE n == Tail(k.notices)
           d == KeyXReset([[k EXCEPT !.notices = n] EXCEPT !.login = FALSE, !.queue = <<>>])
<1>1. /\ k.notices \in Seq(Notices) /\ Len(k.notices) \in Nat /\ Len(k.notices) > 0
      /\ n \in Seq(Notices) /\ Len(n) = Len(k.notices) - 1
      /\ Head(k.notices) = k.notices[1]
  BY HeadTailProperties, LenProperties, EmptySeq DEF Good, Connections
<1>2. Len(n) = 0 /\ ~k.up
  <2>1. 1 \in 1 .. Len(k.notices) /\ k.notices[1].what = "Close"
    BY <1>1
  <2>2. 1 = Len(k.notices) /\ ~k.up
    BY <2>1 DEF Good, NoticesInv
  <2> QED BY <1>1, <2>2
<1> HIDE DEF n
<1>3. /\ d \in Connections /\ d.notices = n
      /\ ~d.up /\ ~d.login /\ d.hold = k.hold /\ d.queued = k.queued
      /\ d.looping = k.looping /\ d.keyx = "none" /\ d.bind = "none" /\ d.proven = "none"
  <2>1. <<>> \in Seq(Messages)
    OBVIOUS
  <2>2. k \in Connections
    BY DEF Good
  <2>3. d \in Connections
    BY <1>1, <2>1, <2>2 DEF Connections, KeyXReset, Sessions
  <2> QED BY <1>2, <2>2, <2>3 DEF Connections, KeyXReset
<1> HIDE DEF d
<1>4. NoticesInv(d) /\ LoopInv(d) /\ SessionInv("client", d) /\ FreshInv(d)
  BY <1>1, <1>2, <1>3 DEF Good, NoticesInv, LoopInv, SessionInv, FreshInv
<1> QED BY <1>3, <1>4 DEF Good, d, n


-------------------------------------------------------------------------------
(* The steps.                                                              *)

LEMMA InitIInv == Init => IInv
<1> SUFFICES ASSUME Init PROVE IInv
  OBVIOUS
<1>1. <<>> \in Seq(Messages) /\ 0 \in 0 .. MaxCuts /\ 0 \in 0 .. MaxApps
  BY LoginAssumption
<1>2. RestOK
  BY <1>1, LoginAssumption DEF RestOK, Init
<1>3. EndsGood
  BY UnusedGood, UnusedFields DEF EndsGood, Init
<1>4. \A e \in Ends : Len(wire[Other(e)]) = 0
  BY DEF Init, Other, Ends
<1>5. WireInv
  BY <1>4 DEF WireInv
<1> QED BY <1>2, <1>3, <1>5 DEF IInv

\* One end's object becomes another one that is good.
LEMMA EndStep ==
    ASSUME EndsGood, NEW e \in Ends, NEW k, Good(policy[e] = "full", e, k),
           con' = [con EXCEPT ![e] = k], policy' = policy
    PROVE  EndsGood'
<1>1. k \in Connections
  BY DEF Good
<1>2. con' \in [Ends -> Connections]
  BY <1>1 DEF EndsGood
<1>3. ASSUME NEW f \in Ends PROVE Good(policy'[f] = "full", f, con'[f])
  BY DEF EndsGood
<1> QED BY <1>2, <1>3 DEF EndsGood

\* Messages are taken off a wire, or fall off it.
LEMMA WireShrinks ==
    ASSUME WireInv, NEW e \in Ends, wire \in [Ends -> Seq(Messages)], policy' = policy,
           \/ wire' = wire
           \/ wire' = [wire EXCEPT ![e] = <<>>]
           \/ wire[e] # <<>> /\ wire' = [wire EXCEPT ![e] = Tail(@)]
    PROVE  WireInv' /\ wire' \in [Ends -> Seq(Messages)]
<1>1. CASE wire' = wire
  BY <1>1 DEF WireInv
<1>2. CASE wire' = [wire EXCEPT ![e] = <<>>]
  <2>1. wire' \in [Ends -> Seq(Messages)]
    BY <1>2
  <2>2. Len(wire'[e]) = 0 /\ \A f \in Ends : f # e => wire'[f] = wire[f]
    BY <1>2
  <2>3. WireInv'
    <3>1. ASSUME NEW f \in Ends, policy[f] = "full", NEW i \in 1 .. Len(wire'[Other(f)]),
                 wire'[Other(f)][i].kind = "App"
          PROVE  wire'[Other(f)][i].sealed
      <4>1. Other(f) \in Ends
        BY DEF Other, Ends
      <4>2. Other(f) # e
        BY <2>2, <3>1
      <4> QED BY <2>2, <3>1, <4>1, <4>2 DEF WireInv
    <3> QED BY <3>1 DEF WireInv
  <2> QED BY <2>1, <2>3
<1>3. CASE wire[e] # <<>> /\ wire' = [wire EXCEPT ![e] = Tail(@)]
  <2>1. /\ wire[e] \in Seq(Messages) /\ Len(wire[e]) \in Nat
        /\ Tail(wire[e]) \in Seq(Messages) /\ Len(Tail(wire[e])) = Len(wire[e]) - 1
        /\ \A i \in 1 .. Len(Tail(wire[e])) : Tail(wire[e])[i] = wire[e][i + 1]
    BY <1>3, HeadTailProperties, LenProperties
  <2>2. wire' \in [Ends -> Seq(Messages)]
    BY <1>3, <2>1
  <2>3. wire'[e] = Tail(wire[e]) /\ \A f \in Ends : f # e => wire'[f] = wire[f]
    BY <1>3
  <2>4. ASSUME NEW i \in 1 .. Len(wire'[e])
        PROVE  i + 1 \in 1 .. Len(wire[e]) /\ wire'[e][i] = wire[e][i + 1]
    BY <2>1, <2>3
  <2>5. WireInv'
    <3>1. ASSUME NEW f \in Ends, policy[f] = "full", NEW i \in 1 .. Len(wire'[Other(f)]),
                 wire'[Other(f)][i].kind = "App"
          PROVE  wire'[Other(f)][i].sealed
      <4>1. Other(f) \in Ends
        BY DEF Other, Ends
      <4>2. CASE Other(f) = e
        BY <2>4, <3>1, <4>2 DEF WireInv
      <4>3. CASE Other(f) # e
        BY <2>3, <3>1, <4>1, <4>3 DEF WireInv
      <4> QED BY <4>2, <4>3
    <3> QED BY <3>1 DEF WireInv
  <2> QED BY <2>2, <2>5
<1> QED BY <1>1, <1>2, <1>3

\* An action that changes one end and perhaps takes something off its wire.
LEMMA LocalStep ==
    ASSUME IInv, NEW e \in Ends, NEW k, Good(policy[e] = "full", e, k),
           con' = [con EXCEPT ![e] = k], policy' = policy, apart' = apart,
           \/ wire' = wire
           \/ wire' = [wire EXCEPT ![e] = <<>>]
           \/ wire[e] # <<>> /\ wire' = [wire EXCEPT ![e] = Tail(@)],
           link' \in BOOLEAN, lingering' \in BOOLEAN, refused' \in BOOLEAN,
           cuts' \in 0 .. MaxCuts, apps' \in [Ends -> 0 .. MaxApps]
    PROVE  IInv'
<1>1. EndsGood'
  BY EndStep DEF IInv
<1>2. WireInv' /\ wire' \in [Ends -> Seq(Messages)]
  BY WireShrinks DEF IInv, RestOK
<1>3. RestOK'
  BY <1>2 DEF IInv, RestOK
<1> QED BY <1>1, <1>2, <1>3 DEF IInv

LEMMA DropsStep ==
    ASSUME IInv, NEW e \in Ends, NEW k, Good(policy[e] = "full", e, k), Drops(e, k),
           policy' = policy, apart' = apart, lingering' = lingering, refused' \in BOOLEAN,
           cuts' \in 0 .. MaxCuts, apps' = apps
    PROVE  IInv'
<1>1. Good(policy[e] = "full", e, Drop(k))
  BY DropGood
<1>2. /\ con' = [con EXCEPT ![e] = Drop(k)] /\ link' = FALSE
      /\ wire' = [wire EXCEPT ![e] = <<>>]
  BY DEF Drops
<1>3. lingering' \in BOOLEAN /\ link' \in BOOLEAN /\ apps' \in [Ends -> 0 .. MaxApps]
  BY <1>2 DEF IInv, RestOK
<1> QED BY <1>1, <1>2, <1>3, LocalStep

LEMMA GoodNow ==
    ASSUME IInv, NEW e \in Ends
    PROVE  Good(policy[e] = "full", e, con[e]) /\ con[e] \in Connections
BY DEF IInv, EndsGood

LEMMA RestNow == IInv => RestOK
BY DEF IInv


LEMMA LoopStep ==
    ASSUME IInv, NEW e \in Ends, Receive(e) \/ Park(e) \/ AwaitMore(e)
    PROVE  IInv'
<1> DEFINE k == con[e]
           To(h, q, l) == [k EXCEPT !.hold = h, !.queued = q, !.looping = l]
<1>1. /\ Good(policy[e] = "full", e, k) /\ k \in Connections /\ RestOK
      /\ policy' = policy /\ apart' = apart /\ wire' = wire /\ link' = link
      /\ lingering' = lingering /\ refused' = refused /\ cuts' = cuts /\ apps' = apps
  BY GoodNow, RestNow DEF Receive, Park, AwaitMore
<1>2. /\ k.looping \/ k.queued
      /\ k.queued => k.hold # "parked"
      /\ k.looping => k.hold # "parked"
  BY <1>1 DEF Good, LoopInv, Receive, Park, AwaitMore, LoopRuns
<1>3. /\ k.up
      /\ \A i \in 1 .. Len(k.notices) : k.notices[i].what \notin {"Accept", "Connect"}
  BY <1>1, <1>2, AnnouncedBefore
<1>4. k.hold \in {"none", "hold", "parked"} /\ (policy[e] = "full") \in BOOLEAN
  BY <1>1 DEF Connections
<1>5. /\ k.hold # "parked" => /\ Good(policy[e] = "full", e, To(k.hold, FALSE, TRUE))
                              /\ Good(policy[e] = "full", e, To(k.hold, TRUE, FALSE))
      /\ Good(policy[e] = "full", e, To("parked", FALSE, FALSE))
  BY <1>1, <1>3, <1>4, LoopGood
<1>6. CASE Receive(e)
  <2>1. k.queued /\ con' = [con EXCEPT ![e] = [k EXCEPT !.queued = FALSE, !.looping = TRUE]]
    BY <1>6 DEF Receive
  <2>2. [k EXCEPT !.queued = FALSE, !.looping = TRUE] = To(k.hold, FALSE, TRUE)
    BY <1>1 DEF Connections
  <2> QED BY <1>1, <1>2, <1>5, <2>1, <2>2, LocalStep DEF RestOK
<1>7. CASE AwaitMore(e)
  <2>1. k.looping /\ con' = [con EXCEPT ![e] = [k EXCEPT !.queued = TRUE, !.looping = FALSE]]
    BY <1>7 DEF AwaitMore, LoopRuns
  <2>2. [k EXCEPT !.queued = TRUE, !.looping = FALSE] = To(k.hold, TRUE, FALSE)
    BY <1>1 DEF Connections
  <2> QED BY <1>1, <1>2, <1>5, <2>1, <2>2, LocalStep DEF RestOK
<1>8. CASE Park(e)
  <2>1. k.looping /\ con' = [con EXCEPT ![e] = [k EXCEPT !.hold = "parked", !.looping = FALSE]]
    BY <1>8 DEF Park, LoopRuns
  <2>2. ~k.queued
    BY <1>1, <2>1 DEF Good, LoopInv
  <2>3. [k EXCEPT !.hold = "parked", !.looping = FALSE] = To("parked", FALSE, FALSE)
    BY <1>1, <2>2 DEF Connections
  <2> QED BY <1>1, <1>5, <2>1, <2>3, LocalStep DEF RestOK
<1> QED BY <1>6, <1>7, <1>8

LEMMA ReadStep ==
    ASSUME IInv, NEW e \in Ends, Read(e)
    PROVE  IInv'
<1>1. /\ Good(policy[e] = "full", e, con[e]) /\ RestOK /\ (policy[e] = "full") \in BOOLEAN
      /\ policy' = policy /\ apart' = apart
      /\ lingering' = lingering /\ cuts' = cuts /\ apps' = apps
  BY GoodNow, RestNow DEF Read
<1>2. wire[e] # <<>> /\ con[e].looping /\ Head(wire[e]) \in Messages
  BY <1>1, HeadTailProperties DEF Read, LoopRuns, RestOK
<1>3. CASE Opens(con[e], Head(wire[e])) /\ Admits(e, Head(wire[e]))
  <2>1. /\ con' = [con EXCEPT ![e] = Taken(e, Head(wire[e]), con[e])]
        /\ wire' = [wire EXCEPT ![e] = Tail(@)] /\ link' = link /\ refused' = refused
    BY <1>3 DEF Read
  <2>2. Good(policy[e] = "full", e, Taken(e, Head(wire[e]), con[e]))
    BY <1>1, <1>2, <1>3, TakenGood
  <2> QED BY <1>1, <1>2, <2>1, <2>2, LocalStep DEF RestOK
<1>4. CASE ~(Opens(con[e], Head(wire[e])) /\ Admits(e, Head(wire[e])))
  <2>1. Drops(e, con[e]) /\ refused' = TRUE
    BY <1>4 DEF Read
  <2> QED BY <1>1, <2>1, DropsStep DEF RestOK
<1> QED BY <1>3, <1>4

LEMMA FailStep ==
    ASSUME IInv, NEW e \in Ends, ReceiveFails(e)
    PROVE  IInv'
<1>1. Good(policy[e] = "full", e, con[e]) /\ RestOK
  BY GoodNow, RestNow
<1> QED BY <1>1, DropsStep DEF ReceiveFails, RestOK

\* What leaves a hub that requires authentication, on an open link.
LEMMA SealedOnWire ==
    ASSUME IInv, NEW e \in Ends, policy[e] = "full", con[e].up,
           NEW i \in Sendable(e), con[e].queue[i].kind = "App"
    PROVE  OnWire(con[e], con[e].queue[i]).sealed
<1>1. SessionInv(e, con[e]) /\ con[e] \in Connections
  BY GoodNow DEF Good
<1>2. con[e].login
  <2>1. CASE e = "client"
    BY <2>1 DEF Sendable, IsHandshake
  <2>2. CASE e = "server"
    BY <1>1, <2>2 DEF Sendable, SessionInv
  <2> QED BY <2>1, <2>2 DEF Ends
<1>3. con[e].cypher
  BY <1>1, <1>2 DEF SessionInv
<1>4. con[e].queue[i] \in Messages
  BY <1>1, ElementOfSeq, LenProperties DEF Sendable, Connections
<1> QED BY <1>3, <1>4 DEF OnWire, Messages

LEMMA SendStep ==
    ASSUME IInv, NEW e \in Ends, Send(e)
    PROVE  IInv'
<1>1. PICK i \in Sendable(e) :
        IF link
        THEN /\ con' = [con EXCEPT ![e] = Fetched(@, i)]
             /\ wire' = [wire EXCEPT ![Other(e)] = Append(@, OnWire(con[e], con[e].queue[i]))]
             /\ UNCHANGED link
        ELSE Drops(e, Fetched(con[e], i))
  BY DEF Send
<1>2. /\ con[e].up /\ policy' = policy /\ apart' = apart /\ lingering' = lingering
      /\ refused' = refused /\ cuts' = cuts /\ apps' = apps
      /\ Good(policy[e] = "full", e, con[e]) /\ con[e] \in Connections /\ RestOK
  BY GoodNow, RestNow DEF Send
<1>3. i \in 1 .. Len(con[e].queue)
  BY DEF Sendable
<1>4. Good(policy[e] = "full", e, Fetched(con[e], i))
  BY <1>2, <1>3, FetchedGood
<1>5. CASE ~link
  BY <1>1, <1>2, <1>4, <1>5, DropsStep DEF RestOK
<1>6. CASE link
  <2> DEFINE o == Other(e)
             m == OnWire(con[e], con[e].queue[i])
             w == Append(wire[o], m)
  <2>1. con[e].queue[i] \in Messages
    BY <1>2, <1>3, ElementOfSeq, LenProperties DEF Connections
  <2>2. m \in Messages /\ m.kind = con[e].queue[i].kind
    BY <1>2, <2>1 DEF OnWire, Messages, Connections
  <2>3. policy[e] = "full" /\ m.kind = "App" => m.sealed
    BY <1>2, <2>2, SealedOnWire
  <2>4. o \in Ends /\ Other(o) = e /\ \A f \in Ends : Other(f) = o => f = e
    BY DEF Other, Ends
  <2> HIDE DEF m, o
  <2>5. /\ wire[o] \in Seq(Messages) /\ Len(wire[o]) \in Nat
        /\ w \in Seq(Messages) /\ Len(w) = Len(wire[o]) + 1
        /\ \A j \in 1 .. Len(wire[o]) : w[j] = wire[o][j]
        /\ w[Len(wire[o]) + 1] = m
    BY <1>2, <2>2, <2>4, AppendProperties, LenProperties DEF RestOK
  <2> HIDE DEF w
  <2>6. wire' = [wire EXCEPT ![o] = w] /\ link' = link
    BY <1>1, <1>6 DEF w, m, o
  <2>7. wire' \in [Ends -> Seq(Messages)]
    BY <1>2, <2>5, <2>6 DEF RestOK
  <2>8. wire'[o] = w /\ \A f \in Ends : f # o => wire'[f] = wire[f]
    BY <1>2, <2>4, <2>6 DEF RestOK
  <2>9. ASSUME NEW f \in Ends, policy[f] = "full", NEW j \in 1 .. Len(wire'[Other(f)]),
               wire'[Other(f)][j].kind = "App"
        PROVE  wire'[Other(f)][j].sealed
    <3>1. Other(f) \in Ends
      BY DEF Other, Ends
    <3>2. CASE Other(f) # o
      BY <2>8, <2>9, <3>1, <3>2 DEF IInv, WireInv
    <3>3. CASE Other(f) = o
      <4>1. f = e /\ j \in 1 .. Len(w) /\ w[j].kind = "App"
        BY <2>4, <2>8, <2>9, <3>3
      <4>2. CASE j = Len(wire[o]) + 1
        BY <2>3, <2>5, <2>8, <2>9, <3>3, <4>1, <4>2
      <4>3. CASE j # Len(wire[o]) + 1
        <5>1. j \in 1 .. Len(wire[o]) /\ w[j] = wire[o][j]
          BY <2>5, <4>1, <4>3
        <5> QED BY <2>8, <2>9, <3>3, <4>1, <5>1 DEF IInv, WireInv
      <4> QED BY <4>2, <4>3
    <3> QED BY <3>2, <3>3
  <2>10. WireInv'
    BY <1>2, <2>9 DEF WireInv
  <2>11. con' = [con EXCEPT ![e] = Fetched(con[e], i)]
    BY <1>1, <1>6
  <2>12. EndsGood'
    BY <1>2, <1>4, <2>11, EndStep DEF IInv
  <2>13. RestOK'
    BY <1>2, <2>6, <2>7 DEF RestOK
  <2> QED BY <2>10, <2>12, <2>13 DEF IInv
<1> QED BY <1>5, <1>6


\* What a handler finds: the object without the notice it is about.
LEMMA Found ==
    ASSUME IInv, NEW e \in Ends, NEW what \in {"Accept", "Connect", "Login", "LoginAck"},
           Dispatches(e, what)
    PROVE  /\ Good(policy[e] = "full", e, Noticed(e)) /\ Noticed(e) \in Connections
           /\ \A i \in 1 .. Len(Noticed(e).notices) :
                 Noticed(e).notices[i].what \notin {"Accept", "Connect"}
           /\ e = "client" => Noticed(e).up \/ Len(Noticed(e).notices) > 0
           /\ what \in {"Accept", "Connect"} => ~Noticed(e).looping /\ Noticed(e).hold = "none"
           /\ policy[e] = "full" /\ what \in {"Login", "LoginAck"} => Noticed(e).proven = "this"
<1>1. /\ Good(policy[e] = "full", e, con[e]) /\ (policy[e] = "full") \in BOOLEAN
      /\ con[e].notices # <<>> /\ Head(con[e].notices).what = what
  BY GoodNow DEF Dispatches
<1>2. Good(policy[e] = "full", e, Noticed(e)) => Noticed(e) \in Connections
  BY DEF Good
<1>3. Head(con[e].notices).what # "Close"
  BY <1>1
<1> QED BY <1>1, <1>2, <1>3, NoticedGood DEF Noticed

LEMMA AcceptStep == IInv /\ On_ConAccept => IInv'
<1> SUFFICES ASSUME IInv, On_ConAccept PROVE IInv'
  OBVIOUS
<1>1. Good(policy["server"] = "full", "server", Armed(Noticed("server"))) /\ "server" \in Ends
  BY Found, ArmedGood DEF On_ConAccept, Ends
<1>2. con' = [con EXCEPT !["server"] = Armed(Noticed("server"))]
  BY DEF On_ConAccept
<1> QED BY <1>1, <1>2, RestNow, LocalStep DEF On_ConAccept, RestOK

LEMMA ConnectStep == IInv /\ On_ConConnect => IInv'
<1> SUFFICES ASSUME IInv, On_ConConnect PROVE IInv'
  OBVIOUS
<1> DEFINE k == Noticed("client")
<1>1. /\ Good(policy["client"] = "full", "client", Armed(k)) /\ "client" \in Ends
      /\ k \in Connections /\ (k.up \/ Len(k.notices) > 0)
  BY Found, ArmedGood DEF On_ConConnect, Ends
<1>2. Armed(k).up = k.up /\ Armed(k).notices = k.notices
  BY <1>1 DEF Armed, Connections
<1>3. Good(policy["client"] = "full", "client", Login("client", Armed(k)))
  BY <1>1, <1>2, LoginGood
<1>4. con' = [con EXCEPT !["client"] = Login("client", Armed(k))]
  BY DEF On_ConConnect
<1> QED BY <1>1, <1>3, <1>4, RestNow, LocalStep DEF On_ConConnect, RestOK

LEMMA LoginStep == IInv /\ On_ConLogin => IInv'
<1> SUFFICES ASSUME IInv, On_ConLogin PROVE IInv'
  OBVIOUS
<1> DEFINE k == Noticed("server")
           visible == Visible(k, Head(con["server"].notices))
           l == [k EXCEPT !.login = TRUE, !.named = TRUE, !.deadline = FALSE, !.acking = TRUE]
<1>1. /\ Good(policy["server"] = "full", "server", k) /\ "server" \in Ends
      /\ policy["server"] = "full" => k.proven = "this"
      /\ RestOK /\ policy' = policy /\ apart' = apart /\ lingering' = lingering
      /\ cuts' = cuts /\ apps' = apps
  BY Found, RestNow DEF On_ConLogin, Ends
<1>2. CASE visible \/ lingering
  <2>1. Drops("server", k) /\ refused' \in BOOLEAN
    BY <1>1, <1>2 DEF On_ConLogin, RestOK
  <2> QED BY <1>1, <2>1, DropsStep DEF RestOK
<1>3. CASE ~(visible \/ lingering)
  <2>1. Good(policy["server"] = "full", "server", l)
    BY <1>1, LoggedInGood
  <2>2. Good(policy["server"] = "full", "server", OnLogin(k))
    <3>1. OnLogin(k) = ReleaseLoginHold(l)
      BY DEF OnLogin
    <3> HIDE DEF l, k
    <3> QED BY <1>1, <2>1, <3>1, ReleaseGood
  <2>3. /\ con' = [con EXCEPT !["server"] = OnLogin(k)]
        /\ link' = link /\ wire' = wire /\ refused' = refused
    BY <1>3 DEF On_ConLogin
  <2> QED BY <1>1, <2>2, <2>3, LocalStep DEF RestOK
<1> QED BY <1>2, <1>3

LEMMA LoginAckStep == IInv /\ LoginAck => IInv'
<1> SUFFICES ASSUME IInv, LoginAck PROVE IInv'
  OBVIOUS
<1> DEFINE k == con["server"]
           l == [k EXCEPT !.login = TRUE, !.acking = FALSE]
           f == [k EXCEPT !.login = TRUE, !.named = k.named, !.deadline = k.deadline, !.acking = FALSE]
           block == IF k.nonce /\ CanAuthSign("server") THEN k.bind ELSE "absent"
           m == Msg("LoginAck", block)
<1>1. /\ Good(policy["server"] = "full", "server", k) /\ k \in Connections /\ "server" \in Ends
      /\ k.acking /\ RestOK /\ policy' = policy /\ apart' = apart /\ lingering' = lingering
      /\ wire' = wire /\ link' = link /\ refused' = refused /\ cuts' = cuts /\ apps' = apps
  BY GoodNow, RestNow DEF LoginAck, Ends
<1>2. policy["server"] = "full" => k.proven = "this"
  BY <1>1 DEF Good, SessionInv
<1>3. k.named \in BOOLEAN /\ k.deadline \in BOOLEAN /\ block \in AuthBlocks
  BY <1>1 DEF Connections, AuthBlocks
<1>4. Good(policy["server"] = "full", "server", f)
  BY <1>1, <1>2, <1>3, LoggedInGood
<1>5. l = f
  BY <1>1 DEF Connections
<1>6. m \in Messages /\ IsHandshake(m)
  BY <1>3, MsgOK DEF Kinds, IsHandshake
<1> HIDE DEF l, f, m
<1>7. Good(policy["server"] = "full", "server", ReleaseLoginHold(PostedHandshake(l, m)))
  BY <1>1, <1>4, <1>5, <1>6, PostedHandshakeGood, ReleaseGood
<1>8. con' = [con EXCEPT !["server"] = ReleaseLoginHold(PostedHandshake(l, m))]
  BY DEF LoginAck, l, m
<1> QED BY <1>1, <1>7, <1>8, LocalStep DEF RestOK

LEMMA OnLoginAckStep == IInv /\ On_ConLoginAck => IInv'
<1> SUFFICES ASSUME IInv, On_ConLoginAck PROVE IInv'
  OBVIOUS
<1> DEFINE k == Noticed("client")
           visible == Visible(k, Head(con["client"].notices))
           l == [k EXCEPT !.login = TRUE]
           f == [k EXCEPT !.login = TRUE, !.named = k.named, !.deadline = k.deadline, !.acking = k.acking]
<1>1. /\ Good(policy["client"] = "full", "client", k) /\ "client" \in Ends
      /\ policy["client"] = "full" => k.proven = "this"
      /\ k.up \/ Len(k.notices) > 0
      /\ k \in Connections
      /\ RestOK /\ policy' = policy /\ apart' = apart /\ lingering' = lingering
      /\ cuts' = cuts /\ apps' = apps
  BY Found, RestNow DEF On_ConLoginAck, Ends
<1>2. CASE visible
  <2>1. Drops("client", k) /\ refused' = TRUE
    BY <1>2 DEF On_ConLoginAck
  <2> QED BY <1>1, <2>1, DropsStep DEF RestOK
<1>3. CASE ~visible
  <2>1. k.named \in BOOLEAN /\ k.deadline \in BOOLEAN /\ k.acking \in BOOLEAN
    BY <1>1 DEF Connections
  <2>2. Good(policy["client"] = "full", "client", f)
    BY <1>1, <2>1, LoggedInGood
  <2>3. l = f
    BY <1>1 DEF Connections
  <2> HIDE DEF l, f
  <2>4. Good(policy["client"] = "full", "client", ReleaseLoginHold(l))
    BY <1>1, <2>2, <2>3, ReleaseGood
  <2>5. /\ con' = [con EXCEPT !["client"] = ReleaseLoginHold(l)]
        /\ link' = link /\ wire' = wire /\ refused' = refused
    BY <1>3 DEF On_ConLoginAck, l
  <2> QED BY <1>1, <2>4, <2>5, LocalStep DEF RestOK
<1> QED BY <1>2, <1>3


LEMMA CloseStep ==
    ASSUME IInv, NEW e \in Ends, On_ConClose(e)
    PROVE  IInv'
<1>1. /\ Good(policy[e] = "full", e, con[e]) /\ RestOK /\ (policy[e] = "full") \in BOOLEAN
      /\ policy' = policy /\ apart' = apart /\ wire' = wire /\ link' = link
      /\ lingering' = lingering /\ refused' = refused /\ cuts' = cuts /\ apps' = apps
      /\ con[e].notices # <<>> /\ Head(con[e].notices).what = "Close"
  BY GoodNow, RestNow DEF On_ConClose, Dispatches
<1>2. CASE e = "client"
  <2> DEFINE d == KeyXReset([Noticed(e) EXCEPT !.login = FALSE, !.queue = <<>>])
  <2>1. Good(policy[e] = "full", e, d)
    BY <1>1, <1>2, ClosedGood DEF Noticed
  <2>2. con' = [con EXCEPT ![e] = d]
    BY <1>2 DEF On_ConClose
  <2> HIDE DEF d
  <2> QED BY <1>1, <2>1, <2>2, LocalStep DEF RestOK
<1>3. CASE e # "client"
  <2>1. con' = [con EXCEPT ![e] = Unused]
    BY <1>3 DEF On_ConClose
  <2> QED BY <1>1, <2>1, UnusedGood, LocalStep DEF RestOK
<1> QED BY <1>2, <1>3

LEMMA RestartStep == IInv /\ Restart => IInv'
<1> SUFFICES ASSUME IInv, Restart PROVE IInv'
  OBVIOUS
<1> DEFINE k == con["client"]
           c == [k EXCEPT !.up = TRUE, !.bind = Aged(@), !.proven = Aged(@),
                          !.notices = <<Notice("Connect", "absent")>>]
           s == [Unused EXCEPT !.up = TRUE, !.deadline = TRUE,
                               !.notices = <<Notice("Accept", "absent")>>]
<1>1. /\ Good(policy["client"] = "full", "client", k) /\ "client" \in Ends /\ "server" \in Ends
      /\ ~k.up /\ k.notices = <<>> /\ RestOK
      /\ policy' = policy /\ apart' = apart /\ refused' = refused /\ cuts' = cuts /\ apps' = apps
      /\ link' = TRUE /\ wire' = [e \in Ends |-> <<>>]
  BY GoodNow, RestNow DEF Restart, Ends
<1>2. Good(policy["client"] = "full", "client", c)
  BY <1>1, RestartedGood
<1>3. Good(policy["server"] = "full", "server", s)
  BY <1>1, AcceptedGood
<1>4. con' = [client |-> c, server |-> s] /\ lingering' \in BOOLEAN
  BY <1>1 DEF Restart, RestOK
<1> HIDE DEF c, s
<1>5. con'["client"] = c /\ con'["server"] = s
  BY <1>4
<1>6. \A e \in Ends : Good(policy'[e] = "full", e, con'[e])
  BY <1>1, <1>2, <1>3, <1>5 DEF Ends
<1>7. con' \in [Ends -> Connections]
  <2>1. c \in Connections /\ s \in Connections
    BY <1>2, <1>3 DEF Good
  <2> QED BY <1>4, <2>1 DEF Ends
<1>8. EndsGood'
  BY <1>6, <1>7 DEF EndsGood
<1>9. <<>> \in Seq(Messages) /\ \A e \in Ends : Len(wire'[Other(e)]) = 0
  BY <1>1 DEF Other, Ends
<1>10. WireInv'
  BY <1>9 DEF WireInv
<1>11. RestOK'
  BY <1>1, <1>4, <1>9 DEF RestOK
<1> QED BY <1>8, <1>10, <1>11 DEF IInv

\* Neither end's object is touched.
LEMMA OutsideStep == IInv /\ (Vacated \/ Cut) => IInv'
<1> SUFFICES ASSUME IInv, Vacated \/ Cut PROVE IInv'
  OBVIOUS
<1>1. /\ con' = con /\ wire' = wire /\ policy' = policy /\ apart' = apart
      /\ refused' = refused /\ apps' = apps
      /\ link' \in BOOLEAN /\ lingering' \in BOOLEAN /\ cuts' \in 0 .. MaxCuts /\ RestOK
  <2>1. RestOK /\ cuts \in 0 .. MaxCuts
    BY RestNow DEF RestOK
  <2>2. CASE Vacated
    BY <2>1, <2>2 DEF Vacated, RestOK
  <2>3. CASE Cut
    <3>1. cuts < MaxCuts /\ cuts' = cuts + 1
      BY <2>3 DEF Cut
    <3>2. cuts' \in 0 .. MaxCuts
      BY <2>1, <3>1, LoginAssumption
    <3> QED BY <2>1, <2>3, <3>2 DEF Cut, RestOK
  <2> QED BY <2>2, <2>3
<1> QED BY <1>1 DEF IInv, EndsGood, WireInv, RestOK

LEMMA DeadlineStep == IInv /\ On_PITimer => IInv'
<1> SUFFICES ASSUME IInv, On_PITimer PROVE IInv'
  OBVIOUS
<1> DEFINE k == con["server"]
           d == [k EXCEPT !.deadline = FALSE]
<1>1. /\ Good(policy["server"] = "full", "server", k) /\ "server" \in Ends /\ RestOK
      /\ policy' = policy /\ apart' = apart /\ lingering' = lingering
      /\ refused' = refused /\ apps' = apps /\ Drops("server", d)
      /\ cuts' \in 0 .. MaxCuts
  BY GoodNow, RestNow, LoginAssumption DEF On_PITimer, Ends, RestOK
<1>2. /\ d \in Connections /\ d.queue = k.queue /\ d.notices = k.notices
      /\ d.up = k.up /\ d.login = k.login /\ d.hold = k.hold /\ d.queued = k.queued
      /\ d.looping = k.looping /\ d.keyx = k.keyx /\ d.bind = k.bind
      /\ d.cypher = k.cypher /\ d.proven = k.proven /\ d.acking = k.acking
  BY <1>1 DEF Good, Connections
<1> HIDE DEF d
<1>3. Good(policy["server"] = "full", "server", d)
  <2>1. NoticesInv(d) /\ LoopInv(d)
    BY <1>1, <1>2 DEF Good, NoticesInv, LoopInv
  <2>2. policy["server"] = "full" => SessionInv("server", d)
    BY <1>1, <1>2 DEF Good, SessionInv
  <2> QED BY <1>2, <2>1, <2>2 DEF Good
<1> QED BY <1>1, <1>3, DropsStep DEF RestOK

LEMMA PostStep ==
    ASSUME IInv, NEW e \in Ends, PostP2PeerMsg(e)
    PROVE  IInv'
<1>1. /\ Good(policy[e] = "full", e, con[e]) /\ RestOK /\ (policy[e] = "full") \in BOOLEAN
      /\ policy' = policy /\ apart' = apart /\ wire' = wire /\ link' = link
      /\ lingering' = lingering /\ refused' = refused /\ cuts' = cuts
      /\ apps[e] < MaxApps /\ apps' = [apps EXCEPT ![e] = @ + 1]
      /\ e = "server" => con[e].login
      /\ con' = [con EXCEPT ![e] = Posted(@, Msg("App", "absent"))]
  BY GoodNow, RestNow DEF PostP2PeerMsg
<1>2. Msg("App", "absent") \in Messages
  BY MsgOK DEF Kinds, AuthBlocks
<1>3. Good(policy[e] = "full", e, Posted(con[e], Msg("App", "absent")))
  BY <1>1, <1>2, PostedGood
<1>4. apps' \in [Ends -> 0 .. MaxApps]
  BY <1>1, LoginAssumption DEF RestOK
<1> QED BY <1>1, <1>3, <1>4, LocalStep DEF RestOK

LEMMA NextKeeps == IInv /\ [Next]_vars => IInv'
<1> SUFFICES ASSUME IInv, [Next]_vars PROVE IInv'
  OBVIOUS
<1>1. CASE Pump
  BY <1>1, AcceptStep, ConnectStep, LoginStep, LoginAckStep, OnLoginAckStep DEF Pump
<1>2. CASE Restart
  BY <1>2, RestartStep
<1>3. CASE Vacated \/ Cut
  BY <1>3, OutsideStep
<1>4. CASE On_PITimer
  BY <1>4, DeadlineStep
<1>5. ASSUME NEW e \in Ends, Loop(e) PROVE IInv'
  BY <1>5, LoopStep, ReadStep, FailStep DEF Loop
<1>6. ASSUME NEW e \in Ends, Send(e) \/ On_ConClose(e) \/ PostP2PeerMsg(e) PROVE IInv'
  BY <1>6, SendStep, CloseStep, PostStep
<1>7. CASE UNCHANGED vars
  BY <1>7 DEF vars, IInv, RestOK, EndsGood, WireInv
<1> QED BY <1>1, <1>2, <1>3, <1>4, <1>5, <1>6, <1>7 DEF Next

-------------------------------------------------------------------------------
\* The types, for any policies and bounds.
THEOREM TypeCorrect == Spec => []TypeOK
<1>1. Init => IInv
  BY InitIInv
<1>2. IInv /\ [Next]_vars => IInv'
  BY NextKeeps
<1>3. IInv => TypeOK
  BY DEF IInv, RestOK, EndsGood, TypeOK
<1> QED BY <1>1, <1>2, <1>3, PTL DEF Spec

\* Whatever is cut, restarted, refused or posted and on whichever threads, a hub that
\* requires authentication has only sessions with a peer proven in that very session, over
\* keys agreed in it, and sends what applications post under those keys.
THEOREM SessionsAreProven == Spec => []ProvenAndSealed
<1>1. Init => IInv
  BY InitIInv
<1>2. IInv /\ [Next]_vars => IInv'
  BY NextKeeps
<1>3. IInv => ProvenAndSealed
  <2> SUFFICES ASSUME IInv, NEW e \in Ends, policy[e] = "full"
               PROVE  /\ Standing(e) => con[e].proven = "this" /\ con[e].bind = "this" /\ con[e].cypher
                      /\ \A i \in 1 .. Len(wire[Other(e)]) :
                            wire[Other(e)][i].kind = "App" => wire[Other(e)][i].sealed
    BY DEF ProvenAndSealed
  <2>1. SessionInv(e, con[e])
    BY GoodNow DEF Good
  <2>2. Standing(e) => con[e].proven = "this" /\ con[e].bind = "this" /\ con[e].cypher
    BY <2>1 DEF SessionInv, Standing
  <2>3. \A i \in 1 .. Len(wire[Other(e)]) :
           wire[Other(e)][i].kind = "App" => wire[Other(e)][i].sealed
    BY DEF IInv, WireInv
  <2> QED BY <2>2, <2>3
<1> QED BY <1>1, <1>2, <1>3, PTL DEF Spec

\* A hold, its release, the loop and the pump never leave two receives on a connection,
\* whether they share a thread or not.
THEOREM OneReceiveOnly == Spec => []OneReceive
<1>1. Init => IInv
  BY InitIInv
<1>2. IInv /\ [Next]_vars => IInv'
  BY NextKeeps
<1>3. IInv => OneReceive
  BY GoodNow DEF Good, LoopInv, OneReceive
<1> QED BY <1>1, <1>2, <1>3, PTL DEF Spec

-------------------------------------------------------------------------------
(* Sessions between hubs whose settings agree.                             *)
(*                                                                         *)
(* A login has thirteen stages, by where the one handshake that is under   *)
(* way is; without a key agreement those from 2 to 5 are left out.         *)
(*    1  the client's connection is not announced                          *)
(*    2  the client has the KeyX to send                                   *)
(*    3  the KeyX is on the wire                                           *)
(*    4  the server has the KeyXAck to send                                *)
(*    5  the KeyXAck is on the wire                                        *)
(*    6  the client has the login to send                                  *)
(*    7  the login is on the wire                                          *)
(*    8  it is owed by the server's pump                                   *)
(*    9  the server is between OnLogin() and LoginAck()                    *)
(*   10  the server has the acknowledgement to send                        *)
(*   11  the acknowledgement is on the wire                                *)
(*   12  it is owed by the client's pump                                   *)
(*   13  both are logged in                                                *)

Stages(full) == IF full THEN 1 .. 13 ELSE {1} \cup 6 .. 13

Block(full) == IF full THEN "this" ELSE "absent"

\* A login or its acknowledgement as it travels.
OnItsWay(kind, full) == [kind |-> kind, block |-> Block(full), sealed |-> full]

NoHandshake(q) == \A i \in 1 .. Len(q) : ~IsHandshake(q[i])

OneHandshake(q, m) ==
    \E i \in 1 .. Len(q) : q[i] = m /\ \A j \in 1 .. Len(q) : j # i => ~IsHandshake(q[j])

FirstHandshake(q, m) ==
    Len(q) > 0 /\ q[1] = m /\ \A j \in 1 .. Len(q) : j # 1 => ~IsHandshake(q[j])

\* What applications posted is sealed where there is a cypher to open it.
Sealed(full, w) == full => \A i \in 1 .. Len(w) : ~IsHandshake(w[i]) => w[i].sealed

\* The client's connection, what waits on it and what is on its way to it.
ClientIs(full, p, k) ==
    /\ k.keyx = IF ~full \/ p = 1 THEN "none" ELSE IF p < 6 THEN "begun" ELSE "done"
    /\ k.cypher <=> full /\ p >= 6
    /\ full /\ p >= 6 => k.bind = "this" /\ k.nonce
    /\ k.login <=> p = 13
    /\ p = 12 => k.hold # "none"

ClientOwes(full, p, n) ==
    /\ p = 1 => n = <<Notice("Connect", "absent")>>
    /\ p = 12 => n = <<Notice("LoginAck", Block(full))>>
    /\ p \notin {1, 12} => n = <<>>

ClientPosted(full, p, q) ==
    /\ p = 2 => OneHandshake(q, Msg("KeyX", "absent"))
    /\ p = 6 => OneHandshake(q, Msg("Login", Block(full)))
    /\ p \notin {2, 6} => NoHandshake(q)

ToClient(full, p, w) ==
    /\ p = 5 => w = <<Msg("KeyXAck", "absent")>>
    /\ p = 11 => FirstHandshake(w, OnItsWay("LoginAck", full))
    /\ p \in {12, 13} => NoHandshake(w)
    /\ p \notin {5, 11, 12, 13} => w = <<>>
    /\ Sealed(full, w)

\* The same of the server's.
ServerIs(full, p, k) ==
    /\ k.keyx = IF full /\ p >= 4 THEN "done" ELSE "none"
    /\ k.cypher <=> full /\ p >= 4
    /\ full /\ p >= 4 => k.bind = "this"
    /\ k.nonce <=> full /\ p >= 8
    /\ k.login <=> p >= 9
    /\ k.acking <=> p = 9

ServerOwes(full, p, n) ==
    /\ p < 8 => n \in {<<>>, <<Notice("Accept", "absent")>>}
    /\ p = 8 => n = <<Notice("Login", Block(full))>>
    /\ p > 8 => n = <<>>

ServerPosted(full, p, q) ==
    /\ p = 4 => q = <<Msg("KeyXAck", "absent")>>
    /\ p < 9 /\ p # 4 => q = <<>>
    /\ p = 10 => FirstHandshake(q, Msg("LoginAck", Block(full)))
    /\ p \in {9, 11, 12, 13} => NoHandshake(q)

ToServer(full, p, w) ==
    /\ p = 3 => w = <<Msg("KeyX", "absent")>>
    /\ p = 7 => w = <<OnItsWay("Login", full)>>
    /\ p = 13 => NoHandshake(w) /\ Sealed(full, w)
    /\ p \notin {3, 7, 13} => w = <<>>

At(full, e, p, k, w) ==
    IF e = "client"
    THEN /\ ClientIs(full, p, k) /\ ClientOwes(full, p, k.notices)
         /\ ClientPosted(full, p, k.queue) /\ ToClient(full, p, w)
    ELSE /\ ServerIs(full, p, k) /\ ServerOwes(full, p, k.notices)
         /\ ServerPosted(full, p, k.queue) /\ ToServer(full, p, w)

\* The ends of a link that stands are at one stage; those of a link that was cut go on from
\* where they were, each for itself.
Session(full) ==
    \E p, q \in Stages(full) :
        /\ con["client"].up => At(full, "client", p, con["client"], wire["client"])
        /\ con["server"].up => At(full, "server", q, con["server"], wire["server"])
        /\ link => p = q /\ con["client"].up /\ con["server"].up

\* Of an end in whatever state, one that was dropped included.
Quiet(full, e, k) ==
    /\ ~full => \A i \in 1 .. Len(k.notices) : k.notices[i].block = "absent"
    /\ ~k.up => ~k.cypher
    /\ e = "client" /\ ~k.up /\ k.notices = <<>> => NoHandshake(k.queue)

Full == policy["client"] = "full"

TalkInv == ~refused /\ Session(Full) /\ \A e \in Ends : Quiet(Full, e, con[e])

StandInv == Compatible /\ ~apart => TalkInv

-------------------------------------------------------------------------------
(* What the steps of a queue or a wire do to the handshakes in it.         *)

LEMMA AppendKeeps ==
    ASSUME NEW q \in Seq(Messages), NEW m \in Messages
    PROVE  /\ q = <<>> => Append(q, m) = <<m>>
           /\ NoHandshake(q) /\ ~IsHandshake(m) => NoHandshake(Append(q, m))
           /\ NoHandshake(q) /\ IsHandshake(m) => OneHandshake(Append(q, m), m)
           /\ \A x : OneHandshake(q, x) /\ ~IsHandshake(m) => OneHandshake(Append(q, m), x)
           /\ \A x : FirstHandshake(q, x) /\ ~IsHandshake(m) => FirstHandshake(Append(q, m), x)
           /\ \A full : Sealed(full, q) /\ (full /\ ~IsHandshake(m) => m.sealed)
                          => Sealed(full, Append(q, m))
<1> DEFINE a == Append(q, m)
           n == Len(q)
<1>1. /\ n \in Nat /\ a \in Seq(Messages) /\ Len(a) = n + 1
      /\ \A i \in 1 .. n : a[i] = q[i]
      /\ a[n + 1] = m
  BY AppendProperties, LenProperties
<1>2. q = <<>> => a = <<m>>
  OBVIOUS
<1>3. \A i \in 1 .. n + 1 : i \in 1 .. n \/ i = n + 1
  BY <1>1
<1> HIDE DEF a, n
<1>4. NoHandshake(q) /\ ~IsHandshake(m) => NoHandshake(a)
  BY <1>1, <1>3 DEF NoHandshake, n
<1>5. NoHandshake(q) /\ IsHandshake(m) => OneHandshake(a, m)
  <2> SUFFICES ASSUME NoHandshake(q) PROVE OneHandshake(a, m)
    OBVIOUS
  <2>1. n + 1 \in 1 .. n + 1
    BY <1>1
  <2>2. \A j \in 1 .. n + 1 : j # n + 1 => ~IsHandshake(a[j])
    BY <1>1, <1>3 DEF NoHandshake, n
  <2> QED BY <1>1, <2>1, <2>2 DEF OneHandshake
<1>6. ASSUME NEW x, OneHandshake(q, x), ~IsHandshake(m) PROVE OneHandshake(a, x)
  <2>1. PICK i \in 1 .. n : q[i] = x /\ \A j \in 1 .. n : j # i => ~IsHandshake(q[j])
    BY <1>6 DEF OneHandshake, n
  <2>2. i \in 1 .. n + 1 /\ a[i] = x
    BY <1>1, <2>1
  <2>3. \A j \in 1 .. n + 1 : j # i => ~IsHandshake(a[j])
    BY <1>1, <1>3, <1>6, <2>1
  <2> QED BY <1>1, <2>2, <2>3 DEF OneHandshake
<1>7. ASSUME NEW x, FirstHandshake(q, x), ~IsHandshake(m) PROVE FirstHandshake(a, x)
  <2>1. n > 0 /\ q[1] = x /\ \A j \in 1 .. n : j # 1 => ~IsHandshake(q[j])
    BY <1>7 DEF FirstHandshake, n
  <2>2. n + 1 > 0 /\ a[1] = x
    BY <1>1, <2>1
  <2>3. \A j \in 1 .. n + 1 : j # 1 => ~IsHandshake(a[j])
    BY <1>1, <1>3, <1>7, <2>1
  <2> QED BY <1>1, <2>2, <2>3 DEF FirstHandshake
<1>8. ASSUME NEW full, Sealed(full, q), full /\ ~IsHandshake(m) => m.sealed
      PROVE  Sealed(full, a)
  BY <1>1, <1>3, <1>8 DEF Sealed, n
<1> QED BY <1>2, <1>4, <1>5, <1>6, <1>7, <1>8 DEF a

\* A handshake is posted ahead of what applications posted.
LEMMA InsertKeeps ==
    ASSUME NEW q \in Seq(Messages), NoHandshake(q), NEW m \in Messages, IsHandshake(m)
    PROVE  LET a == InsertAt(q, Behind(q), m) IN
           a \in Seq(Messages) /\ FirstHandshake(a, m) /\ OneHandshake(a, m)
<1> DEFINE p == Behind(q)
           a == InsertAt(q, p, m)
           n == Len(q)
<1>1. n \in Nat /\ p \in 1 .. n + 1
  BY BehindOK, LenProperties
<1>2. p = 1
  <2> DEFINE Is(x) == /\ \A i \in 1 .. x - 1 : IsHandshake(q[i])
                      /\ x = n + 1 \/ ~IsHandshake(q[x])
  <2>1. 1 \in 1 .. n + 1 /\ Is(1)
    BY <1>1 DEF NoHandshake
  <2>2. p = CHOOSE x \in 1 .. n + 1 : Is(x)
    BY DEF Behind
  <2>3. Is(p)
    <3> HIDE DEF Is, p, n
    <3> QED BY <2>1, <2>2
  <2>4. p > 1 => 1 \in 1 .. p - 1 /\ 1 \in 1 .. n
    BY <1>1
  <2>5. ~ (p > 1)
    BY <2>3, <2>4 DEF NoHandshake
  <2> QED BY <1>1, <2>5
<1> HIDE DEF p
<1>3. /\ a \in Seq(Messages) /\ Len(a) = n + 1
      /\ \A i \in 1 .. n + 1 : a[i] = IF i < p THEN q[i] ELSE IF i = p THEN m ELSE q[i - 1]
  <2>1. \A s \in Seq(Messages) : \A j \in 1 .. Len(s) + 1 :
          /\ InsertAt(s, j, m) \in Seq(Messages) /\ Len(InsertAt(s, j, m)) = Len(s) + 1
          /\ \A i \in 1 .. Len(s) + 1 :
                InsertAt(s, j, m)[i] = IF i < j THEN s[i] ELSE IF i = j THEN m ELSE s[i - 1]
    BY InsertEntries
  <2> QED BY <1>1, <2>1
<1> HIDE DEF a
<1>4. ASSUME NEW j \in 1 .. n + 1, j # 1 PROVE ~IsHandshake(a[j])
  <2>1. j - 1 \in 1 .. n /\ a[j] = q[j - 1]
    BY <1>1, <1>2, <1>3, <1>4
  <2> QED BY <2>1 DEF NoHandshake
<1>5. 1 \in 1 .. n + 1 /\ n + 1 > 0 /\ a[1] = m
  BY <1>1, <1>2, <1>3
<1>6. FirstHandshake(a, m) /\ OneHandshake(a, m)
  BY <1>3, <1>4, <1>5 DEF FirstHandshake, OneHandshake
<1> QED BY <1>3, <1>6 DEF a, p

LEMMA RemoveKeeps ==
    ASSUME NEW q \in Seq(Messages), NEW i \in 1 .. Len(q)
    PROVE  LET r == RemoveAt(q, i) IN
           /\ NoHandshake(q) => NoHandshake(r) /\ ~IsHandshake(q[i])
           /\ \A x : OneHandshake(q, x) /\ IsHandshake(q[i]) => q[i] = x /\ NoHandshake(r)
           /\ \A x : FirstHandshake(q, x) /\ i = 1 => q[i] = x /\ NoHandshake(r)
           /\ \A x : q = <<x>> => i = 1 /\ q[i] = x /\ r = <<>>
<1> DEFINE r == RemoveAt(q, i)
           n == Len(q)
<1>1. /\ n \in Nat /\ r \in Seq(Messages) /\ Len(r) = n - 1
      /\ \A j \in 1 .. n - 1 : r[j] = IF j < i THEN q[j] ELSE q[j + 1]
  <2>1. \A s \in Seq(Messages) : \A j \in 1 .. Len(s) :
          /\ RemoveAt(s, j) \in Seq(Messages) /\ Len(RemoveAt(s, j)) = Len(s) - 1
          /\ \A l \in 1 .. Len(s) - 1 : RemoveAt(s, j)[l] = IF l < j THEN s[l] ELSE s[l + 1]
    BY RemoveEntries
  <2> QED BY <2>1, LenProperties
<1> HIDE DEF r
<1>2. ASSUME NEW j \in 1 .. n - 1 PROVE \E l \in 1 .. n : l # i /\ r[j] = q[l]
  <2>1. CASE j < i
    BY <1>1, <2>1
  <2>2. CASE j >= i
    <3>1. j + 1 \in 1 .. n /\ j + 1 # i /\ r[j] = q[j + 1]
      BY <1>1, <2>2
    <3> QED BY <3>1
  <2> QED BY <1>1, <2>1, <2>2
<1>3. i \in 1 .. n
  OBVIOUS
<1> HIDE DEF n
<1>4. NoHandshake(q) => NoHandshake(r) /\ ~IsHandshake(q[i])
  BY <1>1, <1>2, <1>3 DEF NoHandshake, n
<1>5. ASSUME NEW x, OneHandshake(q, x), IsHandshake(q[i]) PROVE q[i] = x /\ NoHandshake(r)
  <2>1. PICK l \in 1 .. n : q[l] = x /\ \A j \in 1 .. n : j # l => ~IsHandshake(q[j])
    BY <1>5 DEF OneHandshake, n
  <2>2. l = i
    BY <1>3, <1>5, <2>1
  <2> QED BY <1>1, <1>2, <2>1, <2>2 DEF NoHandshake
<1>6. ASSUME NEW x, FirstHandshake(q, x), i = 1 PROVE q[i] = x /\ NoHandshake(r)
  BY <1>1, <1>2, <1>6 DEF FirstHandshake, NoHandshake, n
<1>7. ASSUME NEW x, q = <<x>> PROVE i = 1 /\ q[i] = x /\ r = <<>>
  <2>1. n = 1 /\ q[1] = x
    BY <1>7 DEF n
  <2>2. Len(r) = 0
    BY <1>1, <2>1
  <2> QED BY <1>1, <1>3, <2>1, <2>2, EmptySeq
<1> QED BY <1>4, <1>5, <1>6, <1>7 DEF r

LEMMA TailKeeps ==
    ASSUME NEW w \in Seq(Messages), w # <<>>
    PROVE  /\ Head(w) \in Messages
           /\ NoHandshake(w) => NoHandshake(Tail(w)) /\ ~IsHandshake(Head(w))
           /\ \A x : FirstHandshake(w, x) => Head(w) = x /\ NoHandshake(Tail(w))
           /\ \A x : w = <<x>> => Head(w) = x /\ Tail(w) = <<>>
           /\ \A full : Sealed(full, w) =>
                 Sealed(full, Tail(w)) /\ (full /\ ~IsHandshake(Head(w)) => Head(w).sealed)
<1> DEFINE t == Tail(w)
           h == Head(w)
           n == Len(w)
<1>1. /\ n \in Nat /\ n > 0 /\ h \in Messages /\ h = w[1]
      /\ t \in Seq(Messages) /\ Len(t) = n - 1
      /\ \A i \in 1 .. Len(t) : t[i] = w[i + 1]
  BY HeadTailProperties, LenProperties, EmptySeq
<1>2. ASSUME NEW x, w = <<x>> PROVE h = x /\ t = <<>>
  <2>1. n = 1 /\ w[1] = x
    BY <1>2
  <2> HIDE DEF n, t, h
  <2>2. Len(t) = 0
    BY <1>1, <2>1
  <2> QED BY <1>1, <2>1, <2>2, EmptySeq
<1> HIDE DEF n, t, h
<1>3. \A i \in 1 .. Len(t) : i + 1 \in 1 .. n /\ i + 1 # 1
  BY <1>1
<1>4. 1 \in 1 .. n
  BY <1>1
<1>5. NoHandshake(w) => NoHandshake(t) /\ ~IsHandshake(h)
  BY <1>1, <1>3, <1>4 DEF NoHandshake, n
<1>6. ASSUME NEW x, FirstHandshake(w, x) PROVE h = x /\ NoHandshake(t)
  BY <1>1, <1>3, <1>6 DEF NoHandshake, FirstHandshake, n
<1>7. ASSUME NEW full, Sealed(full, w)
      PROVE  Sealed(full, t) /\ (full /\ ~IsHandshake(h) => h.sealed)
  BY <1>1, <1>3, <1>4, <1>7 DEF Sealed, n
<1> QED BY <1>1, <1>2, <1>5, <1>6, <1>7 DEF h, t

LEMMA AppOrHandshake ==
    ASSUME NEW m \in Messages
    PROVE  /\ ~IsHandshake(m) => m.kind = "App"
           /\ m.kind \in {"KeyX", "KeyXAck", "Login", "LoginAck"} => IsHandshake(m)
BY DEF Messages, Kinds, IsHandshake

\* Nothing at all.
LEMMA EmptyKeeps ==
    NoHandshake(<<>>) /\ \A full : Sealed(full, <<>>)
BY DEF NoHandshake, Sealed

-------------------------------------------------------------------------------
(* How a session goes on.                                                  *)

\* What hubs whose settings agree do, seen from either end.
LEMMA Settings ==
    ASSUME Compatible
    PROVE  /\ \A e \in Ends : (policy[e] = "full") <=> Full
           /\ \A e \in Ends : KeyXWanted(e) <=> Full
           /\ Full => \A e \in Ends : ~AuthLinkRelaxed(e) /\ CanAuthSign(e)
           /\ ~Full => ~(CanAuthSign("client") /\ ~AuthLinkRelaxed("client"))
BY DEF Compatible, Full, Ends, KeyXWanted, AuthLinkRelaxed, CanAuthSign

\* The server does not see which end of its own silence the client is at.
LEMMA SameForServer ==
    ASSUME NEW full, NEW p \in Stages(full), NEW r \in Stages(full), NEW k, NEW w,
           At(full, "server", p, k, w),
           \/ r = p
           \/ p = 1 /\ r = IF full THEN 2 ELSE 6
           \/ p \in {5, 11, 12} /\ r = p + 1
    PROVE  At(full, "server", r, k, w)
<1>1. p \in 1 .. 13 /\ r \in 1 .. 13
  BY DEF Stages
<1>2. ServerIs(full, r, k)
  BY <1>1 DEF At, ServerIs, Stages
<1>3. ServerOwes(full, r, k.notices)
  BY <1>1 DEF At, ServerOwes
<1>4. ServerPosted(full, r, k.queue)
  BY <1>1 DEF At, ServerPosted
<1>5. ToServer(full, r, w)
  BY <1>1, EmptyKeeps DEF At, ToServer
<1> QED BY <1>2, <1>3, <1>4, <1>5 DEF At

LEMMA SameForClient ==
    ASSUME NEW full, NEW p \in Stages(full), NEW r \in Stages(full), NEW k, NEW w,
           At(full, "client", p, k, w),
           \/ r = p
           \/ p \in {3, 7, 8, 9} /\ r = p + 1
    PROVE  At(full, "client", r, k, w)
<1>1. p \in 1 .. 13 /\ r \in 1 .. 13
  BY DEF Stages
<1>2. ClientIs(full, r, k)
  BY <1>1 DEF At, ClientIs
<1>3. ClientOwes(full, r, k.notices)
  BY <1>1 DEF At, ClientOwes
<1>4. ClientPosted(full, r, k.queue)
  BY <1>1 DEF At, ClientPosted
<1>5. ToClient(full, r, w)
  BY <1>1 DEF At, ToClient
<1> QED BY <1>2, <1>3, <1>4, <1>5 DEF At

\* What an end may do for itself: from one stage to another one that looks the same to
\* its peer.
Onward(full, e, p, r) ==
    \/ r = p
    \/ e = "client" /\ p = 1 /\ r = IF full THEN 2 ELSE 6
    \/ e = "client" /\ p \in {5, 11, 12} /\ r = p + 1
    \/ e = "server" /\ p \in {3, 7, 8, 9} /\ r = p + 1

LEMMA AloneStep ==
    ASSUME Session(Full), policy' = policy, link' = link, NEW e \in Ends,
           con \in [Ends -> Connections], wire \in [Ends -> Seq(Messages)],
           NEW k, NEW w, con' = [con EXCEPT ![e] = k], wire' = [wire EXCEPT ![e] = w],
           k.up <=> con[e].up,
           ASSUME NEW p \in Stages(Full), con[e].up, At(Full, e, p, con[e], wire[e])
           PROVE  \E r \in Stages(Full) : Onward(Full, e, p, r) /\ At(Full, e, r, k, w)
    PROVE  Session(Full)'
<1> DEFINE full == Full
<1>1. Full' = full
  BY DEF Full
<1>2. PICK p \in Stages(full), q \in Stages(full) :
        /\ con["client"].up => At(full, "client", p, con["client"], wire["client"])
        /\ con["server"].up => At(full, "server", q, con["server"], wire["server"])
        /\ link => p = q /\ con["client"].up /\ con["server"].up
  BY DEF Session
<1> HIDE DEF full
<1>3. con'[e] = k /\ wire'[e] = w
  OBVIOUS
<1>4. CASE e = "client"
  <2>1. con'["server"] = con["server"] /\ wire'["server"] = wire["server"]
    BY <1>4 DEF Ends
  <2>2. CASE ~k.up
    BY <1>1, <1>2, <1>3, <1>4, <2>1, <2>2 DEF Session
  <2>3. CASE k.up
    <3>1. PICK r \in Stages(full) : Onward(full, "client", p, r) /\ At(full, "client", r, k, w)
      BY <1>2, <1>4, <2>3 DEF full
    <3>2. p = q /\ con["server"].up => At(full, "server", r, con["server"], wire["server"])
      BY <1>2, <3>1, SameForServer DEF Onward
    <3> DEFINE q2 == IF link THEN r ELSE q
    <3>3. q2 \in Stages(full) /\ (con["server"].up => At(full, "server", q2, con["server"], wire["server"]))
      BY <1>2, <3>2
    <3> QED BY <1>1, <1>2, <1>3, <1>4, <2>1, <2>3, <3>1, <3>3 DEF Session
  <2> QED BY <2>2, <2>3
<1>5. CASE e = "server"
  <2>1. con'["client"] = con["client"] /\ wire'["client"] = wire["client"]
    BY <1>5 DEF Ends
  <2>2. CASE ~k.up
    BY <1>1, <1>2, <1>3, <1>5, <2>1, <2>2 DEF Session
  <2>3. CASE k.up
    <3>1. PICK r \in Stages(full) : Onward(full, "server", q, r) /\ At(full, "server", r, k, w)
      BY <1>2, <1>5, <2>3 DEF full
    <3>2. p = q /\ con["client"].up => At(full, "client", r, con["client"], wire["client"])
      BY <1>2, <3>1, SameForClient DEF Onward
    <3> DEFINE p2 == IF link THEN r ELSE p
    <3>3. p2 \in Stages(full) /\ (con["client"].up => At(full, "client", p2, con["client"], wire["client"]))
      BY <1>2, <3>2
    <3> QED BY <1>1, <1>2, <1>3, <1>5, <2>1, <2>3, <3>1, <3>3 DEF Session
  <2> QED BY <2>2, <2>3
<1> QED BY <1>4, <1>5 DEF Ends

\* An end that is dropped leaves the other one to itself.
LEMMA GoneStep ==
    ASSUME Session(Full), policy' = policy, ~link', NEW e \in Ends,
           con \in [Ends -> Connections], wire \in [Ends -> Seq(Messages)],
           NEW k, con' = [con EXCEPT ![e] = k], ~k.up \/ k = con[e],
           \/ wire' = wire
           \/ ~k.up /\ wire' = [wire EXCEPT ![e] = <<>>]
    PROVE  Session(Full)'
<1> DEFINE full == Full
<1>1. Full' = full
  BY DEF Full
<1>2. PICK p \in Stages(full), q \in Stages(full) :
        /\ con["client"].up => At(full, "client", p, con["client"], wire["client"])
        /\ con["server"].up => At(full, "server", q, con["server"], wire["server"])
  BY DEF Session
<1> HIDE DEF full
<1>3. ASSUME NEW f \in Ends, con'[f].up PROVE con'[f] = con[f] /\ wire'[f] = wire[f]
  BY <1>3
<1>4. "client" \in Ends /\ "server" \in Ends
  BY DEF Ends
<1> QED BY <1>1, <1>2, <1>3, <1>4 DEF Session

\* An end in a session owes no more than the session accounts for.
LEMMA QuietAt ==
    ASSUME NEW full, NEW e \in Ends, NEW p \in Stages(full), NEW k, NEW w,
           k.up, At(full, e, p, k, w)
    PROVE  Quiet(full, e, k)
<1>1. SUFFICES ASSUME ~full PROVE \A i \in 1 .. Len(k.notices) : k.notices[i].block = "absent"
  BY DEF Quiet
<1>2. p \in 1 .. 13
  BY DEF Stages
<1>3. Block(full) = "absent"
  BY <1>1 DEF Block
<1>4. \/ k.notices = <<>>
      \/ \E what \in {"Accept", "Connect", "Login", "LoginAck"} : k.notices = <<Notice(what, "absent")>>
  <2>1. CASE e = "client"
    BY <1>2, <1>3, <2>1 DEF At, ClientOwes
  <2>2. CASE e = "server"
    BY <1>2, <1>3, <2>2 DEF At, ServerOwes
  <2> QED BY <2>1, <2>2 DEF Ends
<1>5. CASE k.notices = <<>>
  BY <1>5
<1>6. ASSUME NEW what, k.notices = <<Notice(what, "absent")>>
      PROVE  \A i \in 1 .. Len(k.notices) : k.notices[i].block = "absent"
  <2> DEFINE n == Notice(what, "absent")
  <2>1. n.block = "absent"
    BY DEF Notice
  <2> HIDE DEF n
  <2>2. \A i \in 1 .. Len(<<n>>) : <<n>>[i] = n
    OBVIOUS
  <2>3. k.notices = <<n>>
    BY <1>6 DEF n
  <2> QED BY <2>1, <2>2, <2>3
<1> QED BY <1>4, <1>5, <1>6

LEMMA DropQuiet ==
    ASSUME NEW full, NEW e \in Ends, NEW k \in Connections, Quiet(full, e, k)
    PROVE  ~Drop(k).up /\ Quiet(full, e, Drop(k))
<1> DEFINE d == Drop(k)
           close == Notice("Close", "absent")
           n == Append(k.notices, close)
<1>1. close.block = "absent" /\ close \in Notices
  BY DEF Notice, Notices, AuthBlocks
<1>2. /\ ~d.up /\ ~d.cypher /\ d.queue = k.queue
      /\ d.notices = IF k.up THEN n ELSE k.notices
  BY DEF Drop, Connections
<1> HIDE DEF close
<1>3. /\ Len(k.notices) \in Nat /\ Len(n) = Len(k.notices) + 1
      /\ \A i \in 1 .. Len(k.notices) : n[i] = k.notices[i]
      /\ n[Len(k.notices) + 1] = close
      /\ n # <<>>
  <2>1. k.notices \in Seq(Notices)
    BY DEF Connections
  <2>2. /\ Len(k.notices) \in Nat /\ n \in Seq(Notices) /\ Len(n) = Len(k.notices) + 1
        /\ \A i \in 1 .. Len(k.notices) : n[i] = k.notices[i]
        /\ n[Len(k.notices) + 1] = close
    BY <1>1, <2>1, AppendProperties, LenProperties
  <2> HIDE DEF n
  <2>3. n # <<>>
    BY <2>2, EmptySeq
  <2> QED BY <2>2, <2>3
<1> HIDE DEF d, n
<1>4. ~full => \A i \in 1 .. Len(d.notices) : d.notices[i].block = "absent"
  BY <1>1, <1>2, <1>3 DEF Quiet
<1>5. e = "client" /\ d.notices = <<>> => NoHandshake(d.queue)
  BY <1>2, <1>3 DEF Quiet
<1> QED BY <1>2, <1>4, <1>5 DEF Quiet, d

\* What StandInv is about, with the types.
LEMMA TalkNow ==
    ASSUME IInv, TalkInv
    PROVE  /\ con \in [Ends -> Connections] /\ wire \in [Ends -> Seq(Messages)] /\ link \in BOOLEAN
           /\ ~refused /\ Session(Full)
           /\ \A e \in Ends : /\ con[e] \in Connections /\ wire[e] \in Seq(Messages)
                              /\ con[e].notices \in Seq(Notices) /\ con[e].queue \in Seq(Messages)
                              /\ Quiet(Full, e, con[e]) /\ LoopInv(con[e]) /\ NoticesInv(con[e])
           /\ "client" \in Ends /\ "server" \in Ends
<1>1. con \in [Ends -> Connections] /\ wire \in [Ends -> Seq(Messages)] /\ link \in BOOLEAN
  BY DEF IInv, RestOK, EndsGood
<1>2. \A e \in Ends : LoopInv(con[e]) /\ NoticesInv(con[e])
  BY DEF IInv, EndsGood, Good
<1>3. \A k \in Connections : k.notices \in Seq(Notices) /\ k.queue \in Seq(Messages)
  BY DEF Connections
<1> QED BY <1>1, <1>2, <1>3 DEF TalkInv, Ends

\* An end goes on by itself.
LEMMA Alone ==
    ASSUME IInv, TalkInv, policy' = policy, link' = link, refused' = refused, NEW e \in Ends,
           NEW k, NEW w, con' = [con EXCEPT ![e] = k], wire' = [wire EXCEPT ![e] = w],
           k.up <=> con[e].up,
           ~k.up => Quiet(Full, e, k),
           ASSUME NEW p \in Stages(Full), con[e].up, At(Full, e, p, con[e], wire[e])
           PROVE  \E r \in Stages(Full) : Onward(Full, e, p, r) /\ At(Full, e, r, k, w)
    PROVE  TalkInv'
<1>1. Session(Full)'
  BY TalkNow, AloneStep
<1>2. Quiet(Full, e, k)
  <2>1. CASE ~k.up
    BY <2>1
  <2>2. CASE k.up
    <3>1. PICK p \in Stages(Full) : At(Full, e, p, con[e], wire[e])
      BY <2>2, TalkNow DEF Session, Ends
    <3>2. PICK r \in Stages(Full) : At(Full, e, r, k, w)
      BY <2>2, <3>1
    <3> QED BY <2>2, <3>2, QuietAt
  <2> QED BY <2>1, <2>2
<1>3. ASSUME NEW f \in Ends PROVE Quiet(Full, f, con'[f])
  BY <1>2, TalkNow
<1>4. Full' = Full
  BY DEF Full
<1> QED BY <1>1, <1>3, <1>4, TalkNow DEF TalkInv

\* An end drops its connection.
LEMMA Gone ==
    ASSUME IInv, TalkInv, policy' = policy, refused' = refused, NEW e \in Ends,
           NEW k \in Connections, Quiet(Full, e, k), Drops(e, k)
    PROVE  TalkInv'
<1>1. ~Drop(k).up /\ Quiet(Full, e, Drop(k))
  BY DropQuiet
<1>2. con' = [con EXCEPT ![e] = Drop(k)] /\ ~link' /\ wire' = [wire EXCEPT ![e] = <<>>]
  BY DEF Drops
<1>3. Session(Full)'
  BY <1>1, <1>2, TalkNow, GoneStep
<1>4. ASSUME NEW f \in Ends PROVE Quiet(Full, f, con'[f])
  BY <1>1, <1>2, TalkNow
<1>5. Full' = Full
  BY DEF Full
<1> QED BY <1>3, <1>4, <1>5, TalkNow DEF TalkInv

\* Where the loop is does not matter to the session, but that it stopped does.
LEMMA LoopStands ==
    ASSUME IInv, TalkInv, NEW e \in Ends, Receive(e) \/ Park(e) \/ AwaitMore(e)
    PROVE  TalkInv'
<1> DEFINE k == con[e]
           d == con'[e]
<1>1. /\ policy' = policy /\ link' = link /\ refused' = refused
      /\ wire' = wire /\ wire' = [wire EXCEPT ![e] = wire[e]]
  BY TalkNow DEF Receive, Park, AwaitMore
<1>2. k \in Connections /\ LoopInv(k) /\ con \in [Ends -> Connections]
  BY TalkNow
<1> DEFINE x == [k EXCEPT !.queued = FALSE, !.looping = TRUE]
           y == [k EXCEPT !.queued = TRUE, !.looping = FALSE]
           z == [k EXCEPT !.hold = "parked", !.looping = FALSE]
           Alike(a) == /\ a.up = k.up /\ a.login = k.login /\ a.keyx = k.keyx /\ a.bind = k.bind
                       /\ a.cypher = k.cypher /\ a.nonce = k.nonce /\ a.acking = k.acking
                       /\ a.queue = k.queue /\ a.notices = k.notices
                       /\ a.hold \in {k.hold, "parked"}
<1>3. Alike(x) /\ Alike(y) /\ Alike(z)
  BY <1>2 DEF Connections
<1>4. con' = [con EXCEPT ![e] = d] /\ Alike(d)
  <2>1. \/ con' = [con EXCEPT ![e] = x]
        \/ con' = [con EXCEPT ![e] = y]
        \/ con' = [con EXCEPT ![e] = z]
    BY DEF Receive, Park, AwaitMore
  <2> HIDE DEF x, y, z, k, Alike
  <2> QED BY <1>2, <1>3, <2>1
<1>5. k.up
  BY <1>2 DEF LoopInv, Receive, Park, AwaitMore, LoopRuns
<1> HIDE DEF d, k
<1>6. ASSUME NEW p \in Stages(Full), At(Full, e, p, k, wire[e]) PROVE At(Full, e, p, d, wire[e])
  BY <1>4, <1>6 DEF At, ClientIs, ServerIs
<1>7. ASSUME NEW p \in Stages(Full), con[e].up, At(Full, e, p, con[e], wire[e])
      PROVE  \E r \in Stages(Full) : Onward(Full, e, p, r) /\ At(Full, e, r, d, wire[e])
  BY <1>6, <1>7 DEF k, Onward
<1>8. (d.up <=> con[e].up) /\ d.up
  BY <1>4, <1>5 DEF k
<1> QED BY <1>1, <1>4, <1>7, <1>8, Alone

\* One notice is owed, and it is dispatched.
LEMMA OneNotice ==
    ASSUME NEW n \in Notices
    PROVE  /\ <<n>> # <<>> /\ Head(<<n>>) = n /\ Tail(<<n>>) = <<>>
           /\ Append(<<>>, n) = <<n>>
OBVIOUS

LEMMA NoticesKnown ==
    \A what \in {"Accept", "Connect", "Login", "LoginAck", "Close"} : \A b \in AuthBlocks :
        Notice(what, b) \in Notices /\ Notice(what, b).what = what /\ Notice(what, b).block = b
BY DEF Notice, Notices

LEMMA MessagesKnown ==
    /\ \A kind \in Kinds : \A b \in AuthBlocks :
          LET m == Msg(kind, b) IN
          m \in Messages /\ m.kind = kind /\ m.block = b /\ ~m.sealed
    /\ \A kind \in Kinds : \A full \in BOOLEAN :
          LET m == OnItsWay(kind, full) IN
          m \in Messages /\ m.kind = kind /\ m.block = Block(full) /\ (m.sealed <=> full)
    /\ \A full : Block(full) \in AuthBlocks
    /\ Full \in BOOLEAN /\ "absent" \in AuthBlocks
BY DEF Msg, OnItsWay, Messages, Kinds, Block, AuthBlocks, Sessions, Full

\* What the client's loop finds at each stage is what it takes, and the stage it leads to.
LEMMA ClientReads ==
    ASSUME IInv, Compatible, TalkInv, con["client"].looping, ~ParkForLogin(con["client"]),
           wire["client"] # <<>>, NEW p \in Stages(Full),
           At(Full, "client", p, con["client"], wire["client"])
    PROVE  LET k == con["client"]
               m == Head(wire["client"])
           IN  /\ Opens(k, m) /\ Admits("client", m) /\ Taken("client", m, k).up
               /\ \E r \in Stages(Full) :
                     /\ Onward(Full, "client", p, r)
                     /\ At(Full, "client", r, Taken("client", m, k), Tail(wire["client"]))
<1> DEFINE e == "client"
           k == con[e]
           w == wire[e]
           m == Head(w)
           t == Tail(w)
           T == Taken(e, m, k)
           full == Full
<1>1. /\ k \in Connections /\ k.up /\ w \in Seq(Messages) /\ w # <<>> /\ m \in Messages
      /\ k.hold = "none" /\ k.queue \in Seq(Messages) /\ full \in BOOLEAN
  BY TalkNow, MessagesKnown, TailKeeps DEF LoopInv, ParkForLogin, Connections
<1>2. /\ ClientIs(full, p, k) /\ ClientOwes(full, p, k.notices)
      /\ ClientPosted(full, p, k.queue) /\ ToClient(full, p, w) /\ p \in 1 .. 13
  BY DEF At, Stages
<1>3. p \in {5, 11, 13}
  BY <1>1, <1>2 DEF ClientIs, ToClient
<1>4. /\ KeyXWanted(e) <=> full
      /\ full => ~AuthLinkRelaxed(e) /\ CanAuthSign(e)
  BY Settings DEF Ends
<1>5. CASE p = 5
  <2> DEFINE d == [KeyXDerive(k) EXCEPT !.nonce = TRUE]
             l == Msg("Login", "this")
             q == InsertAt(k.queue, Behind(k.queue), l)
  <2>1. full /\ Block(full) = "this"
    BY <1>5 DEF Stages, Block
  <2>2. m = Msg("KeyXAck", "absent") /\ t = <<>>
    BY <1>1, <1>2, <1>5, TailKeeps DEF ToClient
  <2>3. m.kind = "KeyXAck" /\ k.keyx = "begun" /\ ~k.cypher
    BY <1>2, <1>5, <2>1, <2>2, MessagesKnown DEF ClientIs, Kinds
  <2>4. Opens(k, m) /\ Admits(e, m)
    BY <2>3 DEF Opens, Admits
  <2>5. T = [d EXCEPT !.queue = q]
    <3>1. T = LoginSend(e, KeyXDerive(k))
      BY <2>3 DEF Taken
    <3>2. KeyXDerive(k).bind = "this" /\ d.queue = k.queue
      BY <1>1 DEF KeyXDerive, Connections
    <3>3. LoginSend(e, KeyXDerive(k)) = PostedHandshake(d, l)
      BY <1>4, <2>1, <3>2 DEF LoginSend
    <3> HIDE DEF d, l
    <3> QED BY <3>1, <3>2, <3>3 DEF PostedHandshake
  <2>6. l \in Messages /\ IsHandshake(l)
    BY MessagesKnown, AppOrHandshake DEF Kinds, AuthBlocks, Sessions
  <2>7. q \in Seq(Messages) /\ OneHandshake(q, l)
    <3>1. NoHandshake(k.queue)
      BY <1>2, <1>5 DEF ClientPosted
    <3> HIDE DEF l, k
    <3> QED BY <1>1, <2>6, <3>1, InsertKeeps
  <2> HIDE DEF q
  <2>8. /\ T.up /\ T.keyx = "done" /\ T.cypher /\ T.bind = "this" /\ T.nonce
        /\ T.login = k.login /\ T.notices = k.notices /\ T.queue = q
    BY <1>1, <2>5 DEF KeyXDerive, Connections
  <2> HIDE DEF T, m, t, k, w, full
  <2>9. ClientIs(full, 6, T) /\ ClientOwes(full, 6, T.notices)
    BY <1>2, <1>5, <2>1, <2>8 DEF ClientIs, ClientOwes
  <2>10. ClientPosted(full, 6, T.queue) /\ ToClient(full, 6, t)
    <3>1. l = Msg("Login", Block(full)) /\ Sealed(full, <<>>)
      BY <2>1, EmptyKeeps
    <3> HIDE DEF l
    <3> QED BY <2>2, <2>7, <2>8, <3>1 DEF ClientPosted, ToClient
  <2>11. 6 \in Stages(full) /\ Onward(full, e, p, 6)
    BY <1>5 DEF Stages, Onward
  <2> QED BY <2>4, <2>8, <2>9, <2>10, <2>11 DEF At, T, m, t, k, w, full
<1>6. CASE p = 11
  <2> DEFINE g == Gated(e, m, k)
             d == [g EXCEPT !.hold = "hold"]
             n == Notice("LoginAck", Block(full))
  <2>1. m = OnItsWay("LoginAck", full) /\ NoHandshake(t) /\ Sealed(full, t)
    BY <1>1, <1>2, <1>6, TailKeeps DEF ToClient
  <2>2. m.kind = "LoginAck" /\ m.block = Block(full) /\ (m.sealed <=> full)
    BY <1>1, <2>1, MessagesKnown DEF Kinds
  <2>3. /\ k.cypher <=> full
        /\ full => k.keyx = "done" /\ k.bind = "this" /\ k.nonce
        /\ ~full => k.keyx = "none"
        /\ ~k.login /\ k.notices = <<>> /\ NoHandshake(k.queue)
    BY <1>2, <1>6 DEF ClientIs, ClientOwes, ClientPosted
  <2>4. Opens(k, m) /\ Admits(e, m)
    BY <1>4, <2>2, <2>3 DEF Opens, Admits, AuthGateInbound, AuthVerifies, Block
  <2>5. /\ g.up /\ g.keyx = k.keyx /\ g.bind = k.bind /\ (k.nonce => g.nonce)
        /\ (g.cypher <=> k.cypher) /\ g.login = k.login /\ g.notices = k.notices
        /\ g.queue = k.queue /\ g \in Connections
    <3>1. CASE full
      <4> DEFINE b == k.nonce \/ m.kind = "Login"
      <4>1. g = [k EXCEPT !.proven = "this", !.nonce = b]
        BY <1>4, <3>1 DEF Gated
      <4>2. b \in BOOLEAN /\ (k.nonce => b)
        OBVIOUS
      <4> HIDE DEF b, k, g
      <4>3. /\ g.up = k.up /\ g.keyx = k.keyx /\ g.bind = k.bind /\ g.nonce = b
            /\ g.cypher = k.cypher /\ g.login = k.login /\ g.notices = k.notices
            /\ g.queue = k.queue /\ g \in Connections
        BY <1>1, <4>1, <4>2 DEF Connections, Sessions
      <4> QED BY <1>1, <4>2, <4>3
    <3>2. CASE ~full
      <4>1. g = k
        BY <1>4, <3>2 DEF Gated
      <4> QED BY <1>1, <4>1
    <3> QED BY <3>1, <3>2
  <2>6. T = Owed(d, n)
    BY <2>2 DEF Taken
  <2> HIDE DEF g
  <2>7. /\ d.up /\ d.keyx = k.keyx /\ d.bind = k.bind /\ (k.nonce => d.nonce)
        /\ (d.cypher <=> k.cypher) /\ d.login = k.login /\ d.notices = <<>>
        /\ d.queue = k.queue /\ d \in Connections /\ d.hold = "hold"
    BY <2>3, <2>5 DEF Connections
  <2>8. n \in Notices
    BY MessagesKnown, NoticesKnown
  <2> HIDE DEF d, n
  <2>9. Append(d.notices, n) = <<n>> /\ <<n>> \in Seq(Notices)
    BY <2>7, <2>8, OneNotice
  <2>10. /\ T.up /\ T.keyx = k.keyx /\ T.bind = k.bind /\ (k.nonce => T.nonce)
         /\ (T.cypher <=> k.cypher) /\ T.login = k.login /\ T.notices = <<n>>
         /\ T.queue = k.queue /\ T.hold = "hold"
    <3>1. T = [d EXCEPT !.notices = <<n>>]
      BY <2>6, <2>9 DEF Owed
    <3> HIDE DEF T
    <3> QED BY <2>7, <3>1 DEF Connections
  <2> HIDE DEF T, m, t, k, w, full
  <2>11. ClientIs(full, 12, T) /\ ClientOwes(full, 12, T.notices)
    BY <2>3, <2>10 DEF ClientIs, ClientOwes, n
  <2>12. ClientPosted(full, 12, T.queue) /\ ToClient(full, 12, t)
    BY <2>1, <2>3, <2>10 DEF ClientPosted, ToClient
  <2>13. 12 \in Stages(full) /\ Onward(full, e, p, 12)
    BY <1>6 DEF Stages, Onward
  <2> QED BY <2>4, <2>10, <2>11, <2>12, <2>13 DEF At, T, m, t, k, w, full
<1>7. CASE p = 13
  <2>1. /\ ~IsHandshake(m) /\ NoHandshake(t) /\ Sealed(full, t) /\ (full => m.sealed)
    BY <1>1, <1>2, <1>7, TailKeeps DEF ToClient
  <2>2. m.kind = "App" /\ k.login /\ (k.cypher <=> full)
    BY <1>1, <1>2, <1>7, <2>1, AppOrHandshake DEF ClientIs
  <2>3. Opens(k, m) /\ Admits(e, m) /\ T = k
    BY <2>1, <2>2 DEF Opens, Admits, Taken
  <2>4. At(full, e, 13, k, t)
    BY <1>2, <1>7, <2>1 DEF At, ToClient
  <2>5. 13 \in Stages(full) /\ Onward(full, e, p, 13)
    BY <1>7 DEF Stages, Onward
  <2> QED BY <1>1, <2>3, <2>4, <2>5
<1> QED BY <1>3, <1>5, <1>6, <1>7

\* The same of the server's.
LEMMA ServerReads ==
    ASSUME IInv, Compatible, TalkInv, con["server"].looping, ~ParkForLogin(con["server"]),
           wire["server"] # <<>>, NEW p \in Stages(Full),
           At(Full, "server", p, con["server"], wire["server"])
    PROVE  LET k == con["server"]
               m == Head(wire["server"])
           IN  /\ Opens(k, m) /\ Admits("server", m) /\ Taken("server", m, k).up
               /\ \E r \in Stages(Full) :
                     /\ Onward(Full, "server", p, r)
                     /\ At(Full, "server", r, Taken("server", m, k), Tail(wire["server"]))
<1> DEFINE e == "server"
           k == con[e]
           w == wire[e]
           m == Head(w)
           t == Tail(w)
           T == Taken(e, m, k)
           full == Full
<1>1. /\ k \in Connections /\ k.up /\ w \in Seq(Messages) /\ w # <<>> /\ m \in Messages
      /\ k.queue \in Seq(Messages) /\ full \in BOOLEAN
  BY TalkNow, MessagesKnown, TailKeeps DEF LoopInv, Connections
<1>2. /\ ServerIs(full, p, k) /\ ServerOwes(full, p, k.notices)
      /\ ServerPosted(full, p, k.queue) /\ ToServer(full, p, w) /\ p \in 1 .. 13
  BY DEF At, Stages
<1>3. p \in {3, 7, 13}
  BY <1>1, <1>2 DEF ToServer
<1>4. /\ KeyXWanted(e) <=> full
      /\ full => ~AuthLinkRelaxed(e) /\ CanAuthSign(e)
  BY Settings DEF Ends
<1>5. p < 8 => k.notices = <<>>
  <2>1. \A i \in 1 .. Len(k.notices) : k.notices[i].what # "Accept"
    BY TalkNow DEF NoticesInv
  <2>2. k.notices # <<Notice("Accept", "absent")>>
    <3> DEFINE n == Notice("Accept", "absent")
    <3>1. n.what = "Accept"
      BY DEF Notice
    <3> HIDE DEF n
    <3>2. Len(<<n>>) = 1 /\ <<n>>[1] = n
      OBVIOUS
    <3>3. k.notices # <<n>>
      <4> SUFFICES ASSUME k.notices = <<n>> PROVE FALSE
        OBVIOUS
      <4>1. 1 \in 1 .. Len(k.notices) /\ k.notices[1] = n
        BY <3>2
      <4> QED BY <2>1, <3>1, <4>1
    <3> QED BY <3>3 DEF n
  <2> QED BY <1>2, <2>2 DEF ServerOwes
<1>6. CASE p = 3
  <2> DEFINE a == Msg("KeyXAck", "absent")
             d == Posted(k, a)
  <2>1. full
    BY <1>6 DEF Stages
  <2>2. m = Msg("KeyX", "absent") /\ t = <<>>
    BY <1>1, <1>2, <1>6, TailKeeps DEF ToServer
  <2>3. m.kind = "KeyX" /\ k.keyx = "none" /\ ~k.cypher /\ k.queue = <<>>
    BY <1>2, <1>6, <2>1, <2>2, MessagesKnown DEF ServerIs, ServerPosted, Kinds
  <2>4. Opens(k, m) /\ Admits(e, m)
    BY <1>4, <2>1, <2>3 DEF Opens, Admits
  <2>5. a \in Messages
    BY MessagesKnown DEF Kinds
  <2>6. T = KeyXDerive(d)
    BY <2>3 DEF Taken
  <2> HIDE DEF a
  <2>7. Append(k.queue, a) = <<a>> /\ <<a>> \in Seq(Messages)
    BY <2>3, <2>5
  <2>8. d = [k EXCEPT !.queue = <<a>>]
    BY <2>7 DEF Posted
  <2>9. /\ d \in Connections /\ d.queue = <<a>> /\ d.notices = k.notices /\ d.up
        /\ d.nonce = k.nonce /\ d.login = k.login /\ d.acking = k.acking
    BY <1>1, <2>7, <2>8 DEF Connections
  <2> HIDE DEF d
  <2>10. /\ T.up /\ T.keyx = "done" /\ T.cypher /\ T.bind = "this" /\ T.nonce = k.nonce
         /\ T.login = k.login /\ T.acking = k.acking /\ T.notices = k.notices /\ T.queue = <<a>>
    BY <2>6, <2>9 DEF KeyXDerive, Connections
  <2> HIDE DEF T, m, t, k, w, full
  <2>11. ServerIs(full, 4, T) /\ ServerOwes(full, 4, T.notices)
    BY <1>2, <1>6, <2>1, <2>10 DEF ServerIs, ServerOwes
  <2>12. ServerPosted(full, 4, T.queue) /\ ToServer(full, 4, t)
    BY <2>2, <2>10 DEF ServerPosted, ToServer, a
  <2>13. 4 \in Stages(full) /\ Onward(full, e, p, 4)
    BY <1>6, <2>1 DEF Stages, Onward
  <2> QED BY <2>4, <2>10, <2>11, <2>12, <2>13 DEF At, T, m, t, k, w, full
<1>7. CASE p = 7
  <2> DEFINE g == Gated(e, m, k)
             d == [g EXCEPT !.hold = "hold"]
             n == Notice("Login", Block(full))
  <2>1. m = OnItsWay("Login", full) /\ t = <<>>
    BY <1>1, <1>2, <1>7, TailKeeps DEF ToServer
  <2>2. m.kind = "Login" /\ m.block = Block(full) /\ (m.sealed <=> full)
    BY <1>1, <2>1, MessagesKnown DEF Kinds
  <2>3. /\ k.cypher <=> full
        /\ full => k.keyx = "done" /\ k.bind = "this"
        /\ ~full => k.keyx = "none"
        /\ ~k.nonce /\ ~k.login /\ ~k.acking /\ k.notices = <<>> /\ k.queue = <<>>
    BY <1>2, <1>5, <1>7 DEF ServerIs, ServerPosted
  <2>4. Opens(k, m) /\ Admits(e, m)
    BY <1>4, <2>2, <2>3 DEF Opens, Admits, AuthGateInbound, AuthVerifies, Block
  <2>5. /\ g.up /\ g.keyx = k.keyx /\ g.bind = k.bind /\ (g.nonce <=> full)
        /\ (g.cypher <=> k.cypher) /\ g.login = k.login /\ g.notices = k.notices
        /\ g.acking = k.acking /\ g.queue = k.queue /\ g \in Connections
    <3>1. CASE full
      <4>1. g = [k EXCEPT !.proven = "this", !.nonce = (k.nonce \/ m.kind = "Login")]
        BY <1>4, <3>1 DEF Gated
      <4>2. g = [k EXCEPT !.proven = "this", !.nonce = TRUE]
        BY <2>2, <4>1
      <4> HIDE DEF k, g
      <4>3. /\ g.up = k.up /\ g.keyx = k.keyx /\ g.bind = k.bind /\ g.nonce = TRUE
            /\ g.cypher = k.cypher /\ g.login = k.login /\ g.notices = k.notices
            /\ g.acking = k.acking /\ g.queue = k.queue /\ g \in Connections
        BY <1>1, <4>2 DEF Connections, Sessions
      <4> QED BY <1>1, <3>1, <4>3
    <3>2. CASE ~full
      <4>1. g = k
        BY <1>4, <3>2 DEF Gated
      <4> QED BY <1>1, <2>3, <3>2, <4>1
    <3> QED BY <3>1, <3>2
  <2>6. T = Owed(d, n)
    BY <2>2 DEF Taken
  <2> HIDE DEF g
  <2>7. /\ d.up /\ d.keyx = k.keyx /\ d.bind = k.bind /\ (d.nonce <=> full)
        /\ (d.cypher <=> k.cypher) /\ d.login = k.login /\ d.notices = <<>>
        /\ d.acking = k.acking /\ d.queue = k.queue /\ d \in Connections
    BY <2>3, <2>5 DEF Connections
  <2>8. n \in Notices
    BY MessagesKnown, NoticesKnown
  <2> HIDE DEF d, n
  <2>9. Append(d.notices, n) = <<n>> /\ <<n>> \in Seq(Notices)
    BY <2>7, <2>8, OneNotice
  <2>10. /\ T.up /\ T.keyx = k.keyx /\ T.bind = k.bind /\ (T.nonce <=> full)
         /\ (T.cypher <=> k.cypher) /\ T.login = k.login /\ T.notices = <<n>>
         /\ T.acking = k.acking /\ T.queue = k.queue
    <3>1. T = [d EXCEPT !.notices = <<n>>]
      BY <2>6, <2>9 DEF Owed
    <3> HIDE DEF T
    <3> QED BY <2>7, <3>1 DEF Connections
  <2> HIDE DEF T, m, t, k, w, full
  <2>11. ServerIs(full, 8, T) /\ ServerOwes(full, 8, T.notices)
    BY <2>3, <2>10 DEF ServerIs, ServerOwes, n
  <2>12. ServerPosted(full, 8, T.queue) /\ ToServer(full, 8, t)
    BY <2>1, <2>3, <2>10 DEF ServerPosted, ToServer
  <2>13. 8 \in Stages(full) /\ Onward(full, e, p, 8)
    BY <1>7 DEF Stages, Onward
  <2> QED BY <2>4, <2>10, <2>11, <2>12, <2>13 DEF At, T, m, t, k, w, full
<1>8. CASE p = 13
  <2>1. /\ ~IsHandshake(m) /\ NoHandshake(t) /\ Sealed(full, t) /\ (full => m.sealed)
    BY <1>1, <1>2, <1>8, TailKeeps DEF ToServer
  <2>2. m.kind = "App" /\ k.login /\ (k.cypher <=> full)
    BY <1>1, <1>2, <1>8, <2>1, AppOrHandshake DEF ServerIs
  <2>3. Opens(k, m) /\ Admits(e, m) /\ T = k
    BY <2>1, <2>2 DEF Opens, Admits, Taken
  <2>4. At(full, e, 13, k, t)
    BY <1>2, <1>8, <2>1 DEF At, ToServer
  <2>5. 13 \in Stages(full) /\ Onward(full, e, p, 13)
    BY <1>8 DEF Stages, Onward
  <2> QED BY <1>1, <2>3, <2>4, <2>5
<1> QED BY <1>3, <1>6, <1>7, <1>8

LEMMA ReadStands ==
    ASSUME IInv, Compatible, TalkInv, NEW e \in Ends, Read(e)
    PROVE  TalkInv'
<1> DEFINE k == con[e]
           m == Head(wire[e])
           T == Taken(e, m, k)
           t == Tail(wire[e])
<1>1. /\ k.looping /\ ~ParkForLogin(k) /\ wire[e] # <<>> /\ policy' = policy
      /\ k.up
  BY TalkNow DEF Read, LoopRuns, LoopInv
<1>2. PICK s \in Stages(Full) : At(Full, e, s, k, wire[e])
  BY <1>1, TalkNow DEF Session, Ends
<1>3. ASSUME NEW p \in Stages(Full), At(Full, e, p, k, wire[e])
      PROVE  /\ Opens(k, m) /\ Admits(e, m) /\ T.up
             /\ \E r \in Stages(Full) : Onward(Full, e, p, r) /\ At(Full, e, r, T, t)
  <2>1. CASE e = "client"
    BY <1>1, <1>3, <2>1, ClientReads
  <2>2. CASE e = "server"
    BY <1>1, <1>3, <2>2, ServerReads
  <2> QED BY <2>1, <2>2 DEF Ends
<1>4. Opens(k, m) /\ Admits(e, m) /\ T.up
  BY <1>2, <1>3
<1>5. /\ con' = [con EXCEPT ![e] = T] /\ wire' = [wire EXCEPT ![e] = t]
      /\ link' = link /\ refused' = refused
  BY <1>4 DEF Read
<1> HIDE DEF T, m, t
<1> QED BY <1>1, <1>3, <1>4, <1>5, Alone

\* The notice of a handler is taken off.
LEMMA NoticedFields ==
    ASSUME NEW e \in Ends, con[e] \in Connections, con[e].notices # <<>>
    PROVE  LET k == con[e]
               d == Noticed(e)
           IN  /\ d \in Connections /\ d.notices = Tail(k.notices) /\ d.queue = k.queue
               /\ d.up = k.up /\ d.login = k.login /\ d.hold = k.hold
               /\ d.keyx = k.keyx /\ d.bind = k.bind /\ d.cypher = k.cypher /\ d.nonce = k.nonce
               /\ d.proven = k.proven /\ d.acking = k.acking
<1>1. con[e].notices \in Seq(Notices)
  BY DEF Connections
<1>2. Tail(con[e].notices) \in Seq(Notices)
  BY <1>1, HeadTailProperties
<1> QED BY <1>2 DEF Noticed, Connections

LEMMA NoticedQuiet ==
    ASSUME NEW full, NEW e \in Ends, con[e] \in Connections, con[e].notices # <<>>,
           Quiet(full, e, con[e])
    PROVE  ~full => /\ Head(con[e].notices).block = "absent"
                    /\ \A i \in 1 .. Len(Noticed(e).notices) : Noticed(e).notices[i].block = "absent"
<1> DEFINE n == con[e].notices
<1>1. n \in Seq(Notices) /\ n # <<>>
  BY DEF Connections
<1>2. /\ Len(n) \in Nat /\ Len(n) > 0 /\ Head(n) = n[1] /\ Len(Tail(n)) = Len(n) - 1
      /\ \A i \in 1 .. Len(Tail(n)) : Tail(n)[i] = n[i + 1]
  <2> HIDE DEF n
  <2> QED BY <1>1, HeadTailProperties, LenProperties, EmptySeq
<1>3. Noticed(e).notices = Tail(n)
  BY NoticedFields
<1>4. ~full => \A i \in 1 .. Len(n) : n[i].block = "absent"
  BY DEF Quiet
<1> HIDE DEF n
<1>5. 1 \in 1 .. Len(n) /\ \A i \in 1 .. Len(Tail(n)) : i + 1 \in 1 .. Len(n)
  BY <1>2
<1> QED BY <1>2, <1>3, <1>4, <1>5 DEF n

\* The notice that is dispatched tells the stage.
LEMMA NoticeTells ==
    ASSUME NEW e \in Ends, NEW p \in Stages(Full), NEW k, NEW w, At(Full, e, p, k, w),
           k.notices # <<>>
    PROVE  /\ Tail(k.notices) = <<>>
           /\ e = "client" => \/ p = 1 /\ Head(k.notices).what = "Connect"
                              \/ p = 12 /\ Head(k.notices).what = "LoginAck"
           /\ e = "server" => \/ p < 8 /\ Head(k.notices).what = "Accept"
                              \/ p = 8 /\ Head(k.notices).what = "Login"
<1>1. p \in 1 .. 13 /\ Block(Full) \in AuthBlocks /\ "absent" \in AuthBlocks
  BY MessagesKnown DEF Stages
<1>2. ASSUME NEW what \in {"Accept", "Connect", "Login", "LoginAck"}, NEW b \in AuthBlocks,
             k.notices = <<Notice(what, b)>>
      PROVE  Tail(k.notices) = <<>> /\ Head(k.notices).what = what
  <2> DEFINE n == Notice(what, b)
  <2>1. n \in Notices /\ n.what = what
    BY NoticesKnown
  <2> HIDE DEF n
  <2>2. Head(<<n>>) = n /\ Tail(<<n>>) = <<>>
    BY <2>1, OneNotice
  <2>3. k.notices = <<n>>
    BY <1>2 DEF n
  <2> QED BY <2>1, <2>2, <2>3
<1>3. CASE e = "client"
  <2>1. \/ p = 1 /\ k.notices = <<Notice("Connect", "absent")>>
        \/ p = 12 /\ k.notices = <<Notice("LoginAck", Block(Full))>>
    BY <1>1, <1>3 DEF At, ClientOwes
  <2> QED BY <1>1, <1>2, <1>3, <2>1
<1>4. CASE e = "server"
  <2>1. \/ p < 8 /\ k.notices = <<Notice("Accept", "absent")>>
        \/ p = 8 /\ k.notices = <<Notice("Login", Block(Full))>>
    BY <1>1, <1>4 DEF At, ServerOwes
  <2> QED BY <1>1, <1>2, <1>4, <2>1
<1> QED BY <1>3, <1>4 DEF Ends

LEMMA ArmedFields ==
    ASSUME NEW k \in Connections
    PROVE  LET d == Armed(k) IN
           /\ d \in Connections /\ d.notices = k.notices /\ d.queue = k.queue
           /\ d.up = k.up /\ d.login = k.login /\ d.hold = k.hold
           /\ d.keyx = k.keyx /\ d.bind = k.bind /\ d.cypher = k.cypher /\ d.nonce = k.nonce
           /\ d.proven = k.proven /\ d.acking = k.acking
BY DEF Armed, Connections

LEMMA AcceptStands ==
    ASSUME IInv, TalkInv, On_ConAccept
    PROVE  TalkInv'
<1> DEFINE e == "server"
           k == con[e]
           d == Armed(Noticed(e))
<1>1. /\ con' = [con EXCEPT ![e] = d] /\ wire' = wire /\ wire' = [wire EXCEPT ![e] = wire[e]]
      /\ policy' = policy /\ link' = link /\ refused' = refused
  BY TalkNow DEF On_ConAccept
<1>2. /\ e \in Ends /\ k \in Connections /\ k.notices # <<>> /\ Head(k.notices).what = "Accept"
      /\ Quiet(Full, e, k)
  BY TalkNow DEF On_ConAccept, Dispatches
<1>3. /\ d \in Connections /\ d.notices = Tail(k.notices) /\ d.queue = k.queue
      /\ d.up = k.up /\ d.login = k.login /\ d.hold = k.hold
      /\ d.keyx = k.keyx /\ d.bind = k.bind /\ d.cypher = k.cypher /\ d.nonce = k.nonce
      /\ d.proven = k.proven /\ d.acking = k.acking
      /\ d.notices = Noticed(e).notices
  BY <1>2, NoticedFields, ArmedFields
<1>4. Quiet(Full, e, d)
  BY <1>2, <1>3, NoticedQuiet DEF Quiet
<1> HIDE DEF d, k
<1>5. ASSUME NEW p \in Stages(Full), At(Full, e, p, k, wire[e]) PROVE At(Full, e, p, d, wire[e])
  <2>1. p < 8 /\ d.notices = <<>>
    BY <1>2, <1>3, <1>5, NoticeTells
  <2>2. p \in 1 .. 13
    BY DEF Stages
  <2>3. ServerOwes(Full, p, d.notices)
    BY <2>1, <2>2 DEF ServerOwes
  <2> QED BY <1>3, <1>5, <2>3 DEF At, ServerIs
<1>6. ASSUME NEW p \in Stages(Full), con[e].up, At(Full, e, p, con[e], wire[e])
      PROVE  \E r \in Stages(Full) : Onward(Full, e, p, r) /\ At(Full, e, r, d, wire[e])
  BY <1>5, <1>6 DEF k, Onward
<1>7. (d.up <=> con[e].up) /\ (~d.up => Quiet(Full, e, d))
  BY <1>3, <1>4 DEF k
<1> QED BY <1>1, <1>2, <1>6, <1>7, Alone

LEMMA PostedFields ==
    ASSUME NEW k \in Connections, NEW m \in Messages
    PROVE  /\ LET d == Posted(k, m) IN
              /\ d \in Connections /\ d.queue = Append(k.queue, m) /\ d.notices = k.notices
              /\ d.up = k.up /\ d.login = k.login /\ d.hold = k.hold
              /\ d.keyx = k.keyx /\ d.bind = k.bind /\ d.cypher = k.cypher /\ d.nonce = k.nonce
              /\ d.acking = k.acking
           /\ LET d == PostedHandshake(k, m) IN
              /\ d.queue = InsertAt(k.queue, Behind(k.queue), m) /\ d.notices = k.notices
              /\ d.up = k.up /\ d.login = k.login /\ d.hold = k.hold
              /\ d.keyx = k.keyx /\ d.bind = k.bind /\ d.cypher = k.cypher /\ d.nonce = k.nonce
              /\ d.acking = k.acking
<1>1. k.queue \in Seq(Messages)
  BY DEF Connections
<1>2. Append(k.queue, m) \in Seq(Messages)
  BY <1>1, AppendProperties
<1> DEFINE i == InsertAt(k.queue, Behind(k.queue), m)
           a == Append(k.queue, m)
<1>3. Posted(k, m) = [k EXCEPT !.queue = a] /\ PostedHandshake(k, m) = [k EXCEPT !.queue = i]
  BY DEF Posted, PostedHandshake
<1>4. a \in Seq(Messages)
  BY <1>2
<1> HIDE DEF i, a
<1>5. LET d == [k EXCEPT !.queue = a] IN
      /\ d \in Connections /\ d.queue = a /\ d.notices = k.notices
      /\ d.up = k.up /\ d.login = k.login /\ d.hold = k.hold
      /\ d.keyx = k.keyx /\ d.bind = k.bind /\ d.cypher = k.cypher /\ d.nonce = k.nonce
      /\ d.acking = k.acking
  BY <1>4 DEF Connections
<1>6. LET d == [k EXCEPT !.queue = i] IN
      /\ d.queue = i /\ d.notices = k.notices
      /\ d.up = k.up /\ d.login = k.login /\ d.hold = k.hold
      /\ d.keyx = k.keyx /\ d.bind = k.bind /\ d.cypher = k.cypher /\ d.nonce = k.nonce
      /\ d.acking = k.acking
  BY DEF Connections
<1> QED BY <1>3, <1>5, <1>6 DEF i, a

\* The agreement begins, or the login goes; the object is the same but for that.
LEMMA LoginFields ==
    ASSUME NEW e \in Ends, NEW k \in Connections
    PROVE  LET d == Login(e, k) IN
           /\ d.notices = k.notices /\ d.up = k.up /\ d.cypher = k.cypher
           /\ d.login = k.login /\ d.hold = k.hold /\ d.bind = k.bind
<1> DEFINE b == [k EXCEPT !.keyx = "begun"]
           n == [k EXCEPT !.nonce = TRUE]
           Alike(d) == /\ d.notices = k.notices /\ d.up = k.up /\ d.cypher = k.cypher
                       /\ d.login = k.login /\ d.hold = k.hold /\ d.bind = k.bind
<1>1. b \in Connections /\ n \in Connections /\ Alike(b) /\ Alike(n) /\ Alike(k)
  BY DEF Connections
<1>2. /\ Msg("KeyX", "absent") \in Messages /\ Msg("Login", "absent") \in Messages
      /\ Msg("Login", k.bind) \in Messages
  BY MessagesKnown DEF Kinds, AuthBlocks, Connections
<1> HIDE DEF b, n
<1>3. Alike(Posted(b, Msg("KeyX", "absent")))
  BY <1>1, <1>2, PostedFields
<1>4. Alike(PostedHandshake(n, Msg("Login", k.bind)))
  BY <1>1, <1>2, PostedFields
<1>5. Alike(PostedHandshake(k, Msg("Login", "absent")))
  BY <1>1, <1>2, PostedFields
<1>6. Login(e, k) \in {k, Posted(b, Msg("KeyX", "absent")),
                       PostedHandshake(n, Msg("Login", k.bind)),
                       PostedHandshake(k, Msg("Login", "absent"))}
  BY Zenon DEF Login, KeyXBegin, LoginSend, b, n
<1> HIDE DEF Alike
<1>7. Alike(Login(e, k))
  BY <1>1, <1>3, <1>4, <1>5, <1>6
<1> QED BY <1>7 DEF Alike

LEMMA ConnectStands ==
    ASSUME IInv, Compatible, TalkInv, On_ConConnect
    PROVE  TalkInv'
<1> DEFINE e == "client"
           k == con[e]
           d == Armed(Noticed(e))
           g == Login(e, d)
           full == Full
           w == wire[e]
<1>1. /\ con' = [con EXCEPT ![e] = g] /\ wire' = wire /\ wire' = [wire EXCEPT ![e] = w]
      /\ policy' = policy /\ link' = link /\ refused' = refused
  BY TalkNow DEF On_ConConnect
<1>2. /\ e \in Ends /\ k \in Connections /\ k.notices # <<>> /\ Head(k.notices).what = "Connect"
      /\ Quiet(full, e, k) /\ full \in BOOLEAN
      /\ k.up \/ Len(Noticed(e).notices) > 0
  <2>1. Noticed(e).up = k.up
    BY TalkNow, NoticedFields DEF On_ConConnect, Dispatches
  <2>2. Noticed(e).up \/ Len(Noticed(e).notices) > 0
    BY Found DEF On_ConConnect, Ends
  <2> QED BY <2>1, <2>2, TalkNow, MessagesKnown DEF On_ConConnect, Dispatches
<1>3. /\ d \in Connections /\ d.notices = Tail(k.notices) /\ d.queue = k.queue
      /\ d.up = k.up /\ d.login = k.login /\ d.hold = k.hold
      /\ d.keyx = k.keyx /\ d.bind = k.bind /\ d.cypher = k.cypher /\ d.nonce = k.nonce
      /\ d.acking = k.acking
      /\ d.notices = Noticed(e).notices /\ d.queue \in Seq(Messages)
  <2>1. k.queue \in Seq(Messages)
    BY <1>2 DEF Connections
  <2> HIDE DEF k
  <2> QED BY <1>2, <2>1, NoticedFields, ArmedFields DEF k
<1> HIDE DEF d, k
<1>4. /\ g.notices = d.notices /\ g.up = d.up /\ g.cypher = d.cypher
      /\ g.login = d.login /\ g.hold = d.hold /\ g.bind = d.bind
  BY <1>2, <1>3, LoginFields
<1>5. ~g.up => Quiet(full, e, g)
  <2>1. ~full => \A i \in 1 .. Len(g.notices) : g.notices[i].block = "absent"
    BY <1>2, <1>3, <1>4, NoticedQuiet DEF k
  <2>2. ~g.up => g.notices # <<>>
    BY <1>2, <1>3, <1>4
  <2> QED BY <1>2, <1>3, <1>4, <2>1, <2>2 DEF Quiet
<1>6. ASSUME NEW p \in Stages(full), At(full, e, p, k, w)
      PROVE  \E r \in Stages(full) : Onward(full, e, p, r) /\ At(full, e, r, g, w)
  <2>1. p = 1 /\ d.notices = <<>>
    BY <1>2, <1>3, <1>6, NoticeTells
  <2>2. /\ d.keyx = "none" /\ ~d.cypher /\ ~d.login /\ NoHandshake(d.queue) /\ w = <<>>
    BY <1>3, <1>6, <2>1 DEF At, ClientIs, ClientPosted, ToClient
  <2>3. CASE full
    <3> DEFINE m == Msg("KeyX", "absent")
               b == [d EXCEPT !.keyx = "begun"]
    <3>1. m \in Messages /\ IsHandshake(m)
      BY MessagesKnown, AppOrHandshake DEF Kinds
    <3>2. g = Posted(b, m)
      <4>1. KeyXWanted(e)
        BY <2>3, Settings DEF Ends
      <4> QED BY <2>2, <4>1 DEF Login, KeyXBegin
    <3>3. b \in Connections /\ b.queue = d.queue /\ b.keyx = "begun"
      BY <1>3 DEF Connections
    <3> HIDE DEF b, m
    <3>4. g.keyx = "begun" /\ g.queue = Append(d.queue, m)
      BY <3>1, <3>2, <3>3, PostedFields
    <3>5. OneHandshake(g.queue, m)
      BY <1>3, <2>2, <3>1, <3>4, AppendKeeps
    <3> HIDE DEF g
    <3>6. ClientIs(full, 2, g) /\ ClientOwes(full, 2, g.notices)
      BY <1>4, <2>1, <2>2, <2>3, <3>4 DEF ClientIs, ClientOwes
    <3>7. ClientPosted(full, 2, g.queue) /\ ToClient(full, 2, w)
      BY <2>2, <3>5, EmptyKeeps DEF ClientPosted, ToClient, m
    <3>8. 2 \in Stages(full) /\ Onward(full, e, p, 2)
      BY <2>1, <2>3 DEF Stages, Onward
    <3> QED BY <3>6, <3>7, <3>8 DEF At
  <2>4. CASE ~full
    <3> DEFINE m == Msg("Login", "absent")
    <3>1. m \in Messages /\ IsHandshake(m)
      BY MessagesKnown, AppOrHandshake DEF Kinds
    <3>2. g = PostedHandshake(d, m)
      <4>1. ~KeyXWanted(e) /\ ~(CanAuthSign(e) /\ ~AuthLinkRelaxed(e))
        BY <2>4, Settings DEF Ends
      <4> QED BY <2>2, <4>1 DEF Login, LoginSend
    <3>3. m = Msg("Login", Block(full))
      BY <2>4 DEF Block
    <3> HIDE DEF m
    <3>4. g.keyx = "none" /\ g.queue = InsertAt(d.queue, Behind(d.queue), m)
      BY <1>3, <2>2, <3>1, <3>2, PostedFields
    <3>5. OneHandshake(g.queue, m)
      BY <1>3, <2>2, <3>1, <3>4, InsertKeeps
    <3> HIDE DEF g
    <3>6. ClientIs(full, 6, g) /\ ClientOwes(full, 6, g.notices)
      BY <1>4, <2>1, <2>2, <2>4, <3>4 DEF ClientIs, ClientOwes
    <3>7. ClientPosted(full, 6, g.queue) /\ ToClient(full, 6, w)
      BY <2>2, <3>3, <3>5, EmptyKeeps DEF ClientPosted, ToClient
    <3>8. 6 \in Stages(full) /\ Onward(full, e, p, 6)
      BY <2>1, <2>4 DEF Stages, Onward
    <3> QED BY <3>6, <3>7, <3>8 DEF At
  <2> QED BY <2>3, <2>4
<1>7. g.up <=> k.up
  BY <1>3, <1>4
<1> HIDE DEF g, w
<1> QED BY <1>1, <1>2, <1>5, <1>6, <1>7, Alone DEF k, w, full

\* A notice that is dispatched shows nothing the gate should have taken.
LEMMA NothingVisible ==
    ASSUME IInv, Compatible, TalkInv, NEW e \in Ends, NEW what \in {"Login", "LoginAck"},
           Dispatches(e, what)
    PROVE  ~Visible(Noticed(e), Head(con[e].notices))
<1>1. con[e].notices # <<>> /\ Quiet(Full, e, con[e]) /\ con[e] \in Connections
  BY TalkNow DEF Dispatches
<1>2. CASE Full
  <2>1. Noticed(e).proven = "this"
    BY <1>2, Found, Settings
  <2> QED BY <2>1 DEF Visible
<1>3. CASE ~Full
  <2>1. Head(con[e].notices).block = "absent"
    BY <1>1, <1>3, NoticedQuiet
  <2> QED BY <2>1 DEF Visible
<1> QED BY <1>2, <1>3

LEMMA LoginStands ==
    ASSUME IInv, Compatible, TalkInv, On_ConLogin
    PROVE  TalkInv'
<1> DEFINE e == "server"
           k == con[e]
           n == Noticed(e)
           d == OnLogin(n)
           full == Full
           w == wire[e]
<1>1. /\ e \in Ends /\ k \in Connections /\ k.notices # <<>> /\ Head(k.notices).what = "Login"
      /\ Quiet(full, e, k) /\ policy' = policy
      /\ ~Visible(n, Head(k.notices))
  BY TalkNow, NothingVisible DEF On_ConLogin, Dispatches
<1>2. /\ n \in Connections /\ n.notices = Tail(k.notices) /\ n.queue = k.queue
      /\ n.up = k.up /\ n.login = k.login /\ n.hold = k.hold
      /\ n.keyx = k.keyx /\ n.bind = k.bind /\ n.cypher = k.cypher /\ n.nonce = k.nonce
      /\ n.proven = k.proven /\ n.acking = k.acking
  BY <1>1, NoticedFields
<1>3. ~full => \A i \in 1 .. Len(n.notices) : n.notices[i].block = "absent"
  BY <1>1, NoticedQuiet
<1>4. Quiet(full, e, n)
  BY <1>1, <1>2, <1>3 DEF Quiet
<1>5. CASE lingering
  <2>1. Drops(e, n) /\ refused' = refused
    BY <1>1, <1>5, TalkNow DEF On_ConLogin, IInv, RestOK
  <2> QED BY <1>1, <1>2, <1>4, <2>1, Gone
<1>6. CASE ~lingering
  <2>1. /\ con' = [con EXCEPT ![e] = d] /\ link' = link /\ wire' = wire /\ refused' = refused
        /\ wire' = [wire EXCEPT ![e] = w]
    BY <1>1, <1>6, TalkNow DEF On_ConLogin
  <2>2. /\ d.notices = n.notices /\ d.queue = n.queue /\ d.up = n.up /\ d.login
        /\ d.keyx = n.keyx /\ d.bind = n.bind /\ d.cypher = n.cypher /\ d.nonce = n.nonce
        /\ d.acking
    BY <1>2 DEF OnLogin, ReleaseLoginHold, Connections
  <2> HIDE DEF d, n, k
  <2>3. Quiet(full, e, d)
    BY <1>4, <2>2 DEF Quiet
  <2>4. ASSUME NEW p \in Stages(full), At(full, e, p, k, w)
        PROVE  \E r \in Stages(full) : Onward(full, e, p, r) /\ At(full, e, r, d, w)
    <3>1. p = 8 /\ d.notices = <<>>
      BY <1>1, <1>2, <2>2, <2>4, NoticeTells
    <3>2. ServerIs(full, 9, d)
      BY <1>2, <2>2, <2>4, <3>1 DEF At, ServerIs
    <3>3. ServerOwes(full, 9, d.notices)
      BY <3>1 DEF ServerOwes
    <3>4. ServerPosted(full, 9, d.queue) /\ ToServer(full, 9, w)
      BY <1>2, <2>2, <2>4, <3>1, EmptyKeeps DEF At, ServerPosted, ToServer
    <3>5. 9 \in Stages(full) /\ Onward(full, e, p, 9)
      BY <3>1 DEF Stages, Onward
    <3> QED BY <3>2, <3>3, <3>4, <3>5 DEF At
  <2>5. d.up <=> k.up
    BY <1>2, <2>2
  <2> HIDE DEF w
  <2> QED BY <1>1, <2>1, <2>3, <2>4, <2>5, Alone DEF k, w, full
<1> QED BY <1>5, <1>6

LEMMA LoginAckStands ==
    ASSUME IInv, Compatible, TalkInv, LoginAck
    PROVE  TalkInv'
<1> DEFINE e == "server"
           k == con[e]
           l == [k EXCEPT !.login = TRUE, !.acking = FALSE]
           block == IF k.nonce /\ CanAuthSign(e) THEN k.bind ELSE "absent"
           m == Msg("LoginAck", block)
           h == PostedHandshake(l, m)
           d == ReleaseLoginHold(h)
           full == Full
           w == wire[e]
<1>1. /\ con' = [con EXCEPT ![e] = d] /\ wire' = wire /\ wire' = [wire EXCEPT ![e] = w]
      /\ policy' = policy /\ link' = link /\ refused' = refused
  BY TalkNow DEF LoginAck
<1>2. /\ e \in Ends /\ k \in Connections /\ k.acking /\ Quiet(full, e, k)
      /\ k.queue \in Seq(Messages)
  BY TalkNow DEF LoginAck
<1>3. /\ l \in Connections /\ l.notices = k.notices /\ l.queue = k.queue /\ l.up = k.up /\ l.login
      /\ l.keyx = k.keyx /\ l.bind = k.bind /\ l.cypher = k.cypher /\ l.nonce = k.nonce
      /\ ~l.acking
  BY <1>2 DEF Connections
<1>4. block \in AuthBlocks
  BY <1>2, MessagesKnown DEF Connections, AuthBlocks
<1>5. m \in Messages /\ IsHandshake(m)
  BY <1>4, MessagesKnown, AppOrHandshake DEF Kinds
<1>6. m = Msg("LoginAck", block)
  OBVIOUS
<1> HIDE DEF l, m
<1>7. /\ h.notices = k.notices /\ h.queue = InsertAt(k.queue, Behind(k.queue), m)
      /\ h.up = k.up /\ h.login = l.login
      /\ h.keyx = k.keyx /\ h.bind = k.bind /\ h.cypher = k.cypher /\ h.nonce = k.nonce
      /\ h.acking = l.acking
  <2>1. /\ h.queue = InsertAt(l.queue, Behind(l.queue), m) /\ h.notices = l.notices
        /\ h.up = l.up /\ h.login = l.login
        /\ h.keyx = l.keyx /\ h.bind = l.bind /\ h.cypher = l.cypher /\ h.nonce = l.nonce
        /\ h.acking = l.acking
    BY <1>3, <1>5, PostedFields
  <2> HIDE DEF h, k
  <2> QED BY <1>3, <2>1
<1>8. d = [h EXCEPT !.hold = "none", !.queued = (h.hold = "parked" \/ h.queued)]
  BY DEF ReleaseLoginHold
<1>9. h = [l EXCEPT !.queue = InsertAt(k.queue, Behind(k.queue), m)]
  BY <1>3 DEF PostedHandshake
<1>10. /\ d.notices = h.notices /\ d.queue = h.queue /\ d.up = h.up /\ d.login = h.login
       /\ d.keyx = h.keyx /\ d.bind = h.bind /\ d.cypher = h.cypher /\ d.nonce = h.nonce
       /\ d.acking = h.acking
  <2> DEFINE i == InsertAt(k.queue, Behind(k.queue), m)
             q == h.hold = "parked" \/ h.queued
  <2> HIDE DEF i, q, d
  <2>1. h = [l EXCEPT !.queue = i] /\ d = [h EXCEPT !.hold = "none", !.queued = q]
    BY <1>8, <1>9 DEF i, q
  <2> HIDE DEF h
  <2> QED BY <1>3, <2>1 DEF Connections
<1> HIDE DEF h, d, block, k
<1>11. Quiet(full, e, d)
  BY <1>2, <1>7, <1>10 DEF Quiet
<1>12. ASSUME NEW p \in Stages(full), At(full, e, p, k, w)
       PROVE  \E r \in Stages(full) : Onward(full, e, p, r) /\ At(full, e, r, d, w)
  <2>1. p = 9
    BY <1>2, <1>12 DEF At, ServerIs
  <2>2. /\ NoHandshake(k.queue) /\ k.notices = <<>> /\ w = <<>>
        /\ full => k.bind = "this" /\ k.nonce
        /\ ~full => ~k.nonce
    BY <1>12, <2>1 DEF At, ServerIs, ServerPosted, ServerOwes, ToServer
  <2>3. block = Block(full)
    BY <2>2, Settings DEF Block, block, Ends
  <2>4. FirstHandshake(d.queue, Msg("LoginAck", Block(full)))
    <3>1. FirstHandshake(d.queue, m)
      BY <1>2, <1>5, <1>7, <1>10, <2>2, InsertKeeps
    <3> QED BY <1>6, <2>3, <3>1
  <2>5. ServerIs(full, 10, d)
    BY <1>3, <1>7, <1>10, <1>12, <2>1 DEF At, ServerIs
  <2>6. ServerOwes(full, 10, d.notices) /\ ServerPosted(full, 10, d.queue) /\ ToServer(full, 10, w)
    BY <1>7, <1>10, <2>2, <2>4 DEF ServerOwes, ServerPosted, ToServer
  <2>7. 10 \in Stages(full) /\ Onward(full, e, p, 10)
    BY <2>1 DEF Stages, Onward
  <2> QED BY <2>5, <2>6, <2>7 DEF At
<1>13. d.up <=> k.up
  BY <1>7, <1>10
<1> HIDE DEF w
<1> QED BY <1>1, <1>2, <1>11, <1>12, <1>13, Alone DEF k, w, full

LEMMA OnLoginAckStands ==
    ASSUME IInv, Compatible, TalkInv, On_ConLoginAck
    PROVE  TalkInv'
<1> DEFINE e == "client"
           k == con[e]
           n == Noticed(e)
           l == [n EXCEPT !.login = TRUE]
           d == ReleaseLoginHold(l)
           full == Full
           w == wire[e]
<1>1. /\ e \in Ends /\ k \in Connections /\ k.notices # <<>> /\ Head(k.notices).what = "LoginAck"
      /\ Quiet(full, e, k) /\ policy' = policy
      /\ ~Visible(n, Head(k.notices))
      /\ k.up \/ Len(n.notices) > 0
  <2>1. n.up = k.up
    BY TalkNow, NoticedFields DEF On_ConLoginAck, Dispatches
  <2>2. n.up \/ Len(n.notices) > 0
    BY Found DEF On_ConLoginAck, Ends
  <2> QED BY <2>1, <2>2, TalkNow, NothingVisible DEF On_ConLoginAck, Dispatches
<1>2. /\ n \in Connections /\ n.notices = Tail(k.notices) /\ n.queue = k.queue
      /\ n.up = k.up /\ n.hold = k.hold
      /\ n.keyx = k.keyx /\ n.bind = k.bind /\ n.cypher = k.cypher /\ n.nonce = k.nonce
  BY <1>1, NoticedFields
<1>3. ~full => \A i \in 1 .. Len(n.notices) : n.notices[i].block = "absent"
  BY <1>1, NoticedQuiet
<1>4. /\ con' = [con EXCEPT ![e] = d] /\ link' = link /\ wire' = wire /\ refused' = refused
      /\ wire' = [wire EXCEPT ![e] = w]
  BY <1>1, TalkNow DEF On_ConLoginAck
<1>5. /\ d.notices = n.notices /\ d.queue = n.queue /\ d.up = n.up /\ d.login
      /\ d.keyx = n.keyx /\ d.bind = n.bind /\ d.cypher = n.cypher /\ d.nonce = n.nonce
  BY <1>2 DEF ReleaseLoginHold, Connections
<1> HIDE DEF d, n, k
<1>6. ~d.up => Quiet(full, e, d)
  <2>1. ~d.up => Len(d.notices) > 0
    BY <1>1, <1>2, <1>5
  <2>2. ~d.up => d.notices # <<>>
    BY <2>1
  <2> QED BY <1>1, <1>2, <1>3, <1>5, <2>2 DEF Quiet
<1>7. ASSUME NEW p \in Stages(full), At(full, e, p, k, w)
      PROVE  \E r \in Stages(full) : Onward(full, e, p, r) /\ At(full, e, r, d, w)
  <2>1. p = 12 /\ d.notices = <<>>
    BY <1>1, <1>2, <1>5, <1>7, NoticeTells
  <2>2. ClientIs(full, 13, d)
    BY <1>2, <1>5, <1>7, <2>1 DEF At, ClientIs
  <2>3. ClientOwes(full, 13, d.notices)
    BY <2>1 DEF ClientOwes
  <2>4. ClientPosted(full, 13, d.queue) /\ ToClient(full, 13, w)
    BY <1>2, <1>5, <1>7, <2>1 DEF At, ClientPosted, ToClient
  <2>5. 13 \in Stages(full) /\ Onward(full, e, p, 13)
    BY <2>1 DEF Stages, Onward
  <2> QED BY <2>2, <2>3, <2>4, <2>5 DEF At
<1>8. d.up <=> k.up
  BY <1>2, <1>5
<1> HIDE DEF w
<1> QED BY <1>1, <1>4, <1>6, <1>7, <1>8, Alone DEF k, w, full

LEMMA CloseStands ==
    ASSUME IInv, TalkInv, NEW e \in Ends, On_ConClose(e)
    PROVE  TalkInv'
<1> DEFINE k == con[e]
           c == KeyXReset([Noticed(e) EXCEPT !.login = FALSE, !.queue = <<>>])
           d == IF e = "client" THEN c ELSE Unused
<1>1. /\ con' = [con EXCEPT ![e] = d] /\ wire' = wire /\ link' = link /\ refused' = refused
      /\ policy' = policy
  BY DEF On_ConClose
<1>2. k \in Connections /\ k.notices # <<>> /\ Head(k.notices).what = "Close" /\ Quiet(Full, e, k)
  BY TalkNow DEF On_ConClose, Dispatches
<1>3. ~k.up
  <2> DEFINE n == k.notices
  <2>1. n \in Seq(Notices) /\ NoticesInv(k)
    BY TalkNow
  <2>2. Len(n) \in Nat /\ Len(n) > 0 /\ Head(n) = n[1]
    <3> HIDE DEF n
    <3> QED BY <1>2, <2>1, HeadTailProperties, LenProperties, EmptySeq DEF n
  <2>3. 1 \in 1 .. Len(n)
    BY <2>2
  <2> QED BY <1>2, <2>1, <2>2, <2>3 DEF NoticesInv
<1>4. ~link
  BY <1>3, TalkNow DEF Session, Ends
<1>5. ~d.up /\ Quiet(Full, e, d)
  <2>1. CASE e = "client"
    <3> DEFINE n == Noticed(e)
    <3>1. n \in Connections /\ n.notices = Tail(k.notices) /\ n.up = k.up /\ n.cypher = k.cypher
      BY <1>2, NoticedFields
    <3> HIDE DEF n
    <3>2. /\ c.notices = n.notices /\ c.queue = <<>> /\ c.up = n.up /\ c.cypher = n.cypher
      BY <3>1 DEF KeyXReset, Connections, n
    <3>3. ~Full => \A i \in 1 .. Len(n.notices) : n.notices[i].block = "absent"
      BY <1>2, NoticedQuiet DEF n
    <3> HIDE DEF c
    <3>4. Quiet(Full, e, c)
      BY <1>2, <1>3, <3>1, <3>2, <3>3, EmptyKeeps DEF Quiet
    <3> QED BY <1>3, <2>1, <3>1, <3>2, <3>4
  <2>2. CASE e # "client"
    <3>1. ~Unused.up /\ ~Unused.cypher /\ Unused.notices = <<>>
      BY DEF Unused
    <3>2. Quiet(Full, e, Unused)
      BY <2>2, <3>1 DEF Quiet
    <3> QED BY <2>2, <3>1, <3>2
  <2> QED BY <2>1, <2>2
<1> HIDE DEF d
<1>6. Session(Full)'
  BY <1>1, <1>4, <1>5, TalkNow, GoneStep
<1>7. ASSUME NEW f \in Ends PROVE Quiet(Full, f, con'[f])
  BY <1>1, <1>5, TalkNow
<1>8. Full' = Full
  BY <1>1 DEF Full
<1> QED BY <1>1, <1>6, <1>7, <1>8, TalkNow DEF TalkInv

LEMMA FailStands ==
    ASSUME IInv, TalkInv, NEW e \in Ends, ReceiveFails(e)
    PROVE  TalkInv'
BY TalkNow, Gone DEF ReceiveFails

LEMMA DeadlineStands ==
    ASSUME IInv, TalkInv, On_PITimer
    PROVE  TalkInv'
<1> DEFINE e == "server"
           d == [con[e] EXCEPT !.deadline = FALSE]
<1>1. Drops(e, d) /\ policy' = policy /\ refused' = refused /\ e \in Ends
  BY DEF On_PITimer, Ends
<1>2. con[e] \in Connections /\ Quiet(Full, e, con[e])
  BY TalkNow
<1>3. /\ d \in Connections /\ d.up = con[e].up /\ d.cypher = con[e].cypher
      /\ d.notices = con[e].notices /\ d.queue = con[e].queue
  BY <1>2 DEF Connections
<1> HIDE DEF d
<1>4. Quiet(Full, e, d)
  BY <1>2, <1>3 DEF Quiet
<1> QED BY <1>1, <1>3, <1>4, Gone

LEMMA OutsideStands ==
    ASSUME IInv, TalkInv, Vacated \/ Cut
    PROVE  TalkInv'
<1>1. /\ con' = con /\ wire' = wire /\ refused' = refused /\ policy' = policy
      /\ link' = link \/ ~link'
  BY DEF Vacated, Cut
<1>2. Full' = Full
  BY <1>1 DEF Full
<1>3. Session(Full)'
  <2>1. CASE link' = link
    BY <1>1, <1>2, <2>1 DEF TalkInv, Session
  <2>2. CASE ~link'
    <3>1. con' = [con EXCEPT !["client"] = con["client"]]
      BY <1>1, TalkNow
    <3> QED BY <1>1, <2>2, <3>1, TalkNow, GoneStep
  <2> QED BY <1>1, <2>1, <2>2
<1> QED BY <1>1, <1>2, <1>3 DEF TalkInv

LEMMA RestartStands ==
    ASSUME IInv, TalkInv, Restart
    PROVE  TalkInv'
<1> DEFINE k == con["client"]
           n == <<Notice("Connect", "absent")>>
           a == <<Notice("Accept", "absent")>>
           c == [k EXCEPT !.up = TRUE, !.bind = Aged(@), !.proven = Aged(@), !.notices = n]
           s == [Unused EXCEPT !.up = TRUE, !.deadline = TRUE, !.notices = a]
           full == Full
<1>1. /\ con' = [client |-> c, server |-> s] /\ link' = TRUE /\ wire' = [e \in Ends |-> <<>>]
      /\ refused' = refused /\ policy' = policy
      /\ ~k.up /\ k.notices = <<>>
  BY DEF Restart
<1>2. k \in Connections /\ Quiet(full, "client", k)
  BY TalkNow
<1>3. k.keyx = "none" /\ ~k.login /\ ~k.cypher /\ NoHandshake(k.queue)
  <2>1. FreshInv(k)
    BY DEF IInv, EndsGood, Good, Ends
  <2> QED BY <1>1, <1>2, <2>1 DEF FreshInv, Quiet
<1>4. con'["client"] = c /\ con'["server"] = s /\ wire'["client"] = <<>> /\ wire'["server"] = <<>>
  BY <1>1 DEF Ends
<1>5. /\ c.up /\ c.notices = n /\ c.keyx = "none" /\ ~c.login /\ ~c.cypher
      /\ NoHandshake(c.queue)
  <2>1. /\ c.up /\ c.notices = n /\ c.keyx = k.keyx /\ c.login = k.login /\ c.cypher = k.cypher
        /\ c.queue = k.queue
    BY <1>2 DEF Connections
  <2> HIDE DEF c, k
  <2> QED BY <1>3, <2>1
<1>6. /\ s.up /\ s.notices = a /\ s.keyx = "none" /\ ~s.login /\ ~s.cypher /\ ~s.nonce /\ ~s.acking
      /\ s.queue = <<>>
  BY DEF Unused
<1> HIDE DEF c, s, k, n, a, full
<1>7. At(full, "client", 1, c, <<>>)
  <2>1. ClientIs(full, 1, c) /\ ClientOwes(full, 1, c.notices)
    BY <1>5 DEF ClientIs, ClientOwes, n
  <2>2. ClientPosted(full, 1, c.queue) /\ ToClient(full, 1, <<>>)
    BY <1>5, EmptyKeeps DEF ClientPosted, ToClient
  <2> QED BY <2>1, <2>2 DEF At
<1>8. At(full, "server", 1, s, <<>>)
  <2>1. ServerIs(full, 1, s) /\ ServerOwes(full, 1, s.notices)
    BY <1>6 DEF ServerIs, ServerOwes, a
  <2>2. ServerPosted(full, 1, s.queue) /\ ToServer(full, 1, <<>>)
    BY <1>6 DEF ServerPosted, ToServer
  <2> QED BY <2>1, <2>2 DEF At
<1>9. 1 \in Stages(full)
  BY DEF Stages
<1>10. Full' = Full
  BY <1>1 DEF Full
<1>11. Session(Full)'
  BY <1>1, <1>4, <1>5, <1>6, <1>7, <1>8, <1>9, <1>10 DEF Session, full
<1>12. Quiet(full, "client", c) /\ Quiet(full, "server", s)
  BY <1>5, <1>6, <1>7, <1>8, <1>9, QuietAt DEF Ends
<1>13. \A e \in Ends : Quiet(Full, e, con'[e])
  BY <1>4, <1>12 DEF Ends, full
<1> QED BY TalkNow, <1>1, <1>10, <1>11, <1>13 DEF TalkInv

\* What an application posts waits behind the handshakes, wherever the session is.
LEMMA PostStands ==
    ASSUME IInv, TalkInv, NEW e \in Ends, PostP2PeerMsg(e)
    PROVE  TalkInv'
<1> DEFINE k == con[e]
           m == Msg("App", "absent")
           d == Posted(k, m)
           full == Full
           w == wire[e]
<1>1. /\ con' = [con EXCEPT ![e] = d] /\ wire' = wire /\ wire' = [wire EXCEPT ![e] = w]
      /\ policy' = policy /\ link' = link /\ refused' = refused
      /\ e = "server" => k.login
  BY TalkNow DEF PostP2PeerMsg
<1>2. k \in Connections /\ k.queue \in Seq(Messages) /\ Quiet(full, e, k)
  BY TalkNow
<1>3. m \in Messages /\ ~IsHandshake(m)
  BY MessagesKnown DEF Kinds, IsHandshake
<1> HIDE DEF m
<1>4. /\ d.queue = Append(k.queue, m) /\ d.notices = k.notices
      /\ d.up = k.up /\ d.login = k.login /\ d.hold = k.hold
      /\ d.keyx = k.keyx /\ d.bind = k.bind /\ d.cypher = k.cypher /\ d.nonce = k.nonce
      /\ d.acking = k.acking
  BY <1>2, <1>3, PostedFields
<1> HIDE DEF d, k
<1>5. NoHandshake(k.queue) => NoHandshake(d.queue)
  BY <1>2, <1>3, <1>4, AppendKeeps
<1>6. \A x : /\ OneHandshake(k.queue, x) => OneHandshake(d.queue, x)
             /\ FirstHandshake(k.queue, x) => FirstHandshake(d.queue, x)
  BY <1>2, <1>3, <1>4, AppendKeeps
<1>7. Quiet(full, e, d)
  BY <1>2, <1>4, <1>5 DEF Quiet
<1>8. ASSUME NEW p \in Stages(full), At(full, e, p, k, w) PROVE At(full, e, p, d, w)
  <2>1. CASE e = "client"
    BY <1>4, <1>5, <1>6, <1>8, <2>1 DEF At, ClientIs, ClientPosted
  <2>2. CASE e = "server"
    <3>1. p \in 9 .. 13
      BY <1>1, <1>8, <2>2 DEF At, ServerIs, Stages
    <3>2. ServerIs(full, p, d)
      BY <1>4, <1>8, <2>2 DEF At, ServerIs
    <3>3. ServerPosted(full, p, d.queue)
      BY <1>5, <1>6, <1>8, <2>2, <3>1 DEF At, ServerPosted
    <3> QED BY <1>4, <1>8, <2>2, <3>2, <3>3 DEF At
  <2> QED BY <2>1, <2>2 DEF Ends
<1>9. ASSUME NEW p \in Stages(full), con[e].up, At(full, e, p, con[e], w)
      PROVE  \E r \in Stages(full) : Onward(full, e, p, r) /\ At(full, e, r, d, w)
  BY <1>8, <1>9 DEF k, Onward
<1>10. (d.up <=> con[e].up) /\ (~d.up => Quiet(full, e, d))
  BY <1>4, <1>7 DEF k
<1> HIDE DEF w
<1> QED BY <1>1, <1>9, <1>10, Alone DEF w, full

LEMMA FetchedFields ==
    ASSUME NEW k \in Connections, NEW i \in 1 .. Len(k.queue)
    PROVE  LET d == Fetched(k, i) IN
           /\ d \in Connections /\ d.queue = RemoveAt(k.queue, i) /\ d.notices = k.notices
           /\ d.up = k.up /\ d.login = k.login /\ d.hold = k.hold
           /\ d.keyx = k.keyx /\ d.bind = k.bind /\ d.cypher = k.cypher /\ d.nonce = k.nonce
           /\ d.acking = k.acking
<1> DEFINE r == RemoveAt(k.queue, i)
<1>1. r \in Seq(Messages)
  <2>1. k.queue \in Seq(Messages)
    BY DEF Connections
  <2>2. \A s \in Seq(Messages) : \A j \in 1 .. Len(s) : RemoveAt(s, j) \in Seq(Messages)
    BY RemoveEntries
  <2> QED BY <2>1, <2>2
<1>2. Fetched(k, i) = [k EXCEPT !.queue = r]
  BY DEF Fetched
<1> HIDE DEF r
<1>3. LET d == [k EXCEPT !.queue = r] IN
      /\ d \in Connections /\ d.queue = r /\ d.notices = k.notices
      /\ d.up = k.up /\ d.login = k.login /\ d.hold = k.hold
      /\ d.keyx = k.keyx /\ d.bind = k.bind /\ d.cypher = k.cypher /\ d.nonce = k.nonce
      /\ d.acking = k.acking
  BY <1>1 DEF Connections
<1> QED BY <1>2, <1>3 DEF r

\* The agreement travels in the clear, and everything else under the cypher that is there.
LEMMA Travels ==
    ASSUME NEW k \in Connections, NEW full \in BOOLEAN
    PROVE  /\ OnWire(k, Msg("KeyX", "absent")) = Msg("KeyX", "absent")
           /\ OnWire(k, Msg("KeyXAck", "absent")) = Msg("KeyXAck", "absent")
           /\ (k.cypher <=> full) =>
                 \A kind \in {"Login", "LoginAck"} :
                    OnWire(k, Msg(kind, Block(full))) = OnItsWay(kind, full)
           /\ \A m \in Messages : /\ OnWire(k, m) \in Messages
                                  /\ (IsHandshake(OnWire(k, m)) <=> IsHandshake(m))
                                  /\ ~IsHandshake(m) => (OnWire(k, m).sealed <=> k.cypher)
<1>1. k.cypher \in BOOLEAN
  BY DEF Connections
<1>2. /\ OnWire(k, Msg("KeyX", "absent")) = Msg("KeyX", "absent")
      /\ OnWire(k, Msg("KeyXAck", "absent")) = Msg("KeyXAck", "absent")
  <2>1. ASSUME NEW kind \in {"KeyX", "KeyXAck"}
        PROVE  OnWire(k, Msg(kind, "absent")) = Msg(kind, "absent")
    <3> DEFINE m == Msg(kind, "absent")
               b == k.cypher /\ m.kind \notin {"KeyX", "KeyXAck"}
    <3>1. m.kind = kind
      BY DEF Msg
    <3>2. b = FALSE
      BY <3>1
    <3>3. OnWire(k, m) = [m EXCEPT !.sealed = b]
      BY DEF OnWire
    <3>4. OnWire(k, m) = [m EXCEPT !.sealed = FALSE]
      BY <3>2, <3>3
    <3> QED BY <3>4 DEF Msg
  <2> QED BY <2>1
<1>3. ASSUME k.cypher <=> full, NEW kind \in {"Login", "LoginAck"}
      PROVE  OnWire(k, Msg(kind, Block(full))) = OnItsWay(kind, full)
  <2>1. k.cypher = full
    BY <1>1, <1>3
  <2>2. (k.cypher /\ kind \notin {"KeyX", "KeyXAck"}) = full
    BY <1>3, <2>1
  <2> QED BY <2>2 DEF OnWire, Msg, OnItsWay
<1>4. ASSUME NEW m \in Messages
      PROVE  /\ OnWire(k, m) \in Messages /\ (IsHandshake(OnWire(k, m)) <=> IsHandshake(m))
             /\ ~IsHandshake(m) => (OnWire(k, m).sealed <=> k.cypher)
  BY <1>1 DEF OnWire, Messages, IsHandshake
<1> QED BY <1>2, <1>3, <1>4

\* Both ends at one stage.
LEMMA TogetherAt ==
    ASSUME policy' = policy, ~refused', con'["client"].up, con'["server"].up,
           NEW r \in Stages(Full),
           At(Full, "client", r, con'["client"], wire'["client"]),
           At(Full, "server", r, con'["server"], wire'["server"])
    PROVE  TalkInv'
<1>1. Full' = Full
  BY DEF Full
<1>2. Session(Full)'
  BY <1>1 DEF Session
<1>3. Quiet(Full, "client", con'["client"]) /\ Quiet(Full, "server", con'["server"])
  BY QuietAt DEF Ends
<1>4. \A e \in Ends : Quiet(Full, e, con'[e])
  BY <1>3 DEF Ends
<1> QED BY <1>1, <1>2, <1>4 DEF TalkInv

LEMMA ClientSends ==
    ASSUME NEW p \in Stages(Full), NEW k \in Connections, NEW w,
           At(Full, "client", p, k, w),
           NEW s, NEW u \in Seq(Messages), At(Full, "server", p, s, u),
           NEW i \in 1 .. Len(k.queue), ~k.login => IsHandshake(k.queue[i])
    PROVE  \E r \in Stages(Full) :
              /\ At(Full, "client", r, Fetched(k, i), w)
              /\ At(Full, "server", r, s, Append(u, OnWire(k, k.queue[i])))
<1> DEFINE full == Full
           m == k.queue[i]
           d == Fetched(k, i)
           x == OnWire(k, m)
           v == Append(u, x)
<1>1. /\ ClientIs(full, p, k) /\ ClientOwes(full, p, k.notices)
      /\ ClientPosted(full, p, k.queue) /\ ToClient(full, p, w) /\ p \in 1 .. 13
      /\ ServerIs(full, p, s) /\ ServerOwes(full, p, s.notices)
      /\ ServerPosted(full, p, s.queue) /\ ToServer(full, p, u)
  BY DEF At, Stages
<1>2. k.queue \in Seq(Messages) /\ m \in Messages /\ x \in Messages
  <2>1. k.queue \in Seq(Messages)
    BY DEF Connections
  <2>2. m \in Messages
    BY <2>1, ElementOfSeq, LenProperties
  <2> QED BY <2>1, <2>2, Travels, MessagesKnown
<1>3. /\ d.queue = RemoveAt(k.queue, i) /\ d.notices = k.notices
      /\ d.login = k.login /\ d.hold = k.hold
      /\ d.keyx = k.keyx /\ d.bind = k.bind /\ d.cypher = k.cypher /\ d.nonce = k.nonce
  BY FetchedFields
<1>4. full \in BOOLEAN /\ Block(full) \in AuthBlocks
  BY MessagesKnown
<1>5. p \in {2, 6, 13}
  <2>1. NoHandshake(k.queue) => ~IsHandshake(m)
    BY DEF NoHandshake
  <2> QED BY <1>1, <2>1 DEF ClientIs, ClientPosted
<1>6. \A y : OneHandshake(k.queue, y) /\ IsHandshake(m) => m = y /\ NoHandshake(d.queue)
  BY <1>2, <1>3, RemoveKeeps
<1>7. u = <<>> => v = <<x>>
  BY <1>2, AppendKeeps
<1> HIDE DEF d, m, full, v
<1>8. CASE p = 2
  <2>1. ~k.login /\ IsHandshake(m)
    BY <1>1, <1>8 DEF ClientIs, m
  <2>2. m = Msg("KeyX", "absent") /\ NoHandshake(d.queue) /\ u = <<>>
    BY <1>1, <1>6, <1>8, <2>1 DEF ClientPosted, ToServer
  <2>3. x = Msg("KeyX", "absent")
    BY <1>4, <2>2, Travels
  <2> HIDE DEF x
  <2>4. full
    BY <1>8 DEF Stages, full
  <2>5. ClientIs(full, 3, d) /\ ClientOwes(full, 3, d.notices)
    BY <1>1, <1>3, <1>8 DEF ClientIs, ClientOwes
  <2>6. ClientPosted(full, 3, d.queue) /\ ToClient(full, 3, w)
    BY <1>1, <1>8, <2>2 DEF ClientPosted, ToClient
  <2>7. ServerIs(full, 3, s) /\ ServerOwes(full, 3, s.notices)
    BY <1>1, <1>8 DEF ServerIs, ServerOwes
  <2>8. ServerPosted(full, 3, s.queue) /\ ToServer(full, 3, v)
    BY <1>1, <1>7, <1>8, <2>2, <2>3 DEF ServerPosted, ToServer
  <2>9. 3 \in Stages(full)
    BY <2>4 DEF Stages
  <2> QED BY <2>5, <2>6, <2>7, <2>8, <2>9 DEF At, d, m, v, x, full
<1>9. CASE p = 6
  <2>1. ~k.login /\ IsHandshake(m) /\ (k.cypher <=> full)
    BY <1>1, <1>9 DEF ClientIs, m
  <2>2. m = Msg("Login", Block(full)) /\ NoHandshake(d.queue) /\ u = <<>>
    BY <1>1, <1>6, <1>9, <2>1 DEF ClientPosted, ToServer
  <2>3. x = OnItsWay("Login", full)
    BY <1>4, <2>1, <2>2, Travels
  <2> HIDE DEF x
  <2>4. ClientIs(full, 7, d) /\ ClientOwes(full, 7, d.notices)
    BY <1>1, <1>3, <1>9 DEF ClientIs, ClientOwes
  <2>5. ClientPosted(full, 7, d.queue) /\ ToClient(full, 7, w)
    BY <1>1, <1>9, <2>2 DEF ClientPosted, ToClient
  <2>6. ServerIs(full, 7, s) /\ ServerOwes(full, 7, s.notices)
    BY <1>1, <1>9 DEF ServerIs, ServerOwes
  <2>7. ServerPosted(full, 7, s.queue) /\ ToServer(full, 7, v)
    BY <1>1, <1>7, <1>9, <2>2, <2>3 DEF ServerPosted, ToServer
  <2>8. 7 \in Stages(full)
    BY DEF Stages
  <2> QED BY <2>4, <2>5, <2>6, <2>7, <2>8 DEF At, d, m, v, x, full
<1>10. CASE p = 13
  <2>1. NoHandshake(k.queue) /\ NoHandshake(u) /\ Sealed(full, u) /\ (full => k.cypher)
    BY <1>1, <1>10 DEF ClientIs, ClientPosted, ToServer
  <2>2. NoHandshake(d.queue) /\ ~IsHandshake(m)
    BY <1>2, <1>3, <2>1, RemoveKeeps DEF m
  <2>3. ~IsHandshake(x) /\ (full => x.sealed)
    BY <1>2, <1>4, <2>1, <2>2, Travels
  <2>4. NoHandshake(v) /\ Sealed(full, v)
    BY <1>2, <2>1, <2>3, AppendKeeps DEF v
  <2> HIDE DEF x
  <2>5. ClientIs(full, 13, d) /\ ClientOwes(full, 13, d.notices)
    BY <1>1, <1>3, <1>10 DEF ClientIs, ClientOwes
  <2>6. ClientPosted(full, 13, d.queue) /\ ToClient(full, 13, w)
    BY <1>1, <1>10, <2>2 DEF ClientPosted, ToClient
  <2>7. ServerIs(full, 13, s) /\ ServerOwes(full, 13, s.notices) /\ ServerPosted(full, 13, s.queue)
    BY <1>1, <1>10
  <2>8. ToServer(full, 13, v)
    BY <2>4 DEF ToServer
  <2>9. 13 \in Stages(full)
    BY DEF Stages
  <2> QED BY <2>5, <2>6, <2>7, <2>8, <2>9 DEF At, d, m, v, x, full
<1> QED BY <1>5, <1>8, <1>9, <1>10

LEMMA ServerSends ==
    ASSUME NEW p \in Stages(Full), NEW k \in Connections, NEW w,
           At(Full, "server", p, k, w),
           NEW s, NEW u \in Seq(Messages), At(Full, "client", p, s, u), ~k.acking,
           NEW i \in 1 .. Len(k.queue), \A j \in 1 .. Len(k.queue) : i <= j
    PROVE  \E r \in Stages(Full) :
              /\ At(Full, "server", r, Fetched(k, i), w)
              /\ At(Full, "client", r, s, Append(u, OnWire(k, k.queue[i])))
<1> DEFINE full == Full
           m == k.queue[i]
           d == Fetched(k, i)
           x == OnWire(k, m)
           v == Append(u, x)
<1>1. /\ ServerIs(full, p, k) /\ ServerOwes(full, p, k.notices)
      /\ ServerPosted(full, p, k.queue) /\ ToServer(full, p, w) /\ p \in 1 .. 13
      /\ ClientIs(full, p, s) /\ ClientOwes(full, p, s.notices)
      /\ ClientPosted(full, p, s.queue) /\ ToClient(full, p, u)
  BY DEF At, Stages
<1>2. k.queue \in Seq(Messages) /\ m \in Messages /\ x \in Messages
  <2>1. k.queue \in Seq(Messages)
    BY DEF Connections
  <2>2. m \in Messages
    BY <2>1, ElementOfSeq, LenProperties
  <2> QED BY <2>1, <2>2, Travels, MessagesKnown
<1>3. /\ d.queue = RemoveAt(k.queue, i) /\ d.notices = k.notices
      /\ d.login = k.login /\ d.acking = k.acking
      /\ d.keyx = k.keyx /\ d.bind = k.bind /\ d.cypher = k.cypher /\ d.nonce = k.nonce
  BY FetchedFields
<1>4. full \in BOOLEAN /\ Block(full) \in AuthBlocks
  BY MessagesKnown
<1>5. p \in {4, 10, 11, 12, 13}
  <2>1. k.queue # <<>>
    OBVIOUS
  <2> QED BY <1>1, <2>1 DEF ServerIs, ServerPosted
<1>6. \A y : k.queue = <<y>> => m = y /\ d.queue = <<>>
  <2>1. ASSUME NEW t \in Seq(Messages), NEW j \in 1 .. Len(t), NEW y, t = <<y>>
        PROVE  t[j] = y /\ RemoveAt(t, j) = <<>>
    BY <2>1, RemoveKeeps
  <2> DEFINE t == k.queue
  <2>2. t \in Seq(Messages) /\ i \in 1 .. Len(t) /\ m = t[i] /\ d.queue = RemoveAt(t, i)
    BY <1>2, <1>3
  <2> HIDE DEF t, m, d
  <2>3. \A y : t = <<y>> => m = y /\ d.queue = <<>>
    BY <2>1, <2>2
  <2> QED BY <2>3 DEF t
<1>7. \A y : FirstHandshake(k.queue, y) => m = y /\ NoHandshake(d.queue)
  <2>1. i = 1
    <3>1. Len(k.queue) \in Nat /\ 1 \in 1 .. Len(k.queue)
      BY <1>2, LenProperties
    <3> QED BY <3>1
  <2> QED BY <1>2, <1>3, <2>1, RemoveKeeps
<1>8. u = <<>> => v = <<x>>
  BY <1>2, AppendKeeps
<1> HIDE DEF d, m, full, v
<1>9. CASE p = 4
  <2>1. m = Msg("KeyXAck", "absent") /\ d.queue = <<>> /\ u = <<>>
    BY <1>1, <1>6, <1>9 DEF ServerPosted, ToClient
  <2>2. x = Msg("KeyXAck", "absent")
    BY <1>4, <2>1, Travels
  <2>3. v = <<Msg("KeyXAck", "absent")>> /\ Sealed(full, v)
    <3>1. IsHandshake(x)
      BY <1>2, <2>2, MessagesKnown DEF IsHandshake, Kinds
    <3>2. Sealed(full, v)
      BY <1>1, <1>2, <3>1, AppendKeeps DEF ToClient, v
    <3> QED BY <1>8, <2>1, <2>2, <3>2
  <2> HIDE DEF x
  <2>4. full
    BY <1>9 DEF Stages, full
  <2>5. ServerIs(full, 5, d) /\ ServerOwes(full, 5, d.notices)
    BY <1>1, <1>3, <1>9 DEF ServerIs, ServerOwes
  <2>6. ServerPosted(full, 5, d.queue) /\ ToServer(full, 5, w)
    BY <1>1, <1>9, <2>1 DEF ServerPosted, ToServer
  <2>7. ClientIs(full, 5, s) /\ ClientOwes(full, 5, s.notices)
    BY <1>1, <1>9 DEF ClientIs, ClientOwes
  <2>8. ClientPosted(full, 5, s.queue) /\ ToClient(full, 5, v)
    BY <1>1, <1>9, <2>3 DEF ClientPosted, ToClient
  <2>9. 5 \in Stages(full)
    BY <2>4 DEF Stages
  <2> QED BY <2>5, <2>6, <2>7, <2>8, <2>9 DEF At, d, m, v, x, full
<1>10. CASE p = 10
  <2>1. m = Msg("LoginAck", Block(full)) /\ NoHandshake(d.queue) /\ u = <<>> /\ (k.cypher <=> full)
    BY <1>1, <1>7, <1>10 DEF ServerIs, ServerPosted, ToClient
  <2> DEFINE a == OnItsWay("LoginAck", full)
  <2>2. x = a
    BY <1>4, <2>1, Travels
  <2>3. IsHandshake(a)
    BY <1>4, MessagesKnown DEF IsHandshake, Kinds
  <2> HIDE DEF a
  <2>4. v = <<a>> /\ Sealed(full, v)
    <3>1. Sealed(full, v)
      BY <1>1, <1>2, <2>2, <2>3, AppendKeeps DEF ToClient, v
    <3> QED BY <1>8, <2>1, <2>2, <3>1
  <2>5. FirstHandshake(v, a)
    <3>1. Len(<<a>>) = 1 /\ <<a>>[1] = a
      OBVIOUS
    <3> QED BY <2>4, <3>1 DEF FirstHandshake
  <2> HIDE DEF x
  <2>6. ServerIs(full, 11, d) /\ ServerOwes(full, 11, d.notices)
    BY <1>1, <1>3, <1>10 DEF ServerIs, ServerOwes
  <2>7. ServerPosted(full, 11, d.queue) /\ ToServer(full, 11, w)
    BY <1>1, <1>10, <2>1 DEF ServerPosted, ToServer
  <2>8. ClientIs(full, 11, s) /\ ClientOwes(full, 11, s.notices)
    BY <1>1, <1>10 DEF ClientIs, ClientOwes
  <2>9. ClientPosted(full, 11, s.queue) /\ ToClient(full, 11, v)
    BY <1>1, <1>10, <2>4, <2>5 DEF ClientPosted, ToClient, a
  <2>10. 11 \in Stages(full)
    BY DEF Stages
  <2> QED BY <2>6, <2>7, <2>8, <2>9, <2>10 DEF At, d, m, v, x, full
<1>11. CASE p \in {11, 12, 13}
  <2>1. NoHandshake(k.queue) /\ Sealed(full, u) /\ (full => k.cypher)
    BY <1>1, <1>11 DEF ServerIs, ServerPosted, ToClient
  <2>2. NoHandshake(d.queue) /\ ~IsHandshake(m)
    BY <1>2, <1>3, <2>1, RemoveKeeps DEF m
  <2>3. ~IsHandshake(x) /\ (full => x.sealed)
    BY <1>2, <1>4, <2>1, <2>2, Travels
  <2>4. /\ Sealed(full, v)
        /\ NoHandshake(u) => NoHandshake(v)
        /\ \A y : FirstHandshake(u, y) => FirstHandshake(v, y)
    BY <1>2, <2>1, <2>3, AppendKeeps DEF v
  <2> HIDE DEF x
  <2>5. ServerIs(full, p, d) /\ ServerOwes(full, p, d.notices)
    BY <1>1, <1>3 DEF ServerIs, ServerOwes
  <2>6. ServerPosted(full, p, d.queue) /\ ToServer(full, p, w)
    BY <1>1, <1>11, <2>2 DEF ServerPosted
  <2>7. ToClient(full, p, v)
    BY <1>1, <1>11, <2>4 DEF ToClient
  <2> QED BY <1>1, <2>5, <2>6, <2>7 DEF At, d, m, v, x, full
<1> QED BY <1>5, <1>9, <1>10, <1>11

LEMMA SendStands ==
    ASSUME IInv, ~apart, TalkInv, NEW e \in Ends, Send(e)
    PROVE  TalkInv'
<1> DEFINE k == con[e]
           o == Other(e)
<1>1. PICK i \in Sendable(e) :
        IF link
        THEN /\ con' = [con EXCEPT ![e] = Fetched(@, i)]
             /\ wire' = [wire EXCEPT ![Other(e)] = Append(@, OnWire(con[e], con[e].queue[i]))]
             /\ UNCHANGED link
        ELSE Drops(e, Fetched(con[e], i))
  BY DEF Send
<1>2. /\ k.up /\ ~k.acking /\ policy' = policy /\ refused' = refused
      /\ k \in Connections /\ Quiet(Full, e, k) /\ ~refused
  BY TalkNow DEF Send
<1>3. /\ i \in 1 .. Len(k.queue)
      /\ e = "client" /\ ~k.login => IsHandshake(k.queue[i])
      /\ e = "server" => \A j \in 1 .. Len(k.queue) : i <= j
  BY DEF Sendable
<1>4. /\ Fetched(k, i) \in Connections /\ Fetched(k, i).notices = k.notices
      /\ Fetched(k, i).up = k.up
  BY <1>2, <1>3, FetchedFields
<1>5. CASE ~link
  <2>1. Quiet(Full, e, Fetched(k, i))
    BY <1>2, <1>4 DEF Quiet
  <2>2. Drops(e, Fetched(k, i))
    BY <1>1, <1>5
  <2> QED BY <1>2, <1>4, <2>1, <2>2, Gone
<1>6. CASE link
  <2> DEFINE d == Fetched(k, i)
             v == Append(wire[o], OnWire(k, k.queue[i]))
  <2>1. PICK p \in Stages(Full) :
          /\ con["client"].up /\ At(Full, "client", p, con["client"], wire["client"])
          /\ con["server"].up /\ At(Full, "server", p, con["server"], wire["server"])
    BY <1>6, TalkNow DEF Session
  <2>2. con' = [con EXCEPT ![e] = d] /\ wire' = [wire EXCEPT ![o] = v]
    BY <1>1, <1>6
  <2>3. CASE e = "client"
    <3>1. o = "server" /\ wire["server"] \in Seq(Messages)
      BY <2>3, TalkNow DEF Other
    <3>2. PICK r \in Stages(Full) :
            At(Full, "client", r, d, wire["client"]) /\ At(Full, "server", r, con["server"], v)
      BY <1>2, <1>3, <2>1, <2>3, <3>1, ClientSends
    <3> HIDE DEF d, v, o
    <3>3. /\ con'["client"] = d /\ con'["server"] = con["server"]
          /\ wire'["server"] = v /\ wire'["client"] = wire["client"]
      BY <2>2, <2>3, <3>1, TalkNow
    <3>4. d.up
      BY <1>2, <1>4 DEF d
    <3> QED BY <1>2, <2>1, <3>2, <3>3, <3>4, TogetherAt
  <2>4. CASE e = "server"
    <3>1. o = "client" /\ wire["client"] \in Seq(Messages)
      BY <2>4, TalkNow DEF Other
    <3>2. PICK r \in Stages(Full) :
            At(Full, "server", r, d, wire["server"]) /\ At(Full, "client", r, con["client"], v)
      BY <1>2, <1>3, <2>1, <2>4, <3>1, ServerSends
    <3> HIDE DEF d, v, o
    <3>3. /\ con'["server"] = d /\ con'["client"] = con["client"]
          /\ wire'["client"] = v /\ wire'["server"] = wire["server"]
      BY <2>2, <2>4, <3>1, TalkNow
    <3>4. d.up
      BY <1>2, <1>4 DEF d
    <3> QED BY <1>2, <2>1, <3>2, <3>3, <3>4, TogetherAt
  <2> QED BY <2>3, <2>4 DEF Ends
<1> QED BY <1>5, <1>6

LEMMA InitStands == Init => StandInv
<1> SUFFICES ASSUME Init PROVE TalkInv
  BY DEF StandInv
<1>1. /\ con["client"] = Unused /\ con["server"] = Unused /\ ~link /\ ~refused
      /\ \A e \in Ends : con[e] = Unused
  BY DEF Init, Ends
<1>2. ~Unused.up /\ ~Unused.cypher /\ Unused.notices = <<>> /\ Unused.queue = <<>>
  BY DEF Unused
<1>3. \A e \in Ends : Quiet(Full, e, Unused)
  BY <1>2, EmptyKeeps DEF Quiet
<1>4. 1 \in Stages(Full)
  BY DEF Stages
<1>5. Session(Full)
  BY <1>1, <1>2, <1>4 DEF Session
<1> QED BY <1>1, <1>3, <1>5 DEF TalkInv

LEMMA NextStands == IInv /\ StandInv /\ [Next]_vars => StandInv'
<1> SUFFICES ASSUME IInv, StandInv, [Next]_vars, Compatible', ~apart' PROVE TalkInv'
  BY DEF StandInv
<1>1. policy' = policy /\ apart' = apart
  BY DEF vars, Next, Pump, Loop, On_ConAccept, On_ConConnect, On_ConLogin, LoginAck,
         On_ConLoginAck, Restart, Vacated, On_PITimer, Cut, Receive, Park, AwaitMore, Read,
         ReceiveFails, Send, On_ConClose, PostP2PeerMsg
<1>2. Compatible /\ ~apart
  BY <1>1 DEF Compatible
<1>3. TalkInv
  BY <1>2 DEF StandInv
<1>4. CASE Pump
  BY <1>2, <1>3, <1>4, AcceptStands, ConnectStands, LoginStands, LoginAckStands,
     OnLoginAckStands DEF Pump
<1>5. CASE Restart \/ Vacated \/ Cut \/ On_PITimer
  BY <1>3, <1>5, RestartStands, OutsideStands, DeadlineStands
<1>6. ASSUME NEW e \in Ends, Loop(e) PROVE TalkInv'
  BY <1>2, <1>3, <1>6, LoopStands, ReadStands, FailStands DEF Loop
<1>7. ASSUME NEW e \in Ends, Send(e) \/ On_ConClose(e) \/ PostP2PeerMsg(e) PROVE TalkInv'
  BY <1>2, <1>3, <1>7, SendStands, CloseStands, PostStands
<1>8. CASE UNCHANGED vars
  BY <1>3, <1>8 DEF vars, TalkInv, Session, Full
<1> QED BY <1>4, <1>5, <1>6, <1>7, <1>8 DEF Next

\* Between hubs whose settings agree, with pumps on the threads that serve completions, no
\* end ever refuses what the other sent it, whatever is cut, timed out, dialled again or
\* posted at any point of the exchange.
THEOREM SessionsAgree == Spec => []SessionsStand
<1>1. Init => IInv /\ StandInv
  BY InitIInv, InitStands
<1>2. (IInv /\ StandInv) /\ [Next]_vars => (IInv /\ StandInv)'
  BY NextKeeps, NextStands
<1>3. IInv /\ StandInv => SessionsStand
  BY DEF StandInv, TalkInv, SessionsStand
<1> QED BY <1>1, <1>2, <1>3, PTL DEF Spec
===============================================================================
