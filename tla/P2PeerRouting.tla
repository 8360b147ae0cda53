---------------------------- MODULE P2PeerRouting ----------------------------
(***************************************************************************)
(* How a message finds its hub (src/P2PeerHub.cpp RouteP2PeerMsg, the      *)
(* dispatch in src/P2Pwin32.cpp, the gate and the VNet mount in            *)
(* src/P2PeerCon.cpp).  A hub knows its own address and the addresses its  *)
(* connections logged in with, and nothing else: no tables, no TTL.  It    *)
(* takes the first connection, in the order they were posted, that leads   *)
(* down towards the destination or up and away.  What it cannot place it   *)
(* reports to the source, and the source itself is found the same way.     *)
(*                                                                         *)
(* An address is the sequence of its hops; a hop is <<boundary, name>>,    *)
(* the boundary '.' inside a network and ':' in front of an address inside *)
(* the network mounted there.                                              *)
(***************************************************************************)
EXTENDS Integers, Sequences, FiniteSets, SequencesExt

CONSTANTS
    Hubs,           \* the addresses of the hubs, one name space per network
    Links,          \* [dials, accepts, mount, nth]: the nth session of two hubs
    Up,             \* the sessions that stand at the start
    Mail,           \* what applications may post: [kind, src, dst]
    Closed,         \* the mail sealed to a key that no mount's hub holds
    Mute,           \* the hubs without a handler for an App message
    RelayAuth,      \* RequireRelayAuth() on every hub
    MaxPosts,       \* bound: messages posted
    MaxDrops        \* bound: ends that fail, and redials that do

Dot == "."
Colon == ":"
NoAddr == <<>>

Hop  == {Dot, Colon} \X STRING
Addr == {a \in Seq(Hop) \ {NoAddr} : a[1][1] = Dot}

\* The places where an address passes into a mounted network.
Colons(a)  == {i \in 2 .. Len(a) : a[i][1] = Colon}
HasVNet(a) == Colons(a) # {}

ASSUME HubsAssumption == \A h \in Hubs : h \in Addr /\ ~HasVNet(h)
ASSUME LinksAssumption ==
    /\ IsFiniteSet(Links) /\ Up \subseteq Links
    /\ \A l \in Links : /\ l.dials \in Hubs /\ l.accepts \in Hubs
                       /\ l.dials # l.accepts /\ l.mount \in BOOLEAN
ASSUME MailAssumption ==
    /\ \A id \in Mail : /\ id.kind \in {"App", "Ask", "BCast", "UCast"}
                        /\ id.src \in Hubs /\ id.dst \in Addr
    /\ Closed \subseteq Mail
ASSUME BoundsAssumption == MaxPosts \in Nat /\ MaxDrops \in Nat

VARIABLES
    cons,           \* m_oCListP2PmsgCon of each hub
    down,           \* the links whose dialler has closed and not yet redialled
    wire,           \* wire[l][h]: queued or sent by h on l and not yet read
    pend,           \* pend[l]: queued in the dialler's connection since it closed
    pump,           \* the FIFO of each hub's pump
    posted,         \* history: the mail applications have posted
    ends,           \* history: what became of each, and where
    reports,        \* history: the exceptions raised about each
    refused,        \* history: the kinds of message a gate refused
    drops           \* the failures so far

vars == <<cons, down, wire, pend, pump, posted, ends, reports, refused, drops>>

-----------------------------------------------------------------------------
(* Addresses (src/P2Peer.cpp).                                             *)

\* A prefix that ends at a boundary; an address covers itself.
IsRable(a, d) == IsPrefix(a, d)

\* The header says direct child; the code takes every descendant.
IsChild(a, d) == IsStrictPrefix(a, d)

FirstColon(a)  == CHOOSE i \in Colons(a) : \A j \in Colons(a) : i <= j
GetVNet(a)     == SubSeq(a, 1, FirstColon(a) - 1)
Bounded(b, a)  == <<<<b, a[1][2]>>>> \o Tail(a)
Inside(a, i)   == Bounded(Dot, SubSeq(a, i, Len(a)))
GetVNetAddr(a) == Inside(a, FirstColon(a))

\* p:s, and h:x without its qualifier.
VNetWireSrc(p, s) == p \o Bounded(Colon, s)
VNetWireDst(h, d) == IF HasVNet(d) /\ GetVNet(d) = h THEN GetVNetAddr(d) ELSE d

-----------------------------------------------------------------------------
(* Connections.                                                            *)

Ends(l)    == {l.dials, l.accepts}
Peer(l, h) == IF h = l.dials THEN l.accepts ELSE l.dials

\* A dialler's connection that is down keeps its place in the list.
Listed(h, l) == l \in ToSet(cons[h])
Open(h, l)   == Listed(h, l) /\ ~(h = l.dials /\ l \in down)

\* The address a connection logged in with; a mount names the peer's network.
ConAddr(l, h) == IF l.mount THEN VNetWireSrc(h, Peer(l, h)) ELSE Peer(l, h)

\* The destination is in a network mounted at this hub.
DstMounted(h, d) == HasVNet(d) /\ GetVNet(d) = h

\* Up without asking whether the destination lies below.
TakesUp(h, l, d) ==
    LET c == ConAddr(l, h) IN c = d \/ (IsChild(h, c) /\ IsRable(c, d)) \/ IsChild(c, h)

\* The tests of the first pass, for one connection.
Takes(h, l, d) ==
    LET c == ConAddr(l, h)
    IN IF l.mount THEN DstMounted(h, d) /\ IsRable(c, d)
       ELSE \/ c = d
            \/ IsChild(h, c) /\ IsRable(c, d)
            \/ IsChild(c, h) /\ ~IsRable(h, d)

\* The candidates of the first pass and, failing those, any mount.
FirstPass(h, d)  == {i \in DOMAIN cons[h] : Takes(h, cons[h][i], d)}
SecondPass(h, d) == IF DstMounted(h, d)
                    THEN {i \in DOMAIN cons[h] : cons[h][i].mount} ELSE {}
Routes(h, d)     == IF FirstPass(h, d) # {} THEN FirstPass(h, d) ELSE SecondPass(h, d)
FirstOf(S)       == {i \in S : \A j \in S : i <= j}

\* Hops still to go inside a network: what each hop must make smaller.
Rank(h, d) == IF h = d THEN 0
              ELSE IF IsRable(h, d) THEN Len(d) - Len(h) ELSE Len(h) + Len(d)

-----------------------------------------------------------------------------
(* Messages.  scope is what TMsg_Scp or TMsg_Ups holds, att what the       *)
(* origin signed; hops and budget are history.                             *)

Message(kind, id, src, dst, at) ==
    [kind |-> kind, id |-> id, src |-> src, dst |-> dst, scope |-> NoAddr,
     att |-> NoAddr, hops |-> 0, budget |-> Rank(at, dst)]

IsFannedOut(m)     == m.scope # NoAddr
ScopeOrDestin(m)   == IF IsFannedOut(m) THEN m.scope ELSE m.dst
Arrives(m, at)     == [m EXCEPT !.hops = 0, !.budget = Rank(at, m.dst)]

\* The report of hub h: addresses swapped, the source then the hub itself.
Report(h, m) == Message("Exception", m.id, h, m.src, h)

\* The answer of a hub that has no handler: addresses swapped and no more.
Unknown(h, m) == Message("Exception", m.id, m.dst, m.src, h)

\* The origin, or the first hub it passed, signs source and audience.
Attest(h, m) ==
    IF RelayAuth /\ m.att = NoAddr /\ IsRable(h, m.src)
    THEN [m EXCEPT !.att = <<h, m.src, ScopeOrDestin(m)>>] ELSE m

\* A report has a body of its own; an answer has that of its request.
IsSealed(m) == m.id \in Closed /\ m.kind # "Exception"

\* What a mount will carry, and as what: it opens what is sealed.
MountCarries(h, m) == ~IsFannedOut(m) /\ DstMounted(h, m.dst) /\ ~IsSealed(m)

VNetMountOutBare(h, l, m) ==
    Arrives([m EXCEPT !.dst = VNetWireDst(h, m.dst), !.att = NoAddr], Peer(l, h))

VNetMountOut(h, l, m) ==
    Arrives([m EXCEPT !.dst = VNetWireDst(h, m.dst),
                      !.src = VNetWireSrc(Peer(l, h), m.src), !.att = NoAddr], Peer(l, h))

Carries(h, l, m) == l.mount => MountCarries(h, m)
OnWire(h, l, m)  == IF l.mount THEN VNetMountOut(h, l, m)
                    ELSE Attest(h, [m EXCEPT !.hops = @ + 1])

\* On a link to an ancestor a foreign source needs its origin's signature.
GateRelayInbound(m) ==
    RelayAuth => /\ m.att # NoAddr
                 /\ m.att[2] = m.src /\ m.att[3] = ScopeOrDestin(m)
                 /\ IsRable(m.att[1], m.src)

GateAppMsgInbound(l, h, m) ==
    IF l.mount THEN DstMounted(h, m.src)
    ELSE \/ IsRable(Peer(l, h), m.src)
         \/ IsRable(Peer(l, h), h) /\ GateRelayInbound(m)

-----------------------------------------------------------------------------
Init ==
    /\ cons = [h \in Hubs |->
                 SetToSeq({l \in Up : h \in Ends(l)})]
    /\ down = {}
    /\ wire = [l \in Links |-> [h \in Ends(l) |-> <<>>]]
    /\ pend = [l \in Links |-> <<>>]
    /\ pump = [h \in Hubs |-> <<>>]
    /\ posted = {} /\ ends = [id \in Mail |-> <<>>]
    /\ reports = [id \in Mail |-> 0]
    /\ refused = {} /\ drops = 0

Copies(q, id) == Cardinality({i \in DOMAIN q : q[i].id = id})

\* The messages of q end here.
Ended(how, h, q) ==
    ends' = [id \in Mail |-> ends[id] \o
               [i \in 1 .. Copies(q, id) |-> [how |-> how, at |-> h]]]

links == <<cons, down, wire, pend>>

\* PostP2PeerMsg: an application posts at its own hub.
Post(id) ==
    /\ id \notin posted /\ Cardinality(posted) < MaxPosts
    /\ posted' = posted \cup {id}
    /\ pump' = [pump EXCEPT ![id.src] =
                  Append(@, Message(id.kind, id, id.src, id.dst, id.src))]
    /\ UNCHANGED <<links, ends, reports, refused, drops>>

-----------------------------------------------------------------------------
(* DispatchP2Pmsg for a message that is addressed elsewhere.               *)

Away(h) == pump[h] # <<>> /\ Head(pump[h]).dst # h

\* PostP2PeerMsg of a connection: a dialler's holds it until it stands again.
\* What the send path makes of a message does not depend on when it leaves.
PostToCon(h, l, m) ==
    \/ /\ Open(h, l)
       /\ wire' = [wire EXCEPT ![l][h] = Append(@, m)]
       /\ UNCHANGED pend
    \/ /\ ~Open(h, l)
       /\ pend' = [pend EXCEPT ![l] = Append(@, m)]
       /\ UNCHANGED wire

\* RouteP2PeerMsg: the first connection that leads there, standing or not.
Forward(h) ==
    /\ Away(h)
    /\ LET m == Head(pump[h])
       IN \E i \in FirstOf(Routes(h, m.dst)) :
            LET l == cons[h][i]
            IN Carries(h, l, m) /\ PostToCon(h, l, OnWire(h, l, m))
    /\ pump' = [pump EXCEPT ![h] = Tail(@)]
    /\ UNCHANGED <<cons, down, posted, ends, reports, refused, drops>>

\* The mount will not carry it; only the message is dropped.
MountRefuses(h) ==
    /\ Away(h)
    /\ LET m == Head(pump[h])
       IN /\ \E i \in FirstOf(Routes(h, m.dst)) : ~Carries(h, cons[h][i], m)
          /\ Ended("barred", h, <<m>>)
    /\ pump' = [pump EXCEPT ![h] = Tail(@)]
    /\ UNCHANGED <<links, posted, reports, refused, drops>>

UndeliverableAgain(h) ==
    /\ Away(h)
    /\ LET m == Head(pump[h])
       IN /\ Routes(h, m.dst) = {} /\ reports[m.id] < 3
          /\ pump' = [pump EXCEPT ![h] = Append(Tail(@), Report(h, m))]
          /\ reports' = [reports EXCEPT ![m.id] = @ + 1]
    /\ UNCHANGED <<links, posted, ends, refused, drops>>

\* Undeliverable: the report goes into this hub's own pump.
Undeliverable(h) ==
    /\ Away(h)
    /\ LET m == Head(pump[h])
       IN /\ Routes(h, m.dst) = {} /\ m.kind # "Exception"
          /\ pump' = [pump EXCEPT ![h] = Append(Tail(@), Report(h, m))]
          /\ reports' = [reports EXCEPT ![m.id] = @ + 1]
    /\ UNCHANGED <<links, posted, ends, refused, drops>>

EndOfTheLineRetried(h) ==
    /\ Away(h)
    /\ LET m == Head(pump[h])
       IN /\ Routes(h, m.dst) = {} /\ m.kind = "Exception"
          /\ pump' = [pump EXCEPT ![h] = Append(Tail(@), m)]
    /\ UNCHANGED <<links, posted, ends, reports, refused, drops>>

\* An undeliverable exception is the end of the line.
EndOfTheLine(h) ==
    /\ Away(h)
    /\ LET m == Head(pump[h])
       IN /\ Routes(h, m.dst) = {} /\ m.kind = "Exception"
          /\ Ended("dropped", h, <<m>>)
    /\ pump' = [pump EXCEPT ![h] = Tail(@)]
    /\ UNCHANGED <<links, posted, reports, refused, drops>>

-----------------------------------------------------------------------------
(* DispatchP2Pmsg for a message that has arrived.                          *)

Here(h, kinds) ==
    pump[h] # <<>> /\ Head(pump[h]).dst = h /\ Head(pump[h]).kind \in kinds

\* The application's handler, an answer's REFLECT handler, On_MsgCatchCatch.
Handle(h) ==
    /\ Here(h, {"App", "Answer", "Exception"})
    /\ LET m == Head(pump[h])
       IN /\ m.kind = "App" => h \notin Mute
          /\ Ended(IF m.kind = "Exception" THEN "told" ELSE "handled", h, <<m>>)
    /\ pump' = [pump EXCEPT ![h] = Tail(@)]
    /\ UNCHANGED <<links, posted, reports, refused, drops>>

\* NotHandled: no map takes it.
NotHandled(h) ==
    /\ Here(h, {"App"}) /\ h \in Mute
    /\ LET m == Head(pump[h])
       IN /\ pump' = [pump EXCEPT ![h] = Append(Tail(@), Unknown(h, m))]
          /\ reports' = [reports EXCEPT ![m.id] = @ + 1]
    /\ UNCHANGED <<links, posted, ends, refused, drops>>

ReflectHalfWay(h) ==
    /\ Here(h, {"Ask"})
    /\ pump' = [pump EXCEPT ![h] =
         Append(Tail(@), Arrives([Head(@) EXCEPT !.kind = "Answer"], h))]
    /\ UNCHANGED <<links, posted, ends, reports, refused, drops>>

\* ReflectP2PeerMsg and the redirection it asks for: the same message back.
Reflect(h) ==
    /\ Here(h, {"Ask"})
    /\ LET m == Head(pump[h])
           r == [m EXCEPT !.kind = "Answer", !.src = m.dst, !.dst = m.src]
       IN pump' = [pump EXCEPT ![h] = Append(Tail(@), Arrives(r, h))]
    /\ UNCHANGED <<links, posted, ends, reports, refused, drops>>

\* On_P2PeerBCast goes down, On_P2PeerUCast up: a copy for each connection.
FansOut(h, l, kind) ==
    LET c == ConAddr(l, h)
    IN IF kind = "BCast" THEN IsChild(h, c) ELSE IsChild(c, h)

\* RedirectFactory: the first hub keeps what the origin addressed as scope.
Copy(h, l, m) ==
    Arrives([m EXCEPT !.scope = ScopeOrDestin(m), !.dst = ConAddr(l, h)], Peer(l, h))

FanOut(h) ==
    /\ Here(h, {"BCast", "UCast"})
    /\ LET m  == Head(pump[h])
           to == {l \in ToSet(cons[h]) : Open(h, l) /\ FansOut(h, l, m.kind)}
       IN /\ wire' = [l \in Links |->
                        IF l \in to /\ Carries(h, l, Copy(h, l, m))
                        THEN [wire[l] EXCEPT ![h] =
                                Append(@, Attest(h, Copy(h, l, m)))]
                        ELSE wire[l]]
          /\ Ended("handled", h, <<m>>)
    /\ pump' = [pump EXCEPT ![h] = Tail(@)]
    /\ UNCHANGED <<cons, down, pend, posted, reports, refused, drops>>

-----------------------------------------------------------------------------
(* The far end of a connection.                                            *)

ReadDropped(h, l) ==
    /\ wire[l][Peer(l, h)] # <<>> /\ GateAppMsgInbound(l, h, Head(wire[l][Peer(l, h)]))
    /\ pump' = [pump EXCEPT ![h] = Append(@, Head(wire[l][Peer(l, h)]))]
    /\ wire' = [wire EXCEPT ![l][Peer(l, h)] = Tail(@)]
    /\ UNCHANGED <<cons, down, pend, posted, ends, reports, refused, drops>>

\* A read, through the gate, into the pump.
Read(h, l) ==
    /\ Open(h, l) /\ wire[l][Peer(l, h)] # <<>>
    /\ LET m == Head(wire[l][Peer(l, h)])
       IN /\ GateAppMsgInbound(l, h, m)
          /\ pump' = [pump EXCEPT ![h] = Append(@, m)]
    /\ wire' = [wire EXCEPT ![l][Peer(l, h)] = Tail(@)]
    /\ UNCHANGED <<cons, down, pend, posted, ends, reports, refused, drops>>

\* On_ConClose: an accepted connection goes, a dialler's waits to be restarted.
Leaves(h, l) ==
    \/ h = l.dials /\ down' = down \cup {l} /\ UNCHANGED cons
    \/ /\ h = l.accepts
       /\ \E i \in DOMAIN cons[h] :
            cons[h][i] = l /\ cons' = [cons EXCEPT ![h] = RemoveAt(@, i)]
       /\ UNCHANGED down

\* Drop and the OnClose it posts.  Between the two this end neither sends nor
\* reads, and OnClose deletes what was queued meanwhile with what was before;
\* the other end may still read what had left by then.
Shut(h, l) ==
    /\ Leaves(h, l)
    /\ \E n \in 0 .. (IF Open(Peer(l, h), l) THEN Len(wire[l][h]) ELSE 0) :
         /\ wire' = [wire EXCEPT ![l] = [k \in DOMAIN @ |->
                       IF k = h THEN SubSeq(@[h], 1, n) ELSE <<>>]]
         /\ Ended("lost", h, SubSeq(wire[l][h], n + 1, Len(wire[l][h]))
                             \o wire[l][Peer(l, h)])
    /\ UNCHANGED <<pend, pump, posted, reports>>

\* The gate throws: the message goes, and the connection with it.
Refuse(h, l) ==
    /\ Open(h, l) /\ wire[l][Peer(l, h)] # <<>>
    /\ ~GateAppMsgInbound(l, h, Head(wire[l][Peer(l, h)]))
    /\ refused' = refused \cup {Head(wire[l][Peer(l, h)]).kind}
    /\ Shut(h, l)
    /\ UNCHANGED drops

\* An end fails: its thread, its transport or its application drops it.
Drop(h, l) ==
    /\ Open(h, l) /\ drops < MaxDrops
    /\ drops' = drops + 1
    /\ Shut(h, l)
    /\ UNCHANGED refused

\* The other end has read everything, and sees the close.
SeeClose(h, l) ==
    /\ Open(h, l) /\ ~Open(Peer(l, h), l) /\ wire[l][Peer(l, h)] = <<>>
    /\ Shut(h, l)
    /\ UNCHANGED <<refused, drops>>

\* Two sessions of one dialler's connection.
Twins(l, k) == l.dials = k.dials /\ l.accepts = k.accepts /\ l.mount = k.mount

\* The dialler's connection stands again, in its old place and with what was
\* queued in it; the acceptor, which may not know yet, has a new one.
Redial(l, k) ==
    /\ l \in down /\ Twins(l, k) /\ ~Listed(k.accepts, k)
    /\ \A h \in Ends(k) : wire[k][h] = <<>>
    /\ \E i \in DOMAIN cons[l.dials] :
         /\ cons[l.dials][i] = l
         /\ cons' = [cons EXCEPT ![l.dials][i] = k, ![l.accepts] = Append(@, k)]
    /\ down' = down \ {l}
    /\ wire' = [wire EXCEPT ![k][k.dials] = pend[l]]
    /\ pend' = [pend EXCEPT ![l] = <<>>]
    /\ UNCHANGED <<pump, posted, ends, reports, refused, drops>>

\* The attempt fails, or its login does, and its OnClose deletes again.
RedialFails(l) ==
    /\ l \in down /\ pend[l] # <<>> /\ drops < MaxDrops
    /\ drops' = drops + 1
    /\ Ended("lost", l.dials, pend[l])
    /\ pend' = [pend EXCEPT ![l] = <<>>]
    /\ UNCHANGED <<cons, down, wire, pump, posted, reports, refused>>

Close(h, l) == Refuse(h, l) \/ Drop(h, l) \/ SeeClose(h, l)
Dispatch(h) ==
    \/ Forward(h) \/ MountRefuses(h) \/ Undeliverable(h) \/ EndOfTheLine(h)
    \/ Handle(h) \/ NotHandled(h) \/ Reflect(h) \/ FanOut(h)

Next ==
    \/ \E id \in Mail : Post(id)
    \/ \E h \in Hubs : Dispatch(h)
    \/ \E l \in Links : \/ RedialFails(l) \/ \E k \in Links : Redial(l, k)
                         \/ \E h \in Ends(l) : Read(h, l) \/ Close(h, l)

\* Pumps run, and the transport delivers what it accepted or fails.  That a
\* dialler's connection is ever taken again nobody promises.
Fairness ==
    /\ \A h \in Hubs : WF_vars(Dispatch(h))
    /\ \A l \in Links : \A h \in Ends(l) :
         WF_vars(Read(h, l) \/ Refuse(h, l) \/ SeeClose(h, l))

Spec == Init /\ [][Next]_vars /\ Fairness

-----------------------------------------------------------------------------
MessageOK(m) ==
    /\ m.kind \in {"App", "Ask", "Answer", "BCast", "UCast", "Exception"}
    /\ m.id \in Mail /\ m.src # NoAddr /\ m.dst # NoAddr

\* Hubs list links of the model, and what is queued or on its way has both addresses.
TypeOK ==
    /\ down \subseteq Links
    /\ \A h \in Hubs : cons[h] \in Seq(Links)
    /\ \A h \in Hubs : \A i \in DOMAIN pump[h] : MessageOK(pump[h][i])
    /\ \A l \in Links : \A h \in Ends(l) :
         \A i \in DOMAIN wire[l][h] : MessageOK(wire[l][h][i])
    /\ \A l \in Links : \A i \in DOMAIN pend[l] : MessageOK(pend[l][i])

\* Every hop, whatever the links and their order, brings a message closer
\* to its address: the routing has no TTL and needs none.
Closer(h, m) == m.hops + Rank(h, m.dst) <= m.budget
HopBound ==
    /\ \A h \in Hubs : \A i \in DOMAIN pump[h] : Closer(h, pump[h][i])
    /\ \A l \in Links : \A h \in Ends(l) :
         \A i \in DOMAIN wire[l][h] : Closer(Peer(l, h), wire[l][h][i])
    /\ \A l \in Links : \A i \in DOMAIN pend[l] : Closer(l.accepts, pend[l][i])

\* The hub an address names, in its own network.
LastColon(a) == CHOOSE i \in Colons(a) : \A j \in Colons(a) : j <= i
Named(d) == IF HasVNet(d) THEN Inside(d, LastColon(d)) ELSE d

\* A message is handled at the hub its sender addressed, in whichever
\* network that is; the answer to it, and a report about it, at the sender -
\* or, when it is the answer that got lost, at the hub that answered.
RightHub ==
    \A id \in Mail : \A i \in DOMAIN ends[id] :
      LET e == ends[id][i]
      IN /\ e.how = "handled" /\ id.kind = "App" => e.at = Named(id.dst)
         /\ e.how = "handled" /\ id.kind = "Ask" => e.at = id.src
         /\ e.how = "told" => \/ e.at = id.src
                              \/ id.kind = "Ask" /\ e.at = Named(id.dst)

\* Where messages wait, and the places in those queues that mail id takes.
Sites     == {<<"pump", h>> : h \in Hubs} \cup {<<"pend", l>> : l \in Links}
              \cup {s \in {"wire"} \X Links \X Hubs : s[3] \in Ends(s[2])}
Queue(s) == IF s[1] = "pump" THEN pump[s[2]]
              ELSE IF s[1] = "pend" THEN pend[s[2]] ELSE wire[s[2]][s[3]]
Everywhere(id) ==
    UNION {{<<s, i>> : i \in {k \in DOMAIN Queue(s) : Queue(s)[k].id = id}} : s \in Sites}

\* Something failed: an end, an attempt to redial, or a message at a gate.
Failed == drops > 0 \/ refused # {}

\* A message that is not cast is in one place until it ends, once: handled,
\* reported, dropped as a report nobody can be told, barred from a mount or,
\* if something failed, deleted with a connection's queue.  It is reported
\* once at most.
Conserved ==
    \A id \in posted : id.kind \in {"App", "Ask"} =>
      /\ Cardinality(Everywhere(id)) + Len(ends[id]) = 1
      /\ \A i \in DOMAIN ends[id] : ends[id][i].how = "lost" => Failed
      /\ reports[id] <= 1

\* No hub handles a cast twice, an old link still listed beside its successor
\* included.
CastOnce ==
    \A id \in Mail : id.kind \in {"BCast", "UCast"} =>
      \A h \in Hubs : Cardinality({i \in DOMAIN ends[id] :
        ends[id][i].how = "handled" /\ ends[id][i].at = h}) <= 1

\* Hubs in a tree: none is linked to two above it, and no two hubs by two
\* links from the start.
Leads(p, h) == \E l \in Links : ~l.mount /\ Ends(l) = {p, h} /\ IsChild(p, h)
Tree ==
    /\ \A p, q, h \in Hubs : Leads(p, h) /\ Leads(q, h) => p = q
    /\ \A l, k \in Up : Ends(l) = Ends(k) => l = k

\* Among hubs that speak for themselves no gate drops a link, except over a
\* message that was reflected and over a cast up from another branch.
GateHonest == refused \subseteq {"Answer", "UCast"}

\* Whatever was posted, the network comes to rest.  What is left then is in
\* diallers' connections that are down, where it waits for a session.
Quiet == /\ \A h \in Hubs : pump[h] = <<>>
         /\ \A l \in Links : \A h \in Ends(l) :
              wire[l][h] = <<>>
Quiesces == <>[]Quiet
=============================================================================
