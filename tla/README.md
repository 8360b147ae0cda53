# Targetcore: formal models

TLA+ models of Targetcore (`src/`), a C++ peer-to-peer messaging library: hubs
exchange addressed messages over connections (TCP, pipes, serial lines,
multiplexed sub-connections), and each hub runs its handlers on one thread, the
*pump*, which a completion port or an event wakes. Everything below is
translated from the source; where a document or a comment says something else,
the model does what the code does, and section 12 names the difference.

## 1. The system

| component | source | state it keeps | operations | talks to |
|---|---|---|---|---|
| Message pump `P2PmsgPump` | `P2Pwin32.cpp` | FIFO `m_oCListP2Pmsg`, timer list `m_oCListP2PmsgPit`, signal list, `m_bWakePosted`, port or event, `m_oCSection`; process-wide: registry lock, `s_cP2Pmsg` | `PumpP2Pmsg`; `PostP2Pmsg` (four overloads), `PostP2PmsgBatch`, `SignalP2PmsgHub/Pump`, `FlushP2Pmsg`, `Set/Kill/CancelP2PmsgTimer`, `CloseP2PmsgHub/Pump` | every thread posts to it; it calls handlers of connections and targets |
| Hub manager | `P2Pwin32.cpp` | list of connections of each hub, registry of pumps | `CreateP2PmsgHub`, `PostP2PmsgCon`, `DropP2PmsgCon`, `EnumP2PmsgCon`, `CloseP2PmsgHub` | owns connections, deletes the pump |
| Event and message sinks | `P2Pwin32.cpp`, `P2PeerEvents.cpp` | registered sink clients | register, cancel, fan out | posts to pumps under the registry lock only |
| Priority queue `P2PeerMsgQue` | `P2PeerMsgQue.cpp` | a list ordered by priority | `Append`, `Remove` | exported, unused inside the tree |
| Connection lifetime | `P2PeerCon.cpp`, `P2Pwin32.cpp`, `P2PeerHub.cpp` | reference count, destroy flag, the hub's list and the registry by address, completions owed | `AddRef`/`Release`, `PostP2PeerCon`, `Drop`, `Destroy`, `DropP2PmsgCon`, walks that retain, `CloseP2PmsgHub` | completions and the pump's messages each hold a reference; the last `Release` deletes, on whichever thread |
| Send path of a connection | `P2PeerCon.cpp`, `P2Peerio.cpp` | queue `m_oCListMsgQue` by priority, message in flight, one send buffer | `PostP2PeerMsg`, `PostHandshakeP2PeerMsg`, `GetSendableP2PeerMsg`, the send completion, `OnClose` | any thread posts; completions on the pump; the login releases what is held |
| Back-pressure | `P2PeerCon.cpp`, `P2Pwin32.cpp` | budget marks, held flag per connection | hold at the high mark, poll, resume at the low mark | reads `s_cP2Pmsg`, arms a pump timer |
| Login exchange | `P2PeerCon.cpp`, `P2PeerTarget.cpp`, `P2Peerio.cpp` | state word, key agreement, channel binding, proven peer, login hold, deadline | `Login`, `KeyXOnRequest/Ack`, `AuthGateInbound`, `OnLogin`, `LoginAck`, `OnLoginAck`, `Restart` | the receive loop posts what it took to the pump; decides whether a connection may carry messages |
| Replay caches | `P2PAuthLogin.cpp` | nonces of logins, signatures of relay blocks, ring and floor of sealed bodies | `VerifyLogin`, `VerifyRelay`, `Open` | called by the gates of connections and by the hub |
| Allow-list and revocation | `P2PAuthLogin.cpp`, `P2PIdentityStore.cpp` | allow-list, revocation list, authority, epoch, their files | `Set/Reload...List`, `IssueRevocationList`, `ApplyRevocationList`, `ArmOk` | answers which keys an address has |
| Routing | `P2PeerHub.cpp`, `P2PeerTarget.cpp`, `P2Peer.cpp` | addresses of hub and connections | `RouteP2PeerMsg`, `IsChild`, `IsRable`, `IsMapped` | picks the connection or local target of each message |
| Hub / target threads | `P2PeerHub.cpp`, `P2PeerTarget.cpp` | one thread per hub or target | `RunHub`, `RunPump`, `CreateHub`, `CloseHub` | call `PumpP2Pmsg` for ever, end on a CLOSE signal |
| Sealing, crypto | `P2PeerSeal.cpp`, `P2PCngCrypto*.cpp` | keys | seal, open, sign, verify | per message |
| Socket endpoint | `P2PeerConWsa.cpp`, handlers in `P2PeerTarget.cpp` | sockets, the OVERLAPPEDs of accept, connect and receive, the latched event, the restart timer; on a service the slots and shares in use | `Listen`, `Accept`, `AcceptSpawn`, `Connect`, `Close`, `Shutdown`, `Drop`, `Restart` | completions and timers of its pump; spawns the connections it accepts |
| Other transports, codecs | `P2PeerCon{Pipe,232,Dmx}.cpp`, `P2Peerio*.cpp` | handles, partial frames | read, write, frame | complete on the port |
| Explorer, service, log, C API | the rest | - | - | - |

What is hard here:

* **Two locks around one list.** A post takes the process-wide registry lock
  `s_oCSectionP2PmsgPump` to find its pump and then *downgrades* to the pump's
  own `m_oCSection` (`P2PsafeCS::operator=` enters the new section before it
  leaves the old). Each entry point does this at another moment, signalling nests
  the second lock in the first, and some entry points skip the second or both.
* **Coalesced wakes.** Only the first post since the pump last saw its FIFO
  empty sends a packet; correctness is a protocol between a flag, a list and a
  lock, and an error costs eight seconds (the time-out of `RunHub`) or, for a
  pump without time-outs, everything.
* **Handlers run on the pump** and post to it, signal it, arm its timers, flush
  it and close it, each of which elides or reorders something.
* **Deletion.** A pump is deleted by its own thread while others may hold its
  address; connections delete themselves in `Release`, from whichever of a dozen
  holders lets go last.
* **Routing without tables.** A hub knows its own address and those its
  connections logged in with. No message has a TTL; that none goes round rests on
  every hop, over whatever connections are listed, new, old or dead.
* **A login that is applied later.** The receive loop takes a login off the wire,
  the pump applies it, and the next message may be behind it already; the same
  object then carries the next session.
* **Memory of what was accepted**, under clocks that differ and may be set back,
  with room for a fixed number of entries, across crashes and faulty files.
* **Limits**: 50000 live messages process-wide, two hysteresis marks below, 1024
  timers per pump, a 16-bit timer counter, 64 messages per visit.

`PROJECT.json` lists the hazards at their lines with the properties that cover them.

## 2. Plan

In order of importance: the pump, because everything else runs on it and posts to
it; what every message passes (the send path, routing); what every connection
passes (its lifetime, its login); and what decides whom a hub believes.

| order | module | composition | main properties | proofs |
|---|---|---|---|---|
| 1 | `P2PmsgPump` | implements `P2PmsgDelivery` | wakes, ordering, budget, teardown | types, locks, wakes, the ledger, refinement |
| 2 | `P2PmsgTimer` | the pump's thread and the timers of connections | ids stay unique, no callback a connection does not know, deadlines come | types, ids, callbacks, precision |
| 3 | `P2PeerConSend` | threads that post, the pump, the transport | nothing stranded, order, ownership, login first | types, nothing stranded, login first, one owner, order |
| 4 | `P2PeerRouting` | hubs, their pumps, links that come and go | no loops, the right hub, one place for each letter until its end | types, hops, the right hub, the gate, conservation, casts |
| 5 | `P2PeerConLife` | applications' threads, the hub's thread, the registry, the hub's close | counts, no use of what is deleted, always deleted | types, the count, what is held, the registry, twins, what a close leaves |
| 6 | `P2PAuthReplay` | the three caches and the clocks | accepted once | types, once, once for sealed bodies |
| 7 | `P2PAuthPolicy` | memory, files, authorities | revoked stays, the epoch is held | types, both |
| 8 | `P2PeerConLogin` | two connections, their loops, pumps and send paths, the link | proven sessions, no refusal between friends, one receive, it settles | types, proven sessions, no refusal, one receive |
| 9 | `P2PeerConWsa` | a service or client, its pump, the operating system, the connections it accepts | never left to itself, slots and shares exact, it comes back | types, never left to itself, slots and shares |
| next | back-pressure: the hold of `P2PmsgTimer` on the loop of `P2PeerConLogin`, with the marks of the budget of `P2PmsgPump` | three modules | every held message arrives | - |
| next | further pumps of a hub (`SwapContext`), event sinks, the other transports | - | - | - |

No module to be proved about declares a RECURSIVE operator. Each component's
theorems are in `<module>_proofs` (those of 6 and 7, two parts of one class, in
`P2PAuthLogin_proofs`), with the lemmas on lists and on counting they need;
`MC<module>` gives the constants of a run (`MCP2PAuthLogin` those of 6 and 7, in one run).

## 3. `P2PmsgPump`

State, with the C++ names: `que` = `m_oCListP2Pmsg`, `sigs` = `m_oCListP2PsigID`,
`pit` = number of armed timers, `wakePosted` = `m_bWakePosted`, `wakes` = key-0
packets on the port (or the 0/1 state of the auto-reset event), `ioc` =
completions of connections on the port, `gcs`/`mcs` = owners of
`s_oCSectionP2PmsgPump` and `m_oCSection`, `live` = `s_cP2Pmsg`.

The pump thread is a program counter `pc` through `PumpP2Pmsg`: `top` (registry
lock, timer poll), `down` (downgrade), `get`/`clear` (the FIFO read and the
disarming of the flag, two steps under one lock), `dispatch`, `bget` (the batch
drain), `wait` (port or event), `sig` (`SigPop` and `RunHub`'s loop). `mayBlock`
is `dwTimeout # 0`; `visit` counts the batch. A handler may at any point of a
dispatch post, signal, arm a timer or flush (`HandlerStep`).

A poster's call is a sequence of steps - find the pump, downgrade, test the
budget, manufacture, append, wake, leave - and `FirstStep`, `AfterMake` and
`AfterDown` give the order of each entry point, `HoldsM`/`HoldsG` the lock each
step runs under. The append and the test of the flag are separate steps, so a
call that holds the wrong lock really is interleaved with the pump.

Abstracted: message contents (sender, number, and whether it carries a
connection - what `FlushP2Pmsg` looks at), the registry list, redirected and
re-pumped messages, exceptions thrown by handlers (caught in the pump), the
in-line dispatch of a post to one's own empty pump (it never touches the FIFO).

### Runs

| run | question | instance |
|---|---|---|
| `pump_safety` | the safety invariants, all entry points that take `m_oCSection`, timers, I/O, close | two posters (one also batches, one also signals), 2 messages and 2 signals each, 1 timer, ceiling 1, batch limit 1; 3.1 M states |
| `pump_event` | pump with an event; flushes; its own signals | no time-out ever, 2 signals, 1 message each |
| `pump_live` | refinement of the mailbox with liveness; I/O served under endless self-posting | no time-out ever |
| `pump_lostwake` | the disagreement of section 12: a poster with an entry point that holds only the registry lock | one such poster, one of the other kind |

Bounds: two posters are enough to have a race between posters and one between a
poster and the pump; ceiling and batch limit 1 put both boundaries within reach
of two messages; `MaxSend`, `MaxSig`, `MaxQue`, `MaxPit`, `MaxIo` only cap how
often the environment acts. Deadlock is not checked where the bounded posters or
the closed pump make an end legitimate, and is checked in `pump_lostwake`.

Properties: `NoLostWake` (a pump about to sleep with messages queued has a packet or
is owed one), `FifoSerialised` (one thread inside the FIFO), `LiveLedger` (the budget
counts exactly what exists), `SignalSafe` (a signaller never meets a deleted pump),
`SignalsServed`, `IoServed`, and `Implements`, the mailbox: each sender's messages are
taken once and in order.

A handler that signals its *own* hub pump sends no packet, and `SigPop` takes one
signal per visit: two such signals in one dispatch leave the second to the next wake
or time-out. A pump with an event looks at `SigCount()` before it waits, and
`pump_event` checks that this is enough.

### Fairness

`PumpStep` is strongly fair: the pump thread is scheduled, and a critical section
is granted in the end to a thread that keeps asking (posters may enter it between
the pump's attempts, so weak fairness would not do). `TakeWake` and `TakeIo` are
strongly fair because a completion port is a FIFO. A poster inside a call finishes
it; no poster is obliged to call, and no time-out is assumed to fire in the
liveness runs (`TimeoutFires = FALSE`), so progress there is owed to wakes alone.

### Proofs

`P2PmsgPump_proofs` proves, for any set of posters, any assignment of entry
points and any bounds:

* `TypeCorrect`: `[]TypeOK`;
* `SignalsFindThePump`: `[]SignalSafe`. `LockInv` (who owns which section at
  which step) with `CallInv` (which steps each entry point can be at) is
  inductive; `Close` needs the registry lock free, which a signaller denies;
* `NoWakeLost`: `[]NoLostWake` under `PumpLockOnly` (no poster uses an entry
  point without `m_oCSection`; `pump_lostwake` shows the hypothesis is needed).
  `NoLostWake` alone is not inductive. `WakeInv` adds what the flag means: after
  the pump saw the FIFO empty and until it disarms the flag nobody appends
  (`LockInv`), a parked pump with the flag armed has a packet, one with the flag
  disarmed and messages queued is owed the wake by a poster at its `wake` step;
* `FifoIsSerialised`: `[]FifoSerialised` under `PumpLockOnly` and no flush;
* `PumpIsMailbox`: every step of a pump that is neither flushed nor closed is a
  step of `P2PmsgDelivery` or a stutter.

* `LedgerIsExact`: `[]LiveLedger`, for any finite set of posters and whatever they
  call, flushes and the close included. The ledger is inductive with the types and
  `CallInv`: each step of a call moves a message between a poster's hand (`InHand`),
  the FIFO and the dispatch, and `HandsOfOne` says that the others' hands stay.

Only model-checked: everything that needs fairness.

## 4. `P2PmsgTimer`

One pump's timer list and the two timers a connection arms on its own pump's
thread: the deadline of its login and the poll of a back-pressure hold.

State: `pit` = `m_oCListP2PmsgPit` (id, owner, due time), `counter` =
`m_nPitimeID`, `firing` = the timer `GetTimer` has unlinked whose callback has
not run, `slot` = the id the owner keeps (`m_uLoginTimerID`,
`m_uThrottleTimerID`), `held` = `m_bRecvThrottled`, `state` = what became of the
owner's timer. `phase` and `left` are the model's clock: the code reads the time
in whole seconds, so a due time is kept relative to the current whole second
(`rel`, what the code compares) with the true remaining time (`left`) beside it.

Actions: `ArmLogin` (`ArmLoginDeadline`), `HoldRecv`
(`HoldRecvForBackpressure`), `ArmRefused` (`SetP2PmsgTimer` at its limit),
`Cancel`/`CancelMisses`/`CancelThrows` (the three ends of `CancelP2PmsgTimer`:
the id leads to this pump, to another, to none), `GetTimer`, the three callbacks
of `On_PITimer`, `Reopen` (`Restart`) and `Tick`. `Place` is the insertion as
written, with the position `GetPrev` has already moved.

Everything runs on the pump's thread, so only the end of a callback separates
actions. Left out: the overloads for `P2Peerio` and targets, whose locks differ
(hazard at `P2Pwin32.cpp:6227`), and the restart timer of a client.

| run | question | instance |
|---|---|---|
| `timer` | ids, callbacks, precision and progress | two deadlines, two polls, a list that holds two; ids span 1 and counter 4 (for 0x100 and 2^16), so that ids leave the pump's own range, pass another pump's and wrap; 2 ticks a second; 1.1 M states |
| `timer_starved` | the disagreement of section 12: two polls keep an expired deadline from firing | one deadline, two polls, no id outside the pump's range |

With two owners of deadlines and two of polls every order of neighbours in the
list occurs, which is all that insertion and removal look at. Two polls also bring
the case in which the code fails: a timer armed again by its own callback is put
before an expired one (`Place`), and with two connections polling the head is always
one of theirs. `DeadlinesCome` therefore says what does hold: each deadline is called
back or cancelled, unless two connections poll together again and again (`TwoPoll`
infinitely often). One connection may poll for ever beside it. `DeadlineKept`, the
promise of `SECURITY.md:802` without that exception, is violated in `timer_starved`.
Fairness: time
passes (`Tick`) and the pump keeps calling `GetTimer` and finishes a callback;
the connections are not obliged to anything.

`P2PmsgTimer_proofs` proves, for any number of timers, delays and counter width:

* `TypeCorrect` (`[]TypeOK`) and `IdsStayUnique` (`[]UniqueIds`). `UniqueIds` is
  inductive with the types: an id enters the list only through `MakeTimerID`, which
  has looked for it there;
* `CallbacksAreKnown` (`[]CallbackKnown`). `OwnInv` says of every entry of the list,
  not only of the one that fires, that its owner keeps its id and still waits for it,
  and that an owner whose timer fires has no other in the list; with `UniqueIds`, a
  cancellation by id takes the owner's own;
* `NotASecondEarly` (`[]NeverASecondEarly`). `DriftInv` bounds the true time that is
  left of each entry by the whole seconds the code counts and what is left of the
  current one, which `Tick` keeps when the second ends.

`InsertEntries` and `RemoveEntries` say what `InsertAt` and `RemoveAt` return, entry by
entry. Only model-checked: `DeadlinesCome`.

## 5. `P2PeerConSend`

The way out of a CLIENT connection. `PostP2PeerMsg` queues a message by priority
from any thread and, if the path is idle, posts the one send buffer to the port;
each completion of that buffer, on the pump, deletes the message it carried,
fetches the next and sends it. Until its login is acknowledged, a client fetches
handshake messages only.

State: `que` = `m_oCListMsgQue`, `sending` = `m_pP2PeerMsgSend`, `buf` =
`m_pOVERLAPPEDsend` (absent, idle, posted by a wake-up, or writing; the last two
are `bQueued`), `conn` (`m_hFile` and where the P2P_Close notification is),
`login`, `closeOnIdle` = the bits of the state word, `stage` = how far the
handshake of the session has come. `pc`, `next`, `held` are the pump inside the
send branch of `On_QueuedCompletionStatus`; `call` is the thread inside
`PostP2PeerMsg`, between its append (`Enqueue`), its look at the pump's state
(`Look`) and `PostOVERLAPPED` (`Kick`), all under `m_oCSectMsgQue`. The pump
takes that lock for its own posts and for `GetSendableP2PeerMsg`, not for the
rest of a completion, so the two interleave there. The pump's handlers and
completions do not interleave with each other.

`stalled` marks the one documented way to leave messages behind, a message that
may not go out as it is (`SendRefused`); `out`, `log` and `freed` are history.

What is assumed of the surroundings: a port and a pump are FIFOs, so P2P_Connect
is handled before the P2P_Close that follows it (guard of `OnClose`), and the
completion a closed session was owed has come when the restart timer fires
(guard of `Redial`). A `Kick` on a buffer that `Drop` has deleted in the middle
of a post is not followed (it would be a use after free; it needs the race between
a post and a completion of section 12). The peer's messages are read only if what they answer
was sent (`KeyXOnAck`, `OnLoginAck`). A message that has been fetched may or may
not have reached `m_pP2PeerMsgSend` when another thread looks: both are allowed.

| run | question | instance |
|---|---|---|
| `send` | stranding, order, ownership, login, progress | four messages of three priorities, two of them posted by another thread, one that cannot be sealed, any number of sessions; deadlock checked; 109 000 states |

Two messages of one priority, one more urgent and one in between put a message
at every place `PostP2PeerMsg` distinguishes; two posts by another thread let
one race a fetch while the first is in flight. Each message is posted once,
which bounds the run; sessions are not bounded.

Properties: `NothingStranded` (an idle path has nothing it may send),
`SamePriorityFifo`, `NoAppBeforeLogin`, `OwnedOnce` (queue, hand, buffer: one
owner, one deletion), `QueuedLeaves` (what an open, logged-in connection has
queued leaves on the wake-ups of posts, completions and the login alone).

Fairness: a thread inside `PostP2PeerMsg` finishes it, the pump finishes a
completion it has begun, and the transport reports every write (`PortStep`), as
overlapped I/O does, successfully or not. Nobody is obliged to post or log in.

`P2PeerConSend_proofs` proves, for any messages, priorities and posting threads:

* `TypeCorrect`: `[]TypeOK`;
* `NothingIsStranded`: `[]NothingStranded`. The property says nothing about the
  moments in between, so it is not inductive. `Owed` extends it to the pump that
  has been told there is nothing and has not yet gone idle; the lock keeps posts
  out of the fetch, and a post after it is still in its call or has posted the
  buffer. `PumpInv` (a message in flight on an open connection is always one the
  transport has still to report) covers posts that see one, `FreshSession` (no
  handshake message and no login before a session begins) the first idle state
  of a session;
* `LoginComesFirst`: `[]NoAppBeforeLogin`, from what the fetch hands out
  (`LoginFirst`) and from the login lasting as long as the connection is open.

* `MessagesOwnedOnce`: `[]OwnedOnce`. Posts of applications take a message nobody has
  had; the handshake's messages are posted anew in each session, so `StageInv` says at
  which stage none of them is left in the queue or in hand;
* `PriorityIsFifo`: `[]SamePriorityFifo`, from `InOrder`: of two messages of one
  priority in the queue the one posted first is ahead, wherever `Place` puts them
  (`PlaceBehind`).

Only model-checked: `QueuedLeaves`.

Not modelled: accepted connections (which hold nothing back), the transforms,
seals and bytes of a message, and the operating system's use of the send buffer
after `OnClose` deleted the message in it (`P2PeerCon.cpp:5222`). Close-on-idle is
modelled as it is: it drops a connection with nothing in flight even if messages
are queued or held for its login (`P2PeerCon.cpp:1088`), and nothing says what
`PauseHub` owes to those.

## 6. `P2PeerRouting`

How a message finds its hub. An address is a sequence of hops; `IsRable` and
`IsChild` are prefix tests, and a hop after `:` begins an address inside a
mounted network.

State: `cons` = `m_oCListP2PmsgCon` of each hub, in the order of posting, which
`RouteP2PeerMsg` looks through; `wire` = what an end of a link has queued or sent and
the other has not read; `down` = the links whose dialler has closed and not dialled
again, `pend` = what that connection has queued since; `pump` = the FIFO of each hub;
`posted`, `ends`, `reports`, `refused` are history (what was posted, where each message
ended and how, what was reported about it, what a gate refused); `hops` and `budget` of
a message likewise.

Actions: `Post` (an application's `PostP2PeerMsg`), `Dispatch` of a hub's next
message - forwarded (`Forward`, the two passes of `RouteP2PeerMsg`, with the
attestation and the mount on the way out), refused by a mount, reported
(`Undeliverable`), dropped because nobody can be told (`EndOfTheLine`), handled,
not handled, reflected, fanned out - and of each link `Read` (with the gate),
`Refuse`, `Drop`, `SeeClose`, `Redial` and `RedialFails`.

A connection that fails is not gone at once. `Drop` leaves it listed, and `OnClose`,
which it posts, deletes what is queued in it; then the default `On_ConClose` lets an
accepted connection go and keeps a dialler's, to be restarted (`Leaves`). `Shut` is the
two together: between them the end neither sends nor reads, and what is routed into it
is deleted with the rest, as `OnClose` would have deleted it a moment before. The
other end may still read the part that had left, and sees the close after it; this
is so for an end the gate threw from as well. A dialler's connection that is down keeps
its place and its address. `RouteP2PeerMsg` asks for no state, so mail that leads there
is put into that connection's queue (`PostToCon`) and is neither sent nor reported.
`Redial` is the restart that succeeds, accept and login included: the same object, in
its old place, sends what was queued since the close; the acceptor has a new connection
at the end of its list and may not have noticed yet that the old one is dead
(`Twins`). The default `On_ConLogin` refuses such a second connection from one address
(`P2PeerTarget.cpp:2686`), so twins need a handler of the application's that does not;
with the default, `Redial` waits until the old end has seen the close. An attempt that
fails, or whose login does, runs `OnClose` again, which deletes what was queued in
between (`RedialFails`). A cast is not copied to a connection that is down
(`ConBCasts_OK`). A connection that has been accepted but has not logged in has no
address to route by and is not in the model.

Mail is an application message, a request its receiver reflects (`Ask`), a
broadcast or an upcast. Abstracted: payloads; the relay signature is the triple
of who signed, source and audience, and verifies when these are the message's
own. Hubs speak for themselves: a hub never posts with another's source.

| run | question | instance |
|---|---|---|
| `routing` | loops, the right hub, conservation, casts, the gate, rest | a tree of four hubs, one beside its root, a network mounted below; sixteen letters, among them unknown addresses on both sides of the mount and a body the mount's hub cannot open; two failures (ends or redials), a link that is dialled again beside its old end; one letter at a time; 69 500 states |

Letters do not interact - a hub routes each by itself - so one at a time meets
every route; what interacts is a letter with failing links, and two failures allow
an old end beside its successor and a way back that is gone. Fairness: pumps run
and what a transport accepted is delivered or the link fails; nobody is obliged to
redial, or to succeed. So mail that waits in a dialler's connection that is down may
wait for ever: `Quiesces` says that the pumps and the links come to rest, and leaves
those queues out. `Conserved` allows a letter to be deleted with a connection's queue
once something failed, which is what `OnClose` does with it (section 12); it does not
allow it anywhere else, nor a letter that is in two queues or in none. `GateHonest` excepts reflected messages and casts up from another branch,
whose attestation the code leaves as it was (section 12).

`P2PeerRouting_proofs` proves, for any hubs, links, letters and failures:

* `HopsBounded` (`[]HopBound`): along a hop in one network `Rank` (the hops left when
  the address lies below, the length of hub and address when it does not) decreases,
  because the first pass goes up only with an address that is not below; a mount
  begins a new count. And `TypeCorrect`.
* `HubIsRight` (`[]RightHub`): every message in a queue is `Addressed`: what its
  address names in the innermost network (`Named`) is what its mail names, and its
  source likewise. A mount changes both addresses and neither name; this is the algebra of
  `VNetWireSrc` and `VNetWireDst`.
* `GateIsHonest` (`[]GateHonest`): every message but those excepted is `Signed`. The hub that
  holds it either answers for its source or goes down with it, attested if that is
  required, which is what the gate at the other end of whatever link the hub takes asks.
* `MailConserved` (`[]Conserved`): the copies of a letter counted over all queues and the
  entries about it in `ends` are one together (`Single`). Each step moves, replaces or ends
  what it takes (`TwoSites`, `OneSite`, `NoSite`); a report is the first because the only
  copy was not a report (`FirstReport`).
* `CastIsOnce` (`Tree` implies `[]CastOnce`): until a hub takes it, a cast is one copy like a letter
  (`Whole`); then it has `Spread`. In all that a hub may still take or read there is one copy
  at most (`AtMost`), and none once the hub has handled one. Of a broadcast, whoever has a
  copy or has handled one is below the first hub and has it from the one hub above
  (`Downward`); of an upcast there is one copy, above all hubs that handled it (`Upward`). Two
  hubs never both list two links to each other (`OneLive`), so that of the copies a hub
  sends to a neighbour, on the old link and on its successor, one is read. `Tree` is
  needed: two links that are up between the same hubs, or a hub linked to two of its
  ancestors, do double a cast. The run checks that its topology is one.

The inductive invariant is `IInv`: the queues of hub `h` are in `Seq(Fit(h))`, what is on its
way on a link, or waits in its dialler, in `Seq(Sent(l, h))`. `Standing` says that until something fails every link stands at both ends and none is
down, so a queue is deleted only after a failure (`MailConserved`). For casts, no copy
is ever among the pended (`NonePended`, part of `Spread`). That a hub's own address has no `:` is an
assumption on `Hubs`: a qualified address `V:x` names `x` in the network mounted at `V`
(P2Peer.h:276), and that hub calls itself `x`; nothing in the code refuses another name.
Only model-checked: `Quiesces` (liveness).

Not modelled: the expump, peeking handlers, wrapped responses, IF address mapping
and the in-process waiver of the gate.

## 7. `P2PeerConLife`

The reference count of connections, the hub's list, and the close of a hub.

State: `ref` = `m_cRef` (a claimed count is `kDyingRef`), `destroyed` =
`m_bDestroy`, `keyed` = `m_nP2PconID` with the registry's key for the address,
`hubList` = `m_oCListP2PmsgCon`, `port` and `fifo` = the completions and messages
that name a connection, `recv` = the one outstanding read, `pins` = `oConPinned`
of `CloseP2PmsgHub`, `section` = the owner of `m_oCSectionHub`, `job`/`held`/`safe`
= what an application's thread is doing, has retained for a walk, and keeps in a
`SafeP2PeerCon`. `rel` is the `Release` a thread is inside: the decrement, the look
at `m_nP2PconID` and `m_bDestroy`, the claim by compare-and-swap, the unlinking and
deletion are four steps. `crimes` records that freed memory was touched or freed
again, which `Release` can do after its decrement (`P2PeerCon.cpp:6341`).

Actions: an application's thread posts a connection (`BeginPost`, then the guards
of `PostP2PeerCon`, `List`, `Startup` or `PostThrows`), walks the registry
(`BeginWalk`, `Keep`, `SignalOne`, `LetGo`, ...), the pump dispatches
(`DispatchStartup`, `DispatchClose`) and completes (`Complete...`), and the hub
closes (`Enumerate`, `SignalDestroy`, `Pin`, `Sweep`, `Drain`, `EndDrain`, `Unpin`,
`DeleteHub`, `FlushOne`). `EndDrain` may come before every completion has, as the
bounded wait of the code may. `PostThrows` has a hub or a pump that
is gone, and a start-up message refused at the ceiling of the budget
(`P2Pwin32.cpp:3466`): the connection is listed by then, stays listed and is never
started.

| run | question | instance |
|---|---|---|
| `life` | the count, what is held, the registry, twins, what a close leaves, that what is destroyed is deleted | two threads, two connections to one peer, one signal; 895 000 states |

Two connections to one address make every duplicate; with two applications' threads
and the hub's, each step of a `Release` meets both a walk and another `Release`.
`CountedIsLive` speaks of a running hub, for the reason above; `DestroyedGoes` supposes that the applications leave the hub
alone in the end, and excepts a hub that went with a completion owed. Fairness: threads run, what was cancelled completes, and the pump serves its port
and its messages in turn (strong fairness, which `IoServed` and `SignalsServed` of
the pump justify).

`P2PeerConLife_proofs` proves, for any connections and addresses, any finite set of
applications' threads, any number of signals and every interleaving:

* `TypeCorrect`: the types (`TypeInv`);
* `CountIsExact` (`[]CountsExact`): an unclaimed count is the number of holders;
* `ClaimedIsUnheld` (`[]CountedIsLive`), `RegistryIsLive` (`[]RegistryLive`);
* `AddressIsUnique` (`[]NoTwins`), `RestIsReclaimed` (`[]Reclaimed`).

One inductive invariant, `IInv`, gives them all, because none stands without the
others. The count (`RefInv`) can only go wrong if a claimed or deleted connection is
retained, so `LastInv` says that such a one is held by nobody, except that the hub,
as it closes, still signals a bare pointer; that this happens once for each
connection, and so cannot bring a claimed count back to life, is `WalkInv` (the
enumeration only goes forward), with `RecvInv` (one receive and one start of a
connection at a time). That a connection at zero is going to be deleted is `RestInv`:
it rests in the registry undestroyed, or a `Release` that saw the zero is on its way to
the claim. `JobInv` carries the scan of `PostP2PeerCon` to its append: what is listed
and unclaimed, the scan has seen. `PhaseInv` is what each phase of the close leaves.
Most steps are alike in taking or giving back as many references as they add or remove
holders (`Balanced`), and the lemmas on counting say so for each kind of holder. TLC
checked `IInv` on the instance of `life` before it was proved. Only model-checked:
`DestroyedGoes`.

Not modelled here: the restart timer and the connections an accept spawns
(`P2PeerConWsa`), several pumps of a hub, the explorer's registry.

## 8. `P2PAuthReplay`

What a hub remembers so as to accept a signed block once. `seen` = `m_pSeen`
(nonces of logins, kept for twice the window), `seenRel` = `m_pSeenRel` (relay
signatures), `seenSeal`/`sealNext`/`sealFloor` = the ring of sealed bodies and the
floor that rises when it overwrites. `VerifyLogin`, `VerifyRelay` and `Open` are one
step each, for all calls hold the hub's section; the wire hands them any block at
any time. Signers stamp with clocks of their own (`sent` is any stamp), this hub's
clock may be set back once, the process may restart, keys come and go, refusal is
switched on and off, and the window is 0 (no limit of age) or 1.

`auth` runs three blocks of any kind and stamp against caches that hold two, over
four instants: the third block evicts, four instants pass the window on both sides.
`OnceInWindow` excepts, by name, what the code does not promise: a clock that was
set back, an entry dropped for want of room, another run of the process. `SealOnce`
says exactly which sealed bodies open twice: those stamped in the second of the
floor, because the comparison with it is strict.

`P2PAuthLogin_proofs` holds the theorems of this module and of the next one, which model
two parts of one class; that is why the specification here is `CachesSpec` and its clock
`clock`. The run `auth` explores both parts too. They share no variable, so it goes
through each from its start with the other at rest, instead of through their product
(`half` in `MCP2PAuthLogin`); 3.7 M states. It proves `CachesTypeCorrect`, `AcceptedOnce` (`[]OnceInWindow`) and
`OpenedOnce` (`[]SealOnce`) for any blocks, windows and room: what was taken has an
entry made within the window of its stamp, or is too old to pass; an opened body is
in the ring or at most at the floor.

## 9. `P2PAuthPolicy`

Whom a hub believes: the allow-list and the revocation list in memory, their files,
and the lists an authority publishes. `phase` is the process down, configuring its
hub, or running it; `known` and `struck` are history (what the hub was told to
refuse and nobody took back; what an operator took out of the file).

Actions follow the methods of `P2PAuthPolicy` (`SetAllowList`,
`ReloadRevocationList`, `SetRevocationAuthority`, `IssueRevocationList`,
`ApplyRevocationList`, ...), with files that go bad or missing, `ApplyFails` (an
entry could not be written: those before it are in force, the epoch is not raised)
and `CrashInApply` (the process dies between two entries). `PeerKeys` are the keys a
login is tried against.

The other half of `auth` runs one authority that may name itself, one more key,
staleness after one instant, three instants. `RevokedStays`: a running hub tries no key it was told to
refuse; `EpochCovers`: lists up to the claimed epoch are held entry by entry.

`P2PAuthLogin_proofs` proves `TypeCorrect`, `WithdrawnStays` (`[]RevokedStays`) and
`EpochMeansHeld` (`[]EpochCovers`) for any keys, authorities and lines: what must be
refused is on the disk before it is in memory (`OnDisk`), memory that may lack it
refuses everyone (`InMemory`), and the lists of one authority are nested with their
size for epoch (`Nested`, `Sized`).

Not modelled: key files and their sealing at rest, and options that only store a
value. The loss of the revocation file counts as the operator taking its lines
back: `AppendRevocationList` then makes a file with the new line alone.

## 10. `P2PeerConLogin`

One connection between a client's hub and a server's, from the dial to the last
message: agreement on keys, login, acknowledgement, application messages, over a
link that is cut at any time and dialled again with the same client object.

State: `con[e]` is the connection object of an end with the fields of the code
(`login`, `hold` = `ConState_LoginHold`/`Parked`, `queued` = the receive buffer's
`bQueued`, `keyx`, `bind` = `m_KeyXBind`, `cypher` = `m_pP2Pcrypto`, `nonce`,
`proven` = what `m_oAuthPeer` was proven over, `deadline`), its `queue` and the
`notices` the pump owes it. `looping` is the receive loop between two reads,
`acking` the pump between `OnLogin` and `LoginAck` of one handler. A session is
"this" or "past", so that whatever an object carries over into the next session is
seen to be old. `policy` is what each hub requires of this link: all, none on this
class of link, none with a key, none without. `lingering`: the server still lists an
earlier connection under the client's address, which makes it refuse the next.

Actions: of the loop `Receive`, `Park`, `AwaitMore`, `Read` (frame, gate and what it
posts), `ReceiveFails`; `Send`, which takes the first sendable message (that a
sendable message is sent is the subject of `P2PeerConSend`); of the pump
`On_ConAccept`, `On_ConConnect`, `On_ConLogin`, `LoginAck`, `On_ConLoginAck`,
`On_ConClose`; and `Restart`, `On_PITimer` (the login deadline), `Vacated` (the
server's transport reports the dead connection), `Cut`, `PostP2PeerMsg`.

`apart` says whether the pump is the thread that serves completions, as in the stock
hub (`PumpP2Pmsg` does both, `P2Pwin32.cpp:5604`), or another, as after the handlers
of a connection are swapped to another pump. Both are run.

| run | question | instance |
|---|---|---|
| `login` | proof of sessions, refusals, receives, settling | all 16 pairs of policies, apart or not, two cuts or deadlines, two messages posted at each end; 222 000 states |

Two cuts reach a second restart while the first session's remains are still listed;
two messages at an end put one before and one behind the login in its queue.
`ProvenAndSealed` and `OneReceive` hold for every policy and both arrangements of
threads. `SessionsStand` and `Settles` are about hubs whose settings agree and pumps
on the completions' thread: apart from it, `OnLogin` sets `ConState_Login` before the
`LoginAck` is queued, and an application message that slips in between is refused by
a client that has not logged in.

Fairness: loops, send paths and pumps run, the restart timer elapses, and a dead
connection is reported in the end. The deadline, cuts and applications are obliged
to nothing. Deadlock is not checked, because a settled session without further posts
has nothing left to do.

`P2PeerConLogin_proofs` proves, for any policies and any number of cuts, deadlines
and messages, `TypeCorrect`, `SessionsAreProven` (`[]ProvenAndSealed`) and
`OneReceiveOnly` (`[]OneReceive`). What is claimed of a connection that has logged in
is said, in `SessionInv`, of every login the pump still owes as well; `FreshInv` says
that the object a restart takes carries nothing over (this is what `KeyXReset` in
`OnClose` is for); `NoticesInv` that a connection's notices begin with its opening and
end with its closing; `LoopInv` that a stopped loop has left no read behind. `Good`
collects these per object, so that each operator has one lemma and each action uses a
few.

It also proves `SessionsAgree` (`[]SessionsStand`), which needs both ends at once. Its
invariant `StandInv` names thirteen stages of a login by where the one handshake that is
under way is: in a queue, on the wire, owed to a pump as a notice, being acknowledged.
`At` says what each end, its queue, its notices and its wire look like at a stage. Two
ends of a link that stands are at one stage; once the link is cut, each goes on by itself
from the stage it had reached, until its pump has dropped it (`Session`, and `Quiet` for
what a dropped end keeps). A step of one end moves to a stage that looks the same to its
peer (`Onward`, `SameForServer`, `SameForClient`); only a send moves both at once
(`ClientSends`, `ServerSends`). A refusal is at none of the stages, so none ever happens.
TLC checked `StandInv` on the instance of `Login.cfg` before it was proved.
Only model-checked: `Settles`.

Not modelled: mounts and wrapped logins, what `P2PAuthReplay` and `P2PAuthPolicy`
add (clocks agree, keys are known), and the marks of back-pressure.

## 11. `P2PeerConWsa`

A socket endpoint that must stay in service: a `SERVICE` that listens and accepts, or a
`CLIENT` that dials again after every close (`m_uAutoRestart` is 20000 ms unless
changed), with the default handlers of `P2PeerTarget`.

State: `sock` and `asock` are the two sockets, `op` the OVERLAPPED of the accept or the
connect, `recv` that of the read. Each is absent, at rest, `flying`, `cut` (its socket
was closed, its completion is still owed) or completed on the port. `latched` is
`m_pEvent`, `timer` the restart timer, `fifo` the messages of this connection on its
pump, which other connections share. `child` are the accepted connections as far as
their slot goes: `limbo` was counted but has no port, `deaf` dropped without a close to
come; `accepted` and `tally` are the counts that admission reads and the destructor of a
child gives back. `key` is what `AcceptSpawn` of the base class reads of the peer for
itself, which can differ from what admission read if the peer has gone.

Everything that fails ends in `Drop`, which posts a `P2P_Close` unless an event is latched
already or the pump is just dispatching a `P2P_Close`, of whatever connection. `lapses`
names what then silences an endpoint: `misread` (a completion, a timer or a signal is
served while the pump still points at the last message of a cut batch, which was another
connection's close), `spent` (the table of timers was full in the close handler, so the
exception latched an event with its own close in dispatch) and `overlap` (the connect's
OVERLAPPED was prepared again while owed, after which the model stops).

| run | question | instance |
|---|---|---|
| `endpoint` | does it stay in service, does admission hold, do slots come back | a service and a client; two sources on the allow-list, two slots, one for each source; two calls of the application; 214 000 states |

Two slots and a share of one let a source be refused while there is room, and a service
that is full refuse everyone; two calls put a `Close()`, `Shutdown()` or signal in front
of and behind each completion. `NeverForgotten`: whatever the interleaving, an endpoint
that is not destroyed has something to come that wakes it. `AdmissionHolds`: the counts
are those of the connections that exist, within their bounds. `ComesBack` and
`SlotsReturn` are the liveness of both: a service accepts again whomever it refused, a
client dials again, a peer that says nothing loses its slot to the login deadline.

Fairness: the pump serves messages, port and timers (as for `P2PmsgPump`), the system
completes a connect either way and whatever was cut, a child that is closing goes
(`P2PeerConLife`). No peer is obliged to connect, log in or send. A stop is legitimate
(a destroyed service), so deadlock is not checked. Supposed: bounds and deadline are configured (they are by default); without a bound
or a deadline admission promises nothing. Not modelled: families and name resolution,
`closesocket` itself failing, a service an application re-arms by hand.

`P2PeerConWsa_proofs` proves, for any sources, bounds and number of calls, `TypeCorrect`,
`NeverLeft` (`[]NeverForgotten`) and `AdmissionIsExact` (`[]AdmissionHolds`). That an
endpoint has a message left is not inductive, for the message may be one that leads
nowhere: `LookedAfter` says that a close is coming or that the endpoint is `Tended`, by
an operation or a message that leads on from the state it is in, or closed by something
that opens it again. Every `Drop` leaves a close or a lapse (`DropEnd`), the handlers
hand on from one to the next, and the close handler leaves a timer. The counts rest on
`OneErrand`: startup, listen and accept are one errand a service runs one at a time and
never while its accept is under way, so the accepting socket it serves has a peer and a
connection that counts for a source comes from it (`Named`). TLC checked the invariant on
the instance of `Endpoint.cfg` before it was proved. Only model-checked: `ComesBack`,
`SlotsReturn`.

## 12. Disagreements between the code and what is said of it

Two have a run of their own, because each breaks what a passing run or a proof says
under an exception:

* `pump_lostwake`: the comments at `P2Pwin32.cpp:606` and `5380` promise that no
  message is enqueued without a wake because the producer holds `m_oCSection`;
  the system-message post, the event sinks and `SwapContext` do not hold it.
* `timer_starved`: `SECURITY.md:802` says that `SetLoginDeadline(ms)` drops a peer that
  connects and never logs in. `SetTimer` puts a timer before the last entry that is not
  later instead of after it (`P2Pwin32.cpp:652`), and the pump looks at the head only:
  two held connections that re-arm their polls keep an expired login deadline from
  firing for as long as both poll.

The others are in the models as the code has them. No run states them; properties
that need it name the exception.

* The comment in `SignalP2PmsgHub` (`P2Pwin32.cpp:3099`) explains why releasing the
  registry lock before using the pump is a use after free at teardown; the posting
  calls (3459, 5819, `PostP2PmsgBatch`) still do it.
* After 256 timers the id of a timer names another thread (`P2Pwin32.cpp:634`), and a
  cancellation misses it (`CancelMisses`, `CancelThrows`).
* A hold that ends with its connection leaves `m_bRecvThrottled` up
  (`P2PeerCon.cpp:1802`); restarted, the connection is taken to be held and no poll is
  armed.
* `PostP2PeerMsg`, "thread safe" (`P2PeerCon.cpp:2034`), reads what the pump writes
  without its lock: a post between the release of the send buffer and its next use
  makes the send fail with "Internal conflict (Bug)" and drops the connection.
  `OwnedOnce` and `NothingStranded` hold even so.
* `OnClose` says that it reflects the queued messages as undeliverable and delivers the
  exception "back to source" (`P2PeerCon.cpp:5213`, `5232`). The post of that exception
  is commented out (`5239`, "FIX-ME Activate"): the messages are deleted and nobody is
  told, neither the sender nor the application. `P2PeerConSend` deletes them; in
  `P2PeerRouting` they end as "lost", which `Conserved` allows once something failed.
* A message more urgent than the whole queue is appended at its end
  (`P2PeerCon.cpp:2061`; `Readme.md:107` and `210` say otherwise).
* `ReflectP2PeerMsg` swaps the addresses of a message and keeps its attestation
  (`P2PeerTarget.cpp:1763`), which the gate of the next link refuses when relayed
  messages must be attested, dropping the link (`GateHonest` excepts it).
* A connection `PostP2PeerCon` refuses is deleted before the refusal is returned
  (`P2PeerHub.cpp:746`), where `Targetcore_c.h:255` says it is still the caller's.
* `SECURITY.md` states the ceiling of the budget as a bound: "a post beyond it raises
  P2Pevent_QUEFULL". The test (`P2Pwin32.cpp:5801`) and the increment are apart and
  under either of two locks, the test lets the count reach one more, and timers are not
  tested, so the count can pass it.
* `On_ConShutdown` restarts a connection (`P2PeerTarget.cpp:2863`), but `Restart` insists
  on being called during a `P2P_Close` (`P2PeerCon.cpp:5094`) and throws: what restarts is
  the close that the exception's `Drop` posts.
* "P2P_Close notification MUST be performed once per attached event"
  (`P2PeerConWsa.cpp:1753`): none is when `Drop` mistakes another close for its own, or is
  called from its own (the lapses `misread` and `spent`).
* "ONE reading of the socket, then two answers derived from it"
  (`P2PeerConWsa.cpp:1423`): the tally is kept under a second reading
  (`P2PeerCon.cpp:464`), so a peer that goes in between counts for no source.
* `SetRevocationAuthority` keeps the epoch (`P2PAuthLogin.cpp:1139`): a new authority
  is not heard until its list is longer than the last one's, or is issued with an
  explicit epoch (1054), though `P2PAuthLogin.h:589` offers rotation as the way out of
  a stale list.

## 13. Not modelled, and what proofs do not reach

`PROJECT.json` lists every part with its status. Codecs, the other transports, cryptography,
explorer, service host, logging and C API are computation or operating-system I/O;
`P2PeerMsgQue` is used by nothing. Event sinks are only seen as a kind of post. The
parts marked `partly` name what they leave out.

Everything under fairness (`Implements`' liveness, `SignalsServed`, `IoServed`,
`DeadlinesCome`, `QueuedLeaves`, `Quiesces`, `DestroyedGoes`, `Settles`,
`ComesBack`, `SlotsReturn`) is
model-checked only: the prover does not handle liveness. Every invariant and every
action property that the passing runs check is also a theorem, and so is the safety part
of `Implements`.
