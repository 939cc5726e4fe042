# T-Bridge: a TLA+ model

T-Bridge shares a terminal between two machines through a relay. This directory
holds TLA+ modules for the parts of it that keep state, the TLC configurations
that check them on small instances, and TLAPS proofs about each of them for every
instance. `PROJECT.json` lists runs, mutants, the map from definitions to source lines,
hazards, findings and theorems.

To check: `tlc -config MCRelay.cfg MCRelay` (and so on, section 4), and `tlapm M.tla` for
each module `M` whose name ends in `Proofs`.

## 1. The system

Three programs live in the repository. The *relay server* (`apps/server`) serves
the *command line* (`apps/cli`: `share`, `connect`, and an interactive wizard). The
*full-screen program* (`apps/tbridge` on `packages/*`) is a second generation with
its own relay worker and protocol.

| part | source | state | operations | talks to |
| --- | --- | --- | --- | --- |
| relay handlers | `apps/server/src/main.ts` | grace timers, session start times, addresses of sockets | one handler per message, close event, expiry sweep, grace timer | registry and limiter (calls), clients (messages) |
| room registry | `apps/server/src/session-manager.ts` | rooms; maps from code, socket and session id to them | registerHost, registerGuest, approve, reject, reconnect, releaseSocket, expireRooms | relay handlers |
| rate limiter | `apps/server/src/rate-limiter.ts` | timestamps per key | check, reset | relay handlers |
| `share` | `apps/cli/src/terminal/remote-host.ts` | connection, attempts and timers, session id, keys, shell, backpressure | message handlers, open, error, close, timers, shell output and exit | relay, shell |
| `connect` | `apps/cli/src/terminal/remote-guest.ts` | the same without a shell; raw mode, stdin listener | the same; keys typed, Ctrl+] | relay, terminal |
| wizard | `apps/cli/src/tui/app.ts`, `input.ts` | phase of the flow, cipher, role, shell, terminal | menus, message handlers, close | relay (which it may start), policy, terminal |
| workbench | `packages/tui/src/app.ts`, `components/*` | panes, focus, sidebar list and selection, modes | keys, palette actions, commands, resize | engine, network |
| engine, sessions | `packages/engine/src` | sessions and their status | createSession, closeSession, close, kill, exit | PTYs, workbench |
| peer network | `packages/network/src` | socket and its status, peer connections; the worker's clients, ids and codes | connect, reconnect, ping, pair, handshake, send; routing | workbench, other peers |
| session cipher | `packages/crypto/src/index.ts` | send and receive counters | encrypt, decrypt | all clients |
| policy | `apps/cli/src/permissions` | `policy.json` | allow, deny, forget; decideAccess | `share`, wizard |
| identity | `apps/cli/src/identity` | `identity.json`, the operating system's credential store | login, logout; loadOrCreateIdentity | `share`, `connect`, wizard |
| command line | `apps/cli/src/main.ts` | which command a process runs | dispatch | all of `apps/cli` |
| screen, toasts, log, codecs, entry points | the rest | none that matters to another part | | |

**Relay.** A host registers a share code; the relay opens a *waiting* room. A guest
registers with the code: the room becomes *pending* and the host is asked. The
host approves (the room gets a session id and becomes *active*, and terminal
traffic is forwarded) or rejects (the room *ends*). If the connection of a member
of an active session closes, the relay keeps the room for a grace period in which
that peer may reconnect by session id and deviceId. Codes expire.
*Hard:* any handler may run between any two others; a close event may arrive long
after the peer has reconnected; two grace timers can run for one session and only
one is on record; rooms expire inside a registration as well as in the sweep; the
maps and timer tables are updated separately.
*Correct means:* maps and rooms agree; no session is stranded or ended by a stale
timer; nobody is left waiting; expired codes admit nobody; rooms follow the
documented life cycle.

**Command-line peers.** *Hard:* `error` and `close` of one connection are both
handled; timers of several attempts overlap; the connection is replaced under the
shell and under the input listener; backpressure pauses and must resume.
*Correct means:* the peer keeps trying until it is closed and then stops; the shell
stops with it; what is typed is sent once, and never on a connection being made.

**A session from end to end.** *Hard:* a lost connection is noticed at three places
at different times; messages of a connection and of its successor overtake each
other; the relay's decisions about timers and seats meet the clients' decisions to
end; the guest types before the keys are exchanged. *Correct means:* the streams
stay in order; nothing is missing if nothing was lost; both peers end together; the
clients are what the relay takes them for.

**Policy and identity.** *Hard:* every command is a process of its own and they
share two files and a credential store without a lock; `writeFile` empties a file
before it writes; a process may die at any point; the credential store may refuse.
*Correct means:* no reported change of the policy is lost by a crash, a torn file
never counts as "nobody is blocked", a key that is on record exists, and a machine
remains one device.

**Wizard.** *Hard:* handlers await a menu and go on in a world that has changed;
raw mode is set in four places. *Correct means:* a viewer cannot type, an ended
session has no shell, terminals are restored, each peer learns that the other left.

**Workbench and engine.** *Hard:* closing a session waits up to two seconds while
keys and exits go on; the same facts (focus, sessions, selection) are kept in four
objects; modes nest. *Correct means:* those objects agree; closing ends; panes tile.

**Peer network.** *Hard:* a peer returns before its old socket's close is seen; keys,
requests and data can be discarded by the limiter; key messages arrive in any
status. *Correct means:* peers stay reachable, a handshake happens once, a loss does
not poison what follows, an undisturbed pairing completes.

## 2. Modules

| module | models | checked by |
| --- | --- | --- |
| `Relay` | `main.ts`, `session-manager.ts` of the server | `MCRelay` |
| `RoomLifecycle` | the documented life cycle of rooms; implemented by `Relay` | `MCRelay` |
| `RelayInvariant` | the inductive invariant of `Relay` | `MCRelay` |
| `RateLimiter` | `rate-limiter.ts` | `MCRateLimiter` |
| `SlidingWindow` | a limiter that keeps every event; implemented by `RateLimiter` | `MCRateLimiter` |
| `ClientLink` | connections and reconnection shared by `share` and `connect` | through `Cli` |
| `HostCli`, `GuestCli` | `remote-host.ts`, `remote-guest.ts` on `ClientLink` | through `Cli` |
| `Cli` | a process that runs one of the two commands | `MCCli` |
| `Session` | one approved session: `remote-host.ts`, `remote-guest.ts`, the relay's room and the connections; implements `Relay` | `MCSession` |
| `TextFile` | a file shared by processes that use `readFile` and `writeFile` | through `Device` |
| `PolicyStore`, `IdentityStore` | `permissions/policy.ts`; `identity-store.ts` and `keychain.ts` | through `Device` |
| `Device` | a machine on which several commands run at the same time | `MCDevice` |
| `Wizard` | `tui/app.ts` of the CLI: host, guest and the relay's part | `MCWizard` |
| `PaneGrid` | `_calculateGrid` of `pane-manager.ts` | through `Workbench` |
| `Workbench` | `App`, `PaneManager`, `Sidebar`, `CommandBar`, `CommandPalette`, engine, sessions | `MCWorkbench` |
| `PeerNetwork` | `packages/network`, `SessionCipher`, `App`'s network handlers | `MCPeerNetwork` |
| `RelayProofs`, `RateLimiterProofs`, `CliProofs`, `SessionProofs`, `DeviceProofs`, `WizardProofs`, `WorkbenchProofs`, `PeerNetworkProofs` | inductive invariants and theorems about the module of that name (section 5) | `tlapm` |

Node runs one handler at a time, so a handler, up to its next `await`, is one
action. Definitions named `Mutant: ...` in the modules are plausible errors; each is
used once, in place of the definition that follows it, to show that a property
notices it.

* **Relay.** A room is named by the socket that registered it, a session by its
  room, a timer by the socket whose close event started it. `elapsed` is the set of
  rooms whose TTL has passed; `timers` are the grace timers that are set, whether or
  not `graceTimers` still knows them; `inbox` is the set of kinds of message a
  socket was sent. Clients behave as those of `apps/cli`: one opening message per
  connection, an answer only to a request. The relay's limiters are left to
  `RateLimiter`: a refused message changes no state of the relay.
* **RateLimiter.** Milliseconds are a counter; `admitted` is the history of events.
* **ClientLink, HostCli, GuestCli, Cli.** `Connection` is a pool of WebSocket
  objects; a closed one returns to it, which is sound because handlers only ever
  compare connections. `timers[n]` counts the reconnections of attempt n that wait.
  The relay is the environment and may send what `Relay` sends in that phase.
  Buffered bytes are three levels around the two marks.
* **Session.** Starts when the relay has sent SESSION_READY to both. A connection
  has a queue each way; a close travels in it, while a cut empties each queue when
  its reader notices, at any later time. Terminal traffic is numbered, so that what
  arrives can be compared with what was sent. Handlers are those of `Relay`,
  `HostCli` and `GuestCli`, without what comes before the approval, limits and
  backpressure. `inbox`, a history, is there for the refinement of `Relay`: the first
  connection of the host stands for the room.
* **PolicyStore, IdentityStore, Device.** An action is what a process does between
  two awaits; `writeFile` is two, as it opens (and empties) the file before it
  writes. A file is absent, whole or torn; a text is its meaning and its length, as
  a longer text leaves its rest behind a shorter one written at the same time. User
  ids are taken to be equally long. An identity is named by the process that made
  it. `completed`, `stale`, `removed` and `disturbed` are histories.
* **Wizard.** Phases are the points where a handler awaits. The relay's part is
  that of `Relay` for one room and two sockets, with queues to each peer.
* **Workbench.** A session and its pane share a number. What the 1200 ms window
  decides about Ctrl+C is left open (it may quit or go to the shell).
* **PeerNetwork.** A socket also names the code the relay gives it; a connection
  its ephemeral key; a set of two keys a cipher. Operators on
  `[conns, out, mounted, thrown]` follow a message through the listeners, in order,
  up to the first exception. `App` itself connects only to the relay in its own
  process (`app.ts:178`) and a second program on the machine fails to start its
  relay first; the model is of two `NetworkManager`s on one worker, as the package
  and its test use it, with `App`'s handlers.

## 3. Abstract specifications

* `RoomLifecycle` (`LifeCycleSpec`): rooms go waiting, pending, active, ended; the
  device on each seat changes only with the state. Checked, and proved, with the
  mapping from `rooms` and `client`.
* `Relay` itself, for `Session` (`ImplementsRelay`): one room of it, with all its
  conditions on clients; the inductive invariant is checked in the initial state
  and every step against `Relay!Next`. Checked and proved.
* `SlidingWindow` (`FullSpec`): the decision of a limiter that forgets nothing.
  Checked and proved.

## 4. Runs

| run | instance | shows |
| --- | --- | --- |
| `relay` | 4 sockets, 2 codes that may be used again, a device per role | safety of the relay |
| `relay_liveness` | 3 sockets, 2 codes used once | life cycle; codes; unapproved rooms and lost connections are dealt with |
| `limiter` | 2 keys, limit 2, short window, 8 ticks | the bound holds on every window; `retryAfterMs` is exact; pruning loses nothing |
| `cli` | 2 connections, 3 attempts | safety and liveness of both commands |
| `host_output_resumes` | 3 connections; violation | section 6 |
| `session` | 2 connections of each peer, 1 lost, 2 chunks typed, 1 printed | the streams |
| `session_relay` | the same without traffic, 1 reconnection that fails | refinement of `Relay`; ending together |
| `session_alone` | 3 connections of each peer, 1 lost; violation | section 6 |
| `device` | 3 processes, 2 users, symmetric | policy, keys, identity |
| `wizard` | 2 chunks each way | safety and notification |
| `workbench` | 3 sessions, 2 widths, layouts of up to 9 panes | consistency, tiling, closing |
| `network` | 3 sockets, 1 pairing, 1 send, 1 loss | registration, handshake, reachability, pairing |

**Bounds.** Four sockets are two peers and one reconnection of each, or two hosts
and two guests competing for codes; every handler's conditions look at one room,
one socket and its peer, so a third room adds no case. Sockets and codes are
symmetric in the safety runs; the liveness run uses no symmetry. Two connections of
a command-line peer let two attempts be under way at once, which is what its
handlers can confuse; three attempts are the code's own limit; timers of one
attempt are counted up to one. Three sessions of the workbench let the focused,
the first and another pane be distinct while one closes. Three sockets of the peer
network let either peer come back once; one discarded message before or after the
others makes every gap. Two typed chunks are the
least that can change places, before and after a reconnection; one lost connection
takes one more connection of its peer. `StreamsInOrder` is about at most two
connections of each peer, and fails with three (section 7, 3). What the bound on connections holds back in
`session` and `session_relay` is a peer that is refused again and again, and the
second of the two reconnections that a failed one schedules; in `session_alone` there
is one connection to spare. Without traffic the relay still forwards keys, sizes and ends. Three
processes are two that overlap and one that comes after them. Queues are bounded by
what the clients send; no run uses a state constraint.

**Fairness.** Relay: timers fire, the sweep runs, the clock advances, a close that
was begun completes; nothing is assumed of clients. Command line: TCP decides
every attempt and close, delivers what is buffered, and the relay answers a
RECONNECT of a forgotten session. A reconnection timer is strongly fair because it
waits while the pool is in use. The drain interval (50 ms) runs before a connection
is replaced (a second or more). Session:
what has arrived is handled, both ends of a lost connection notice it, attempts
succeed or fail, timers fire; nothing is assumed of the user or the shell. Device:
none. Wizard: messages that arrived are handled, closes
complete. Workbench: the two-second timer of `close()` fires; nothing is assumed of
shells. Network: sockets open, messages are read, pings arrive, and each end of a
failed connection sees its close; the limiter's discarding is bounded by `MaxLost`.

`CHECK_DEADLOCK` is off where programs may really end or users may do nothing.

## 5. Proofs

Every theorem below is about every value of the constants, under the assumptions
named with it. Each `...Proofs` module has an inductive invariant, `IInv` (for the machine
one per store), that TLC checked on the instance of its run before it was proved, one
lemma for each handler, and the theorems that follow. The bounds of section 4 (`MaxTime`,
`MaxTyped`, ...) are arbitrary numbers here.

**The relay.** `RelayProofs`, for any sets of sockets, codes and devices, from
`NoneAssumption` (`None` is none of them):

| theorem | statement |
| --- | --- |
| `TypeCorrect` | `Spec => []TypeOK` |
| `Invariance` | `Spec => []IInv` |
| `RegistrySafe` | `Spec => []RegistryConsistent` |
| `NoStrandedSession` | `Spec => []AbandonedIsTimed` |
| `TrafficOnlyWhenReady` | `Spec => []NoTrafficBeforeReady` |
| `NobodyLeftWaiting` | `Spec => []EndIsTold` |
| `OnlyLossEndsSession` | `Spec => EndsOnlyWhenPeerGone` |
| `ExpiredCodesAreDead` | `Spec => ExpiredCodeAdmitsNobody` |
| `ImplementsLifeCycle` | `Spec => LifeCycleSpec` |
| `CodesLead` | `Spec => []CodeLeadsToRoom`, if `ReuseCodes = FALSE` |
| `RolesKept` | `Spec => []RoleKept`, if no device is both a host and a guest |

None of the safety properties is inductive. `RegistryConsistent` needs to know what
a room looks like in each state (`RoomShape`) and that a socket is in one room
(`OneRoomEach`), or a handler could empty a seat of a room the maps still name.
`AbandonedIsTimed` needs `TimerShape`: the timer on record is set and belongs to
the session, so that cancelling it in `handleReconnect` is made up for by the socket
that has just come back. `EndsOnlyWhenPeerGone` rests on `RequestShape`: `reject`
does not look at the room's state, and what saves an active session from a late
answer is that a host owes an answer only about a room that is pending or ended.
`NoTrafficBeforeReady` needs `MembersReady`. `ImplementsLifeCycle` maps each handler to
a step of the life cycle or to a stutter; the reconnection is the hard one, as the device
on a seat must be the one that was there (`SeatDevices`). `CodesLead` is about
codes that are never registered twice, which the code leaves to chance (section 7, 1).
`RolesKept` is about the seat that RECONNECT finds by device alone: it needs that a known
socket keeps its role and a device of that role (`RoleInv`), and it is false of a machine
that joins its own session (section 7, 1).

**The limiter.** `RateLimiterProofs`, for any keys, limit and window, from
`LimitAssumption`, `WindowAssumption` (both are positive) and `BoundAssumption`:

| theorem | statement |
| --- | --- |
| `TypeCorrect`, `Invariance` | `Spec => []TypeOK`, `Spec => []IInv` |
| `WindowBounded` | `Spec => []SlidingWindowBound` |
| `RetryExact` | `Spec => []RetryAfterExact` |
| `ImplementsSlidingWindow` | `Spec => FullSpec` |

The bound is about every window of the history, also those that ended before the
timestamps in them were pruned. The invariant (`Recent`) therefore relates what is kept to the
history: it is the last part of it, what was dropped had left the window, and any two
events that are `maxEvents` apart are a window apart. The loop of `prune` is followed by
taking the least index at which it would stop.

**The command line.** `CliProofs`, for both commands, any pool of connections and any number
of attempts, from `LinkAssumption` (there is a first connection; `None` is none):

| theorem | statement |
| --- | --- |
| `TypeCorrect`, `Invariance` | `Spec => []TypeOK`, `Spec => []IInv` |
| `AlwaysUnderWay` | `Spec => []NeverIdle` |
| `SendsWhenOpen` | `Spec => []NoSendWhileConnecting` |
| `OneListener` | `Spec => []TypedOnce` |
| `ClosedStopsShell` | `Spec => CloseStopsShell` |

`NeverIdle` is broken by no single handler but by two that rely on each other, so it
needs `LinkShape`: before there is a session there is one connection and no
timer, and a connection that still registers is dead once there is one; otherwise an
`open` of an old connection would register again, or its end would close the command.
`NoSendWhileConnecting` needs `GuestInv`: `currentSocket` is the first connection until the
session exists, and then one that has opened. What the two commands share is proved once.

**A session.** `SessionProofs`, from `SessionAssumption` (the bounds are numbers) and
`NoneAssumption` (`None` is nothing that `Relay` tells it apart from):

| theorem | statement |
| --- | --- |
| `OrderWhileSeatsAdvance` | `Spec /\ []OneConnection /\ [][SeatsAdvance]_vars => []StreamsInOrder` |
| `InOrder` | `Spec => []StreamsInOrder`, if `MaxConnections <= 2` |
| `NothingIsMissing` | `Spec => []NothingMissing` |
| `RelayImplemented` | `Spec => ImplementsRelay` |
| `RelayKept` | `Spec => []AtRelay!IInv` |

A chunk is in the guest's queue, in the relay's to the host, or read, and there may be
such queues on a lost connection and on its successor at once. `PathInv` says of each
direction that every queue from which a chunk may still be heard is sorted, newer than all
that was heard, and older than the queues behind it. A handler does one of a few
things to it, each with a lemma: nothing, add the newest chunk at the tail, move one from
the relay's first queue to the last of the other side, or hear one.

The theorem was first stated without a condition, and the proof failed at the relay's
RECONNECT for a good reason: the code does not give it (section 7, 3). It needs that a peer
has one connection at a time (`OneConnection`) and that the seat is never taken back by an
earlier one (`SeatsAdvance`). With at most two connections of each peer, that is one
loss, both follow (`FirstInv`: the first connection is closed before there is another,
and sends no RECONNECT), so `InOrder` assumes nothing of the behaviour. For more, the
conditions are a statement about what the code would have to guarantee.

`NothingIsMissing` has an invariant of its own, `cut = {} => WholeInv`. A peer's key and chunks
are its items, numbered from 0 in the order in which they are made. `PassInv`
says of each direction that the queue to the hearer holds a run of consecutive
numbers that starts with the one awaited, and the queue to the relay the run that follows,
up to the last number made as long as the connection is open; so typing in plain text before
the key, which the shell accepts only once it runs, leaves no gap: its own key is
always ahead. `HeardInv` says that a counter is the number of encrypted chunks heard, so none
is refused. Three parts concern the connections: while the room is active each peer is on its
first one, closes it only to end, and is sent no ERROR and no other close (`LastsInv`);
SESSION_READY comes once and before all items (`LineInv`); and the shell and the counters
exist only with the keys (`ChunksInv`). The run of the other side is claimed only while
the relay forwards (`Flows`): what is typed afterwards is lost, which is no gap.

`RelayImplemented` has no condition: it is about every behaviour, also those in which a seat
goes back to a lost connection. It is the step from the peers' code to what `Relay` takes for
granted of them: there, RECONNECT may only be the first message of an accepted socket that has
been sent nothing; here it is a message in a queue, read at any later time, with closes and cuts
of other connections in between. `ClientInv` says what makes up for that: a
connection is open to the relay before anything is read from it, RECONNECT is the first
message in its queue as long as nothing was sent to it (`OpeningInv`), and whoever has a
seat was sent something (`RoomInv`). Each handler of the relay is then the action of
the same name in `Relay` (`ReconnectInRelay`, `DisconnectInRelay`, ...), and all others
leave the relay's variables alone (`PeerInRelay`). The refinement is carried out with an instance
`R` of `RelayProofs`, so that its invariant (`R!NextIInv`) need not be proved again; `SameIInv`
and `SameNext` show that it says what the instance in `Session` says. `RelayKept` is the gain:
all that is proved about `Relay` holds between these two peers.

**A machine.** `DeviceProofs`, for any finite set of users and any set of
processes, from `PolicyAssumption` and `IdentityAssumption` (users are finitely many;
`None` is no user, no process and not "keychain"):

| theorem | statement |
| --- | --- |
| `DeviceTypeCorrect` | `Spec => []TypeOK` |
| `PolicyInvariance` | `Spec => []PolicyInv` |
| `PolicyKept` | `Spec => []PolicyIsSum` |
| `IdentityInvariance` | `Spec => []DeviceInv` |
| `KeyKept` | `Spec => []RecordedKeyKept` |
| `SameDevice` | `Spec => []OneDevice` |

A step of the machine is an action on one store or leaves it alone (`PolicyPart`,
`IdentityPart`), so each store has an invariant of its own. `PolicyIsSum` needs
`CopyIsSum`: the copy a process is about to write is the sum and its own change,
unless another was written since it read. `RecordedKeyKept` needs `KeyStored`,
which speaks of every process that made an identity, as its record reaches the file
later than its key the credential store. `OneDevice` needs `Undisturbed`: while a
whole record is there nobody is making another, because every command that reads
it finds its key; and before, the file is empty, so that the first record written
is whole.

**The wizard.** `WizardProofs`, for any number of chunks, from `ChunksAssumption`:

| theorem | statement |
| --- | --- |
| `TypeCorrect`, `Invariance` | `Spec => []TypeOK`, `Spec => []IInv` |
| `ViewerIsSilent` | `Spec => []ViewerNeverTypes` |
| `KeysComeFirst` | `Spec => []CipherFirst` |
| `EndHasNoShell` | `Spec => []NoShellAfterEnd` |
| `EndRestoresTerminals` | `Spec => []TerminalsRestored` |

The four properties are about what a handler finds after its menu, so the invariant says
where a session is: how far the host's way into it has come (`HostInv`), that an end is the
last thing a peer is told (`EndInv`), that the guest's role is the host's choice
(`RoleInv`, `GuestInv`), and where the two keys are (`CipherInv`). Each names the messages
that may be in a queue, and in which order.

**The workbench.** `WorkbenchProofs`, for any number of sessions and any screens, from
`WorkbenchAssumption`: `Invariance` and `PartsAgree` (`Spec => []Consistent`). It needs that a pane is
in the order once and has the number of a created session (`PaneInv`): then removing it
empties the order exactly when it was the last, and a new session is neither shown nor
being closed. `RegionIsTiled` (`Spec => []GridTiles`) is about every number of panes and
every size of screen on which they fit (`Fits`: a column and a row of cells each, and two
for two panes; on narrower screens the code gives widths below zero). It rests on three
lemmas: a strip divided with a remainder is filled in order (`StripFacts`), pane numbers and pairs of
a column and a row correspond (`PlaceFacts`, `PlacesFilled`), and `ceil(sqrt(n))` columns
hold n panes (`CeilSqrtFacts`, `CeilDivFacts`).

**The peer network.** `PeerNetworkProofs`, for any number of sockets and messages, from
`NetworkAssumption`: `Invariance` and `MapsAgree` (`Spec => []RegistryAgrees`). It needs that a
socket is registered only for the peer that made it (`OwnerInv`, `MapsInv`), or the close of an old
socket, which clears the maps by name, could clear another's entry.

With one `/connect` typed per peer (`MaxPairs <= 1`), both may type it, and for any number of
reconnections and lines: `NeverRefuses` (`Spec => []NothingRefused`) and `KeySentOnce`
(`Spec => []HandshakeOnce`). Three parts are added. Only the newest socket of a peer carries
messages, so a queue has one order (`SocketInv`, `CodesInv`). A peer has at most one
connection, and has heard no more than the other has sent on it (`PairInv`). What is
under way holds at most one key, nothing encrypted precedes it, and counters ascend from
the one the receiver expects (`TrafficInv`). The handlers are recursive functions over a
peer's connections; the proof evaluates them on the only one. The hypothesis is
needed: see section 7, item 7.

**Only model-checked.** All liveness, as the provers do not reach it.

## 6. Findings

* `session_alone`: the relay tells the peer of a lost connection "may reconnect" in a
  message that ends it for good; its own close then replaces the grace timer on
  record, which the reconnection of the first peer cancels. That one stays in the
  session alone, a host with its shell running, and is never told (`main.ts:378`,
  `main.ts:334`, docs/mvp-roadmap.md:161; README.md:407 promises a notice).
* `host_output_resumes`: after a reconnection the shell's output goes to the lost
  connection (`remote-host.ts:462`, README.md:406).

## 7. Known deviations without a run

Behaviours of the code, and of the models, that a property was weakened for or
that no document speaks about.

1. *Relay.* When both peers drop and one returns, the other's grace timer is
   cancelled, as in `session_alone`. Expiry inside `registerHost` or `registerGuest` tells the host nothing
   (`EndIsTold` leaves elapsed rooms out). With one deviceId on both ends the
   guest's reconnect takes the host's seat; `LifeCycleSpec` does not tell, as it names
   devices (`RolesKept` assumes a device per role). `releaseSocket` deletes a code that another host may have registered
   since (`session-manager.ts:203`; `CodeLeadsToRoom` is checked with codes used
   once; with `ReuseCodes = TRUE` it fails).
2. *Limiter.* A wall clock that is set back breaks the order prune relies on.
   Entries of keys are never removed.
3. *Command line.* RECONNECT for a session the relay no longer has is answered with
   ERROR; the handler closes the connection, and its close starts over with attempt
   0, for ever (`remote-host.ts:367`). A failed reconnection schedules two (attempt n+1 from `error`,
   attempt 0 from `close`), so attempts multiply, two connections of one peer may live side by
   side, and a chain that is exhausted closes a peer that another chain has reconnected
   (`remote-host.ts:415`). The relay takes the RECONNECT it reads last for the latest
   (`session-manager.ts:151`, `main.ts:321`): when a peer was lost twice, the late RECONNECT of its
   second connection takes the seat back from the third, and older chunks are forwarded after
   newer ones. `StreamsInOrder` fails so with `MaxConnections = 3`, `MaxCuts = 2`,
   `MaxFailures = 0`, `MaxTyped = 2`, `MaxOutput = 0`. Ctrl+]
   during a reconnection does not stop it. The chunk that triggers the pause is
   discarded (`remote-host.ts:465`). Keys typed before the host's key arrives go
   out as `PTY_INPUT` (`remote-guest.ts:106`). After SESSION_TERMINATE, PTY_EXIT or
   Ctrl+] the close handler returns before `cleanup()` and the terminal stays raw
   (`remote-guest.ts:293`). A KEY_EXCHANGE lost while its peer reconnects is never
   repeated: the resumed session has no shell, or a guest that ignores all output.
   `NothingMissing` is about sessions without a lost connection: what was under way
   on a lost one is never sent again. The embedded relay lives as long as the
   process that started it; if it does not come up, `share` reports that and the
   process waits for the relay's process all the same; its SIGINT handler takes the
   place of Node's own, so Ctrl+C stops the relay and not `share`.
4. *Wizard.* The guest's early PTY_RESIZE is always dropped (`app.ts:375`). ERROR
   for one refused message runs `cleanup()` but leaves connection and handlers, so a
   key that comes later opens the menu and starts a shell (`app.ts:387`);
   `NoShellAfterEnd` and `TerminalsRestored` leave that end out. After the shell
   exits neither process closes its connection. Output that starts with `{` and
   contains `roleAssign` is taken for a role. A host that rejects goes on waiting
   though its room has ended.
5. *Policy and identity.* Two commands that change the policy at the same time both
   report success and one of the changes, possibly a block, is lost (README.md:291
   says "permanently"); `PolicyIsSum` lets the sum start again from there. A torn
   file makes every later command fail; only `login` replaces a torn identity, and
   nothing a torn policy. The documented format of the policy file
   (README.md:301-315, `trustedUsers` and `blockedUsers`) is read without complaint and has
   no effect. `login` leaves the key of the identity it replaces in the credential
   store, `logout` does if it cannot read that key. A credential store that does not
   answer makes `share` and `connect` replace the identity without asking. Two first
   runs at the same time act as two devices. Nothing uses the private key.
6. *Workbench.* Ctrl+B, Ctrl+P leaves the prefix set. The sidebar lists a closed
   session until the next update. The palette's index becomes -1 after "down" on no
   match. Tab, up, down and delete pass through the command bar to sidebar or shell.
   The sidebar can be focused while hidden. `close()` sends only SIGTERM and then
   forgets the shell. `stop()` exits without waiting for `shutdown()`. Grids of 5, 7
   and 8 panes leave a gap; very narrow screens give negative widths.
7. *Peer network.* An encrypted connection that gets another KEY_EXCHANGE starts over
   (`peer-connection.ts:81`): after a second `/connect`, two connections of the host and
   one of the guest answer each other for ever (`HandshakeOnce` is checked with one
   pairing; with `MaxPairs = 2` it fails). A pairing that lost a message is not completed, and a second
   `/connect` does not repair it: the host's stale connection answers too, and its
   message uses up the counter of the real one, since `decrypt` notes the counter
   before it authenticates. Two peers that pair with each other at once are both
   hosts, and neither mounts anything. Output of a mounted session is broadcast by
   the guest and typed into the host's shell. Messages still under way on an old
   socket are assumed to arrive or be lost within the two seconds before a
   reconnection; one that came later would be refused.

## 8. Not modelled

The relay that `share` starts when none answers (a probe, a child process and a
poll), drawing and key decoding, JSON codecs, logging, argument parsing, byte
content of terminal traffic and cryptography. `RemoteSession`'s status and
`PeerConnection.disconnect`: nothing sends DISCONNECT. `pruneExited`, session
timeouts, pause and resume of engine sessions: nothing calls them.

## 9. Plan

1. Done: relay, limiter, command-line peers, their composition with the relay,
   policy and identity under several processes, wizard, workbench, peer network; an
   inductive invariant of each, and the theorems of section 5. All invariants, action
   properties and refinements of the passing runs are proved, some under conditions
   named there; their liveness is only checked.
2. Model next: the embedded relay under two `share` commands; `RemoteSession` with
   panes in `Workbench`.
