# claude-room in TLA+

claude-room is a server that lets several people share coding agents: it queues
what members ask, hands one turn at a time to each agent, collects the agents'
answers, and keeps a durable record. This directory holds TLA+ models of it,
TLC configurations that check them on small instances, and TLAPS proofs of the
properties that matter most for instances of any size.

Paths below are relative to the repository root (`src/queue.mjs` is the room's
queue). `PROJECT.json` ties every definition to the lines it models.

## The system

Node runs one handler at a time, so the room itself has no data races. What is
hard is the order in which handlers run: an HTTP request, an agent's hook, the
close of a feed, a timer, a test run that settles, an administrator's command;
and that a handler may fail half-way (a write that throws) or the process may
die between two writes.

| Component | State | Operations | Interacts with | Hard behaviour | What makes it correct |
|---|---|---|---|---|---|
| Queue `src/queue.mjs` | pending messages, busy destinations, turn in flight per destination, prompt memory, rate windows | submit, beginTurn, endTurn, clear | called by web, delegation, admin; reads registry, seats, ledger | destination computed late, per-destination batching | nothing lost or run twice, one turn per destination, FIFO per addressee |
| HTTP routes and drain `src/web.mjs` | none of its own | the routes, `drain`, `abandonTurn`, `handleHook` | drives every other component | seats that vanish between submit and drain, hooks that repeat or fail | every turn that begins is ended; freed work is drained; refusals are visible |
| Seats `src/seats.mjs` | live feeds by id and handle | join, leave, evict, keepalive | web, admin, fleet | eviction only ends the socket; the close comes later; a handle may be another member's by then | one feed per handle, a message goes to the member it is for |
| Delegations `src/delegation.mjs` | records still owed | delegate, onSeatReply, onTurnAbandoned | queue, seats, verify, channel | replies, closes and test runs race for a record | answered once, by identity |
| Turn log `src/turns.mjs` | turns, open turn per destination, indexes by id, prompt and message | open, bindPrompt, activity, reply, close | web | prompt ids arrive late, hooks of other turns | activity and replies land on the right turn; indexes never dangle |
| Identity, admin `src/identity.mjs`, `src/admin.mjs` | members, bans, policies | invite, remove, ban, role, rotate, pause | store, bus, seats | last owner, stale tokens | the room can always be administered |
| Cost ledger `src/ledger.mjs` | totals, seen prompts | record | web, observer | a Stop hook fired twice | nobody is charged twice |
| Permissions `src/permissions.mjs` | open prompts | open, resolve, expire | channel, web, sweeper | a verdict racing the sweep, or another verdict | one outcome per prompt |
| Observer `src/observer.mjs` | event buffer, brief, timer, window budget | note, flush | model process, web | one cycle at a time, rate floor, failed cycles | no event is summarised twice; budget holds |
| Store `src/state.mjs` | files and their backups | write-then-rename, load | server boot | crash between two renames | the roster survives a crash |
| Worker fleet, supervisor `src/workers.mjs`, `src/supervisor.mjs` | worker rows, processes | spawn, stop, exit | registry, seats, store | an exit event of a stopped or replaced process; a room that dies without stopping its workers | rows, processes and members agree |
| OpenCode seat `src/opencode.mjs` | session, turn, deadline, pending context | turn, idle, error, deadline, reconnect | room and opencode over HTTP | deadline against idle, a feed that drops in mid-turn | results matched by identity |
| Claude seats `src/seat.mjs`, `src/channel.mjs` | join state, feed, retry timer | join, seed, feed, retry, notify, reply | room, MCP session | each end of a feed notices its end in its own time; a reconnect meets the old connection | turns reach their seat alone, in order, once; nothing accepted is dropped silently |
| Room seat mod `mod/hooks/register.js`, `mod/feed.mjs` | seat, feed, flag of a room turn, retries | join, leave, pump, submit, follow the seat file | room over HTTP, session, extension's seat file | awaits between a check and its use, overlapping joins, late submits | hooks only of room turns, one feed, every turn closed |
| Fan-out `src/fanout.mjs`, `src/bus.mjs` | subscribers | deliver, publish, disconnect | web, seats, pages | what is published while nobody listens is gone | a turn is one seat's; frames keep their order |
| Page `src/ui.mjs` | what it shows, its stream | start, load, connect, listeners, verdict | room over HTTP and SSE | an old answer arrives after a newer frame; two connections overtake each other | at rest a page shows what is |
| Extension, window `extension/src/extension.js`, `session.js`, `supervisor.js`, `tunnel.js`, `local-seat.js` | the session, processes by name, the feed | start, publish, unpublish, restart, deactivate | room and tunnel processes, seat file | awaits in overlapping commands, kills that return early, slow starts | one room per window, no process nobody can stop, the view tells the truth |
| Extension, workers `extension/src/workers.js`, `chat/workers-*.js` | a row for each worker, the Add button | add, stop, ensureOne, onRoomEvent | room over HTTP and SSE | an answer and a frame about one worker, handles that come back | rows agree with the fleet |
| Extension, chat `extension/src/chat/`, `orchestrator.js` | probe queue, open reply, chips, permission mode | send, relay, probe, switch mode | Claude Code over stdio | a probe's output among a person's, told by position only; a process killed in mid-turn; a start that fails | what is hidden answers a probe; a reply is open only while a turn runs; the chip tells the mode; the destructive mode takes two clicks |

The rest (router, decisions, brief, seed, config, spawn, verify, scripts) is
pure functions or process plumbing; `PROJECT.json` lists each with its status.

## Modules

| Module | What it is |
|---|---|
| `MessageLife` | Abstract: the life of a message and the turns of a destination, with no queue, log, seats or delegations |
| `Room`, `MCRoom`, `RoomProofs` | The core: queue, open turns, seats and delegations with the handlers that drive them |
| `OpenCodeSeat`, `MCOpenCodeSeat`, `SeatProofs` | The driver that lends an OpenCode session to a room |
| `Hooks`, `MCHooks`, `HooksProofs` | The turn log, the prompt memory and the ledger under the sessions' hooks |
| `Store`, `MCStore`, `ServerProofs` | The files the server boots from, with a crash between any two file-system calls |
| `Observer`, `MCObserver`, `ServerProofs` | The observer's cycles, timers and budget |
| `ModSeat`, `MCModSeat`, `ModSeatProofs` | A Claude Code session that serves the room through the room-seat mod: the mod, its feed processes and the room's side of the seat |
| `SeatBridge`, `MCSeatBridge`, `SeatProofs` | The seats of other people's sessions: bridge, feed, fan-out, and what a session hears |
| `Page`, `MCPage`, `PageProofs` | The room's page in browsers, and the permission prompts settled on it |
| `Fleet`, `MCFleet`, `FleetProofs` | The workers: roster, fleet, supervisor, processes, and the extension's list of them |
| `Window`, `MCWindow`, `ExtensionProofs` | The extension's window: the shared start, publishing, restart, and the processes behind it |
| `Chat`, `MCChat`, `ExtensionProofs` | The extension's chat with its orchestrator: what its view shows and hides, probes, permission modes |

An `MC` module instantiates its module for TLC; a `Proofs` module holds the
theorems. Names of actions and variables are the code's where TLA+ allows it. Three
proof modules are about two components each, which share no state; so that one can
extend both, the second has names of its own (`ObserverSpec`, `BridgeSpec`,
`ChatSpec`).

### Room

`Room` composes the queue, the open turns of the log, the seat table, the
delegation records and the handlers of `web.mjs`, `admin.mjs`, `workers.mjs`
and `delegation.mjs` that change them. One action is one handler run to its
end, with every call it makes: `Msg` is `POST /msg` or `POST /upload` with the
`submit` and the `drain` it performs.

* Messages are numbered in the order the queue accepts them, so the queue is a
  set of numbers. Text, authors and chatter are left out; `kind` keeps the two
  classes a delegation may have that are settled differently.
* `roster` and `feed` are separate because they are in the code: removing a
  member takes effect at once, its seat goes when the socket closes. `"ending"`
  is the time between; a feed is `"uncut"` when the removal could not be saved,
  as the code then throws before it comes to the feed.
* A handle is not a member. It is free once its member is removed and may be given
  to somebody else's agent (`Mint`): `holder` is the member that has it, `seatOf`
  the one whose request opened the feed, and a message is `for` the one that had
  it when the message was accepted.
* `Drain` is a closed form of the recursive `drain()`: the oldest message of an
  idle destination starts a turn, and every idle destination ahead of it whose
  seat has gone is rejected on the way.
* A write that throws is its own action (`MsgUnsaved`, `DelegateUnsaved`,
  `StopUnsaved`, `RemoveUnsaved`): the prefix of the handler that ran before the
  throw.
* `ended`, `rejected`, `dropped` and `reports` are history variables.

Bounds: `MaxMsgs` accepted messages; three suffice for one message in flight
and two waiting, the least that can be reordered or merged. `room_safe` has one
seat beside the local channel, `room_live` two. `MaxMints` = 1 gives a handle a
second holder, the least that can be mistaken for the first. `Upsets` names the
disturbances a run admits: for `room_safe` all but the pause, for `room_live`
clearing and the pause, since a queue whose turns are given up need not drain by
itself. The proofs hold for every set of them and any number of seats and holders.

Left out of `Room`: who may address a seat, the rate window and the token
budget (they only refuse more, and leave no trace in this state); chatter;
prompts, activity and cost (in `Hooks`); the brief that precedes a turn; the
payer file.

### Hooks

`Room` ends a turn with a Stop and asks no more of it. `Hooks` is about what
the room is told meanwhile: which prompt a turn is, what was done for it, who
composed it and what it cost.

* A turn is opened by the room, a prompt by a session; they meet at the first
  hook that carries the prompt's id (`BindPrompt`). `answers` is history: the
  turn a prompt really answers, 0 for what the host types.
* The operators of the turn log, the queue and the ledger are functions from a
  value to a value, named for the methods (`Open`, `Close`, `EndTurn`,
  `Record`), so that a handler is the composition the code makes:
  `HandleStop` charges, closes the turn, saves the log, ends the queue's turn
  and drains, in that order.
* The prompt memory is a sequence of entries in the order of the code's `Map`:
  setting a key that is there keeps its place.
* `Upsets`: the host types in the local session (`"own"`), a Stop is sent again
  (`"refire"`), a seat's feed drops in mid-turn (`"drop"`), the room dies
  (`"crash"`), at rest or in Stop between the ledger's save and the log's.

A Stop is sent again only while the ledger still remembers its prompt: 2000
prompts later it would be charged again, and nothing sends a hook that late.

Bounds: two members and one seat, so that two destinations run at once and the
local turn has two composers; three turns and prompts with logs that hold one
or two, so that each of them evicts. Every transcript can be read; one that cannot
charges nobody, which the theorems cover. Left out: failing writes (in `Room` and
`Store`), the index by message id, and what a batch says.

### OpenCodeSeat

`src/opencode.mjs` is one process between two servers. Its handlers suspend at
every `await`, so a handler is an activation record in a set (`runs`) with the
line it waits at, and each action resumes one record up to its next `await`;
records interleave in any order. Requests to OpenCode, its events and the
room's posts are in flight between the two and may be overtaken, since each
goes over a connection of its own. The room is what `Room` makes of it: a turn,
ended by the first Stop that arrives. `Upsets` adds refused requests
(`"refuse"`) and a feed that drops with the events it would have carried
(`"drop"`). `happened` is history.

Bounds: two turns (a late event of one meets the next) and one or two queued
events.

### Store

One action per file-system call of `writeAtomic` and of the two-file saves of
`admin.mjs` and `workers.mjs`, with `server.mjs` reading them at boot. A save is
write to a temporary file, rename the current file to `.bak`, rename the
temporary file in. The temporary file is not part of the state, since nobody
reads it. `Upsets`: `"crash"` between any two calls, `"full"` for a write that
throws, `"swap"` for a rename that does. `good`, `over` and `removed` are
history: what was last saved whole, whether a save was given up, who was
removed; `toppled` is that a worker was stopped who was the only owner.

A document says who is on the roster and who of them owns the room; a list of bans
has names only. The role command makes anybody an owner, agents of the fleet too.
Remove, ban, role and the boot's pruning of stale workers refuse to take the last
owner (`MayGo`); the fleet's stop does not ask. The process boots in steps
(`phase`): it reads, makes an owner of an empty roster, removes the workers of the
room before, and listens.

Bounds: one who comes by invitation and one worker, either of whom may be the last
owner, so that each guard has somebody to refuse.

### Observer

`src/observer.mjs` with the wiring of `server.mjs`. Time is what the code
measures with: `timer` is the ticks a `setTimeout` has left, `since` the ticks
since the last cycle began, `window.age` the age of the budget window; the last
two stop counting where the code stops telling. A timer may fire late, never
early. A cycle is a record that is `"asked"` until the model's answer and the
writes that follow it, then `Over`, and its `finally` is `CycleOver`. A brief is
the set of events it reflects and the signals (reversals and open forks) it
holds; what the model writes is any set of signals. `Peek` is `GET /api/state`,
whose question for the budget rolls the window.

Bounds: four events with a buffer of two, so a full buffer meets a cycle that
runs, and two signals. `Window`, `MinInterval` and `Debounce` are of different
lengths so that each may run out first. `MaxAnnounced` is the code's
`MAX_ANNOUNCED`: one, so that the second signal makes the observer forget the
first, which it may then speak of again. `announced` keeps the order of the code's
set; `forgot` and `repeated` are history.

### ModSeat

`src/mod/hooks/register.js` runs inside a Claude Code session, on one thread that
gives way at its awaits; `src/mod/feed.mjs` is a process it spawns for each join,
whose lines it reads in a pump. The third party is the room, of which only this
seat is kept: the feed that holds the handle, the open turn, and where the room
answers.

* An address with a token is one number, and `room.at` is the one that works now.
  `Move` is a restart of the room at another port (which closes what was open) or
  a new token for the seat. `WriteFile` is the extension rewriting the seat file.
* The n-th `join()` makes the n-th seat object, since `submit` compares objects
  (`seat === by`): `mod.seat` and `session.by` are such numbers, `seats` their
  addresses.
* A join stands at `"find"` while it reads the file and at `"register"` while the
  tool is registered. A pump stands at `"read"`, at `"submit"` (until the session
  is idle), at `"file"` (`followSeatFile` reads), and then at `"return"` and
  `"register"` like a join.
* `Starts` is `$.prompt.submit` resolving together with the mark that follows:
  no hook of the turn comes between the two, as the code's comment says.
  `TurnEnds` is the Stop hook, `turn.complete`, or both in this order.
* Killing a feed takes effect at once for the mod; the room sees the connection
  close later (`FeedCloses`), which is the time in which another feed is told 409.
* `Upsets` are of seven kinds: a network that fails, a feed process that dies, the
  owner leaving, the room moving, a prompt the session refuses, a post of the mod
  that is lost, and a `/room-join` typed while another join is still at work.

Bounds: two turns, so that a Stop of one may meet the next; two joins, so that the
seat of a waiting submit may be another one when it resolves; one move; two
`/room-join` at a time. A run of a behaviour admits one kind of upset, as often as
it likes (`MaxUpsets`): the state space of all of them together is out of reach.
The theorems have no such limit. Left out: the text of a prompt and the context
that waits for one, `room_reply` and the hooks of tools (posted under the same
conditions as a Stop), and the wording of the status.

### SeatBridge

`Room` hands a turn to an agent; `SeatBridge` is about how it gets there when the
agent is another person's session. A handle has one connection at most, as the
seat table refuses a second: `table` is what the room believes of it, `bridge`
what the other end does, `frames` what lies between. `"cut"` is a connection only
the room still believes in, and a bridge that asks for a feed meanwhile is
refused and tries again (`OpenFeed`). `Drain` is the closed form of `Room`'s,
here with the deliveries of `fanout.mjs`: the turn to its seat, a brief ahead of
it, mirrors to the others, which a bridge finds no text in and drops.

A session takes notifications one at a time (`Takes`) and its Stop ends whatever
turn its handle has in flight (`Finishes`). When that is not the turn it worked
on, `mishaps` gets `"stale"`.

Bounds: two seats, two messages, two upsets of any kind (`"drop"`, `"crash"`,
`"exit"`): enough for a connection that is cut while a turn is on its way, and
again when its bridge has come back.

### Page

Two ways lead from the room to a page: answers of `/api/state` and frames of
`/events`. Each keeps its order, and they overtake each other. An answer in
`answers` carries how many frames were ahead of it when it was served (`behind`),
so `old` says whether the page was told something newer meanwhile; `stale` is
whether what the page shows comes from such an answer, or a frame was missed.
`early` is whether it took an answer before a frame that the answer knows of. These,
and `lost`, are history: no guard reads them.

The page is the script of `ui.mjs`: `Start`, `Load`, `Connect`, the listeners
(`Hears`), `Click` and `Answered`. An answer has the newest `MaxRecent` messages (200
in the code), and fills the stream once. A frame pushes a card without looking whether
there is one, so `shown` counts the cards of each prompt. The frames of turns, costs,
decisions and administration are one kind, `"news"`: each makes the page ask for the
state. The room is what it is made of: messages, turns,
and the permission prompts with their sweeper (`Expire`) and the verdicts of
everybody (`ServeVerdict`). Members whose page is not modelled may post a verdict
on any prompt at any time (`Elsewhere`).

Bounds: one page with another approver beside it, one prompt, one turn, two
messages (the least that can be out of order) of which an answer has one, two answers
under way (the least that can cross), two upsets of any kind.

### Fleet

Three parties keep a list of the workers: the room's roster, its fleet, and the
extension's pool; the supervisor keeps their processes. A handle is a number that
is given again when its worker is stopped, while a member and a process are new
each time. `procs[p]` is a process, `sup` the supervisor's table, `fleet` the
fleet's rows, `pool` the extension's. A stopped process is `"dying"` until it ends,
and the exit of a stopped one is not reported (`Reported`).

A room ends in two ways. On a signal it stops its workers (`RoomStops`); when it dies
(`RoomCrashes`) nothing ties them to it, so they run on and ask for their seats, while
table and fleet are gone. The boot that follows takes every worker off the roster, except
one that was made the last owner (`Kept`): a worker left behind is then a stray
(`Stray`), whose token is nobody's and which no fleet can stop.

Administration is here in full as to names, roles, bans and tokens, because all of
them decide which handle is free and which seat still connects. A call of the pool
is served (`ServeSpawn`, `ServeStop`) and its answer handled (`Answered`) in two
steps, with the frames of the feed between. A click on Add disables the button before
anybody is asked; a window that has no session and can start none asks nobody
(`"nosession"`). `happened` is history; the properties about the pool and the button
exclude what they name.

Bounds: three members may be made beside the owner, three calls, commands or
delegations, one kind of upset in a behaviour (as often as it likes). A worker, its
stop, and another with the same handle need two of each. A worker that is made an owner
and survives a boot takes two kinds of upset: the theorems cover it, the run does not.

### Window

An asynchronous function is an entry that stands at an await: `sessions[s].at` for
`createSession().start()`, `ops[o].at` for a command. A step runs it to its next
await. `Start` and `Stop` are the supervisor's, which first kill the process under
a name and wait for its end; `AfterKill` is where the caller waits meanwhile. A
session's number is its port, so what answers on a port may be a process that was
told to die (`Serving`), and a room whose port is taken is `"deaf"`. Times are left
out: a wait of ten seconds gives up on what is gone, or as the upset `"slow"` on
what would still have come.

Bounds: four gestures, one kind of upset in a behaviour: start, publish, stop
sharing, and restart or close, or two of them at once.

### Chat

The webview keeps no account of turns: it has a queue of its own probes, a reply that is
open for more text until its turn's end, and two chips, of the model and of the permission
mode. Whatever is printed while a probe is in flight is hidden, and the next turn's end is
taken for the probe's (`Suppressing`, `Answer`). The host keeps the process, and changes
its mode by starting another. A turn is who asked for it: a person, a worker's report, a
probe. Output reaches the webview in order, so an event is handled where it is printed; a
message of the webview to the host is a step of its own. A process that was told to end
prints until it does. `"bypass"` is the destructive mode.

A probe is `astray`, which is history, when it was asked for behind another turn, was
overtaken by a report, or was lost with its process; the next one that is asked for with
nothing outstanding ends that. A change of mode may fail where it saves the mode
(`Unsaved`), and where it starts the process: then the chat stays wired to the one that was
stopped, nothing is supervised, and the chip is told the new mode all the same
(`SpawnClaude`, `"nostart"`). `troubled` is history too.

Bounds: five gestures, one report, two changes of mode, and every kind of upset in one
behaviour. Two changes are the least that can cross.

## Runs

| Run | Instance | What it shows |
|---|---|---|
| `room_safe` | 1 seat, 2 holders of its handle, 3 messages, removal, clearing, dropped feeds, failing writes | Accounting and order of messages, each handed to the member it is for, delegations answered once, refinement of `MessageLife` |
| `room_live` | 2 seats, 3 messages, clearing, pause, no turn given up | Everything accepted is eventually started or discarded |
| `seat` | 2 turns; refused requests, or a feed that drops | A turn in hand always has a deadline ahead, a Stop ends its own turn, every turn the room opens is closed |
| `hooks` | 2 members, 1 seat, 3 turns, up to two upsets | No prompt is charged twice; while nothing goes wrong work lands on its turn |
| `store_safe` | 1 person, 1 worker, any of whom may be the last owner, crashes and failing calls | What was last saved can be restored, every ban is on disk before its removal, and an owner too unless a worker was stopped who was the only one |
| `observer` | 4 events, 2 signals, 1 remembered | Events are summarised once, within the budget; what happens reaches the model |
| `mod` | 2 turns, 2 joins, 1 move, one kind of upset | Only turns of the current seat reach the room, a Stop ends the turn it was sent for, no feed runs unread, every turn the room opens is closed |
| `bridge` | 2 seats, 2 messages, 2 upsets | A session hears its own turns, in order, each after its brief; a message is heard or its sender told; a seat that lost its feed gets it back |
| `page` | 1 page, 1 prompt, 2 messages, 1 in an answer, 2 upsets | One verdict for a prompt, from an approver; a page at rest shows what is, and a prompt once; its messages are the room's newest, in order |
| `fleet` | 3 members made, 3 calls, one kind of upset | An address is one seat's; every worker process can be stopped, or was left by a crash and has no seat; the list agrees with the fleet; the Add button comes back of every click the pool hears of |
| `window` | 4 gestures, one kind of upset | A session that is ready has a room; no process is beyond reach; the view tells whether the room is shared; the feed follows the room |
| `chat` | 5 gestures, 1 report, 2 changes of mode, every kind of upset | Replies are kept back, or open, only while a turn is owed them; what is hidden answers a probe unless one went astray; the chip shows the mode of what runs; the destructive mode takes two clicks; probes settle |

Where a property does not hold under an upset, it says so in its own text
(`Calm`, `happened`, `troubled`, `astray`, `stale`, `lost`, `early`, `toppled`): what the code does then is listed below
under "Seen while modelling".

Deadlock is checked in `store_safe` only. The bounds on messages, turns, gestures
and events end every behaviour of the others, and a room with nothing left to do is
at rest.

Fairness:

* `Room`: an agent that was given a turn finishes it, and a socket that was
  ended closes. Both come from outside the room; nothing else is assumed, in
  particular nobody has to send another message.
* `OpenCodeSeat`: weak fairness of what the driver's process runs (`Driver`:
  its timers and handlers) and of the promises it awaits (`Awaits`: a request is
  answered or refused). Nothing makes OpenCode finish a turn: the deadline does.
* `Observer`: time passes, timers fire and a settled cycle is followed up.
  Nothing is assumed of the model, which `runModel` waits for without a limit,
  so `ReachesTheModel` is conditional on `Answering`, that no call hangs for
  ever.
* `ModSeat`: feed processes, pumps and joins go on; a turn of the session ends; the
  room finds out that a connection is broken (its keepalive fails) and answers what
  it is sent; the extension writes the file. `Starts` is strongly fair: a prompt
  that waits is the next one the session takes, so its owner cannot keep it out by
  typing. Nothing is assumed of the owner, the network or `/room-join`.
  `RoomTurnCloses` lets go when a post of the mod was lost, which nobody repeats.
* `SeatBridge`: the bridge's timer fires, both ends of a dead connection notice in
  the end, and somebody starts the room again. Nobody need speak or work.
* `Fleet`: the room serves what it is asked and the answers arrive.
* `Window`: the extension host runs what can run (`HostStep`), and a process that was
  spawned comes up, one that was told to die does. The person need do nothing.
* `Chat`: the host handles its messages, an awaited step resolves, and a running
  process answers the turns it is given. The person need do nothing.

`room_live` runs without symmetry, which is unsound for liveness.

## Proofs

All theorems hold for every value of the constants that meets the module's
assumption, so for any number of seats, messages, members, events or ticks and
for every set of `Upsets`.

**`RoomProofs`** proves the type invariant, every safety property of
`room_safe`, that the log follows the queue (`LogFollowsQueue`), and that `Room`
implements `MessageLife`. The assumption is
`RoomAssumption` (the local channel is not an agent handle). None of the
invariants is inductive alone: accounting needs the queue to hold
only accepted messages, agreement with the log needs one turn per destination,
order needs both. `IInv` is their conjunction with the types, in three parts
that different handlers disturb: `Side` (roster, feeds, whose they are), `Records`
(delegations), and `Fit` (queue, turns, log and fates). The argument is about
`drain()`: `DrainSplits` says it moves whole batches out of the queue, to idle
destinations or to rejection; `DrainKeeps` that what fits together before it
fits after it. `EnqueueFits` and `TurnOverFits` say that handlers leave a
fitting state before they drain. `StepKeeps` goes through the actions one by
one. `HandedAsAddressed` rests on `Side`, that an open feed is of the member that holds
its handle now: the removals that end a feed, or leave it uncut, are what it takes for
the next holder to be told apart. The refinement adds that fates only move forward (`StepProgress`) and are
a function of the state (`FateOf`).

**`SeatProofs`**, of `OpenCodeSeat`, proves types and `AlwaysTimed`: whatever is dropped,
refused or reordered, a turn in hand has a timer that will give it up.
It proves `StopEndsOwnTurn` too, from `SInv`: while no feed drops and no request
fails, the turn the room has in flight is in one place (`OnePlace`) - on the wire, the
driver's own, or with the one handler that creates its session or posts its Stop
(`Standing`). A finish is the only step that makes a Stop, and it needs the turn to be
the driver's (`FinishInPlace`), so no second handler can have one.

Of `SeatBridge` it proves `HeardAsSent` and `HeardOrTold`. Neither says anything of the
frames on their way, so `BridgeInv` does: what a session has heard and what is on its
feed make one line (`Lines`) of turns that are its own and older than what waits for it
(`OwnTurns`), in order across the border between the two (`Follow`), each after its brief,
which may be on either side (`BriefedAfter`). Messages are numbered as they are accepted,
and a turn takes all that wait for its handle: so the next turn is younger than every
one before it. A feed that is cut takes the end of the line away, which leaves a line.
`Counted` ties what was heard to `got`, and `Accounted` is the second property without
its words. `Drain`, which serves many handles in one step, is described by what it does
to each (`Drained`) and to all that wait.

**`HooksProofs`** proves types, `ChargedOnce`, `RightTurn`, `ComposersPay` and
`IndexSound`, and that the log a restart starts from is sound too. There are two
inductive invariants. `Inv` holds whatever happens. Its `LogOK` says that a
prompt is looked up to a turn of that prompt, which is why eviction, that clears
the index by the prompts of the turns that go, leaves nothing dangling;
`EvictSmall` counts the turns that go, as the oldest of those that are not
open (`OldestCounts`). Its `Books` says that the ledger's items are the last of
all bills, and `Working` that no bill is for a prompt still worked on, so that a
Stop is either new to the ledger or in its memory. `Nominal` holds while nothing
has gone wrong, on top of `Inv`: a session works on the turn that is open at its
destination (`Answered`), and the prompt memory holds the composers of the local
turn in flight and no prompt that is still worked on (`Remembered`), which makes
the lookup fall back to the right entry (`PayersAre`). One lemma for each action
and each of the three parts; a step on which something goes wrong has nothing to
show.

**`ServerProofs`**, of `Store`, proves that what was last saved can be restored, that a
boot reads it, that a ban is on disk before its member is gone, and that every roster on
disk has an owner until a worker is stopped who was the only one (`toppled`). `StoreInv`
says for each step of a save which file still holds what (`Kept`), that every roster
that is anywhere, in memory, on disk or about to be saved, has an owner (`Roster`), that
owners are on it (`Listed`), where a boot stands (`Process`), and that bans go first
(`Banned`). The ban is why `Roster` looks ahead: its first save is of the bans, and the
roster that its second one saves must have an owner too.

Of `Observer` it proves every safety property of the run. `ObserverInv`
adds to them that `running` is true just while a cycle is (`OneAtATime`), that
cycles, buffer and brief share out the events (`Shares`), that a cycle under way
began within the budget (`Entitled`), and that what was said is still announced, or was
forgotten since (`Spoken`). The handlers all go through `kick()`, so `KickKeeps` is the lemma
the others rest on.

**`ModSeatProofs`** proves types, `OnlyRoomTurns`, `NoOrphan` and `StopEndsItsTurn`,
for all upsets in any combination. `IInv` is about the flag and the seat: while `inRoomTurn` is up
the session works on a turn, and on one of this seat if there is one (`FlagHolds`).
It is inductive because every step that changes the seat either lowers the flag or
leaves no seat, and because a submit that resolves starts a turn on an idle
session, where the flag must have been down. It needs that a pump at `"submit"` has
a turn (`Good`). `Watched` adds to it, while joins have not overlapped, that one
join works at a time, and only while the mod has no feed (`OneJoin`): so a join
that ends finds every feed before its own gone.
`Stops` adds, while no feed broke or died and the seat neither left nor moved
(`Undisturbed`), that there is one address (`Settled`), that the feed that got the
handle first keeps it (`OneOn`), and that the turn that is open is at one place at
most: a line of that feed, a pump that waits to submit it, the session, or a post
(`OnePlace`). Overlapping joins are allowed, and cost turns but never a wrong Stop: a
second feed is refused the handle, and what the first says is dropped.

**`FleetProofs`** proves `OneSeatPerAddress` and `WorkersAreAccounted`. `IInv` says
of a worker of the fleet that its process is the one under its handle's name
(`Launched`), of a process that its member was minted for it and is a worker's
(`Minted`), of one that is alive that the fleet has it and can stop it (`InReach`) or
that it outlived its room and the next boot took its seat (`Astray`), and of the roster
that its worker seats are the fleet's while the room runs (`Seated`), with the exception
of workers that were made owners, which is an administrator's doing (`Crowned`).
The exit handler finds its worker by name only: that it never marks another's is
`EndsKeep`, which needs that a live process of the fleet is under its own name, and that
a stray is under none, so that the handle of a stopped one can be given again.
`StopKeeps` serves a stop and the orderly end of the room alike, `RoomEndsKeep` adds the
crash, and `RoomBootsKeeps` the pruning.

It proves `SidebarAgrees` as well, which is about states in which nothing is on its way
to the sidebar. `Rows` says it of every state: a row becomes its worker's with the frames
and the answers to come (`Follows`, `RowOf`). The frame of a seat's coming online is the
first about its worker, and the last frame that tells of its work tells the truth
(`Turns`). When two answers about a handle are on their way they cross, so `Rows` says
nothing of that handle until one is left; then a stop's answer finds no worker, and a
spawn's a worker that starts. `Named` keeps frames, delegations and seats to workers
there are or were.

**`PageProofs`** proves types, `VerdictsAreDue` and `StreamFaithful`. For each page
`Sound` says what is in its stream and coming to it is in the room's order
(`Ordered`), what an answer would fill it with (`Filling`), and that there is no gap
after the oldest message it has, nor one before it unless it has as many as an answer
(`Gapless`), if none was published while it was deaf (`Complete`). It is inductive since
frames of a connection keep their order and only the first answer fills a stream; a
message between that answer and the connection is what `lost` records.

`PageAgrees` is about a page at rest. `Agreeing` says of a page at any time what the
frames that are on their way will make of what it shows (`Fresh`) and of every answer that
is on its way too (`Fits`): the prompts that are open and whether the agent works
(`Becomes`, `NewsLater`). An answer that was overtaken is excused, as it is marked `old`
and leaves the page `stale`. It needs that the frames alternate as the prompts do
(`Narrated`) and that a verdict that was accepted left its prompt settled (`Settled`),
since a click takes a card away before any frame says so. That there is one card of a
prompt is `Once`: a page gets one frame of a prompt's beginning, and an answer that has
its card has that frame behind it. An answer that comes before such a frame is what
`early` records; the frame then pushes a second card.

**`ExtensionProofs`**, of `Chat`, proves every safety property of the run `chat`. The
turns that are asked for make a line behind each process: the one it works on, its input,
and what the host has not handled. `InLine` says that until a probe goes astray only the
process the chat is wired to has a probe in its line, and that at the head or nowhere, so
its answer is the next to come and nothing else is hidden. When one has gone astray the
invariant says nothing of probes; it is established again by the next that is asked for with
nothing outstanding, since then every line is empty. `NothingCut` says that a process
stopped in order owed nothing, which is why a reply that is open has a turn behind it.
`ModesFollow` says where the mode of the chip, of the host and of the process may differ:
only while the one change that is at work has killed the old process, or after a start
that failed, when none runs. `Armed` is what the two clicks need.

Of `Window` it proves `SessionHasRoom`, `NoOrphans` and `SharingIsTold`, from
`WindowInv`. The three speak of states in which nothing is at work; everything in between
is `Stages`, which says for every await what the code behind it finds: which names are
free in the supervisor's table, whose end is awaited (`Awaits`), where the room is and on
which address, whether the tunnel is up (`StartStage`, `ShareStage`, `StopStage`,
`EnsureStage`, and `Rest` when all is done). Each function reads that state after an await,
and is right to only because nobody else writes it meanwhile: `Control`, that one start,
publishing or stop is at work at a time, which the code has as long as no command is given
on top of another (`"overlap"`). That every process alive is in the table holds whatever
else goes wrong; who is up and who answers is claimed `Gentle` (no crash, and a kill that is
awaited to its end) or `Smooth` (and nobody too slow). `Known`, that a session a command
names exists, holds in overlaps too. There is one lemma for each action (`PickKeeps` to
`CrashKeeps`), and one for each way it leaves the control (`ShareGoesOn`, `WorkEnds`,
`StartBegins`, `StartIsOver`).

Proved for every value of the constants, and no property of a run: the types of
`Room`, `OpenCodeSeat`, `Hooks`, `Store`, `Observer`, `ModSeat` and `Page`;
`LogFollowsQueue`,
`TakenInFlight`, `LoadsGood`, `BuiltOnLatest`, `SpeaksRarely`, `Awake`,
`Paced`, `ComposersPay`, `IndexSound`.

`ChatInductive` and `WindowInductive` contain the types of `Chat` and `Window`. With these, every
invariant and every action property of the runs is a theorem.

Only model-checked: all liveness, since fairness and `ENABLED` are out of the
prover's reach (`QueuedEventuallyStarts`, `RoomTurnCloses` of both seats,
`ReachesTheModel`, `SeatComesBack`, `AddComesBack`, `FeedFollows`, `ProbesSettle`). What a
recursive definition computes for every input is out of reach too: there is none in these
modules.

## Seen while modelling

Statements of the repository that its code does not keep. For each the module has a
definition; TLC answers it with the behaviour described.

| Definition | What the code does |
|---|---|
| `Room!OneAddresseePerTurn` | Removing a seat maps the messages that wait for it to the local channel, and `beginTurn` batches them with the channel's own (`src/queue.mjs:65`; line 26: "draining never merges messages addressed to different seats"). |
| `Room!RejectedIsNotOwed` | `drain` rejects an offline seat's batch and does not tell the delegations, which stay owed (`src/web.mjs:179`, against line 82). |
| `OpenCodeSeat!NeverCutShort` | An idle event names a session and no prompt: a late one ends the next turn (`src/opencode.mjs:272`, against line 164). |
| `Store!BootstrapOnce` | A crash between the two renames of a save leaves no document, which boot takes for a first run (`src/state.mjs:90`, against line 81). |

Read off the code or a model. In the room and its store:

* An execution delegation whose worker's turn ends without a reply is neither
  verified nor reported.
* When `saveTurns` throws in Stop, the queue's turn stays in flight and its
  destination takes no more work until a restart (`src/web.mjs:337`).
* A refused `POST /upload` tells nobody but its caller (`src/web.mjs:516`).
* `abandonTurn` does not drain: work behind it waits for the next event
  (`src/web.mjs:239`).
* A crash between the two saves of a ban leaves a member that is banned. If it
  is an owner, the other owners can still be removed, and the last one left
  cannot join (`src/admin.mjs:145`).
* A torn last line of the transcript hides nothing but itself, and swallows the
  next append (`src/state.mjs:111`).
* While a cycle of the observer is in flight, and after one that failed, the
  `pending` count leaves out the events that cycle took (`src/observer.mjs:236`;
  the documentation promises otherwise, README.md:708).
* `runModel` waits for its process without a limit (`src/run-model.mjs:58`), and
  the observer's buffer grows while the budget is spent (`src/observer.mjs:98`).
* The queue and the delegation records do not survive a restart
  (`src/queue.mjs:31`).
* A message that waits for an agent goes to whoever holds the handle when its turn
  begins, or to the host's session if nobody does: after the agent was removed, to an
  agent of another owner that was minted on the same handle (`src/queue.mjs:64`, against
  `src/web.mjs:167`).
* A removal whose save fails has taken the member off the roster and leaves its feed
  open, browser and seat (`src/admin.mjs:118`). When the handle is given to another
  agent, which is refused a feed of its own as long as that one is open, turns go to the
  seat that was removed.
* Announcements are forgotten past 500, after which a signal may be spoken of again
  (`src/observer.mjs:215`, against the comment at line 208).
* In rotate mode `writePayer` can throw after `beginTurn` made the destination
  busy (`src/web.mjs:165`).
* `__inflight__` stays the oldest key of the prompt memory, since setting a key
  again keeps its place, and the eviction loop stops at it: from then on nothing
  is evicted (`src/queue.mjs:250`).
* A prompt the host types in the local session right after a turn of the room is
  charged to that turn's members: it is looked up under a key only the next turn
  overwrites (`src/web.mjs:324`, against README.md:773).
* `rename` does not consult the bans: an owner renamed to a banned name cannot get
  in (`src/identity.mjs:194`).
* Removing an owner leaves their agents with an `ownerId` that names nobody. An agent
  can be made the only owner; if it is a worker, its stop leaves a room, and a roster on
  disk, without one (`src/workers.mjs:188`), where every other way to lose the last owner
  is refused, the boot's pruning included. Banning a worker's name bars the next worker
  that gets its handle.
* Workers do not die with their room: it stops them on SIGINT and SIGTERM only. After a
  crash they run on without a seat, and nothing of the room can stop them
  (`src/server.mjs:278`, against lines 87 to 92 there). A new worker of the same
  handle is given the same worktree.

In the seats:

* The driver's note about a passed deadline may land in the turn after it
  (`src/opencode.mjs:232`), and a prompt whose response is lost is closed twice
  (`src/opencode.mjs:219`).
* Two turns that reach the OpenCode driver before its session exists create one
  each (`src/opencode.mjs:133`).
* Two joins of the mod that overlap (a `/room-join` typed twice, or during
  `followSeatFile`) spawn a feed each, and the first is left unread. It holds the
  handle, so the other is refused with a 409, and `/room-leave` no longer takes
  the seat offline (`mod/hooks/register.js:76`).
* When the feed drops in mid-turn, the room abandons the turn and the mod keeps
  its mark: the Stop of the abandoned turn ends the one that came after it
  (`mod/hooks/register.js:132`). `closeRoomTurn` reads the seat again after an
  await, with the same effect on a seat that rejoined (`mod/hooks/register.js:324`).
* A Stop the mod could not post is not repeated, and the seat stays busy until its
  feed closes (`mod/hooks/register.js:204`).
* A feed that is refused with a 401 before the extension has rewritten the seat
  file takes the seat offline until `/room-join` (`mod/hooks/register.js:274`).
* A bridge that starts while there is no room ends (`src/seat.mjs`). Its session, at
  work on a turn the room gave up, ends the next one after it reconnects, and its
  reply is attached to that one. What happens between a seed and the feed is lost.
* Mirrors of turns never reach another session: fan-out sends `messages` and the bridge
  looks for `text`. A reply of a seat whose feed is down is not mirrored.

On the page:

* An answer of `/api/state` that was served before a frame and arrives after it hides
  the card of an open prompt, or brings one back, or leaves the agent working, until
  the next answer (`src/ui.mjs:923`).
* The stream reopens by itself and nothing is loaded then: what was published
  meanwhile is missed, as is what came between the first answer and the connection.
* An approver who is made one, or is one no more, is not told before the next answer;
  the card goes even when the verdict was refused (`src/ui.mjs:722`).
* Cards outlive a restart of the room, which forgets its prompts.
* An answer that has a new prompt and comes before the prompt's frame leaves two cards of
  it, since the frame pushes one more (`src/ui.mjs:892`).
* A page is given the newest 200 messages (`src/web.mjs:401`); the older ones of a longer
  transcript are on no page that was opened later.

In the extension:

* Restart or deactivation during a start leaves a session without a room, or a room
  nobody can stop; so does a second publish while one is at work.
* After a crash of the room the feed is stopped, and publishing starts the room again
  but not the feed.
* A publish that fails leaves the room on every address, where the view says
  "reachable only from this machine". A tunnel that dies leaves it "published".
* A kill on POSIX returns at once, and the room that is started then may find its port
  taken, while the old one still answers and is taken for it.
* `ensureOne` starts two workers for two inputs that come while the first is awaited.
  The Add button is enabled by any list that is posted; when no session can be started
  none is, and the button stays disabled (`extension/src/extension.js:146`, against
  `extension/src/chat/workers-webview.js:118`).
* After a republish the pool keeps the rows of workers that went with the room, and
  cannot stop them. It has no case for the fleet's own exit events, and what it misses
  while the feed is down is not asked for again.
* Answers to a spawn and a stop of one handle can cross, and the late one deletes the
  new worker's row. A delegation that ends late makes a busy row idle.
* Two changes of the permission mode can cross, with the chip telling the one and the
  process being of the other. When the new process cannot be started the chip shows the
  new mode, of a process that does not run (`extension/src/extension.js:450`); a mode that
  cannot be saved is not reported to anybody, though it is the mode of the next start.
* A person's reply is hidden, or a probe's shown, when the probe was asked for behind
  another turn: a turn's end asks for the context report while a second message waits, and
  that message's reply is taken for the report's (`extension/src/chat/probes.js:44`). The
  same happens when a worker's report overtakes a probe, and when a change of mode kills a
  process with a probe in flight: the next reply is hidden.
* The reply of a process that was killed or died in the middle of it stays open, and the
  next turn's text is put behind it (`extension/src/chat/webview.js:117`).

## Not modelled

* The message classifier, and whatever else is a function from text to text (briefs,
  prompts, markdown, menus, the wording of events): data the models abstract.
* The rate window, token budgets, mutes and address policies: they refuse more, and
  leave no trace in the state the properties are about.
* Decisions: an append-only list. The transcript's files and attachments: reads.
* Payer rotation: it writes a file the room itself does not read.
* The configuration, the launch scripts, the installation of the mod and the search
  for executables: process plumbing.
* `verify.mjs`: the commands it runs are external; that its promise settles later is in
  `Room` and `Fleet`.

## Plan

Done: the room, the hooks, the store, the observer, the three kinds of seats, the page,
the workers, the extension's window and its chat. What is left, in order:

1. A room in which `Fleet`, `SeatBridge` and `Room` share one queue, for a worker that
   is stopped while its turn is on the way to it, as an abstract specification that each
   of the three implements in part.
2. The steps the liveness properties rest on, as far as they can be stated without
   fairness: that what is waited for stays enabled until it happens.
