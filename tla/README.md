# A2AChannel: verification of the hub and its clients

TLA+ models of the A2AChannel hub, of what it delivers to its clients and of the desktop
shell's terminals, the TLC runs that check them on small
instances and the TLAPS proofs that lift the most important results to every
instance. The reference is the code under `src/`; line numbers below are those of
the commit the models were written from. `PROJECT.json` lists components, runs,
mutants, the map from definitions to lines, findings, hazards and theorems.

## 1. The system

A2AChannel lets coding agents, each in a terminal on the user's machine, talk to
each other and to the user. A desktop shell (Tauri, Rust) starts one **hub** (a
single Bun process, `hub/hub.ts`) and one terminal per agent; each agent runs a
**channel sidecar** (`hub/channel.ts`) that keeps an SSE connection to the hub open
and relays tool calls as HTTP requests; a **web UI** does the same for the human.

| Component | State it keeps | Operations | What makes it correct |
|---|---|---|---|
| Ledger store (`core/ledger*.ts`, `core/store.ts`, `core/events.ts`) | SQLite file: `events` (append-only, AUTOINCREMENT) and one table of current rows per kind | create, transact; dispatch of a verb; emission after the commit | rows are a function of the log; nothing is resolved twice; entries carry the version of the row they show |
| Handoffs (`kinds/handoff.ts`) | `handoffs` rows with a TTL | create, accept, decline, cancel, expire (sweep every 5 s) | only the entitled party closes one, once; overdue ones are resolved |
| Nutshell (`nutshell.ts`) | one versioned document per room | written by accepting a `[nutshell]` handoff | version counts the accepted edits; agents edit their own room's only |
| Interrupts (`kinds/interrupt.ts`) | `interrupts` rows | create, bulk create by the human, acknowledge | each recipient hears of its own |
| Permissions (`kinds/permission.ts`) | `permissions` rows, ids chosen by the client | request, verdict, dismiss | first verdict wins; a retry does not reopen |
| Agent registry (`core/agents.ts`), DropQueue (`core/sse.ts`) | roster, queue, connection count and stale timer per name | ensure, remove, connect, disconnect, timer, push, pull | counts match connections; connected agents do not expire; entries in order, lost only by overflow or with a removed name |
| Streams (`features/streams.ts`) | one SSE response per connection | briefing, replay of pending items, drain of the queue | a reconnecting agent learns of everything pending |
| Fan-out, chat (`core/fanout.ts`, `chat.ts`) | bounded chat log, UI subscribers | route an entry by scope | only the scope's members hear an entry |
| Transcripts (`core/transcript.ts`, `core/room-hydrator.ts`) | chunked JSONL file per room | append, rotate, clear, tail, hydrate after a restart | no line is lost; a room's tail is replayed in order, under new ids |
| Summariser (`core/room-summariser.ts`) | `room_summary` rows, in-flight promises | summarise a block, roll up, back-fill | blocks tile the transcript, each summarised once |
| Briefings (`core/briefing*.ts`) | last signature per agent, a debounce timer | schedule, fan out, seed | a connected agent has the current briefing |
| Sidecar (`channel/*.ts`) | nothing but the connection | reconnect loop, room gate, what it tells the session | the session hears of everything pending in its room, and never that a resolved item is pending |
| UI: stream and message list (`ui/main.js`, `ui/messages.js`, the cards) | last id and session of the hub, cards by id and version, the list, the legend | bootstrap, connect, retry, handle an event, trim, Reload settings | what it shows is what the ledger holds; a page without a stream connects again |
| UI: terminal pane (`ui/terminal.js`) | one tab per name, listeners, a reconcile every 5 s | launch, attach, kill, reconcile | no launch hangs; a live tab shows its session |
| UI: composer (`ui/features/composer.js`, `slash-command.js`) | the text, the confirm dialog | post, type a slash command, Shift+Tab | one post per text; nothing destructive unconfirmed |
| Shell: terminals (`src-tauri/src/pty.rs`) | tmux sessions, registry of attached clients, reader threads | spawn, attach, list, write, kill | one client per name |
| Shell: hub supervision (`src-tauri/src/lib.rs`) | the hub process, port and token files | start, kill and restart on Reload settings | clients find the hub that runs |

The rest is in `PROJECT.json` as not modelled: authentication in front of the handlers,
attachments, sessions and usage, the features of the page that only render, turn capture.

**Interaction.** Handlers call the ledger, the ledger emits through the fan-out, the
fan-out pushes into the queues of the registry, the streams drain the queues into
SSE connections. Roster changes call back into the fan-out and the briefing
dispatcher. The summariser is called from a hook of the transcript. The page and the sidecars meet in the
hub only; page and shell talk by commands (`invoke`) and events (`pty://exit`).

**Concurrency.** The hub is one thread and its SQLite calls are synchronous, so a
handler is atomic once its body has been read. What interleaves is: requests with
each other, with the streams' aborts, with timers (sweep, stale agents,
debounce) and with the promises of summariser calls; and a crash or a restart falls
between any two statements. The hard cases are the races for one row, the gap
between a commit and its emission, restarts (rows survive; the roster, queues and
chat log do not), connections that close after their name was removed, streams of
one name competing for a queue, and queues at their limit. In the page every `await` is a point
where events, timers and clicks come in between: loads against the stream, retries against
bootstrap and Reload settings, a launch against the end of the session it launched. In the
shell, commands run on one thread and the reader of each client on its own. `PROJECT.json`
"hazards" lists each at its line.

## 2. Modules

| Module | Models | Extends |
|---|---|---|
| `LedgerStore` | the log, the roster as the verbs read it, the handler in progress (`loop`, `outbox`), what was emitted (`wire`), crashes | |
| `Handoffs` | `kinds/handoff.ts`, the sweep of `hub.ts`, `nutshell.ts`, the clock | `LedgerStore` |
| `Interrupts` | `kinds/interrupt.ts` | `LedgerStore` |
| `Permissions` | `kinds/permission.ts` | `LedgerStore` |
| `Ledger` | their composition over one log; the properties | the three kinds |
| `EventLog` | abstract specification: a log in which each entity is opened once and closed at most once, announced in log order | |
| `Registry` | `core/agents.ts`, `DropQueue` of `core/sse.ts`, the life of a stream in `features/streams.ts` | |
| `RoomSummary` | `core/room-summariser.ts` over the lines of `core/transcript.ts` | |
| `Fanout` | `core/fanout.ts`, the chat log, `/stream` of `features/streams.ts`, transcript lines and hydration, the life of the hub process | |
| `Page` | `ui/main.js`, `ui/messages.js`, `ui/roster.js` and the cards of handoffs, interrupts and permissions | `Fanout` |
| `Sidecar` | `channel/tail.ts` and the hub's side of an agent's stream: replay, queue, debounced briefings | `Fanout` |
| `Delivery` | the hub with the page, or with a sidecar | `Page`, `Sidecar` |
| `Terminals` | `ui/terminal.js` and `src-tauri/src/pty.rs` for one name | |
| `Composer` | `ui/features/composer.js`, `slash-command.js`, over the terminal of its target | `Terminals` |
| `Desktop` | their composition; the properties | `Composer` |
| `MCLedger`, `MCRegistry`, `MCRoomSummary`, `MCDelivery`, `MCDesktop` | instances for TLC | |
| `LedgerProofs`, `LedgerSafetyProofs`, `LedgerOutcomeProofs` | theorems, each module resting on the one before | `Ledger`, `TLAPS` |
| `RegistryProofs` | theorems about the registry | `Registry`, `TLAPS` |
| `RoomSummaryProofs` | theorems about the summaries | `RoomSummary`, `TLAPS` |
| `DesktopProofs` | theorems about the terminal pane and the composer | `Desktop`, `TLAPS` |
| `DeliveryProofs` | theorems about the page's retries and the sidecar | `Delivery`, `TLAPS` |
| `PageProofs` | theorems about what the page shows | `DeliveryProofs` |

### Ledger: state and actions against the code

* `events[i]` is the row of `events` with sequence number `i`; kind and payload are
  abstracted to the status the event records. `handoffs`, `interrupts` and
  `permissions` map every id to its row or `None`. A row keeps what the verbs decide
  by: parties, room, status, `version`, and for a handoff its expiry and what it proposes
  to a nutshell (`proposal`: a room, `Unspecified` when the patch names none, `None`
  when the task has no prefix or the context no patch). Texts, colours and reasons are left out.
* A create or a transition is one action up to its commit: the checks of the route, the
  decision of the verb, the event, the row (`core/store.ts`), and the entry put in
  `outbox`. `Emit` is the `cap.sse.emit` that follows. No handler starts while `outbox`
  or `loop` holds something (`Idle`): the only step that may come between is `Crash`.
* Refused (400, 403, 404, 409) and idempotent requests change nothing but the roster: every
  POST that names its sender registers it in the default room first. `TouchSender`
  is that effect. Verdict, dismissal, acknowledgement, accept, decline and cancel do not register.
* `BulkInterrupt` and `Sweep` read their list once and fill `loop`; `InterruptNext` and
  `ExpireNext` are the iterations, each its own transaction, in any order. A bulk request
  that names one room twice is not modelled.
* `Remove` is `POST /remove` or a stale timer; the human can be removed too, and is then
  registered in the default room by its next POST.
* `Crash` keeps the database, empties roster, loop and outbox. `wire` is a history of what was
  ever handed to the fan-out, so it survives.
* Ids are values of three disjoint sets (`h_…`, `i_…`, five letters); minting never
  collides in the model, as 64 random bits are taken to be fresh.

### Registry: state and actions against the code

* `known` are the keys of `knownAgents`, which are those of `agentQueues` (both are set
  and deleted together); the queue of a name is identified by the name and by how often
  it was registered. `conns` is `agentConnections`, with `Unset` for a missing key: the
  defaults of `?? 0` and `?? 1` differ between `connect` and `disconnect`.
* `OpenStream` is `ensure`, `connect` and the capture of the queue, one synchronous run of
  `handleAgentStream`; `Pull` is one `q.pull`, `PushToAgent` one `enqueueFor`. A push
  wakes the first waiter, whose continuation pulls again before any other handler
  starts (`Settled`); more pushes of the same handler may come first.
* `Unregister` is `remove`: the queue goes with what it holds (`agents.ts:104`). A stream that captured it lives on,
  and the property on losses says that no such stream was still owed anything.
* An aborted pull leaves the middle of the waiters: `Splice(seq, s)` removes it at its index, as the code does.
* `CloseStream` is the abort of a connection: the pending pull is withdrawn and the
  `finally` disconnects. `StaleFire` and `RemoveAgent` are the timer and `POST /remove`.
* `evicted` is a history variable: names last removed while a stream of theirs was open.
  For those the counts are wrong (see the findings), and the properties say what still holds.

### RoomSummary: state and actions against the code

* One room. A transcript is a number of lines: `written` counts all, `base` those in renamed
  chunks, so the active file has `written - base`. `rows` is the table `room_summary`: `id` is
  the rowid, `start` and `end` the columns, numbered as the code does, by the active file of the time;
  `lines` and `of` are histories: the lines and the rows the summary was made from.
* `run.tick` and `run.fill` are the promises of `summariseInFlight` and `backfillInFlight`. Each
  is idle or waits for the model in `generateL1` (`block`) or `maybeRollup` (`rollup`), with the locals
  it will use afterwards. `BlockAnswered` and `RollupAnswered` are what runs from an answer to the next
  call; blocks that bail out (threshold, no lines) suspend for microtasks only and are passed in the
  same step (`Begin`).
* `Append` is the line, the rotation and the hook; `AgentConnects` and `PutSettings` start the fill;
  `Clear` is `rotateActive`. Only persisted entries are lines. A crash between two statements of
  `appendEntry`, a parse error in the file and a failing `rename` are left out.

### Delivery: state and actions against the code

* The hub. The ledger is reduced to the version of each entity (0 not created, 1 pending, 2
  resolved): who may resolve it is the business of `Ledger`. `Advance` is any handler that commits and
  emits; `Say` and `SayFirst` are `/send` and `/post` with and without a sender the roster knows.
  `Send` is `fanout.send`: the next ids, the bounded `chatLog`, a line of a transcript that opted in,
  and the frames that reach the page: its stream waits and takes the first, the queue keeps the newest. It reaches
  the page only if the stream is one of the process that runs (`Attached`). `LogAfter` is the loop of `handleStream`
  over the log.
* One client per behaviour. Page and sidecar share nothing but the hub, and neither writes what the other
  reads there, so `client` chooses one and the other's variables stand still. Likewise `cast` chooses the two
  or fewer entities, messages or the peer that a behaviour is about.
* `Killed` is the SIGKILL of `reload_settings`: between two handlers, or between the commit and the
  emission of one (`unsent`). A new process has a new port and token (`life`), ids from 1, an empty log and roster; the
  ledger and the transcript survive.
* The page. `stream` is the one `EventSource` of `connect`, `wire` the frames that are sent and not yet handled;
  `StreamEnds` is `onerror`, `RetryFires` its timer. `flows` are the awaits `bootstrap` and the click on Reload
  settings still have before them; `Ask`, `AskInVain` and `Answer` are a request, its failure and its answer,
  with whatever happens in between. `authedFetch` tries twice, the second time at the address `get_hub_url` gives.
  `view` holds the maps of the cards and the children of `#messages`.
* The button of Reload settings is live from the load of the page on (`main.js:217-220`), so `ReloadClicked` may come at any
  await of bootstrap, and an answer may come from a hub that is gone: `Reply` keeps which hub gave it, and `stale` is the history of
  the cards that such an answer put on a cleared page. The awaits of bootstrap before its first load (`get_hub_url`,
  `get_human_name`) are no steps of their own: a click there changes nothing but `BUS`, which the first load asks for again
  when it fails. Left out are a `get_hub_url` that fails, upon which bootstrap gives up, and the `catch` of the click (`main.js:261-269`).
* The sidecar asks for room `Own`; a POST registers an agent nobody knows in `Default`. `Connected` is
  `handleAgentStream` up to the drain: briefing, the replay filtered by the room of the registry, then
  the queue. `HandleEvent` is the gate of `tail.ts` and what goes to the session. `DebounceFires` is the dispatcher
  with its signatures; a briefing is reduced to its room and the peer's state.
* Left out: separators between senders, the nutshell strip, the room filter of the list, target
  lists of `/send`, texts, and the removal of a connected agent (`Registry` has it).

### Desktop: state and actions against the code

* One name of the pane, an agent's or the scratch shell's. `session` is its tmux session, `readers` the clients
  attached to it with the thread of each, `handle` the entry of `PtyRegistry`. The Tauri commands are
  synchronous, so `PtySpawn` and `PtySpawnShell` are one step each between two turns of the page; a reader thread takes
  two (`ReaderEnds` tells the page, `ReaderRemoves` clears the entry). `CreateOnly` is a session that
  was created and whose client could not be attached.
* `tab` is the record in `tabs`. `flows` are the calls of `handleLaunch`, `autoAttach`, `ensureShellAttached`
  and the startup; their stages are their awaits: `spawning`, the answer, the registration of the
  output and of the exit listener, `heal`. `mine` says whether the tab the listener is for still is the tab there is, and
  `stray` that a listener outlived its tab, or that its handle was overwritten by that of a second flow.
* `scans` are the reconciles: the roster is read before `pty_list`, the answer used after it.
* `dialog` holds what the modal shows and whose promise it resolves; `agreed` and `carried` are histories of what
  was confirmed and what was done, each with the session that had the name at the time. A confirmed kill is carried out twice:
  when `/exit` is written (`AnswerKill`), and by the timeout ten seconds later (`KillTimerFires`), which goes by the name.
* A send of the composer goes through its awaits in `sends`; `posts` counts the posts of each text. The
  retry of `authedFetch` counts as part of one send. Enter does not look at the disabled button.
* A behaviour has a `scene`, the sets of things that happen in it: roster changes, detaching from within tmux, toggling the
  pane, launching, killing, writing, sending, and a session that ends of its own accord (`Dies`; one that was told to `/exit` may end in any).
* Left out: xterm, resizing, focus, the attention flag, the dismissal of the warning at the start, the picker,
  attachments, the parsing of a panel, and turn capture, which appears as an answer that may come at any time.

## 3. Runs

| Run | Instance | Question | Result |
|---|---|---|---|
| `races` | 1 agent and the human, 2 handoffs; either one room, clock to 2 and 1 crash, or two rooms and all proposals | do log, tables and announcements agree whatever races? does the nutshell hold exactly the accepted edits, and only those its room allows? | holds |
| `mixed` | either 2 interrupts and 1 permission or a crash, or 2 handoffs of the human, clock to 2, 1 crash; fairness | where kinds share the log, with bulk interrupts and racing verdicts: does the ledger implement `EventLog`? is an overdue handoff resolved in the end? | holds |
| `registry` | agent and human, 3 connections, queue of 2, 2 registrations, 4 entries | counts, presence, order, wake-ups and loss | holds |
| `summary` | blocks of 2, rollups of 2, 8 lines, rotation at 7, 1 clear, 1 crash, threshold 2 | do blocks tile, are rollups honest, does the briefing keep what it covered, do promises end? | holds |
| `delivery` | casts of one entity, of two, of one with a message or the peer, or of messages and the peer, 2 hub processes, 1 broken stream, page or sidecar | does each client show or tell what the ledger holds? | holds |
| `desktop` | 1 name, 2 sessions, 2 clients, 2 flows, 1 reconcile, 3 acts, five scenes | one client per name, no launch that hangs, nothing destructive unconfirmed? | holds |
| `evicted` | 1 agent, 2 connections | `CONTEXT.md`: names expire after disconnection | violated |
| `gap` | 8 lines, 1 clear, a model that never fails | `room-summariser.ts:57-60`: back-fill covers every line range without a block | violated |
| `deaf` | a sidecar, 1 handoff, 2 hub processes | `PROTOCOL.md`: the room is that of the first connect, and what is pending is replayed on connect | violated |
| `rebriefed` | a sidecar, 1 handoff, 1 cut | onboarding spec: a reconnect within one hub process sends no new briefing | violated |
| `dead_tab` | as `desktop` | spec of the terminal pane: tabs of sessions that are gone are removed | violated |
| `relaunched` | as `desktop` | spec of the terminal pane: the close mark kills the session that was confirmed | violated |

**Why the bounds are enough.** A race needs one row and two actors; the second row is
there to interleave two lifecycles in one log and to put a commit between another
row's commit and a client's knowledge of it. Two ticks let a handoff of TTL 1 be due
and not yet swept. One crash reaches every point of every handler; a second one finds the
same states again. Two rooms suffice for "own" and "other". In `registry`, two
connections compete and a third one comes late; a queue of two tells the oldest entry
from the newest; two lives of a name show a stale connection and a fresh queue at once.
In `summary`, eight lines are four blocks and two
rollups, so that a fill and a tick can be one rollup apart; rotation at seven leaves an
incomplete block in the chunk, and a clear can move the file at any line.
In `delivery` a chat log of three and a UI queue of two overflow with the entries of two entities, and so does a message
list of two rows; the transcript is renamed at its third line. Two hub processes give one kill at any point of
either client's life, `MaxDrops` and `MaxCuts` one connection that breaks while the hub lives, `MaxMoves` two
arrivals or departures of the peer, and a queue of one for the sidecar overflows with two entries. The click on Reload
settings may cross bootstrap at any await in the casts of one entity, of a handoff and a message, and of messages and the peer; in the larger ones
(`MCOtherCasts`) it waits for bootstrap (`MCCrossings`), as all crossings there are out of reach. Two
entities tell order from presence; more of them add rows, not cases, since a card's fate depends on its own entries and on
how many others push. In `desktop` two sessions and two clients are an old and a new one of each, two flows
cross a launch with an attachment, and three acts are a launch, a kill and a launch, or two texts sent around
a question. The scenes split what would be one instance out of reach; each holds the things that touch
each other's state.
`races` and `mixed` cut two cases each out of one state space by a constraint (`RacingOrEditing`, `MixingOrSweeping` of `MCLedger`), as
all of it is out of reach (`mixed` has its crash in the middle of a bulk interrupt or of a sweep, not beside a permission); no step of the sweep or of the fan-out leaves a case, so what fairness asks for can be done within it.
Ids and streams are symmetric where no liveness is checked; in `mixed` the ids of a kind are used in order instead (`IdsInOrder`). Deadlock checking is
off in all runs: the instance may run out of ids, time and connections.

**Fairness.** `FairSpec` of the ledger assumes that the event loop gets to the emission and to
the iterations of a running handler and that the sweep's interval timer fires; it assumes
nothing of clients, of the clock or of crashes. A sweep that fails is caught and runs again
5 s later. `FairSpec` of the summaries assumes that every call of the model ends: both adapters kill it
after a timeout (`core/summariser/claude.ts:125-128`, `ollama.ts:46`). The registry, the
delivery and the desktop state no fairness: that a stream is retried is a safety property there (`RetryDue`: a timer or an
await that will connect is pending), and so is the end of a launch (`LaunchesEnd`).

### What the properties say

* `TablesMatchLog`: a row exists exactly when its creation was logged, carries the number and
  status of its last event, and has at most one resolution.
* `ClosedByEntitled`: who signed the closing event, and that only the sweep expires, after the TTL.
* `ReconciliationIsSound`: the contract of `PROTOCOL.md` for clients: an entry with a row's version
  has its status; an older one is the pending snapshot; none is ahead.
* `AnnouncedUnlessCrashed`: between two crashes each row's last version was emitted to exactly those
  who must hear of it.
* `ResolvedOnce` (action): a resolved row never changes; resolving changes the outcome only.
* `ImplementsEventLog` (refinement): the ledger implements `EventLog`, `told` being the
  versions on the wire.
* `NutshellIsLastEdit`, `NutshellStaysInRoom`, `OverdueIsResolved` (liveness): see the comments.
* `PresenceHonest`: the count never exceeds the open connections, even after evictions.
* `ConnectedIsServed`: unless removed while connected, the count is exact, each stream reads the
  live queue and no timer runs while one is open.
* `DeliveredInOrder`, `NoLostWakeup`, `LostOnlyByOverflowOrRemoval`: the queue's contract with competing readers. An
  entry is lost as the oldest of a full queue, or with the queue of a name that is removed, and then no open connection read it.

* `BlocksTile`, `CursorOnlyAdvances`: late answers of either promise neither overlap a stored block nor
  move the cursor back. `RolledIntoItsRollup`: a block marked as rolled up is the very row its rollup was
  made from. `StaysShown` (action): what the briefing covered it always covers. `GivesUp`: a model that
  fails is called at most once more than the threshold. `EveryRunEnds` (liveness): caches become free (the poisoned cache of the comment at line 115 would break it).

Of the page, once it has caught up with the hub that runs (`Quiet`) and unless entries went by it because log
or queue were too short (`missed`):

* `CardsInPage` (always): the maps and the list agree, whatever was trimmed, replayed or moved out of the permission stack.
* `CardsAgree`, `PendingShown`: no card shows a state the ledger has left, but for one that a late answer of an earlier hub
  left pending (`stale`, told of under the findings), and everything pending of a kind that was loaded from the hub that runs has its card, whatever fell
  between the load and the stream.
* `ChatShown`: every message of the log is shown once and in order across broken streams and hub processes. A message
  is what its id in the log of its hub says it is: a line that a hydration replays has a new id, and is shown again.
* `LegendHonest`: nobody is shown as connected who is not. `RetryDue`: a page without a stream will connect, wherever in
  bootstrap Reload settings was clicked.

Of the sidecar, once it has handled all that was sent: `PendingTold`, the session was told of everything pending in its
room; `BriefedOnPeers`, its last briefing names the peers as they are, which after a cut rests on the briefing of every connect
(finding 5); `ToldForward` (action), it is never told that an item is pending after it was told that it is resolved.

Of the desktop: `OneClient`, the registry holds exactly the one client that runs; `LaunchesEnd`, a tab that says
"launching" has a launch on its way; `PictureShown`, a settled tab that listens shows the session there is;
`ConfirmedOnly`, of each command to several agents, and of each `/exit` and each kill by the close mark, the late one of the timeout
included, the question was on show when the user confirmed it (a slash command to one agent asks nothing, and by design
may be an `/exit`; which session a late kill meets is finding 6); `PostedOnce`, a text is posted once however often Enter is hit.

### Findings

1. `evicted`: after a removal under an open connection, the late close decrements the count
   of the next registration: a connected agent gets a stale timer and is removed.
2. `gap`: the cursor survives a clear or a rotation, the line numbers do not: the new file is not
   summarised until it outgrows the cursor, and its first lines never are. ADR 0003 accepts only that the
   rest of the old chunk is lost. A block that failed in the middle of a fill is lost likewise once a
   later one is stored.
3. `deaf`: a tool call that reaches a restarted hub before the sidecar's stream does registers the agent in the default
   room; the stream's room is then ignored, the replay leaves out what is pending in the agent's own room, and the
   gate of the sidecar drops whatever comes with the other one.
4. `dead_tab`: a session that ends before the page registered the listener of its end leaves a live tab that
   no reconcile looks at.
5. `rebriefed`: `streams.ts:101-109` sends a briefing on every connect of an agent. The onboarding spec
   (`openspec/specs/agent-onboarding/spec.md:33-38`), `PROTOCOL.md:587-590` and `605-608` and `CONTEXT.md:54` all say that a reconnect within one hub process
   sends none. The code's way is what makes up for a briefing that was lost with its connection and whose signature was kept.
6. `relaunched`: the timeout of a kill goes by the name (`terminal.js:623-629`): a session that was launched within the ten
   seconds after its predecessor heeded `/exit` is killed unasked, though the spec of the pane requires a confirmation
   (`openspec/specs/terminal-projection/spec.md:73`).

Seen while modelling and allowed by the models, but not a run of their own:

* `permission.ts:309` (`PROTOCOL.md:538`): a voter the roster lacks counts as roomless, and roomless passes the room check.
* `agents.ts:87` (`CONTEXT.md:40`): a POST of a disconnected name cancels its stale timer for good.
* `room-summariser.ts:283` (ADR 0003:16): tick and fill may both generate one block; if the first answer is rolled
  up before the second comes, `INSERT OR REPLACE` brings the block back beside its rollup, and that rollup
  fails on the primary key should the block be the first of a later batch.
* `main.js:217`: the click on Reload settings may come while bootstrap awaits its loads. An answer of the old hub that is applied
  after the page was cleared brings an item that was resolved in between back as pending, and nothing the new hub sends corrects
  it, though `main.js:242` has the page replay from the ledger. The window is small: the answer has to be under way while the hub is
  replaced. `CardsAgree` excuses exactly these cards.
* `main.js:242`: `reload_settings` returns before the new hub listens, so the loads that follow may fail, and nothing
  repeats them: `PendingShown` speaks of the kinds that were loaded.
* `terminal.js:550`: the answer "already attached" makes a tab live without a listener, so it shows
  nothing more; `PictureShown` speaks of tabs that listen.
* `terminal.js:771`: a list of sessions that is out of date makes `autoAttach`
  create a session that had ended.
* `composer.js:115`: the composer is cleared when the slash command is done, and with it what was written since; a second Enter
  before that types the command twice. `http.js:53`: a request whose answer was lost is sent again, a post too.
* `messages.js`: a pending interrupt enters at the top of the list, where trimming begins.

## 4. Proofs

`LedgerProofs` proves `TypeCorrect` (`Spec => []TypeOK`), one lemma per group of handlers.
`LedgerSafetyProofs` first shows that every step of the hub is one of three kinds
(`StepKinds`): it inserts a row, concludes a pending one, or is quiet; everything after
that argues about these kinds instead of twenty handlers. `TablesMatchLog` and
`ReconciliationIsSound` are not inductive alone: an entry on its way must be known to be that of the
last event (`OutboxOK`), and what is on the wire to be older (`WireOK`). The invariant is

    IInv == TypeOK /\ TablesMatchLog /\ OutboxOK /\ WireOK /\ ReconciliationIsSound

and from it follow `TablesAlwaysMatchLog`, `ReconciliationAlwaysSound` and
`LedgerImplementsEventLog`, each step of the ledger being a step of `EventLog` or a stutter.
The assumptions are those the modules name: disjoint ids, `None` outside the row types, a
default room, positive TTLs. No bound of the runs is assumed: any number of ids, names,
rooms, ticks and crashes.

`LedgerOutcomeProofs` adds what becomes of a row. `RowsResolvedOnce` follows from the kinds of
step alone. Three more invariants are inductive beside `IInv`:

* `HeardOK`: what was written since the last start is on the wire, or is the head of the
  outbox, addressed as it must be. It gives `AnnouncedAlways`.
* `SweepsDue` and `AllClosed`: an id the sweep still holds was due when it looked and
  keeps its expiry, as nothing but the outcome of a row changes. They give `ClosedAlwaysByEntitled`;
  that an event keeps its position (`OldEventStays`) needs `TablesMatchLog`.
* `NutshellOK`: `NutshellIsLastEdit` and that the edits are finite. That the newest edit has the
  highest version needs `TablesMatchLog` again. It gives `NutshellAlwaysLastEdit`, and
  `NutshellAlwaysStaysInRoom` by what `NutshellTarget` lets through.

`RegistryProofs` proves the six properties of the `registry` run, for any names, connections, queue length and number of
registrations, in three layers:

* `TInv`: types, that a known name has a life within bounds (`KnownLived`), and `WakeupsOK`: a queue never holds entries and
  waiters together, and its waiters are the waiting streams that read it, each once. It gives
  `RegistryTypeCorrect` and `NoWakeupIsLost`.
* `CInv`, the count of each name. Neither property is inductive alone. `Honest` is that the count never
  exceeds the open connections, `Served` that it is exact for a known name that was never removed under a
  connection, whose streams read its live queue and have no timer beside them. `Quiet` adds that a name
  neither known nor evicted has no open connection: a fresh registration starts
  counting at 0 or 1 and would be wrong otherwise. It gives `PresenceAlwaysHonest` and `ConnectedAlwaysServed`.
* `OInv`, the order. An entry is in a queue or was sent down a connection. `Ordered` says that each of these
  is increasing, holds only what was pushed, and that no entry is in two of them; `Older` that what a
  stream sent is older than what its queue holds; `Bounded` that no queue exceeds its
  limit. It gives `AlwaysDeliveredInOrder` and the action property `NothingElseIsLost`: an entry leaves a
  queue down a connection, as the oldest one of a full queue when another comes, or with the name's removal, when by
  `WakeupsOK` no stream waits on it; and a new entry is always kept.

Lemmas say what append, tail and splice do to the elements of a sequence and that they keep it
increasing; the actions are then a few kinds of change: a push, a send, a step that leaves the entries alone.

`RoomSummaryProofs` proves the six safety properties of the `summary` run, for blocks and batches of any size, any number of
lines, rotations, clearings and crashes. What is said of the table `room_summary` is said of any table (`Table`), so that it
holds of the one before a step and of the one after:

* `Table`: finitely many rows with ids of their own; each block starts behind a multiple of `Block` and
  no two at the same one (this is what makes blocks tile: the cursor a block is stored at may be old, but it is a
  multiple); each block marked as rolled up is inside its rollup (`Taken`).
* `Good`: what a promise holds while it waits for the model. Its cursor is a multiple. The batch of a rollup
  (`GoodBatch`) names rows by id; those still there kept their place, and no id of it was given away again. So
  the marking that comes after the answer marks the rows that were summarised, or none.
* `Follows`: what a write may do to the table. Blocks and rollups stay or are replaced at their own place, what is
  covered stays covered, and the largest stored end only grows. It gives `ShownStaysShown` and `CursorAlwaysAdvances`.
* `FInv`: failures and calls under way never exceed `Threshold + 1`. `GivesUp` alone is not inductive: two
  promises may both be waiting when the threshold is reached, and one of them has counted already.

`DesktopProofs` proves every property of the `desktop` run, for any number of sessions, clients,
flows and acts and any scenes, in five parts, each inductive beside the ones before it:

* `RustInv`: `OneClient`, and that there are no more exit events than clients that ended. Only the client in the
  registry can end, as it is the only one that runs, and a command attaches another only while the registry is empty.
* `PageInv`: `Fit`, that a tab and its flows fit together. A flow that registers listeners and was not told off has a
  tab; a tab that shows a launch has a flow on its way. It is stated of any tab and flows, so the steps of a flow, of a
  reconcile and of a removed tab are lemmas of their own (`FlowFits`, `LaunchFits`, `RemovalFits`).
* `UserInv`: the dialog resolves the very question it shows, and each timeout is that of a kill which was asked about.
* `ComposerInv`: the question of each timeout that is still to kill was agreed to, and so was that of a send that wipes several
  agents and is past it (`Entitled`); and what the
  composer holds was never posted. `ConfirmedOnly` and `PostedOnce` follow from these only.
* `PictureInv`: a tab of an agent that listens to the client of the running session shows that session, or a flow on its
  way will heal the geometry and so have tmux repaint. `PictureKept` says what a step may do to it, and its lemmas that
  every step that takes the picture away starts or keeps such a flow.

`DeliveryProofs` proves one property of the page and all those of the sidecar, for any entities, casts, queue and number of
restarts and cuts:

* `RetryInv` gives `RetryAlwaysDue`: what bootstrap still awaits ends with the connect (`ConnectsLast`), every `onerror`
  leaves a timer, and until Reload settings has connected its own await counts; the click needs no rest of bootstrap.
* `SideInv`: the types, that an agent that is served has an empty queue and a room, and that nothing of the sidecar
  moves while the page is attached. Lemmas say what each action does to pipe and queue (`CreateEffect`, ...).
* `OrderInv`: of one subject, versions never go back from the session through the pipe and the queue
  (`Ordered`, `Leads`, `Current`) to the ledger. `ToldForward` alone is not inductive: nothing in it speaks of the frames
  that are on their way. Lemmas show that append, overflow, `Tail` and a connect keep the order.
* `InboxInv`: while the agent is served in its room, every pending item of the room was told or is in the pipe. It
  gives `PendingAlwaysTold`.
* `BriefInv`: the last briefing in the pipe, or the one told when there is none, is the one the hub has signed, and that
  is the one of the peers unless the timer is pending. It gives `AlwaysBriefed`.

`PageProofs` proves what the page shows, for any entities, casts, limits of log, queue, transcript and list, and any number of
restarts, broken streams and moves. None of the properties is near inductive: each speaks of a page that has caught up, and what
matters is what is still on its way while it has not. `PageInv` says it for every moment, in parts that are named:

* `LogInv`: the ids of the log end with the last one given, without a gap; log and transcript bear only versions the ledger has
  had (`Truthful`), and never end with a card pending that was resolved for all to see (`FollowedUp`), so that a hydration
  that replays old lines ends with the truth.
* `ConnInv`, `WireInv`: the page knows no hub later than that of its stream, and a session frame comes first or not at all.
* `SyncInv`, while the page is attached and nothing went by it: the stream holds what the log holds beyond `Seen`, in order
  and nothing else of these ids (`Unseen`, `Consistent`, `Complete`), and what it says last of the agent is true (`LegendInv`).
* `ListInv`: the shape of the list and its maps (`ViewInv`), that its chat rows were seen, and that no card is ahead of the ledger.
* `AwaitsInv`: what an await was answered names entities that exist, by a hub that is or was; the notice is not in the list before its time.
* `FreshInv`: what came of an entity after the hub that runs had answered an await is in that hub's log, unless the log was too
  short. So an answer that is applied late is followed by what it missed, if the hub that gave it still runs; only the others
  are `stale`.
* `ShownInv`, but for the moment between the click on Reload settings and its answer: each version that is wanted is shown or
  comes (`DueInv`). `Wanted` is a resolution of a card that is shown and not `stale`, and a pending item of a kind that was loaded, or
  either that an answer of the hub that runs is about to bring (`Awaited`). It comes on the stream, or, without one, is in the log beyond `Seen` (`Coming`), since the next stream
  replays from there; a log too short for that is what `missed` will say. `ChatInv` is the same for messages.

Each step is one lemma (`HandleKeepsPage`, `AnswerKeepsPage`, ...); `Handled` says of every handler at once what it commits,
and what it sends. The view changes by operators whose lemmas compose (`Later`: what goes is remembered, versions never go back). What
the folds of the model compute, `appendEntry` line by line, `handleStream` entry by entry and the cards of a load one by one, is
proved for any length: by induction over prefixes (`UpTo`, from the well-foundedness of the naturals for a set instead of a predicate),
from a function that a fold is defined by and whose existence is proved first (`FoldExists`). The proofs need that the kinds
share no id and that `None` is none, which the modules assume by name.

**Model-checked only:** liveness (`OverdueIsResolved`, `EveryRunEnds`) with its fairness, and ENABLED, which are outside what the
provers do, and the runs that end in a violation, which are counterexamples.

## 5. What is left

The plan was the ledger, the registry and the summaries first, then the delivery to both clients, then the desktop, and
proofs of all that is not liveness. All invariants and action properties of the runs that pass are proved. What could follow:

* A sidecar that shares its queue with a second one of the same name: `Registry` has the competition,
   `Sidecar` the contents.

**Not modelled.** Authentication, body limits and dispatch are stateless checks in front of the
handlers: a refused request changes nothing. Attachments, sessions and usage write files or single rows without a
race that a property could tell apart. Turn capture decides by how long a terminal has been silent: its outcome is a
function of real time and of what an external program prints. The schema migrations run in one
transaction each before the first request. Rooms, usage and the other features of the page render what they are given.
Redaction, briefings' texts, DOM and CSS, and build scripts are conversions and layout.
