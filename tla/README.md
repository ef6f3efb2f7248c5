# Formal models of polyglot-ai

TLA+ specifications of [polyglot-ai](../src/README.md), checked with TLC and
proved about with TLAPS. Line numbers below are those of `src/crates/...`.

    tlc -workers 2 -config MCServerSessions.cfg MCServerSessions     # one run
    tlapm ServerSessionsProofs.tla                                   # one proof module

`PROJECT.json` lists the components, the runs, the source lines each definition
stands for, a deliberate bug (mutant) for each property that must break it, the
hazards of the code and the theorems.

## 1. Inventory

| Component | State | Operations | Interacts with |
|---|---|---|---|
| **server: users, sessions, environments** (`server/src/main.rs`, `auth/`) | user table (SQLite, one mutex), session map and environment map (one lock each), per connection `session_id`, `current_tool` | Auth (lookup, count, create, bind, open, touch), SetEnv, SelectTool, Usage, Disconnect, end of connection, `add-user`, `remove-user`, expiry | every connection task shares the three tables; the admin commands are another process on the same database |
| **server: tool manager and adapters** (`tools/`) | usage table (counters, `is_available`), one child process per prompt, two reading tasks, two bounded channels | execute, monitor, relay, `get_next_tool`, cancel | spawned by the connection loop, writes into its response channel |
| **server: connection loop, codec** (`main.rs` 343-406, `protocol/`) | frame buffer, response channel (100 places) | read, decode, handle, write, end | client over QUIC; relays of running prompts |
| **server: invites** (`auth/invite.rs`) | code map | generate, use, revoke, clean up | printed by a command; nothing redeems them |
| **server: sync** (`sync/`) | the sync directory, watchers, debounce times | list, chunk; without a caller: write, conflicts, watch | FileRequest and SyncRequest |
| **server: usage tracker** (`usage/`) | two SQLite tables under one lock | record (two inserts), count a limit, clean up, summarise | nobody calls it yet |
| **server: config, CLI, update** | files, the binary, `pending_invites.json` | load, back up, download, replace, roll back, generate-invite | common updater |
| **client: connection** (`client/src/connection.rs`) | streams, state, session id | connect, request/reply, `prompt_streaming`, timed read, reconnect | server |
| **client: TUI, CLI** (`client/src/main.rs`, `tui/`) | output list, a 100-place channel it both fills and drains | key actions, draw | client connection |
| **client: sync watcher** | watched paths | watch, list | notify crate; no consumer |
| **local: tools, environment, sandbox, plugins, config** | usage table, child processes | `execute_streaming`, multi-model, failover, limits | local TUI |
| **local: TUI loop** (`local/src/main.rs`, `tui.rs`) | current response, multi-model answers | key actions, outputs of two channels | tools, history |
| **local: chat history** (`history.rs`, `common/src/context.rs`) | one file per session, an index file, the current session | save, resume, transfer, delete, prune, clear, search | any number of `polyglot-local` processes share the directory |
| **bridge** (`bridge/src/main.rs`) | WebSocket and QUIC streams, token sessions, rate limits, health, quotas, metrics | relay both ways, local prompts, failover, refresh tokens | phone or browser clients, server, local binary |
| **bridge: dashboard** | none of its own | render | bridge state |
| **common: features** | rate buckets, response cache, quotas, health, load balancer, stream buffer | check, record, evict, select, flush | bridge |
| **common: storage** | SQLite tables | one statement per call under one mutex | bridge: its audit log and the cleanup; the rest is an interface without callers |
| **common: updater** | binary, backups | back up, restore, verify, clean up, compare versions | server, client, local |
| **common: protocol, models, crypto, context** | none | encode, decode, summarise | all |

Hard behaviours, and where they bite (the full list with lines is
`PROJECT.json` "hazards"):

* *Interleaving of connections*: Auth is five queries, each under its own lock;
  the maps are shared; sessions expire under the connections that use them.
* *Concurrency inside one prompt*: a child, two readers, an adapter, a monitor
  and a relay, connected by pipes and two bounded channels.
* *Self-deadlock*: two loops (server connection, client TUI) await a producer
  into a bounded channel that only they drain.
* *Cancellation*: `select!` and `timeout` drop reads half-way through a frame
  (bridge, client).
* *Crash*: between two queries of a registration, two writes of the history,
  two steps of an update.
* *Limits*: what happens after a rate limit is spread over five tasks; a quota is
  checked in one call and recorded in another.
* *Several processes over the same files*: chats, pending invites, backups.
* *Time*: quotas, sessions, invites and usage figures have periods that end between
  two steps.

What makes each component correct: sessions and environments are private to a
connection and end with it; output arrives whole, in order, once, and last
comes an end; usage figures equal what was reported; replies come in the order
of the requests; a connection that asks is answered; history on disk loses no
session; a frame boundary is never lost; caches, quotas and rates respect
their limits.

## 2. Modules

| Module | Models | State ↔ code |
|---|---|---|
| `ServerSessions` | users, sessions, environments of the server | `users` ↔ SQLite table, `sessions` ↔ `SessionManager.sessions`, `sessionEnv` ↔ `ServerState.session_env`, `sid`/`tool` ↔ the locals of `handle_connection`, `pc`/`login` ↔ where inside Auth the task is |
| `ToolPipeline` | one prompt from submission to its last message, any number at a time, over one usage table | `inner` ↔ `internal_tx`, `hand` ↔ the monitor's `output`, `outer` ↔ `tool_tx`, `relay` ↔ whether the relay waits for a place in the response channel, `stdout`/`stderr` ↔ pipes, `available`, `hits`, `errors`, `requests` ↔ `ToolUsage` |
| `ReplyOrder` | what a connection promises: replies in order of requests, nothing twice, streams interleaved but each in order | abstract |
| `ConnectionLoop` | the `select!` loop that implements it | `turn` ↔ where the loop is, `arrived`/`handled` ↔ frames read/decoded, `channel` ↔ `response_rx`, `streamed` ↔ how far each prompt's relay is |
| `ClientSession` | the client: connecting, its three interfaces, the streaming of a prompt into the channel of the terminal interface, a connection that may be lost | `at` ↔ where the client's task is, `hand` ↔ `response` of `prompt_streaming`, `channel` ↔ `response_rx`, `tool` ↔ `App.current_tool`, `link` ↔ the streams; `up`, `wire`, `stage`, `streamed`, `selected` are the server as seen from the client; `shown`, `exhausted` are history |
| `HistoryStore` | the chat history of `polyglot-local`: any number of processes over one directory | `files` ↔ `<uuid>.json`, `index` ↔ `index.json`, `current` ↔ `HistoryManager.current_session`, `pc`/`loaded` ↔ where inside `save_session`, `update_index` or `auto_prune` a process is and the index it has read, `then` ↔ what called the save |
| `LocalChat` | the loops of `polyglot-local` and the tools they run: prompts as tasks of their own, several models at once, limits and failover | `current`, `response`, `enabled`, `responses` (lines and notices of errors), `completed` ↔ `App`, `open`/`log` ↔ `HistoryManager.current_session`, `exec` ↔ the tasks of `execute_streaming` with their child, `single`/`multi` ↔ the two channels, `available`/`hits` ↔ `ToolUsage` |
| `TerminalUi` | every key of both terminal interfaces | `input`, `cursor`, `column` ↔ `input`, `cursor_position`, `cursor_display_pos`, `view`, `list`, `selected`, `search` ↔ the fields of `App` of these names, `saved`/`readable` ↔ the index on disk |
| `Features` | the records of `features.rs` the bridge uses, as operators: token bucket, quota, health, choice of a tool | a record each, no variables |
| `Bridge` | the bridge in both modes: one task a connection, the dashboard, the cleanup | `arrivals`, `messages`, `quota`, `health`, `total`, `counted`, `active` ↔ the fields of `BridgeState`, `rows` ↔ `audit_log`, `conn` ↔ where a connection's task is and what it holds, `conn[c].link` ↔ its QUIC stream, `page` ↔ requests to the dashboard |
| `Updater` | `perform_update` of the three programs over `updater.rs` | `exe`, `temp`, `backups` ↔ the files, the backups in the order they were last written in, `image` ↔ the inode a process runs from, `run` ↔ where an update is |
| `Records` | the tables of `storage.rs`, the two usage tables, invites in memory and on disk | `rows`, `quota`, `audit`, `usage`, `daily` ↔ tables, `invites` ↔ `InviteManager.invites`, `file` ↔ `pending_invites.json`, `task` ↔ where a client is in a call of several steps, `table` ↔ which of these a behaviour is about |
| `ServerSessionsProofs`, `ToolPipelineProofs`, `ClientSessionProofs`, `HistoryStoreProofs`, `LocalChatProofs`, `BridgeProofs` | theorems about the module of the name | |
| `ServerProofs` | theorems about `ConnectionLoop` and about `Records` | |
| `TerminalProofs` | theorems about `TerminalUi` and about `Updater` | |
| `MC*` | instances for TLC | |

`ConnectionLoop` and `ToolPipeline` meet at the response channel: the relay of
a prompt is the last task of `ToolPipeline` (`Relay`, `HandOn`) and is a
stream of `ConnectionLoop` (`Relay(r)`). Each is checked with the other
abstracted to what it can do at that boundary: in `ToolPipeline` the relay hands on
when the response channel has a place, which it may have to wait for, and for ever if
the connection is wedged (`Wedge`); `ConnectionLoop` gets a stream of any length up to
its bound.
`ServerSessions` has the effects of requests, `ConnectionLoop` their replies.
`ClientSession` has in place of the server what those modules establish: replies
in the order of the requests, a prompt whose stream has at most one last message,
and a current tool that only a successful Auth and SelectTool change.
The local program shares no state with the server. `LocalChat` says which session
an answer goes to, `HistoryStore` what becomes of a session on disk, `TerminalUi`
what is typed and listed, with outputs and saves that come at any time.
`Bridge` is composed of the operators of `Features`, each call of which takes one lock;
in server mode a frame of the server is two reads (length, body), since `recv_message`
is two awaits. `Records` puts what is otherwise unrelated in one module because each
part is small and nothing touches two of them.

### Granularity

One action is what runs without another task being able to observe or change
shared state in between: one lock, one query, one channel operation. So Auth is
several actions (`AuthLookup`, `AuthMode`, `AuthName`, `AuthInsert`,
`AuthBind`, `AuthOpen`, `AuthTouch`, and `AuthError` for a failing query), but
SetEnv is one. The monitor's "record, then forward" are two actions, because
forwarding waits for room. Children, clients, the administrator, the clock and
crashes are environment actions. In `HistoryStore` an action is one file
operation: truncate, write, read and change in memory. A process that writes a
file another has open may leave a mixture (`Torn`), which reads as an error; a
crash leaves what was truncated cut. Errors go where the code sends them:
`let _ = save_session(..)` drops them, `load_index().unwrap_or_default()` turns
them into an empty index, and a `BufWriter` loses those of its last flush.
In `Bridge` each call on the shared state is a step, because each takes its own lock
or atomic, so a prompt is a dozen steps. In `Records` a call of `storage.rs` is one
step, since it holds the connection's lock from its first line to its last;
`record_usage`, `use_invite` and `generate-invite` are several. In `Updater` each file
operation is a step, a copy to a backup is two (`BackupBegin`, `BackupWrite`), and a kill
or a failing operation may come between any two. `cleanup_old_backups` sorts by the
time of last write (`updater.rs:240`), so a backup's rank is that of its last write: of
two copies that overlap, the one that ends later is the newer. Ties of the clock are
left out.

Data is abstracted to what the properties distinguish: a certificate, a uuid, an
environment is a model value; a line of output is its number; a reply is the
pair of its request and its place in the answer; a chat message is its number,
so `updated_at` is the greatest of a session's. The adapters fall in three
classes: those that report a limit as soon as they read it (`Eager`: Claude
and its like), those that report it at exit (`Deferred`: Cursor), and those that
never do (Ollama). A reading task may stop early, since a line that is not
UTF-8 ends `next_line` with an error.

## 3. Runs

| Run | States | What it shows |
|---|---|---|
| `sessions` | 1.9 M | two connections, two certificates, an administrator, one crash: isolation of environments, agreement of tools, what may be left behind, who owns a session, who may end it |
| `pipeline` | 3.2 M | two prompts, three tools, two adapters (one eager, one deferred), channels of one place: usage table against delivered messages |
| `pipeline_live` | 190 k | one prompt with up to three lines and two notes, on a connection that may stop taking messages: complete output, one end, and an end does come, unless the connection takes no message any more |
| `connection` | 295 k | up to four pipelined requests of five kinds, a channel of two places: `ConnectionLoop` implements `ReplyOrder`, answers everything unless wedged or over, and its relays end |
| `client` | 142 k | the terminal interface, the command line and the commands that ask once, three requests, prompts that stream two messages, a channel of one place: replies match requests, answers are whole, tools agree, prompts return |
| `history` | 2.6 M | two processes, three sessions, two messages, an index of one entry, which a second session drops the first from, one crash or failed operation: no message lost but by named ways; the index describes the files unless it was raced |
| `local_chat` | 1.1 M | both interfaces, two tools, two executions each, two chats, a channel of one place: where answers are stored, that a combined answer is stored once and has every line and every notice of an error, when several models are through, which tool is named after a limit, that no prompt ends silently |
| `tui` | 2.4 M | both programs, a slash, a wide and a combining character, two sessions: cursor and title |
| `bridge` | 646 k | both modes, two connections of one address, two tools, the dashboard, a clock that ends a day: overshoot of quotas, metrics shown, frames relayed, tools left out |
| `updater` | 3.8 M | three updates, two at a time, over a server and a client, a release and its pre-release, two backups kept: something to run, a backup of it, and no step puts an older version in place |
| `records` | 460 k | each table with two keys or three codes, two clients, days and a month that end: what is saved is found, quotas are fresh, pages cover the log, both books of usage agree, invites and printed codes |
| `wedge` | | a disagreement between the README of the program and its code, below |

Deadlock is checked where the system should always have a step
(`sessions`). The other models stop when every prompt is done or the
connection has ended, which is meant.

**Bounds and why they are enough.** Two connections and two certificates give
each race of Auth its two parties; two session uuids allow a connection to sign
in twice or another to open one in its place; a third user uuid only repeats
the second. One environment value suffices because "the other's" is told from
"mine" by which connection set it, and "none" is a value of its own. Channels
have one or two places instead of 100: full and empty both happen within a few
steps, and no code reads the capacity. Three lines and two notes make a queue
on both sides of a full channel. Four requests of five kinds (one reply,
several, a stream, none, a failure) let a stream overlap a long reply and a
failure end either. `MaxCrashes` is one: a second crash starts from the state
after the first, with nothing in memory. The history has two processes, which
give each race its parties; an index of one place makes the second message, of another
session, drop an entry for a newer one, and the third session is the empty one a process
begins after it. In `pipeline_live` the one connection may wedge (`MayWedge`); in
`pipeline`, which states no liveness, a wedged connection is one whose relay takes no
step.
The client needs three requests: one that leaves something behind, one that
picks it up, and one that is waiting then. Two messages for a channel of one
place reach every state of `prompt_streaming`: waiting to receive, waiting for room, and
an answer that does not fit.
`IndexLimit` and `HistoryLimit` are equal, as the two limits of the code are
(100 and 100).
In `local_chat` two executions are enough for an answer that is
still coming when the next prompt or chat begins, and for a second prompt to a tool
just marked limited. In `tui` two characters on the line give each key a neighbour
on either side. In `bridge` a limit of one a day and two a month lets one of two
connections pass a check the other has already used up; thresholds of one and a
single latency make health change with every report (longer runs of failures only
delay it); two frames are one to break and one that shows the break. In `updater`
two backups are kept instead of three, so the third update costs one, and that
which costs it may overlap either of the others. In
`records` a day has two ticks and a month three, the clock stops after three: both
periods end, and not together; a page has one row, so three entries make three pages.
The theorems are about any values of these.

**Fairness.** Weak fairness of each tokio task (the runtime polls a ready task;
`select!` polls its branches in random order, so a branch that stays ready is
taken: the loop as a whole is fair), of both reading tasks, adapter, monitor
and relay of each prompt. None for children and clients: `ExitedIsAnswered`
starts from a child that has ended (its pipes then close). The relay is fair in taking
and in handing on as long as its connection is not wedged: places in the response
channel go to its senders in order, so a relay that waits has one in the end if the
connection goes on taking messages. That it does is not assumed: a connection may wedge
at any step, its relay then stays where it is, and `ExitedIsAnswered` excepts just
that. `wedge` shows that it happens. None in
`ServerSessions`, `HistoryStore`, `LocalChat`, `TerminalUi`, `Bridge`, `Updater` and
`Records`, which state safety only (of these `LocalChat` could say more: see the
plan). The client's one
task is polled, and its idle timeout (30 s, no keep-alive) fires on a connection
on which nothing arrives; `PromptReturns` asks nothing of the server, the tools or the user.

What `client` excepts, and why: `exhausted` marks that a "rate limited and no
alternative" error was read, which ends the prompt for `prompt_streaming` while
its tool may still write (`PairedUnlessExhausted`, `AnswerKept`, `ToolAgrees`);
the plain command line reads one message of an answer and takes the next one for the reply
to its next request, so nothing is claimed of it beyond its type; an answer of
more messages than the channel has places (100) stops the terminal interface
for good (`Frozen`). `polyglot health`, `quota`, `metrics` and `export` are always
answered with "Unhandled message type", the last arm of `handle_message`.

What `bridge` excepts: `cut` marks that a WebSocket message came while a frame was
partly read. `recv_message` is not safe to drop, `select!` drops it, and the stream
is out of step from there on (`RelayedWhole` shows that nothing else breaks it).
What `updater` excepts: two updates of one program at once (`overlap`), and of the
client and the local program, that the new file can be executed: they set its mode
only after the rename. `BackupSurvives` holds until as many backups were written later
as are kept. `OnlyForward` is about every step that changes what a program runs: if no second
update works on the program, the one at work was not forced and both tags are well
formed, what is put in place is later than what was there, whatever a killed update
left beside it. A tag with a component that is no number is not well
formed: `parse_version` drops that component, and what is offered then is a hazard no
property covers.

What `history` excepts: `ListedAsSaved` says nothing once an index was unreadable
when it was loaded, two processes overlapped in changing it, or two had one session open
(`lapses`); these are ways in which the code does lose entries. It is about a process
that works alone, and about the cut to `IndexLimit`.
What `local_chat` excepts: executions that another round or another chat crossed
(`crossed`). A combined answer contains the lines `[ERROR] ..` and `[Rate limited]`
that the loop writes for models that ended so (`local/main.rs` 659-666), and
`CombinedIsWhole` has them in it; a round whose last end is an error or a limit stores
no answer at all, and one in which a model takes part twice is excepted.

**Finding** (violation run) `wedge`: README.md:53 promises file synchronisation; a
file of as many chunks as the response channel has places (100 of 64 KiB) never
arrives, and the connection stops for good: the handler waits for room that only the
loop awaiting it can make. `AnsweredUnlessWedged` shows that this is the only way for
an open connection to leave a request unanswered.

**Behaviours of the code a reader may not expect**, which the models contain and no
run is about:

* On a rate limit the server sends a `ToolSwitchNotice` and drops the prompt; no
  second tool runs (README.md:46 reads as if one did). Under `round_robin` the tool
  named may be limited itself (`manager.rs:260`), and nothing calls
  `reset_availability`.
* Two processes of `polyglot-local` that save at the same time can leave a session
  whose file is whole out of the index, where neither search nor resume finds it:
  the exception of `ListedAsSaved`.
* In the plain command line of `polyglot-local` a tool that cannot be started ends the whole
  program (`handle.await??`); the history is still saved by `Drop`.
  `run_single_prompt` calls `process::exit(1)` on an error, and then it is not.
* F6 and `/multi` should bring up a selection of models (README.md:302, 338); the
  handler of `RequestTools` (`local/src/main.rs:499`) sets the view to `Tools`, so it
  is never seen: `SelectionNeverShown` proves it.
* A server's rollback fails on Linux while it runs from the file it restores
  ("text file busy"), unless another update has replaced that file; client and local never restore,
  and set the mode only after the rename. Backups of all programs share one directory
  and its limit of three.
* `generate-invite` prints that its code can be used when connecting; the server
  neither reads `pending_invites.json` nor calls `use_invite`. A file that cannot be
  parsed counts as empty and is overwritten.
* `save_session` on conflict keeps the first `expires_at`, `save_api_key` the tool and
  `created_at`, and a webhook saved again keeps its `failure_count`: `SavedIsFound`
  says what may be relied on nevertheless. `save_quota` of what `get_quota` answered
  undoes the increments in between.
* For the bridge a prompt failed only if its output could not be passed on: that
  `polyglot-local` could not be started, or ended with an error, is answered to the
  client and counts as a success of the tool. Of a quota
  only the requests are ever checked; its tokens are recorded as 0.

## 4. Proofs

TLC checks the instances above; the theorems hold for every set of connections,
users, tools, prompts and every channel size, under the assumptions named in
the modules (sentinels are not values; `DefaultName` is a name; channels have
at least one place; ...).

* `ServerSessionsProofs`: `Invariance` shows `IInv` inductive: the type
  invariant, five of the properties, and what they need of each other: uuids in
  use were issued and a session uuid has one holder (`Fresh`); the row a
  registration is about to bind is its own, and the user a session is opened
  for carries the certificate sent (`Registration`); names are unique and only
  "default" ever has a certificate (`Table`); sessions were opened with a
  certificate (`Owned`). `Table` is what makes `OneCertificate` hold although
  the count, the name check, the insert and the bind are separate queries: what
  stops a second registration is the unique name, not the count. From it
  `TypeCorrect`, `PromptsIsolated`, `SelectionsAgree`, `NothingLeftBehind`,
  `SessionsOwned`, `OneOwner`, `SessionsAuthentic`, `RegistrationsAccounted` and the
  action property `OnlyOwnerEnds`.
* `ToolPipelineProofs`: the type is not enough for `MarkedBeforeNotice`: a limit
  in the monitor's hand, in the outer channel or delivered must already belong
  to a tool marked unavailable (`Marked`), which needs that only prompts with an
  adapter run (`HasAdapter`, `Blank`). `NoMutualSwitch` also needs that a notice
  names another tool than its own (`Elsewhere`): then the second of two notices
  that swap tools would name one already marked. From it `TypeCorrect`,
  `NoticeAfterMark`, `NoSwap`, and the action property `NeverRecovers`.
  For `OutputArrives` what was delivered, the two channels and what the monitor holds
  are read as one sequence, `Whole(p)`: `OrderInv` says that it has the lines read so
  far, each once and in order, that no line follows an end, and that an end is there
  only when the pipe is through. A reader appends to that sequence; monitor and relay
  move a boundary within it, the relay replacing an output by the message made of it
  (`SameItem`), which keeps it `Orderly`. `FiguresAreReports` is about the part of it
  that monitors have taken: `UsageInv` equates hits and errors with cardinalities of
  sets of places in these sequences, so that a step that takes one output adds one
  place to one set and no step of another prompt touches it.
* `ServerProofs`, first part: that `ConnectionLoop` implements `ReplyOrder` needs to
  know of the channel what the reader will see of it. `Accounting`: for every
  request, the messages written and queued are together exactly those its
  handler and its relay have produced. `Queue`: every queued message is the one
  due once those before it are written. With both, writing the head is a step
  of `ReplyOrder` and every other step a stutter. `Within` bounds the loop's
  turn by what has arrived. The arithmetic of counting over a sequence
  (`CountAppend`, `BeforeTail`) is in lemmas of its own. From it `TypeCorrect`,
  `RepliesInOrder` and the action property `WedgedForever`.
* `ServerProofs`, second part: a behaviour of `Records` is about one table, so each has
  an invariant that says only what it needs. `QuotasFresh`: of the rows read to be
  written back too, no reset is further off than a period and nothing is older than
  what the reset allows (`Sound`). `UsesLimited`: what an invite counts is what was
  redeemed (`InviteInv`). `CodesPending` is about processes that read, change and write
  a file: what the file holds all of them hold (`FileHeld`), what one holds the
  others do (`SameHeld`) or the file has (`HeldInFile`), a torn file nobody is writing
  leaves nothing to lose (`TornEmpty`), and every code is somewhere (`Somewhere`) -- of
  the codes no race and no kill excuses. `BooksAgree`: the books agree at each sheet (a day
  and a tool) by the cardinality of its rows, which an insert, a second insert and a cleanup change
  by as much as `daily` and `missing` (`UsageInv`). `AuditIsCovered`: the place of an
  entry in the answer is the number of those before it, and that never shrinks
  because entries are only added; so what an offset has passed was seen before it
  did (`PageInv`). `SavedFound`: each table keeps, of what a save promised, what its
  lookup needs (`SessionsDue`, `KeysDue`, `ResponsesDue`, `WebhooksDue`); for webhooks
  that is the count of failures, which a second save keeps although the promise is new.
* `ClientSessionProofs`: the client reads the next message, whatever it is. That
  it answers the last request needs: between requests nothing is on its way
  (`Quiet`); while the client waits only its last request, or that prompt's stream, is
  (`Belonging`); of a command there is one message (`Single`); nothing follows the
  one that ends an answer (`Closing`, and `Noted` for the one exception). On top of it
  `Agreeing` follows the tool through requests and replies. From them `TypeCorrect`,
  `RepliesMatch` and `ToolsAgree`. `AnswersKept` is shown on one sequence, `Pipe`: the
  channel, what `prompt_streaming` holds, the wire. Taking and giving leave it as it
  is, showing takes its head, streaming appends to it, the reply to a command is
  taken from its middle (which is why that reply must be no part of an answer), and a
  connection that fails cuts it off (`KeptInv`).
* `HistoryStoreProofs`: a message is safe because its session has one holder
  whose memory includes the file, and whose file is complete once the save has
  passed `write`. So `NothingLost` needs `Memory` (memory against file at each
  point of a save), which needs `Sole` (two holders only after one resumed the
  other's session) and `Ids` (a session about to be opened as new is known to
  nobody). `Listing` says that every index, on disk or read into memory by a
  process, lists sessions with files and no more than `IndexLimit`: from it
  `EntriesHaveFiles`, and, with `IndexLimit <= HistoryLimit`, `NothingPruned`.
  `IndexDescribesFiles` rests on `LInv`: entries never count a message that file and
  memory lack (`NeverAhead`, unless a session is shared); and without a lapse one
  process at a time changes the index, during which it is unreadable and what the
  others have loaded is out of date (`OneWriter`), so that what a process is about to
  write describes every session but the one it saves (`Described`). An entry that is missing gave
  way to newer ones in a full index, and stays missing until its session is saved
  (`EntryOK`): cutting a full index keeps that true because what is cut is older than
  what stays. All but three actions leave this alone for one reason (`Ordinary`).
* `LocalChatProofs`: the properties speak of executions nothing crossed, so the
  invariant `ChatInv` first says what that means while one runs: no other round is
  active and its chat is open (`Undisturbed`), and the executions of one prompt are
  crossed together (`Together`). What the loop has taken of an execution, with the lines
  still in the channel, is then all it wrote, and for each of several models also the
  notice of its error once that is taken (`AsWritten`): `Collected` for a prompt, `CollectedEach`
  for each of several models; and its end comes after its lines (`LastWord`,
  `Settled`), so the answer saved at that end is whole, which gives `AnswersSaved` and
  `CombinedSaved` (`Saved`). `Loud` says that an execution that is over has its end in
  a channel or was heard: `EndsAreTold`. `Picked` keeps the tool chosen at a limit
  usable until it is announced, since only crossing executions mark tools; that it is
  another tool is, for `round_robin`, a fact about remainders: the scan of
  `Scanned` never comes back to where it began (`NextUsable`). That executions begin in the order of their numbers
  takes the least element of a set of naturals (`LeastExists`). `ChatTypeCorrect` bounds both channels.
* `TerminalProofs`, first part: the column of the cursor is kept up by adding and
  subtracting widths, so it is right only if what a key does to the line and to the
  column agree. `Columns`, the sum of the widths before the cursor, is never looked
  into: that it depends on nothing behind the cursor is all the proof needs, beside
  lemmas on what inserting and removing do to a sequence. From this `CursorInPlace`.
  `ViewInv` relates list, query and title over all keys and gives `TitleIsTrue` and
  `SelectionNeverShown`. `ScrollStaysInside`, about the client, needs that it has no
  list of sessions (`ScrollInv`): Home and End of that list scroll what is behind it,
  past its end, in the local program.
* `TerminalProofs`, second part: `UInv` says what an update that met no other on its
  program knows at each of its steps: the process runs from the file that is in
  place and of its version until the rename; what is being written is the temporary
  file; before the rename that is a whole download of the target, and executable where
  the program sees to that first (`InPlace`). It is alone (`OnlyOne`), its backup is among the
  newest, at most as many places from the end as backups were written after its own last write,
  which puts it at the end (`Kept`, with `WriteBackupStep` for the writes of others), and
  its target was offered for the version it replaces (`OfferedStill`). Of its steps only the rename changes what the program runs, from the
  version it was offered for to its target (`TurnedByRename`), which gives `OnlyForward`. A step of one
  update changes only what belongs to its program (`Local`). From it
  `UpdaterTypeCorrect`, `RunnableThroughout`, `BackupWhileNeeded`, `OnlyNewerInstalled`.
* `BridgeProofs`: a prompt passes a dozen steps, and most of them touch one record.
  `Moving` says of each action which kinds of change it may make, so that each part
  of the invariant is shown for kinds, not actions: `Shape`, `Settled` and `Funded`
  (who is past the check has a tool, and a quota to be recorded in), `Framed` (a read
  begins at a frame unless one was cut), `Gauge` (active connections by cardinality),
  `Buckets`, and `QuotaOvershoot` itself, which is inductive by the cardinality of
  `InFlight`, a subset of the address's connections: one that passes the check
  finds the quota below the limit and is not in flight yet. From it `TypeCorrect`,
  `QuotaBounded`, `FramesRelayed` and the action property `NoWayBack`. `TotalCovers`
  has kinds of its own (`Booking`): the total is ahead of the table by exactly the tasks between
  the two writes (`Books`), and what was read of the table is no more than it holds
  now (`Read`). The proof does not use that a reader holds the table's lock: the order
  of the two writes and the order of the two reads are enough.

Every invariant and every action property that a run checks is proved, and so is the
refinement of `ReplyOrder`.

**Sums, orders and induction.** No installed backend instantiates the library's
induction theorems, which take an operator. Where a property filters, sorts or adds
up, it is therefore stated by what a set has, not by what a recursion yields:
cardinality of a set of places (`UsageAccounted`, `DailyAgrees`, `TotalCoversTools`), rank of
an entry (`Page`), the first that satisfies (`FirstOf`), positions in a
concatenation (`AnswerKept`, `OutputComplete`). `FiniteSetTheorems` then gives the
steps of an induction as steps of the system. Where a natural number has to be the
least of its kind, `WFMin` of `WellFoundedInduction` gives it without an operator
argument (`LeastExists`).

Only model-checked: liveness (`AnsweredUnlessWedged`, `RelaysEnd`, `ExitedIsAnswered`,
`PromptReturns`: TLAPS here has neither `ENABLED` nor rules for fairness).
No module uses RECURSIVE operators. The type invariants of
`ServerSessions`, `ToolPipeline`, `ConnectionLoop`, `HistoryStore`, `ClientSession` and
`Updater` are proved and in no run; those of `TerminalUi` and `Records` state the
types for the reader and can be added to their configurations as they are (that of
`TerminalUi` is not proved because there are no facts to cite about `SelectSeq`, which is
defined by a recursion over the sequence).

## 5. Not modelled

See the notes in `PROJECT.json`. In short:

* Formatting, drawing, parsing of command lines and configuration; TLS and QUIC, taken
  as a reliable ordered stream per connection; SQLite, taken as atomic per statement
  and durable; operating-system limits, sandboxing, plugins, the environment file.
* Code without a caller whose state nothing else sees: file synchronisation beyond
  listing and reading chunks (the plan, the chunk writer with its byte count,
  conflicts, the watcher), the server's `cleanup_expired`, `validate_token` and
  `reset_availability`, the stream buffer, load balancer and context window of
  `features.rs`, the client's sync watcher, reconnecting.
* The response cache and the token sessions of the bridge: it looks up in both and
  inserts in neither, so both stay empty.
* The slot of an adapter for its current process: it is read at shutdown only.

`Records` does model storage calls without callers, since they are the whole of that
component and promise something of what is stored.

## 6. Plan

Every component with behaviour of its own is modelled; what is left is depth.

1. Liveness of `LocalChat`: a prompt ends if its tool does, unless the response channel is
   left full.
2. An abstract history (a map from sessions to messages) that `HistoryStore`
   implements while no lapse occurs, beside the invariants.
3. The file writer of the synchronisation, once the program calls it.
