# A TLA+ model of CodeClaw

CodeClaw (MaClaw) lets a user drive coding agents on his own machines from a
chat application or a web page. The desktop program (`src/gui`, `src/tui`, with
the libraries of `src/corelib`) runs the agents and the coding sessions and
keeps one WebSocket connection to a **Hub** (`src/hub`). The Hub connects it to
the IM platforms (Feishu, QQ, Telegram, WeChat, webhooks) and to web viewers,
and stores users, machines and sessions in SQLite. A **HubCenter**
(`src/hubcenter`) is the directory of Hubs and the market of skills.

The project models the parts of this system in which several actors change
shared state: eight parts of the Hub, the economy of the HubCenter's market, the
desktop's connection to the Hub, and the SSH connections its tools share. Each
is a state machine that TLC checks on small instances; every safety property
that a passing run checks, invariant or action property, TLAPS proves for every
value of the constants.

Run everything in this directory: `tlc -config X.cfg MCX.tla` for a run of the
table in section 4, `tlapm X_proofs.tla` for a proof module of section 5. Line numbers refer
to the sources of this commit; `PROJECT.json` maps every definition to the
lines it stands for.

Contents: 1 inventory · 2 how the parts interact · 3 modules and code ·
4 runs, bounds and fairness · 5 proofs · 6 what the code does against its
tests · 7 further observations · 8 what is not modelled · 9 plan

## 1 Inventory

Parts with a module. Paths are below `src/hub/internal` unless they begin with
another directory of `src`.

| part | state | operations | hard behaviour | correct when |
|---|---|---|---|---|
| IM task queue `im/task_queue.go` | a bounded queue and at most one worker goroutine per user, one-slot notify channel, stop channel | Enqueue, worker loop, drain check on exit, Shutdown | look-up, append and deletion of a queue are separate critical sections; idle timer, signal and stop race | a user's messages are executed one at a time, in order, none is forgotten, workers end |
| LLM semaphore `im/llm_semaphore.go` | a buffered channel, its capacity, an atomic counter | Acquire (timeout, context), Release, Resize | Resize replaces the channel under calls in flight | limit respected, no slot lost, Release never blocks |
| discussions and spaces `im/discussion.go`, `im/discussion_conductor.go`, `im/space_state.go`, `im/coordinator.go`, `im/device_notifier.go`, `im/core.go` | the user's space, the table of discussions, the loop of each discussion with its stop channel and rounds | /discuss, /stop, /call, messages, offline notices, rounds, LLM decisions | messages and notices of one user run concurrently; start, stop and end look at the table in separate critical sections | discussions end, entries that say Running are of live ones, no meeting without an end |
| pending requests `im/router.go` | table of requests, two channels per request, `lastActivity` | send and wait, response, progress, cancel, clean-up | five parties finish the same wait; channels are used after the unlock; two clocks | each wait ends, only silence times out, a cancelled one is released |
| connection writer `ws/handlers_machine.go` | buffered channel, batch, closed flag, socket | Send, writeLoop, closeWriter, read loop | any goroutine sends and, when the buffer is full, closes | order kept, nothing lost while it is up, slow clients dropped |
| write batcher `store/sqlite/batcher.go` | job channel, batch, timer, stop | ExecContext, run, flush, Close | one transaction for many callers, contexts that end meanwhile, Close at any time | answers are true, each write executed once, in order, callers return |
| device registry and gateways `device/runtime.go`, `im/remote_gateway_plugin.go`, `ws/handlers_machine.go` | connection of each machine, `machines` rows, owner of each IM gateway with a sequence number | authenticate, bind, hello, claim, unclaim, clean-up, deletions | a machine that reconnects has two connections; the old one is cleaned up late | only live connections are addressed, no row or claim outlives its connection |
| session service `session/service.go` | cached entry, row, debounced output with timers | created, summary, preview delta, important event, closed, machine clean-up, reaper | cache, row and stream are written in separate steps; Stop does not recall a running timer | no output lost or repeated, exited stays exited, nothing runs on a machine that is gone |
| market `hubcenter/internal/skillmarket`, `hubcenter/internal/httpapi/skillmarket_handlers.go` | accounts with credits, settled and pending earnings, debts and vouchers; transactions; purchase records | download, account creation, top-up, withdrawal, refund | a download is nine steps, each may fail or be the last, reads included; refunds take what was earned | the books balance, debts come first, each voucher and each refund counts once |
| Hub client `gui/remote_hub_client.go` | current connection, reconnecting flag, goroutines of each connect | Connect, Disconnect, read loop, heartbeats, loss handling, reconnect loop | goroutines of old connections act on the current one | the connection in use is watched, a broken one given up |
| previews `gui/remote_hub_client.go` | queued lines, ticker and stop channel, resynchronisation | queue, flush, announce, resend | every connect announces again and replaces the flusher; a loss stops it | every line comes to be shown |
| SSH pool `corelib/remote/ssh_pool.go`, `ssh_manager.go`, `ssh_session.go`, `ssh_sftp.go` | one counted connection per host, sessions with a shell | Acquire, Release, Reconnect, keepalive, create, exit, transfer | probes and dials outside the lock; releases name the host, not the connection | counts exact, no connection leaked, dead ones closed |

Parts without a module; the reasons are in section 8.

* **Hub, IM side** (`im/`): the adapter that receives messages (`core.go`:
  dedup window, rate limit), machine selection, broadcast and attachments of the
  router, the classifier of the coordinator, the debounce timers of the device
  notifier, content audit and rules, platform plugins (`feishu`, `qqbot`,
  webhook).
* **Hub, other**: identity, enrolment and invitations (`auth`, `invitation`,
  `entry`), registration at the center (`center`), chat (`chat`), security,
  mail, voiceprints, the HTTP handlers and the SQL repositories.
* **HubCenter**: hubs and entries, administration, news and gossip, and of the
  market submissions, trials, ratings, rankings and search.
* **Desktop and libraries**: remote session manager, agent loop, background
  loops, tools, scheduler, swarm, memory, browser automation, models and search,
  protocol clients.
* OpenClaw bridge, mobile shells, `cmd/maclaw-tool`, vendored projects.

## 2 How the parts interact

    IM platform -> adapter -> task queue -> coordinator (spaces, discussions -> LLM semaphore)
                                   |               |
                                   v               v
                          router: pending request --Send--> connection writer ===> desktop
                                   ^                                          WebSocket |
                                   +---- response, progress <- read loop <====== Hub client
                                                                  |               previews
              device registry, gateway claims <--- hello, claims -+                  |
              session service <--- created/summary/delta/closed --+          sessions, SSH pool
                     |
                     +--> write batcher -> SQLite <--- registry, all repositories

    desktop or web page ---HTTP---> HubCenter: market -> write batcher -> SQLite

* A worker of the **task queue** executes one message at a time, with a context
  of the router's timeout plus 30 seconds. In the router this is one **pending
  request**; its end is what lets the user's next message run. `MessageRouter`
  takes that context as its `Deadline`, and `EveryRequestReturns` is what
  justifies the fairness of `Finish` in `IMTaskQueue`.
* Commands and offline notices are not queued: they run at once and beside the
  message in work. So the goroutines of one user meet in his **space** and in the
  table of **discussions**. The conductor of a discussion, and each goroutine that
  asks a device for it, is a caller of the **LLM semaphore**; `Discussions`
  extends `LLMSemaphore` with both as its callers, and `ConductorsUseSemaphore`
  proves that they keep to its protocol.
* Every message to a desktop goes through `Send` of its **connection writer**.
  A full buffer closes the socket; the read loop then fails and runs the
  clean-up of the **registry**, of the gateways and of the **sessions** of that
  machine. `ConnWriter` ends with the clean-up, `DeviceGateway` and
  `SessionService` begin with a connection that is lost at any time.
* The other end of that socket is the **Hub client**. It reconnects, and then
  announces its sessions and resends their **previews**: what the session service
  receives as `session.created` and preview deltas over another connection.
  `HubPreview` takes connections that come and go at any time, more than
  `HubClient` allows.
* Repositories write through the **write batcher**, in the Hub and in the
  HubCenter. The other modules take a write as one step that succeeds or fails
  as a whole, which `AnswersAreTrue` of `WriteBatcher` justifies.

## 3 Modules and code

Each module has one action per critical section, channel operation or database
statement of the code; between two of them every other goroutine may run. A
handler that consists of several is a program counter per goroutine. Operators
that begin with "Mutant of" are variants of the action behind them, used only
to see that a property notices the mistake.

**`SerialMailbox`** is what the dispatcher promises: per user a bounded FIFO
mailbox and at most one message in work.

**`IMTaskQueue`** (`task_queue.go`). `queues` is `d.queues`; a queue object has
an identity, because goroutines keep pointers to objects that have left the
map. `Locate` is Enqueue under `d.mu`, `Accept`/`Refuse` is `q.enqueue` under
`q.mu`, the two replies read `running` later. A worker is at `dequeue`,
`execute`, `select` or `exit`; `Respawn`/`Unregister` is the deferred drain
check. Executing a message is one step (the router is the part of it that can
hang). `Shutdown` only closes the stop channels. `status` is a history variable.
The mapping to the mailbox (`MailWaiting`, `MailCurrent`) takes the tasks of the
*registered* queue: a task appended to an object that has left the map is not
promised anything (see section 7).

**`LLMSemaphore`** (`llm_semaphore.go`). Channels have identities since Resize
makes a new one. `AcquireRead` reads the field under the lock, `AcquireSend` /
`AcquireGiveUp` are the select, and Release is again a read and a receive. With
`HotResize = FALSE` Resize runs only when no call is under way.

**`Discussions`** (`discussion.go`, `discussion_conductor.go` and the parts of
`core.go`, `coordinator.go`, `space_state.go`, `device_notifier.go` that change
the same state), extending `LLMSemaphore`. One user. A goroutine `h` that
handles a message or a notice goes through the steps `at[h]`: a look-up of the
table, a change of the space and the start of a discussion are separate
critical sections. `StopLooks`, `StopActs` and `StopDeletes` are
`StopDiscussion`, `EnterMeeting` and `StartDiscussion` what `/discuss` and the
classifier do, `MeetingMessage` and `ResetSpace` the coordinator's repair of a
meeting whose discussion is over. A loop without a conductor is at its `head`
while it asks the devices and waits; one with a conductor goes from there to
`decide` and `sum`, where it asks the LLM (the semaphore's steps `pc[d]`), to
`wait`, until every device it asked has replied, and to `over`. A device is asked
by a goroutine of its own (`Askers`), which takes a slot for it and hands over the
reply before its deferred Release runs. `stop` stands for the closed channel and
for the end of the 20 minutes (`TimeOut`); `left` is how many rounds may still
begin, which `SetRounds` (/rounds) changes at any time for a loop without a
conductor. The LLM, the breaker and the devices may answer anything. A discussion
that is over is used again for a later one; what is still looked at of it is
`running`, by a stop that has read its entry. Panics are left out.

**`MessageRouter`** (`router.go`). `pending` is the table; a handler that has
found a request is in `responding`, `progressing` or `cancelling` until it has
written to the channel, and the request may be gone by then. Time is counted in
ticks: `idle` since `lastActivity`, `waited` since the timer was reset,
`elapsed` since the context was made. `Lag` bounds how long work that is ready
may wait for its goroutine, and `late` remembers whether any ever had to. The
text of messages, which machine is chosen and the formatting of replies are
left out.

**`ConnWriter`** (`handlers_machine.go`, `ConnContext`). Messages are numbered
as Send accepts them. `writeLoop` collects in `select` and `drain`, flushes at
the sizes of the code (4 and 32) given as constants, or when its timer is due.
A write may fail whether or not the connection is down, since handlers write to it
beside writeLoop and a message may not encode; the error ends writeLoop and
closes nothing. `closeWriter` is a test and a close. The read loop matters in so
far as it writes, ends (on a failed read, or on a handler's error with the
connection up), closes, cleans up and at last hangs up (`HangUp`). A panic ends
the goroutine it happens in.

**`WriteBatcher`** (`batcher.go`, the same file in Hub and HubCenter). A call
stands for its write. `Flush` is one transaction, which commits with the writes
of all callers whose context is alive or fails with none; that SQLite does all
or nothing is assumed. `Live` is the loop of `flush` over the batch, as a function
of the number of rounds, so that proofs can go by induction over them.

**`DeviceGateway`** (`runtime.go`, `remote_gateway_plugin.go`,
`handlers_machine.go`). One `pc` per connection: `auth`, `bind`, `ready`, and
`unbind`, `offline`, `release` of `cleanupConnection`. A lost client is
`ReadError`, possible whenever the connection reads. The last accesses of a
handler to its own `gwClaimSeqs` belong to the step before, since no other
goroutine reads them. `admin` is the administrator's request in progress
(force-delete, delete, clear-offline). Left out: nicknames, heartbeats (they
change metadata only), viewers, bindings of platform users, message contents.
Database statements succeed and the Hub does not restart.

**`SessionService`** (`service.go`, `sharded_cache.go`). One session, messages
over several connections of its machine. Every delta brings one line, numbered
as the cache receives it; a line travels from its handler through the debounce
buffer and the hands of a flush to the listeners. `timer` is the entry of
`deltaDebounceTimers`; `loose` counts armed timers that a late flush has removed
from the map, `callbacks` those that fired and wait for the lock. A database
write may fail in every place where the code looks at its error. The clean-up of a
machine goes through all its sessions and returns at the first write that fails:
`OfflineAborts` is such a failure for a session that comes before this one, after
which this connection (`cut`) does nothing more for it. The reaper
runs only while no handler is in the middle of a message (it waits five
minutes), but it may run in the middle of a clean-up. The text of the preview
is left out; images and the reading side change nothing.

**`SkillMarket`** (`credits_service.go`, `refund_service.go`, `user_service.go`,
`DownloadSkillMarket`). The variables are the columns of `sm_users`, the sum of a
user's `sm_credits_transactions` (`ledger`) and the status of the purchase
records. The write pool has one connection, so a transaction or statement is one
step: `EnsureAccountReads`, `CreateUser`, `UseVoucher`, `Quote`, `Debit`,
`Credit`, `RecordPlatformFee`, `CreatePurchase`, `Serve`. The handler ignores the
errors of its reads: the price may be read as 0, an API key as not required, an
uploader as absent and an upgrade as a first purchase, each time anew. A write may
fail too (`WriteFails`: the handler logs and goes on), and a request may end for good
after each of them (`Abandon`: the process dies, or the client leaves, which
cancels the context of all later statements). A refund is a read (`ReadPurchase`)
and a transaction (`ApplyRefund`). `topped`, `withdrawn` and `paid` are history.

**`SSHSessions`** (`ssh_pool.go`, `ssh_manager.go`, `ssh_session.go`,
`SFTPTransfer`). One host: entries of different hosts share only the lock.
Connections are numbered as they are dialled. A caller goes through `acquire`,
`probe`, `share` or `evict`, `dial`, `insert`; the probe and the dial are outside
the lock. `Reconnect` drops the entry and dials; `KeepaliveGivesUp` is the third
failed keepalive in a row. A shell's `runExitLoop` marks the session, closes
`s.Handle` (by then perhaps another shell) and releases the host. `strays` counts
releases that hit an entry whose connection the releasing holder does not use.

**`HubClient`** (`remote_hub_client.go`). `conn` is `c.conn`; `step` has one
program counter per goroutine: the read loop and the heartbeat loop of each
connect, the reconnect loop (not `off` is `c.reconnecting`) and calls from the
user interface. `c.mu` is held while dialling and authenticating, so Connect is
one step up to the start of its goroutines. `Drop` is `handleConnectionLoss`, or
`Disconnect` in a caller: whatever connection is there.

**`HubPreview`** (`remote_hub_client.go`). One session; a line is printed into
the preview, queued, taken by a flusher or by the flush of a resynchronisation,
and written. `Announce` empties the Hub's view, as `session.created` does.
Connections only come and go. Sets of lines suffice, since lines that are shown
twice do no harm (see section 7); the cut of a preview at 500 lines is left out.

## 4 Runs, bounds and fairness

| run | config | states | question | result |
|---|---|---|---|---|
| taskqueue | `IMTaskQueue.cfg` | 352 k | is the dispatcher a serial mailbox that drains and winds down? | holds |
| discussion | `Discussions.cfg` | 247 k | do discussions, meetings and their LLM calls end, are slots conserved, and is an entry that says Running that of a live loop? | holds |
| router | `MessageRouter.cfg` | 17 k | is a request kept while it waits, ended only by silence, cancellation or an answer, and does it end also when the Hub stalls? | holds |
| connwriter | `ConnWriter.cfg` | 63 k | does everything sent arrive in order, and does a full buffer end in a clean-up? | holds |
| batcher | `WriteBatcher.cfg` | 40 k | is every answer true, is each write executed once and in order, and does each call return? | holds |
| gateway | `DeviceGateway.cfg` | 586 k | does a registration, a row or a claim outlive its connection? | holds |
| session | `SessionService.cfg` | 362 k | is output shown exactly once, and does the last clean-up settle entry and row? | holds |
| market | `SkillMarket.cfg` | 1078 k | do the books balance when downloads, refunds and withdrawals interleave, fail and are cut off? | holds |
| market_refund | `SkillMarket_refund.cfg` | | is a purchase refunded once? | violated |
| ssh | `SSHSessions.cfg` | 885 k | are connections counted and closed, whatever is dialled, probed, lost and reconnected meanwhile? | holds |
| hubclient | `HubClient.cfg` | 918 k | is the connection in use watched and a broken one given up? | holds |
| hubpreview | `HubPreview.cfg` | 1130 k | does every line of a session come to be shown across reconnects? | holds |

**Bounds.**

* *taskqueue*: one user (no step relates two users' queues other than by the
  map), two concurrent Enqueues, capacity 2 and three tasks, so that a queue
  fills, drains and is replaced; two worker and three queue identities, of which
  a behaviour can use all.
* *discussion*: one goroutine for messages, one for notices, two discussions at a
  time (a stop that races an end leaves one running beside its successor), two
  rounds, and one LLM slot, for which a conductor competes with the goroutine that
  asks a device for it. `Conductable` bounds the discussions that may have a
  conductor to one of the two, which meets the other one only in the table; a
  conductor whose last discussion's asker still holds the slot does occur. There
  is no bound on the number of discussions: an identity that is over is used
  again. The proofs are for any number of conductors and askers.
* *router*: one request with timeout 2, slack 1, context 5 and lag 2: with a
  lag the clean-up can overtake the timer, without one all orders of timer,
  context and clean-up occur. Requests share only the table; the proofs are for
  any number of them.
* *connwriter*: channel 2, flush sizes 2 and 3, six messages (more than channel
  and batch hold together), two senders that can both find it full.
* *batcher*: three callers, queue 2, batches of 2: a full batch, one by the
  timer and one by Close all occur.
* *gateway*: two connections (the old and the new one) that may be of the same
  machine or of two, two platforms so that a connection can have claimed one and
  not the other, two claims on the first. The clean-up is walked per platform.
* *session*: two connections, two lines, two `session.created`, one
  `session.closed`; two lines are enough to be merged, overtaken or split
  between a flush and the close. The statuses are the two the code tells apart.
* *market*: two users, one of whom sells, three skills (settled at once, pending,
  without an uploader) with prices that one top-up covers or not, two downloads,
  one administrator who refunds one purchase after the other, one voucher, and
  8 credits paid in. *market_refund*: one download, two administrators.
* *ssh*: two callers, two sessions, two connections and two shells: the pooled
  connection is replaced once, with holders of both left.
* *hubclient*: three connections, so that a loop of the first can meet the third,
  and two calls of the user. *hubpreview*: two connects, two losses, two lines.

`CHECK_DEADLOCK FALSE` is used where everybody may be done: all messages of the
bound sent, all connections gone, no more calls.

**Fairness.** Weak fairness of the steps a goroutine takes without waiting for
somebody outside: the worker loop (its executor has a context, its select an
idle timer), callers that have entered the batcher or the semaphore (LLM calls
have a timeout), flushes and timers, handlers that are in the middle of a
message, loops of discussions and the goroutines that ask devices for them
(requests to machines have a timeout, a discussion has one too), keepalives, the read loops and reconnect loops of the Hub client
(a broken connection fails the read at its deadline, a dial returns). Nothing is
assumed of users, clients, agents, administrators and networks. In the router a
waiter whose response is ready, or whose context has ended, is scheduled although
its select may pick other ready cases first, since Go picks among ready cases at
random; and time passes (strong fairness of `Tick`, which is disabled only while
somebody has to be scheduled first). In `ConnWriter` a client that is connected
takes what is written to it, since one that answers no pings is disconnected by
the read deadline. The market has no fairness: every one of its steps may be the
last.

**What the properties say.** `OneWorkerPerUser`, `WorkIsSignalled`,
`ImplementsMailbox`, `MailboxDrains`, `WorkersWindDown` (task queue);
`SlotsMatchHolders`, `RunningEntryHasLoop`, `EveryDiscussionEnds`, `MeetingIsLeft`
(semaphore and discussions); `WaitersStayRegistered`, `TimeoutOnlyWhenSilent`,
`CancelledIsUnblocked`, `EveryRequestReturns` (router); `NothingLost`,
`Delivered`, `SlowClientDropped` (writer); `BatchTypeOK`, `AnswersAreTrue`,
`ExactlyOnce`, `Fifo`, `WritesReturn` (batcher); `RegistryIsLive`,
`OnlineHasConnection`, `ClaimHasConnection` (gateway); `LinesAccounted`,
`EveryLineShown`, `ExitIsFinal`, `OnlineHostHasConnection`, `RowSettles`
(session); `LedgerExplainsBalance`, `DebtMeansEmpty`, `VouchersSpentOnce`,
`NoMoneyFromNothing` (market); `RefsExact`, `NoConnectionLeaks`, `LostIsClosed`
(SSH); `ConnectionIsWatched`, `BrokenIsDropped` (Hub client); `NoLineForgotten`,
`AllLinesArrive` (previews). Each is stated in words above its definition, and
for each the project names a plausible mistake in the code that violates it.

Three of them excuse something the code does, and say so. `Delivered`: what Send
accepts after a write error that left the connection up (`WriteBroke`); nobody
writes it, and only the full buffer ends such a connection, which
`SlowClientDropped` is about. `OnlineHostHasConnection` and `RowSettles`: a session
to which no clean-up came, because a write failed for one before it.
`RunningEntryHasLoop` speaks of entries that say Running: what the table should
hold of a discussion that is over, code and comments disagree about (section 7).

## 5 Proofs

All proofs are for arbitrary constants under the named assumptions of the
modules (sets of identities, positive capacities, distinct null values; users and
requests of the market are finite sets, being rows of tables).

| module | about | theorems |
|---|---|---|
| `IMTaskQueue_proofs` | task queue | TypeCorrect, Serial (`OneWorkerPerUser`), NoLostWakeup (`WorkIsSignalled`), Refinement (`ImplementsMailbox`) |
| `Discussions_proofs` | semaphore | InflightCounts (`InflightExact`); for `HotResize = FALSE`: SlotConservation (`SlotsMatchHolders`), Limit (`CallsWithinCapacity`), ReleaseReturns (`ReleaseNeverBlocks`) |
| | discussions | ConductorsUseSemaphore (`DiscSpec => Spec`), RunningEntryIsAlive (`RunningEntryHasLoop`), EndedDiscussionsAwaitNothing; for `HotResize = FALSE`: DiscussionsConserveSlots (`SlotsMatchHolders`), DiscussionsWithinCapacity |
| `MessageRouter_proofs` | router | TypeCorrect, CancelReleases (`CancelledIsUnblocked`), NeverReapedEarly (`WaitersStayRegistered`), TimerMeansSilence (`TimeoutOnlyWhenSilent`) |
| `Writers_proofs` | connection writer | TypeCorrect, NoMessageLost (`NothingLost`), WirePrefix (`WireIsPrefix`) |
| | write batcher | BatchTypes (`BatchTypeOK`), AnswersHold (`AnswersAreTrue`), WrittenOnce (`ExactlyOnce`), WrittenInOrder (`Fifo`) |
| `Connections_proofs` | registry, gateways | TypeCorrect, RegistryLive (`RegistryIsLive`), KeepsNewer (`StaleCleanupKeepsNewer`), OnlineWitnessed (`OnlineHasConnection`), ClaimOwned (`ClaimHasConnection`) |
| | Hub client | AlwaysWatched (`ConnectionIsWatched`), ClosedIsNotUsed |
| `SessionService_proofs` | session service | TypeCorrect, LinesKept (`LinesAccounted`), HostWitnessed (`OnlineHostHasConnection`), RowSettled (`RowSettles`), ExitStays (`ExitIsFinal`) |
| `SkillMarket_proofs` | market | TypeCorrect, PricePaidAsRead (`ServedIsPaid`), BooksBalance (`LedgerExplainsBalance`), DebtsComeFirst (`DebtMeansEmpty`), VouchersCount (`VouchersSpentOnce`), MoneyConserved (`Spec /\ RefundedOnce => []NoMoneyFromNothing`), OneAdminRefundsOnce |
| `Desktop_proofs` | SSH pool | TypeCorrect, NoneLeak (`NoConnectionLeaks`), CountIsExact (`RefsExact`) |
| | previews | EveryLineKnown (`NoLineForgotten`), NoHandOverwritten |

`InflightExact`, `CallsWithinCapacity`, `ReleaseNeverBlocks`, `WireIsPrefix`,
`StaleCleanupKeepsNewer`, `ServedIsPaid`, the type invariants, and the theorems
without a name in parentheses are proved and not checked by a run. The theorems
about the semaphore are about its own specification, with any callers and with
Resize. `ConductorsUseSemaphore` is the step from there to the composed system:
whatever handlers, loops of discussions and the goroutines that ask devices do, the
semaphore sees a behaviour of its own specification, so what holds of the one holds of the other. The condition
`HotResize = FALSE` stays, as the observation about Resize in section 7 says why.

`MoneyConserved` has the property as its hypothesis that the run *market_refund*
finds violated (section 6): with any number of administrators a purchase refunded
twice is the only way in which money can be made. `OneAdminRefundsOnce`
discharges it for one administrator, which is the instance of the run *market*.

The inductive arguments:

* *Task queue.* `Registered`: a live worker's queue is the registered queue of
  its user, no two workers share one, and a registered queue has a worker. Only
  `Locate` creates an entry, together with its worker; only `Unregister` deletes
  one, together with its worker's end; `Respawn` hands the queue over. Serial
  execution follows. `Signalled` adds that a worker parked before a queue with
  tasks has a signal waiting. The refinement also needs `Created`: a queue not
  yet created is empty.
* *Semaphore.* While Resize keeps out of calls every call uses the current
  channel, so its fill is the number of holders (`Conserved`); limit and Release
  follow by counting. Without that condition `InflightCounts` still holds.
* *Router.* As long as no tick has found work undone (`~late`), no tick passes
  over an update in hand. Hence, without one, timer and `lastActivity` agree
  (`ClocksAgree`), the timer fires before the entry expires, and a timer that
  fires means silence. Cancellation needs no clock: the one-place buffer is never
  emptied but by the waiter's return.
* *Writer.* Socket, batch and channel, put one after the other, are the accepted
  messages; each step moves the head of one to the end of the one before. The
  type invariant needs to know how large a batch can be where (`BatchSizes`, from
  `FlushSmall < FlushBig`).
* *Gateway.* Each property has a witness: the registered connection, the
  connection that will set the row offline, the connection that knows the
  current sequence number. A witness stops being one only by the very step that
  corrects registry, row or owner; sequence numbers that only grow keep two
  claims apart.
* *Session.* `Accounted` is `LinesAccounted` place by place: the places hold
  disjoint sets of lines, each line once, and together every line. A step moves
  all lines of one place to another (`CarriesOnce`, about concatenations). For
  the clean-up, a handler that may still write the row or the host state belongs
  to a connection whose own clean-up is to come. Lines of a handler are empty
  but in `delta`, `buffer` and `final` (`Fits`), which makes all other steps
  quiet.
* *Market.* `LedgerExplainsBalance` and `DebtMeansEmpty` are inductive with the
  types and with the fee being at most the price: each transaction changes the
  columns and the sum by the same amount, and an earning settles a debt before it
  settles anything else. For the vouchers, a request that has paid with one is
  counted once (`Cardinality` of a set that grows by one element), and an account
  without a row has no such request. `ServedIsPaid` relates what a request has
  taken to `due`, the price as that request has read it; it does not say that a
  priced skill is paid for, which the code does not ensure (section 7).
* *SSH.* `RefsExact` counts two disjoint finite sets of holders; a step moves one
  holder from the callers to the shells or takes it away, and a release of a
  connection that is not the pooled one is a stray. `NoConnectionLeaks` needs that
  a client is new until it is dialled, and that a caller at `insert` alone holds
  what it has dialled.
* *Discussions* (`DiscInv`). An entry names a loop that is started in the same
  step, and a loop ends in a step that empties the table, whoever's entry is
  there, so that every entry is that of a live loop (`EntryHasLoop`); a loop that
  asks the LLM ends its call before it ends itself (`CallersDecide`), and it waits
  for every goroutine that owes it a reply (`RepliesAwaited`). It does not wait for
  their Release: a discussion may be over while a slot is still held for it, by a
  goroutine that has replied. A stop that holds an entry (`StopHasEntry`) keeps
  that discussion from being used again. The late deletion of a stop can take away
  the entry of a live loop (section 7), never leave that of a dead one.
* *Write batcher* (`BatchInv`). Queue, batch and database hold each write once and
  together at most once (`Distinct`, disjoint sets), and `WriteOK` ties the place
  of a write to what its caller knows. A flush commits part of its batch in the
  batch's order and answers all of it (`Commits`). That this part is the jobs
  whose context is alive is shown by induction over the rounds of the loop of
  `flush`, over sets of natural numbers (`NatSetInduction`, from the
  well-foundedness of `<`), since the library's induction theorems take an
  operator. `Fifo` follows: what precedes a write of the first of two sequences
  put together is in the first one too.
* *Hub client* (`ClientInv`). The connection in use is watched, or some goroutine
  is at `drop`, is inductive as it stands with the types: a read loop or heartbeat
  of the current connection leaves its place for `drop` only, one of another
  connection is not needed, and a Connect starts both. That a closed connection
  is not used again is a fact of its own (`UsedIsNotClosed`).
* *Previews* (`PreviewInv`). Lines are taken only by hands that are empty, since a
  goroutine holds lines at `send` and `lastsend` only (`HandsSend`), and leave them
  for the Hub while the connection is good. Lines that are lost while it is not
  matter no longer: the next connection starts with a sync that queues all of
  them, and until then `NoLineForgotten` has nothing to say. An announcement empties
  the Hub's view, but its goroutine then is about to resend. Goroutines of connects
  that have not happened have done nothing (`NotYetStarted`), so each Connect
  starts a sync of its own.
* *Money* (`MoneyInv`). The sum of all balances is the sum of the ledger, which
  changes by one summand per transaction (two in a refund). What a request holds
  back (`Held`) is the price until the uploader is credited, then the fee, and
  nothing once it is refunded; ledger, `Held` and withdrawals together never
  exceed what was paid in. `TotalChange` (one summand changes the sum by as much)
  and the existence of the running sum of `MapThenSumSet` are proved by induction
  on the cardinality of finite sets, again from `NatSetInduction`.

**Only model-checked.** The liveness properties (`MailboxDrains`,
`WorkersWindDown`, `EveryDiscussionEnds`, `MeetingIsLeft`, `EveryRequestReturns`,
`Delivered`, `SlowClientDropped`, `WritesReturn`, `EveryLineShown`,
`LostIsClosed`, `BrokenIsDropped`, `AllLinesArrive`): the prover has no rules for
fairness and ENABLED. All other properties of the passing runs are theorems.

## 6 What the code does against its tests

* **A purchase refunded twice** (`RefundedOnce`, run market_refund).
  `ProcessRefund` reads the status of the purchase (refund_service.go:37) before
  it begins the transaction that refunds it (42-130), and nothing in the
  transaction looks at the status again. Two refunds that overlap, an
  administrator's second click for instance, both find it active and both pay
  the buyer and charge the uploader. `refund_service_test.go:100-104` expects
  `ErrAlreadyRefunded` from the second one. The run *market* has one
  administrator, since the sums it checks do not hold across double refunds.

## 7 Further observations

Met while modelling; no run checks them, either because nothing in the
repository says otherwise or because they lie outside the modelled data, or
because the model shows them as they are, without a run of their own.

*Hub: queue, semaphore, router, writer*

* An accepted task can be left without a worker: Enqueue releases `d.mu`
  (task_queue.go:169) before it appends; a worker whose idle timer fires in the
  gap finds the queue empty and removes it from the map. The comment at 216-218
  says that tasks are not lost.
* Release receives from the channel that is current now (llm_semaphore.go:70-72).
  After a Resize that one is empty and the goroutine blocks, where the comment at
  88-90 lets calls in flight "drain naturally"; calls on the old channel come on
  top of the new capacity. At present nothing calls Resize: its only caller,
  ResizeSourceSemaphores (router.go:220-224), has none.
* If the machine's reply is already in the channel, the deferred response of
  CancelPendingForUser is dropped (router.go:931) and the user gets the reply
  after the confirmation of the cancellation, against the comment at 927-929.
* The test and the close of closeWriter (handlers_machine.go:84) are not one
  step; two goroutines that both find the buffer full can close twice and panic,
  against "Safe to call multiple times" (79).
* The answer "processing" may go to a task that is behind another one: `running`
  is read after the append (task_queue.go:181, 191).
* The router comment at 53-54 and the executor's context of 210 seconds
  (task_queue.go:268) differ on how long a chatty agent may take; the context is
  the one that ends the wait.
* Some handlers write to the socket themselves (handlers_machine.go:1397-1405)
  while writeLoop writes to it, against the comment at 33-34.
* A write error ends writeLoop as "connection broken" (handlers_machine.go:101-102),
  but the connection need not be broken, nor is it closed: the reader goes on and
  Send accepts up to a full buffer of messages nobody writes, which for a quiet
  connection may last as long as the connection.

*Hub: discussions and spaces*

* What is left of a discussion that is over: its entry is deleted
  (discussion.go:150-151, discussion_conductor.go:137-140), while several places
  presume that it stays. IsInDiscussion is documented as true for an "active (or
  completed but not cleared)" discussion (367-369), the summary is stored "for
  follow-up" in the entry that is about to go (256-259) and announced with
  "直接发消息可追加话题继续讨论" (send a message to go on with another topic, 262), the
  next discussion looks for it there (87-91), and StopDiscussion has a branch for
  an entry that is not running (333). So a message after the summary starts no
  discussion that knows of the last one: it is a message like any other, or, in a
  meeting, the one that leaves it. The model follows the code; which of the two is
  meant the repository does not settle.
* A remark of the user during a discussion goes into the channel of the table's
  entry (discussion.go:346-365), while a conductor reads the one of its own
  state: an accepted remark is never seen. Without a conductor, a remark made in
  the last round is not used.
* A stop that has read an entry deletes whatever entry is there later
  (discussion.go:331-336), and so does the end of a loop (151). If the user has
  started another discussion in between, that one runs on without an entry, no
  stop reaches it, and a third can run beside it.
* The entry of a conducted discussion says Running until it is removed; a loop
  that is over never sets it to false there. The space stays a meeting after a
  discussion until the next message, also when `/discuss` found fewer than two
  devices. A follow-up that races the end starts a discussion without a meeting.
* SetDiscussionRounds writes without the lock its readers take.
* Notices of one device are not ordered: a fired one deletes the map entry of a
  newer timer, which can then no longer be stopped (device_notifier.go:119), and
  the loss of an old connection is notified although the machine is back.
* The classifier holds a slot of the semaphore while it calls the LLM, and
  askDevices holds slots while it waits for machines, and a moment longer than the
  discussion waits for it: the reply is sent before the deferred Release
  (discussion_conductor.go:268, 286). Timeouts of waiters count
  as failures and open the breaker. After its cooldown the breaker admits every
  call until one reports, not one probe (circuit_breaker.go:8-12, 43).

*Hub: registry and sessions*

* The clean-up of a connection that never claimed a gateway releases the claim
  of the machine's newer connection (handlers_machine.go:1331-1334), against the
  comments at handlers_machine.go:27-31 and remote_gateway_plugin.go:224-225; an
  unclaim of an old connection does the same.
* The late clean-up of an old connection sets the row of a connected machine
  offline, and clear-offline then deletes it (runtime.go:140, 682); a bind after
  the sweep of a force-delete stays registered without a row (692-724);
  DeleteMachine tests and deletes in two steps (614).
* Rows that are online when the Hub dies stay online until the machine connects
  and disconnects again. Gateway messages are handled by a goroutine each, so two
  messages of one chat can change places (handlers_machine.go:1300).
* Final output can be shown after session.closed when a flush holds the buffer
  at that moment (comment at service.go:406-407). A line whose preview write
  fails is not streamed (306, comment at 292-294). MarkMachineOffline brings
  back a reaped entry as "unreachable", which no reaper takes. The first failing
  row write ends the marking of the machine's sessions (472-477), and the clean-up
  ignores the error (handlers_machine.go:1323): those that come after it say online,
  with no connection, until a later connection of the machine touches them. A
  resynchronised session.created replaces the cached entry and then fails on the
  existing row, so that no event is emitted.

*HubCenter: market*

* A price that cannot be read is a price of 0 (skillmarket_handlers.go:468-472):
  the skill is served free. In the same way a failed look-up of the skill makes a
  download take a voucher for a skill that excludes vouchers, settle an earning
  that should be pending (482-488), or, for the uploader (474-480), charge the buyer
  and pay nobody; and a failed look-up of the last purchase (406) costs the
  discount.
* Refunds of purchases whose API key is still owed take the earning from the
  pending as well as from the settled credits (refund_service.go:116-126), but no
  record is ever given such a key status: createPurchaseRecord
  (skillmarket_handlers.go:512-527) sets none and UpdatePurchaseKeyStatus
  (store_purchase.go:43) has no caller.
* When Credit fails, or the request is cut off between Debit and Credit, the
  uploader gets nothing; a refund of that purchase charges him all the same.
  A cut-off between Debit and the record leaves a payment nothing can refund.
* An upgrade of a skill whose price rounds to nothing costs 0, which Debit
  refuses for ever. Nothing settles `pending_settlement`.
* The comment at refund_service.go:23 says that the platform's fee is taken
  back; the code refunds the buyer in full and leaves the fee booked.

*Desktop and SSH*

* The Hub client can be left without a connection: a heartbeat notices the loss
  and the loop reconnects; before the loop has left, the late loss handler of the
  old read loop closes the fresh connection, and its trigger is swallowed because
  the flag `reconnecting` is still set (remote_hub_client.go:1398, 1414). The
  dropped connection is why `BrokenIsDropped` does not claim that another one
  follows. A Disconnect that races the reconnect loop is followed by a reconnect;
  a Connect over an existing connection does not close it; a first Connect that
  fails is not retried; each reconnect leaves a heartbeat loop behind as long as
  the connection lasts.
* Lines that were queued before a resynchronisation are sent once with the
  preview and once by themselves. The summary's dedupe key is stored before the
  send, so that a summary that failed is not sent again.
* `Release` names the host, not the connection (ssh_pool.go:98): a holder of a
  replaced connection takes a reference of the new one, which can be closed under
  its users. After a reconnect the exit loop of the old shell marks the session
  exited and closes the new shell (ssh_manager.go:433-457).

## 8 What is not modelled

Reasons, per component, are in `PROJECT.json`. In short: content (texts, cards,
audio, prompts, LLM answers) tells no modelled property apart; HTTP handlers and
repositories that consist of one statement have no interleaving of their own;
numerical code, user interface, operating system calls and external protocols are
out of TLC's reach. Much of the implementation is of these kinds, which is why
the modules stand for a small share of its lines. Within the modelled parts: a
restart of the Hub, failures of the registry's statements, several sessions of
one machine (but for the clean-up that ends before it comes to the modelled one),
panics in the loop of a discussion, the branch of a refund for purchases whose key
is owed and SettlePending (refund_service.go:116-126, credits_service.go:202-226: no
record takes the one, nothing calls the other), the fan-out of the router, the bytes on the socket, the timers that
debounce device notices, the circuit breaker's own state, the number of API keys
a skill has left, and commands on SSH sessions.

## 9 Plan

1. A `CircuitBreaker` beside `Discussions`, refining one that admits a single
   probe: timeouts of the semaphore count as failures and answers arrive after
   the caller has left.
2. The device notifier's timers composed with the registry's online and offline
   events.
3. `HubClient` joined to `DeviceGateway` and `SessionService`, whose connections
   are so far arbitrary.
4. The router's fan-out and attachment stash; submissions of the market;
   background loops of the desktop.
5. Further proofs: an abstract store that executes writes atomically and in order
   with the batcher as its implementation, and the connections of `HubPreview` as
   an abstraction of `HubClient`.
