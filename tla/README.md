# SorarinBot, modelled and checked

SorarinBot is a WeChat chat bot: a Go program that logs in to WeChat with a
vendored copy of the openwechat library, hands each text message to a language
model over HTTP, and serves a dashboard on a local port. A React front end, an
Electron shell and a Tauri installer ship with it. This directory models the
concurrent core of the Go program, the stateful part of the front end, the shell
and the installer in TLA+, checks them with TLC, and proves the modules whose
promises others stand on with TLAPS.

Paths below are relative to `src/`.

- [1. The system](#1-the-system)
- [2. Modules](#2-modules)
- [3. What the runs check](#3-what-the-runs-check)
- [4. What is proved](#4-what-is-proved)
- [5. Where code and documentation part](#5-where-code-and-documentation-part)
- [6. What is not modelled](#6-what-is-not-modelled)
- [7. What could follow](#7-what-could-follow)

## 1. The system

```
 WeChat --sync loop--> openwechat.Bot --goroutine per message--> Adapter.onText
                          ^                                          | guard, dedup, deliverwg
   loginLoop (Login) -----'                                          v
   retry, PUT /api/config                                Session.RunSerial (one worker per conversation)
      ^         |                                                    |
      |         v                                                    v
      |   config.Apply / Save, SetProvider ------------->  Handler.Handle: history, image, slot,
      |                                                    Provider.Chat, history, database, reply
      |  main on a signal: cancel, Bot.Exit, StopLoginLoop, StopAccepting, WaitInflight, Bot.Block
      |
 React pages: gate and session, welcome and dashboard, chat, settings, prompt, logs (polling, saving)
      ^
 Electron shell: port, back end process, window            Tauri installer: wizard, download, NSIS, import
```

| Component | State | Operations | What is hard | What makes it correct |
|---|---|---|---|---|
| Session worker, `core/session/session.go` | queue handle, buffered channel, `schedmu`, `done`, once, WaitGroup share | `StartWorker`, `RunSerial`, `Stop`, the worker's loop | sends racing the close, panicking and hanging tasks, cancel with a backlog, two Stops | one task at a time in acceptance order; a verdict is the truth; nothing blocks for ever; no send on a closed channel |
| Delivery, `adapters/openwechat/adapter.go` | `accepting`, `workers`, `replied`, `deliverwg` | `guard`, `onText`, `runOnWorker`, `workerFor`, the replied cleaner, `StopAccepting`, `WaitInflight` | a handler anywhere between guard and submit when the door closes; duplicates handled at once; the session limit | the WaitGroup is exact, no worker escapes the shutdown, a drained program is quiet, a repeated message is answered once |
| Chat handler and memory, `core/message/handler.go`, `core/session/session.go` | `Sem`, session histories, the message table | `Handle`, `GetContext`, `SaveContext`, `InsertMessage` | waiting for a slot, every way a call can end, a cancel in any state | no slot is lost, memory holds the newest answered pairs of its own conversation, the user gets nothing that is not remembered |
| Image cache, `core/message/handler.go` | one `sync.Map` | `CacheImage`, `PopImage`, the cleaner | Load and Delete are two steps | no picture twice in a conversation, none lost but to age or to a race with an older one's removal |
| Login, `adapters/openwechat/adapter.go`, `internal/openwechat` | `a.login`, `a.loginReq`, `a.bot`, the token file | `loginLoop`, `tryHotLogin`, `tryScanLogin`, `RetryScan`, `StopLoginLoop`, a bot's login procedure, callbacks | the scan goroutine outlives the loop's patience; retries and signals at any time | one live bot; a published bot is ready; no unasked QR code; no accepted retry lost to a failure |
| Configuration, `core/config`, `main.go` | `config.Cfg`, provider, prompt, `config.yaml`, its temporary file | `Load`, `Snapshot`, `Apply`, `Save`, the PUT handler | overlapping PUTs, a kill between the steps of Save | a stored file stays whole through kills and, at rest, is current; a PUT changes only what it carries |
| Shutdown, `main.go` | where main is | cancel, Exit, StopLoginLoop, StopAccepting, WaitInflight, Block | everything above at once | it ends, and leaves nothing running |
| Database and log hook, `database/database.go` | one connection | `InsertMessage`, the queries, the hook | the hook needs the connection a query may hold | writers are not starved by readers that log |
| Session of the console, `auth.go`, `web/src/lib/useAuth.ts`, `http.ts`, `AuthGate.tsx`, `LoginPage.tsx` | cookie, failure counters; the auth snapshot, the route, requests in flight | status, login, logout, the 401 hook, the gate's redirects | answers about an older cookie, restarts, a password set or removed meanwhile, the throttle | one redirect is the last; a late answer neither opens a closed console nor closes an open one; who knows the password gets in |
| Chat page, `web/src/lib/useChatData.ts`, `chat.ts`, `ChatPage.tsx` | rows, total, sessions, mode, the effect's cycle | snapshot, poll, merge, refresh, load more | pages by an offset that moves under them, merges in any order, demo rows with real ids | made-up and real rows never mix; no hole in a thread; all of the history can be reached |
| Welcome page and dashboard, `useLoginStatus.ts`, `WelcomePage.tsx`, `useDashboard.ts`, `dashboard.ts`, `DashboardPage.tsx` | snapshot, poll timer, requests | polls, retry from either page | failures in part of a poll, retries that cross, a page left meanwhile | newest answer on the screen, nothing made up after the first one; the page catches up with a login at rest; a new QR code comes |
| Settings, prompt, logs, `SettingsPage.tsx`, `PromptPage.tsx`, `LogsPage.tsx` and their hooks | form, saved values, switch, list, requests | load, edit, save, probe, toggle, clear | edits while a save is in flight, lost answers, writes whose page was left | "saved" means that what stood there at the click is stored; no button stays busy; the list settles |
| Electron shell, `electron/main.js`, port choice in `main.go` | port, child process, window | port search, start, wait, stop | two shells at once, strangers on the ports, either process dying at any time | no back end without its shell; the window shows its own back end; a start ends |
| Installer, `installer/app/src/App.tsx`, `src-tauri` | wizard page and phase, attempts, cancel flag, payload, NSIS process, data files | download with mirrors, verify, run, poll, import with rollback, cancel | a cancelled attempt still alive beside the next, timeouts of a process that runs on, an import that fails half way | the finish page is earned; a cancel stays; the old data that was set aside survives |
| Web handlers, provider client, console and tray, tools | see [6](#6-what-is-not-modelled) | | | |

The components meet at few places. The dispatcher calls `onText` in a goroutine
per message; `onText` shares `deliverwg` with every worker, task and voice
goroutine; a worker calls `Handle`; `Handle` shares the slots, the history map
and the image map with other workers; the login publishes a bot that `main`
exits and blocks on; the context cancelled by `main` reaches the workers, the
slot wait, the provider call and the login loop. The pages share the cookie
and the auth snapshot and otherwise meet in the service only; the shell talks
to the back end through its port and its process.

## 2. Modules

| Module | Models | Grain of a step |
|---|---|---|
| `SerialExecutor` | what callers may rely on: a serial executor that accepts or rejects, starts tasks in order, and retires | one promise per action |
| `SessionWorker` | `StartWorker`, `RunSerial`, `Stop` and the worker | one memory operation that can interleave (lock, load, send, receive, close, Done) |
| `Delivery` | handlers, workers (used as `SerialExecutor`s), voice goroutines, shutdown | one critical section, channel or WaitGroup operation |
| `Chat` | `Handle` in the workers of several conversations | what runs between two points where others can be seen |
| `ImageCache` | `onImage`'s store, `PopImage`, the cleaner, of one sender | one `sync.Map` operation |
| `Login` | `loginLoop`, the logins of its bots, retries, main's side of the shutdown | one status update, channel operation, HTTP answer or callback |
| `ConfigStore` | Load, Apply, Save and PUT over kills, restarts, power failures | one critical section or file operation |
| `WebSession` | the gate, the login form, logout and the 401 hook against cookie, throttle and restarts | one of: request sent, served, its answer delivered; a click |
| `ChatPage` | the chat page against the history table | the same |
| `LivePages` | the welcome page and the dashboard against a login that moves | the same |
| `AdminPages` | settings, autostart, prompt and logs against the store they show | the same |
| `DesktopShell` | several shells, their back ends and other programs on the ports | one callback of the event loop; one system call of the back end |
| `Installer` | the wizard, its attempts and the Rust commands they await | what runs between two awaits; one command |
| `SessionWorkerProofs`, `DeliveryProofs`, `LoginProofs`, `DesktopShellProofs`, `InstallerProofs` | theorems about the modules they extend | |
| `ChatProofs`, `ConfigStoreProofs`, `DashboardProofs` | theorems about `Chat` and `ImageCache`; about `ConfigStore` and `AdminPages`; about `WebSession`, `LivePages` and `ChatPage` | |
| `MCSessionWorker`, `MCDelivery`, `MCChat`, `MCConfigStore`, `MCChatPage`, `MCInstaller` | the values TLC instantiates these with | |

Names follow the code: `RunSerialLoad(t)` is the load of the queue handle in
`RunSerial`, `GiveUp` the branch of `loginLoop` that gives up, and a program
counter's value names the statement about to run. The map in `PROJECT.json`
gives the lines of each definition. A definition whose comment begins with
"Variant" is a plausible bug of the definition it precedes: no specification
uses it, and putting it in place of the original must break a property. They
show that each property depends on the code it speaks of.

**SessionWorker.** Readers of `schedmu` are the senders between `RLock` and
`RUnlock`; a waiting writer keeps new readers out, as Go's RWMutex does. `Stop`
runs under a `sync.Once`: the first caller does the work, the others wait for
it. The timer may fire at any moment after the queue is closed. The
non-blocking send and the release of the read lock are one step, since nothing
can be seen between them. A `RunSerial` before `StartWorker` finds no queue and
is refused; `Stop` is called only after it, as the adapter does.

**SerialExecutor and Delivery.** `Delivery` does not repeat locks and channels:
each conversation's worker moves as `SerialExecutor` allows, checked as the
property `WorkersAreExecutors`, and `SessionWorker` implements
`SerialExecutor`; both are checked by TLC and proved. So what `Delivery` concludes rests
on the promise and the promise on the code. `Delivery` models `workmu` by doing
`StartWorker` and its registration in one step. Conversations without a message
in the instance may have had theirs before; their idle workers take their share
of the session limit.

**Chat.** A turn is `<<conversation, number>>`. History holds turns and not
texts. `Handle`'s outcomes are an answer, a notice (error, no slot), silence, or
a panic that `runTaskSafely` recovers. Slots are counted. A cancel can arrive in
any state; it ends waits and calls. The insert may fail, and the code goes on.

**Login.** A bot runs its login one answer at a time. The token login runs in
the loop; the scan runs in its own goroutine, so that when the three minutes
are over the loop exits the bot while the goroutine may hold an answer that has
already arrived, and its callbacks still write the status. `MaxHot` is
`maxHotLoginAttempts`; `MaxAsked` bounds the retries accepted.

**ConfigStore.** A request's values are the request itself, so each value in
memory or on disk says where it came from. The process may be killed at any
step. `disk` is the set of contents a power failure may leave behind: data and
rename reach it in any order, since nothing calls `fsync`. After a kill the file
system still holds what the process wrote. `past` is history: whether the file
was ever stored and whether the power has failed since, so that `FileIsWhole`
allows an empty or missing file after `PowerFails` and nowhere else.

**ImageCache.** One sender; entries of different senders do not meet. Time is a
bounded clock; `raced` remembers the images stored while a pop or a sweep was
between its two steps.

**WebSession.** One browser page against one service. A fetch is a state: sent
with the cookie of that moment, judged later, delivered later still. `same` says
that the cookie it carried is still the browser's. `Render` is React's render
with the gate's redirect: no await separates them. The throttle counts for one
address. A running local service answers before the client gives up; one that is
down fails every request. `/dashboard` stands for the pages that poll, `/settings`
for those that ask the service only when they are opened or used (`Ask`, which no
timer drives).

**ChatPage.** `rows` maps ids to their origin, the demo snapshot or the server.
The effect is one cycle at a time, timer or two requests; a refresh or a new
mount drops the old cycle, as `active = false` does. `loadMore` lives beside it.
The handler reads with two queries, the count and then one page, and rows may
arrive between them; a query that fails is answered 200 with nothing in it
(`HistoryBreaks`, `MoreBreaks`). `asof` is history: the size of the table when
the answer shown last was read, which no answer carries.

**LivePages.** Versions stand for data, so "older" can be said. The service's
login goes where `Login` lets it: anywhere but back to idle, and an attempt may
fail as often as it is asked for (`AttemptFails`), since no bound counts it. One of the two
pages is mounted; requests of a page that was left are aborted, except the
retry, whose answer nobody reads.

**AdminPages.** One page is open and `store` is the part of the configuration it
shows. The form and the switch of the settings page share nothing but the load
and are two instances. A request is sent, served and returned; its answer may
get lost after it was served, and a write whose page was left is served all the
same (`OrphanServed`). A log read returns the newest lines only; a query that
fails is answered like an empty table, and a clear is answered ok although its
DELETE may have failed. `clicked` and `doubts` are history: what stood there at
the last click on save, and what the page cannot know.

**DesktopShell.** Ports are numbers; one more than the range exists, because the
back end may go one further. The probe holds the port until it is closed. A
stranger either answers something else or accepts and never answers. `taken` is
history: somebody opened the port between the probe and the back end's listen.

**Installer.** A click on the install button starts an *attempt*, an async
function with the values its closure captured. The page stays usable while it
awaits, so a cancelled attempt may still be alive when the next one begins; the
cancel flag and `download_active` on the Rust side are shared. `Offers` is what
the page renders, so a click happens only where there is a button. The NSIS
process outlives the window. `MaxAttempts` bounds the attempts.

In the front-end modules React state is applied at once: each model's steps are
event handlers and continuations, and no await separates a `setState` from the
handlers that read it.

## 3. What the runs check

Bounds are per run; every one is a constant of its `.cfg`. "States" are TLC's
distinct states.

| Run | Instance | States | What it shows |
|---|---|---|---|
| `worker` | 3 tasks, 2 callers of Stop, capacity 1 | 79,600 | `SubmissionsAreSafe`, `SerialOrder`, `CancelStopsBacklog`; it implements `SerialExecutor` (`ImplementsExecutor`); `NobodyWaitsForEver`: callers return though tasks hang, and the worker ends when they end |
| `delivery` | 3 deliveries, 2 of one message; conversations A, B, C, room for 2 sessions, capacity 1 | 743,836 | `CountIsTrue`, `NoWorkerMissed`, `AnsweredOncePerId`, `WorkersAreExecutors`; `ShutdownEnds`: past its waits though handlers and tasks hang, and with no worker left but one whose task hangs |
| `chat` | one person in private and in a room, 1 slot, memory of 1 pair, 2 turns each | 16,542 | `MemoryIsTrue`, `MemoryComesFirst`; `TurnsEnd`: waits end though calls hang, turns when calls obey their deadline |
| `login` | 2 token attempts, 1 accepted retry, so up to 5 bots | 208,905 | `LoginIsSound`; `AcceptedRetryServed`: for retries that are pending while the loop runs |
| `config` | 2 requests of any body, 2 starts, kills and power failures | 162,656 | `ConfigIsCoherent`, `OnlyBodyChanges`; `RequestsAnswered` |
| `image` | 2 images, 2 conversations, 2 turns each, clock to 3, lifetime 1, cleaner at 2 | 47,310 | `EveryPictureOnce` |
| `installer` | 2 attempts, 1 mirror, 2 data files of which one is there, browser preview and bootstrapper | 973,661 | `InstallIsEarned`, `CancelledStays`, `OldDataSurvives`; `InstallEnds` |
| `websession` | 2 requests in flight, throttle after 2 failures | 70,778 | `GateSettles`, `StaysIn`, `LogoutStays`; `ExpiryNoticed`, `OperatorGetsIn` |
| `chatpage` | 5 rows, one of them blank, pages of 2, a private session beside rows of a group and of another sender | 332,814 | `PageIsTrue`; `BusyEnds`, `WholeHistoryReached` |
| `livepages` | 3 login states, 1 change beside the retries' own, 2 polls in flight | 180,040 | `HonestScreen`; `CatchesUp`, `NewCodeComes` |
| `adminpages` | 3 providers, one key or none, 3 prompts, 3 log lines of which a read returns 2 | 55,600 | `ScreenMatchesStore`; `BusyEnds`, `LogsSettle` |
| `shell` | 2 shells, a range of 2 ports and the one behind it, both kinds of strangers | 638,115 | `NoOrphan`, `WindowShowsOurs`; `StartEnds` |

The safety properties of one question are one definition with named parts:
`SubmissionsAreSafe` is `NoSendOnClosed`, `VerdictIsTrue`, `BoundedBacklog` and
`AccountedFor` with the types; `CountIsTrue` says that the WaitGroup is exact and
that a drained program is quiet; `LoginIsSound` joins one live bot, published
bots that are ready, logins that were asked for, and a loop that ends for a
reason; and so on. Each part has its own comment.

Why the bounds are enough. *Worker:* three tasks against a capacity of one give
a task running, one in the buffer and one refused, and two Stops meet the once
at each stage; the invariants are moreover proved for every number. *Delivery:*
two messages of one conversation and one of another are the least that
duplicate, compete for a session and leave one worker running while another is
stopped; a third conversation makes the limit bite; the safety properties are
proved for every number. *Chat:* the second answer
evicts the first from a memory of one pair, and two conversations over one slot
give a holder and a waiter; `MemoryIsTrue` is proved for every number. *Login:* the second attempt meets the backoff, the
retry meets the leftovers of the abandoned scan. *Config:* two requests are
needed and enough to overlap, two starts to find what a kill left; proved for
every number of both. *Image:* one
image is overwritten by, or removed around, one other. *Installer:* the second
attempt meets what the first left alive; two files give an import that fails
after one is replaced. *Web session:* one late answer against one newer request,
and a failure below the limit and at it; the safety properties are proved for
every number. *Chat page:* pages of two with five rows give a burst beyond one
page and an offset that moved by less; the blank row lies in the middle, below
rows that are read first and above one that is read last. That `burst` counts the
rows between two merged answers in either order was found by the proof: an older
answer merged after a newer one tears a hole as well. `WholeHistoryReached` does
not hold for two blank rows next to each other, which fill a page (section 5).
*Live pages:* the second slot would show a poll beside a poll; a change of the
login beside those of the retries is enough for an answer to be older. *Admin pages:*
the stored provider, the typed one and the one typed over it during the save; three
lines are one more than a read returns. *Shell:* two
shells compete for one port and both find the range taken. No run uses
symmetry, since most check liveness. `installer` and `shell` may stop, when the
window is closed, and are not checked for deadlock.

### Fairness

Go runs a goroutine that can move, and timers fire; the fair specification of
each module says that and no more, and no more of it than its properties need: weak
fairness of the workers, of main, of the login loop. What may never come has none: messages, calls of Stop, a
cancel, a scan, a click on retry, a session's end, a signal. Whether tasks and provider
calls end is not the scheduler's to give. Properties that need it say so
themselves (`FairTasks => ...`, `FairCalls => ...`): `Handle` bounds the slot
wait and gives every call a context with a deadline, and the HTTP client obeys
it. `ShutdownEnds` and the first halves of `NobodyWaitsForEver` and `TurnsEnd` do
without, so a hung provider holds up neither a shutdown's delivery side nor
another conversation's wait for ever. In `Login`, weak fairness of the loop and
of the token login in it rests on the client's 30 second timeout.

In the front end the event loop runs, timers fire, and every fetch is served,
fails or is aborted by its own timer: weak fairness of exactly those steps.
Clicks, page changes, new rows, failures, restarts and expiry have none. Where a
promise is for a patient user or a recovered service the property states it:
`WholeHistoryReached`, `NewCodeComes` and `OperatorGetsIn` assume a user who
keeps clicking (strong fairness of `LoadMore`, `RefreshQr`, `SubmitRight`)
and, like `CatchesUp` and `LogsSettle`, that failures or page changes stop some
day (`Healthy`, `Answers`). `CatchesUp` assumes a login that comes to rest
(`Rests`), `NewCodeComes` one whose attempts stop failing at once (`Reachable`):
with WeChat out of reach each retry fails between two polls, and the page may see
`failed` for ever. A settings page has no timer, so `ExpiryNoticed` speaks of the
pages that poll. `InstallEnds` assumes that the NSIS process ends
(`FairPayload`), which no code can promise.

## 4. What is proved

Eight modules of proofs, all of whose obligations TLAPS discharges. Every
invariant, every action property and every refinement the passing runs check is a
theorem. Three of them extend more than one model; `ImageCache`, `LivePages`,
`ChatPage` and `AdminPages` have names of their own for what every model has
(`CacheInit`, `LiveNext`, `ThreadSpec`, `adminVars`), so that they can be
extended beside another. The models' assumptions are what the theorems rest on,
and the runs evaluate them. Each inductive invariant was first checked by TLC on
its run's instance.

`SessionWorkerProofs` proves, for every set of tasks, every set of Stop callers
and every capacity of at least one (`WorkerAssumption`: capacity positive,
`NoTask` not a task):

| Theorem | States |
|---|---|
| `TypeCorrect` | the type invariant |
| `SendsAreSafe`, `BacklogBounded`, `VerdictsHold`, `WorkerAccounted` | `NoSendOnClosed`, `BoundedBacklog`, `VerdictIsTrue`, `AccountedFor` |
| `WorkerKeepsPromises` | `SubmissionsAreSafe`, which joins these |
| `AcceptanceOrder` | `SerialOrder` |
| `CancelBoundsWork` | `CancelStopsBacklog` |
| `AcceptedIsFinal` | `NothingAcceptedAfterStop`, an action property |
| `WorkerImplementsExecutor` | `SessionWorker` implements `SerialExecutor` |

None of these is inductive alone. The argument:

1. `TypeInv` adds to the types that the worker holds a task exactly from its
   receive to the task's end (`Holding`); without it nothing says what is in
   the hand of a worker about to call.
2. `LockInv` carries the lock discipline: no reader while the writer holds the
   lock, the queue is closed only once the handle is cleared, no sender
   between load and send sees it cleared, and nobody calls Stop before
   the worker starts. `NoSendOnClosed` and `NothingAcceptedAfterStop` follow.
3. `OrderInv` is `SerialOrder` with the buffer's bound; sequence lemmas
   (`AppendAsConcat`, `HeadThenTail`) move one task along accepted, buffer,
   hand and called. `BacklogBounded` follows by lengths.
4. `VerdictInv` relates the senders' verdicts to the accepted sequence, using
   `RangeOfAppend`; with `OrderInv` and `RangeOfPrefix`, only accepted tasks
   are called, and each at most once.
5. `AccountInv` distinguishes a cancel seen before and after the worker's check,
   which `CancelStopsBacklog` alone forgets.
6. `ExecutorStep` maps each step, under 1 to 3, to a step of `SerialExecutor` or
   a stutter; `WorkerImplementsExecutor` joins it with the initial states.

`DeliveryProofs` proves, for any finite sets of messages and conversations, any
ids, any session limit and any capacity (`DeliveryAssumption`;
`OthersAssumption`: the sessions there are at the start obey the limit):

| Theorem | States |
|---|---|
| `NoWorkerEscapes` | `NoWorkerMissed`: `StopAccepting` leaves no session open, and the limit holds |
| `RepeatsAnsweredOnce` | `AnsweredOncePerId` |
| `CountIsExact` | `CountIsTrue`: types, `deliverwg` is exact, drained is quiet |
| `WorkersRefineExecutors` | `WorkersAreExecutors`: each worker is used as `SerialExecutor` allows |

1. `DoorInv`: the open sessions are the registered ones until `StopAccepting`
   collects them, and afterwards those it has still to stop; nobody accepts once
   it has closed the door. `NoWorkerMissed` alone does not say where main is, so
   it cannot exclude a session registered behind its back. `SessionInv` counts
   the sessions, which the limit bounds only while they are registered.
2. `VerdictInv` ties verdicts to the handler's place: before `RunSerial` there
   is none, after an acceptance the handler is done. `DedupInv` adds who is
   past the dedup, not only who was accepted: a key still remembered was given
   to one message at most.
3. `TaskInv` says where an accepted task is: in the backlog (once, and neither
   run nor in hand), in the worker's hands, or run. With it each step changes
   one of the three counted sets by one element exactly when it changes
   `deliverwg` by one (`CountMoves`), and the sum follows by the library's facts
   about cardinality. `QuietPreserved` is the step from an exact count of zero
   to silence for good: no phase is open, so no late handler can hand over.
4. `WorkerRefines`, `HandlerRefines` and `MainRefines` map each step to a step
   or a stutter of every conversation's executor; `Fits` (a backlog within its
   capacity) is needed since an executor refuses only at the limit.

Together with `WorkerImplementsExecutor` this closes the chain from the locks
and channels of `core/session` to the adapter's shutdown.

`ChatProofs` proves, for any finite set of conversations and any number of slots,
turns and pairs (`ChatAssumption`: a conversation is told apart by its kind, its
room and its sender, a group has a room, and there is at least one slot):

| Theorem | States |
|---|---|
| `MemoryStaysTrue` | `MemoryIsTrue`: types, slots accounted for, memories are the conversation's latest answers, contexts still current |

Two lemmas about sequences carry the data: `LastPairsAre` says what the newest
pairs of a list are, and `AppendKeepsLast` that appending to them as
`Session.Append` does gives the newest pairs of the longer list, for a cap of
any size (`CapPositive`: a cap of zero or less is one pair). `KeysDiffer` is
what keeps two conversations out of one session. `SlotsPreserved` follows the
turns that hold a slot as a set that gains and loses one element with `sem`.
None of this says that a turn is answered once: `TurnInv` adds that the answered
turns of a conversation are its own and no later than the current one, that the
current one is not among them before `SaveContext`, and that whoever is past
`Handle` and among them was an answer. `MemoriesPreserved` then needs only that
`SaveContext` is the one writer of a session and that its worker is past the
wait its context was for. `MemoryComesFirst` needs `OutcomeInv`: only a
remembered turn has the outcome of an answer, and between `SaveContext` and the
insert it is remembered and has no row, so that the row appended is the newest
of its conversation (`RowsAppended`).

About the image cache, for any finite set of images, any conversations of the
sender and any ages (`ImageAssumption`), it proves `PicturesStayTrue`:
`EveryPictureOnce`. Load and Delete are two steps, so what a pop has loaded may
be another entry by the time it deletes. `EntryInv` says that the entry was used
by nobody, `LoadedInv` that a pop holds an image it has not used, which after
its delete is in no entry again, and `NotRaced` that an entry nobody raced is
the one each pop has loaded and the one the cleaner was shown.

`ConfigStoreProofs` proves, for any number of requests and starts
(`ConfigAssumption`):

| Theorem | States |
|---|---|
| `ConfigStaysCoherent` | `ConfigIsCoherent` |
| `OnlyBodyIsApplied` | `OnlyBodyChanges`, an action property |

`SaveInv` says that the one request inside Save owns the mutex, that its
temporary file holds the configuration before the rename, that the file is whole
unless `past` tells of an outage, and that a program that ended handles no
request. Of the fields of a file `SavedIsCurrent` promises those a PUT can change:
the address of `-listen` is another matter (section 5).
`SavedInv` adds to "the file is current" who may still be about to save.
`InUseInv` follows the one request that does not overlap with another through
provider, prompt and configuration, which change one after the other.

About the pages over that store, for any providers, keys, prompts and model or
connection probes (`""` is no key; a probe is none of the other requests), it
proves `ScreenStaysTrue`: `ScreenMatchesStore`. The property speaks of pages at
rest. Its strengthening `AdminInv` speaks of every request under way:
`ReadInv` what a read that was served holds; `SettingsInv` how form, masked key
and body in flight relate to the store before the save is served, between that
and its answer, and after it, with `clicked` as what all of them are about;
`PromptInv` the same for the editor; `SwitchInv`
that the store is the opposite of a toggle not yet served and equal to one that
was. `AdminTypes` says whose request each is, so that a write left behind can
only hit the page that is open through `doubts`.

`LoginProofs` proves, for any number of automatic attempts and of accepted
retries (`LoginAssumption`):

| Theorem | States |
|---|---|
| `LoginStaysSound` | `LoginIsSound`: one live bot, published bots are ready, logins were asked for, the loop ends for a reason |

None of the four parts is inductive. `LoopInv` says what the loop's place means
for the newest bot and for `a.bot`; `BotsInv` that every bot but the one the loop
is at is dead or about to find out, although the scan goroutine of an abandoned
one may still set `self`; `BudgetInv` counts logins made and logins already
decided on against attempts and accepted retries, which is what bounds them when
a retry is pending while the loop is in a login; `StopInv` orders the cancel
before the loop's stop.

`InstallerProofs` proves, for any number of attempts, of mirrors and of data
files (`ConstantsAssumption`: the data files are distinct, `import.rs:6`):

| Theorem | States |
|---|---|
| `InstallStaysEarned` | `InstallIsEarned` |
| `OldDataStays` | `OldDataSurvives` |
| `CancelledNeverInstalls` | `CancelledStays`, an action property |

`ProcInv` ties an attempt's place to its payload's process; `LoneInv` says that
one attempt is busy unless two overlapped, `PageInv` that until a cancellation
or a timeout the page belongs to it, `CancelInv` that nobody is cancelled once
past the check before the launch. `FilesInv` follows the import file by file:
those before the current one are new, those behind it have no backup yet, the
one in between is in its backup, and one import at a time is in the middle of
this; then each way to fail puts back what can be moved back and leaves the rest
in its backup, whichever step of the rollback fails. The file whose rename to the
backup failed is in `unsaved`: the theorem is about all others.

`DesktopShellProofs` proves, for any number of shells, ports and strangers
(`ShellsAssumption`, `PortAssumption`, `StrangersAssumption`):

| Theorem | States |
|---|---|
| `TypesInvariant` | the type invariant |
| `NoBackendOrphaned` | `NoOrphan` |
| `WindowIsOurs` | `WindowShowsOurs` |

`Leash` strengthens `NoOrphan`: a living back end has a handle and a shell that
has not ended, so that every way to end goes through a `stopGoBackend` that finds
it. `Kept` strengthens `WindowShowsOurs`: a probe holds a free port, and on the
port of a waiting shell nobody but its own back end is found unless `taken` says
so. `EndsTypes`, `EndsFrees` and `EndsKills` say once what the end of a process
does.

`DashboardProofs` proves of the gate, for any number of requests and any limit:

| Theorem | States |
|---|---|
| `GateNeverBounces` | `GateSettles` |
| `LogoutHolds` | `LogoutStays`, an action property |
| `SessionStaysIn` | `StaysIn`, an action property |

`StepsRender` says that a step leaves snapshot and route alone, renders a
snapshot at a route, or loads the page; with `GateIsFinal` the route stays one
that the gate renders (`OnScreen`). The two action properties need what is under
way: `StatusFirst` (until the status of a page load arrives nothing else has
happened on it), `LogoutAsked`, and `AnswersKnowCookie` (a request that carries
the browser's cookie is judged as that cookie would be).

Of the welcome page and the dashboard, for any poll slots, any login states (the
page's own modes `connecting` and `demo` are not among them, which the code's
types say, `web/src/lib/useLoginStatus.ts:4`) and any number of changes, it proves
`ScreensStayHonest`: `HonestScreen`. `OnePoll` is the reason: one poll at a time,
and none while the timer runs, so a poll's answers are no older than what is on
the screen (`AnswersInv`). `ScreenInv` keeps apart the two kinds of screen, live
with the newest answer or with no version at all, from which the texts, the
button and the note follow (`ScreenIsHonest`).

Of the chat page, for any table, page size, rows without text and sessions, it
proves `PageStaysTrue`: `PageIsTrue`. `ThreadHasNoHole` speaks of one thread;
`NoHole` of all rows, whichever sessions they belong to. Two answers may be under
way at once, so `HoleInv` adds to it what each will meet when it is merged:
nothing is missing above the page it carries (`HasAbove`), or the burst will be
noticed (`Joins`), and of two answers under way one is as new as what is shown
(`NewerOne`). `OffsetIsBelow` is the argument for paging by an offset: a page
that starts below as many rows as are held starts below no row that is missing,
and rows that arrive meanwhile only push it up. `MergeIsSeamless` and `FirstPage`
are the two ways in which a merge closes the gap. A proof attempt with the first
definition of `burst`, which looked at newer answers only, failed for the reason
given in section 3.

Only model-checked is what is stated under fairness: `NobodyWaitsForEver`,
`ShutdownEnds`, `TurnsEnd`, `AcceptedRetryServed`, `RequestsAnswered`,
`InstallEnds`, `ExpiryNoticed`, `OperatorGetsIn`, both `BusyEnds`,
`WholeHistoryReached`, `CatchesUp`, `NewCodeComes`, `LogsSettle` and `StartEnds`.
Liveness and `ENABLED`, induction over data and `RECURSIVE` operators are beyond
the provers used here; no module here declares a recursive operator.

## 5. Where code and documentation part

The models contain the behaviour; the claims on the right are not stated as
properties. Where one of them would break a property of section 3, the property
excepts the case by name: `unsaved`, `overlapped`, `raced`, `taken`, a loop that
has `"exited"`, a `past` that is an `"outage"`. The Go program:

| The code | The documentation |
|---|---|
| a goroutine per message, so two messages of one conversation can overtake each other on their way to its worker (`adapters/openwechat/adapter.go:585`) | `README.md:74` "one serial worker per conversation keeps messages in order" |
| a handler past `guard` still adds to `deliverwg` during `WaitInflight` (`adapters/openwechat/adapter.go:904`; `CountIsTrue` holds all the same) | `adapters/openwechat/adapter.go:670` "the inflight set cannot grow while we are waiting on it" |
| callbacks of an abandoned scan still write the status (`adapters/openwechat/adapter.go:383`) | `adapters/openwechat/adapter.go:139` "the state becomes failed and no further QR appears automatically" |
| main exits the bot published at the signal and blocks on one published later (`main.go:255`) | `main.go:251` "then wait a bounded time" |
| no `fsync`, so an empty `config.yaml` after a power failure (`core/config/load.go:85`) | `core/config/load.go:72` "fsync's the data, then renames ... so a crash mid-write can never truncate the existing config" |
| a cancelled worker leaves its backlog uncalled and its queue open (`core/session/session.go:81`) | `core/session/session.go:119` "a true return guarantees it is queued and will run" |
| a task abandoned in that backlog stays counted, and `WaitInflight` waits its full limit for no goroutine | `adapters/openwechat/adapter.go:688` "waits for worker and task goroutines to finish" |
| a memory of zero pairs is raised to one (`core/session/session.go:208`) | `main.go:135`, `README.md:189`, `core/config/config.go:41`: zero turns memory off |
| the slot is released when `Handle` returns (`core/message/handler.go:209`) | `core/message/handler.go:25` "strictly around Provider.Chat" |
| a retry accepted while a login succeeds, or after the loop has returned on success, is never served: after a session has ended only a restart logs in again (`adapters/openwechat/adapter.go:116`, `:271`) | `adapters/openwechat/adapter.go:231` "Serve explicit retry requests forever"; `README.md:253` "Returns `202` when accepted" |
| a retry may scan again (`adapters/openwechat/adapter.go:249`) | `adapters/openwechat/adapter.go:142` "Later retries are token-only" |
| `StopLoginLoop` gives up after five seconds | `adapters/openwechat/adapter.go:559` "no login attempt can still be in flight afterwards" |
| after a session ends the status stays `logged_in` | `web/src/pages/WelcomePage.tsx:46` shows WeChat as connected |
| a scan login has no storage, so the old token stays | `README.md:191` "always scan, which is the way to replace a saved session" |
| `-listen` is stored in the configuration every Save writes | `main.go:112` "It is never persisted" |
| overlapping PUTs can leave one's provider with the other's configuration, or lose one's setting | `README.md:260` "applied immediately" |
| a failed Save is answered ok | `web/src/pages/SettingsPage.tsx:193` says saved |
| two conversations of a sender may both load one image, and a newer image stored between Load and Delete is deleted unused | `core/message/handler.go:120` "retrieves and removes" |
| the cleaner removes images after ten minutes whatever `image_ttl` says | `README.md:190` "Seconds an uploaded image stays eligible" |
| `DELETE /api/logs` answers ok although the DELETE failed (`database/database.go:166`); a failed query of logs or history is answered 200 with nothing in it (`:113`, `:185`) | |
| `-set-password` and the running bot overwrite each other's `config.yaml` (`auth_prompt.go:85`) | |

The front end, the shell and the installer (a blank right side: nothing is
documented, but a user would be surprised):

| The code | The documentation |
|---|---|
| a cancel during the download moves on to the next mirror, whose start clears the cancel flag | |
| a cancel and a new start can leave two attempts running, and the first one's guard clears `download_active` of the second | `installer/app/src-tauri/src/state.rs:4` one download at a time |
| an old data file whose rename to its backup fails is removed by the rollback, and there is no other copy (`installer/app/src-tauri/src/import.rs:100`, `:116`, `:32`) | `installer/app/src-tauri/src/import.rs:151` "all-or-nothing rollback", `installer/CONTRACT.md:155` "on failure restore backups" |
| a directory with a leading blank is checked trimmed and used untrimmed; the default directory may arrive over a chosen one | |
| after 120 s the page reports an error while the payload runs on; an import that fails after the installation reports the installation as failed | |
| closing the window does not stop the payload | `installer/app/src/App.tsx:371` "关闭窗口会中断安装", and `:666` "关闭窗口不会中断写入" |
| a late 401 of an older cookie sends a fresh login back to the form; a logout whose request fails leaves the cookie | |
| a burst of more than one page of messages between two polls leaves a hole that "load more" cannot reach, and its button stays; blank rows keep `total` above the rows there are | |
| the offset of "load more" counts the rows held, which leave out blank ones (`web/src/lib/useChatData.ts:269`): once a page of blank rows lies above unread ones, the same page is asked for over and over and the rest of the history cannot be reached | |
| an open settings or prompt page does not notice that the session has expired until it is used (`web/src/lib/useConfigData.ts:7`) | |
| while WeChat is out of reach a retry fails between two polls: the welcome page shows `failed` throughout and never that it tried | |
| the line that says saved stands over an edit made while the save was in flight, on both pages (`web/src/pages/PromptPage.tsx:103`, `web/src/pages/SettingsPage.tsx:193`), although the edit is not stored; the prompt's button stays enabled; the line also stays over a preset chosen later | |
| a key typed while a save is in flight is erased when it succeeds; the answer of a lost PUT cannot be told from a refusal | |
| a load in flight brings cleared log lines back until the next poll | |
| two shells started together can take each other's port, since there is no single-instance lock (`taken` of `WindowShowsOurs`) | `electron/main.js:12` "the window could load a stranger's server" |
| `http.get` has no timeout, so a program that accepts and never answers keeps the shell waiting | `electron/main.js:43` 30 s |
| quit stops the back end first; a page with unsaved changes may then keep its window open without one | |
| a shell that crashes leaves its back end running | |

## 6. What is not modelled

- *Web handlers* other than those named in section 2 read and format; the
  server's own `Shutdown` only waits.
- *Provider client, WeChat client, media, contacts, emoji* are I/O and parsing;
  the models have their outcomes. The sync check's own retries and the
  hot-reload file are left out: their effect on the rest is a session that ends.
- *Database pool and log hook*: a query that logs while it holds the only
  connection needs a row that cannot be scanned, which this code never writes.
  `stripThinkBlocks` is text. The bound of the failure map in `auth.go` is about
  thousands of addresses; `WebSession` counts one.
- *Console, tray, autostart, build tools*: terminal output, operating system
  calls, scripts run by hand. `make-manifest.mjs` computes a file and exits.
- `Manager.Delete` (never called), `SetMeta`, `LastError` and `NextRetry` (text
  for the dashboard), the provider swap during a turn, the process that runs
  `-set-password`.
- *Front end:* rendering, animation, formatting, highlighting, copying, themes;
  the contents of the model list and of the connection test. The window's drag
  and title bar, and macOS' `activate`. The installer's progress numbers and the
  desktop-shortcut choice, which is passed to nothing.
- In `Delivery`, `onTickle`, `onImage`'s guard and the welcome reply change no
  state of delivery. Whether WeChat delivers a message again later is the
  service's affair; the models allow it at any time.

## 7. What could follow

1. `Shutdown`: main with the delivery and the login side composed, over
   `SerialExecutor` workers, and what a signal finds in both at once.
2. `ConfigStore` with the `-set-password` process, and with `Chat` for the
   provider swap; `AdminPages` over `ConfigStore`.
3. Proofs: the safety half of what the composed modules promise, such as a
   signal's way through both sides of the shutdown, once they are composed.
