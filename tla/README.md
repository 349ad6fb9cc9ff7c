# A verification of voolo-whatsapp-bridge in TLA+

The bridge is a Go process that a desktop client starts and talks to over stdin
and stdout, one JSON line per command or event (`PROTOCOL.md`). It keeps one
encrypted SQLite store, holds one WhatsApp connection through the library
whatsmeow, and is meant to be killed and restarted at any time. This directory
holds TLA+ models of its concurrent parts, TLC configurations that check them on
small instances, and TLAPS proofs, for every value of the constants, of the safety
properties that those runs check.

`PROJECT.json` is the index: which definition models which lines, which run
checks which property, and which hazard each property is for.

## 1. The system

### 1.1 Components

| Component | Source | State | Operations | Model |
|---|---|---|---|---|
| Send path | `wa/commands.go`, `store/store.go`, `wa/bridge.go` | the slot `Bridge.sending`, the send times `Bridge.sends`, the table `voolo_sent` | `send_text`, `send_media` | `SendPath`, `Outbox` |
| Process lifecycle | `cmd/.../run.go`, `wa/bridge.go`, `protocol/envelope.go` | `inited`, `stopped`, `state`, `loggedOut`, `outdated`, the WaitGroup, the channel `fatal`, the writer's `quiesced`, the store's handle | the loop over stdin, `init`, `logout`, `Stop`, the exit code | `Lifecycle` |
| History sync | `wa/historysync.go`, `history/history.go` | the queue `hq`, the signal `hsig`, `Caps`, `Window` | a worker; `history_ack` | `History` |
| Pairing | `wa/pairing.go` | `Bridge.pair` with its context, codes and rotations | `pair_qr`, `pair_phone`, the events that end them | `Pairing` |
| Chat and group registry | `wa/events.go`, `store/store.go` | `Bridge.chats`, `groupCache`, `groupsSent`, `groupsLoaded`, the table `voolo_chats` | every event that names a chat, group queries | `Chats` |
| Event handler | `wa/events.go` | none of its own | `onEvent` | its connection, logout, pairing and chat cases are in the modules above |
| Store | `store/store.go`, `lock_*.go` | three tables, a handle with a lock | open, use, close, wipe | two tables and the handle are in the modules above |
| Contacts | `wa/events.go` | `Bridge.contacts` | `contact` lines | not modelled, see 5 |
| Media, avatar, receipts, pins | `wa/commands.go`, `media/media.go` | the semaphore `fetchSem` of two, `picMu`, `lastPic`, the times `pins`, the files in `mediaDir` | `fetch_media`, `fetch_avatar`, `mark_read`, `set_pin` | `Fetches`; caps and durations in `Download` and `Ogg` |
| Protocol codec | `protocol/*.go` | the id source | parse and write lines | the writer's quiescing only |
| Message conversion | `wa/convert.go`, `wa/codes.go` | none | protobuf to protocol | not modelled: no state |
| WhatsApp client | `wa/client.go` | whatsmeow | adapter | an environment in every module; `FetchPicture` in `Download` |
| Network allowlist | `transport/*.go` | the body limit of a request, what is left of it | host, address, redirect and size rules | `Transport` (operators), `Download` (a request through them) |
| Diagnostics, start-up, signing tool | `logx`, `cmd` | none | I/O, cryptography | not modelled |

### 1.2 How they interact

`run` has one goroutine that reads stdin and one loop. The loop calls `Handle`,
which answers some commands at once and gives the others a goroutine (`goSafe`)
that recovers from panics and that `Stop` waits for, at most 1.5 s. whatsmeow calls
`onEvent` from goroutines that nobody waits for. All of them share `Bridge.mu`,
which is held for a few assignments and never while the store, WhatsApp or stdout
is called. The order of lines on stdout is the order in which goroutines get the
writer's lock, and the order of store writes that of SQLite: neither needs to be
the order of the assignments under `Bridge.mu`. Most of what is hard in this code
follows from that.

### 1.3 What is hard

* *Crash and restart.* The client repeats a send after a restart; the reservation
  must be in the store before the hand-off. The send backstop has to count what an
  earlier process sent, by times that have lost their monotonic reading.
* *The clock.* `voolo_sent` is pruned, and the backstop computed, by a wall clock
  that the user may set back.
* *Stop against everything.* Commands, handlers, a logout that is confirmed while the
  bridge stops, goroutines that outlive the wait, lines written late.
* *Lock, unlock, then write.* State changes, chats and aliases are decided under the
  lock and written after it.
* *Many ends of one thing.* A pairing is ended by its timer, six events or `Stop`.
* *Blocking.* The history worker waits for acks, a fetch for a token or a lock, `Stop` for
  all of them.
* *Untrusted answers.* What a sender declares, a server sends and a resolver answers is
  checked at one moment and used at another.

`PROJECT.json` lists 40 such places, each at its line.

### 1.4 What makes each component correct

* Send path: no outbox id is handed over twice; a send never blocks the next for good;
  each command has one reply; the backstop holds over restarts; files are deleted.
* Lifecycle: the process ends, with the right code and final lines; the store is not
  used after it was closed; a confirmed logout deletes it.
* History: batches are numbered without a gap, within the window and the caps, and the
  worker does not get stuck.
* Pairing: one final line, always; a linked account is reported.
* Chats: what was reported is remembered; one merge per linked id; no group is missed.
* Fetches: tokens and lock are given back on every path; pictures and pins keep their
  pace; a file and the line that names it come together; every command ends.
* Download: only WhatsApp is dialed; no more than the limit is held; what is too large is
  said to be, once, and nothing else is; a voice note's duration is that of its pages.

## 2. The modules

Every action is one critical section, one store call, one line written, or one call
into the client: between two of them anything else may run. `history` variables
record what the properties speak of and are never read by an action's guard.

**`SendPath`** follows a send command through `Handle`, `beginSend`, `sendMedia`,
`deliver` and the reply. `pc` is the goroutine's place; `rows` the table `voolo_sent`;
`sends` the slice of send times. A time is a record with a wall and a monotonic
reading, as in Go: `Sub` uses the monotonic one only if both have it, and a time read
from the store has none. `Clamp`, `Recent` and `Allows` are `clampSends` and
`backstopAllows`; `OutboxKnown`, `Pruned`, `MarkDispatched`, `SetOutboxMessage` and
`RecentSends` are the SQL statements; `Ordered`, with the pairs of an order
(`Increasing`, `ByTime`), is a set in that order. `Faults` names which store calls may fail. `Panic`
may happen wherever the command has not replied yet (`PanicSteps`), with or without the slot;
`Crash` loses all but the store, the clock and the files; `DoInit` starts again. `forgotten`
remembers which sends a start did not find in the table although they are of the last
window: their rows had been evicted. `Tick` and `SetClockBack` are the clock.

**`Outbox`** is the promise to the client: an id is reserved once, and handed over once,
under its reservation. `SendPath` implements it with
`reserved <- the ids of rows` and `log <- the ids of handoffs`.

**`Lifecycle`** has `main`, the place of `run` and of `Stop`, and `at`, the places of the
goroutines: a history worker, a connecting one, a logout, one other command, a remote
logout, the 405 retry, and one handler per kind of event. `Emit` drops lines once the
writer is quiesced, `Spawn` starts nothing once `Stop` has begun, `StoreFree` is the
store's lock. `out` is the sequence of lines that the protocol orders.

**`History`** has the queue with its signal channel of capacity one, the worker's loop,
`Window` with its channel of waiters, and `Caps`. A part is a sequence of
conversations, each a chat and a number of messages, and its progress. `Split` is the set
of ways to cut a chat's messages: at most `MaxBatchMessages` in a batch, and possibly fewer,
as the byte budget of a line makes it do, which depends on how long the messages are.
`invented` says that the client acknowledged a seq it was never given.

**`Pairing`** has `startPairing` in its two steps, the account checked without a lock and the
running pairing under it, on `run`'s goroutine; the pairing goroutine (`runPairing`,
`cycleCodes`); the handlers of five kinds of events that end a pairing (`PairError` stands for
`QRScannedWithoutMultidevice` too), each with the separate critical sections of
`currentPair` and `takePair`; and the goroutine in which `pairEnd` disconnects. Events go on
after an account was linked; whatsmeow then opens the socket again by itself (`Redial`).

**`Chats`** has workers that each run one job: a live message, another event of a chat, a
history conversation, a joined group, the sweep on `Connected` that goes on to
`loadGroups`, or the refresh of a group. `chats` and `stored` are `Bridge.chats` and the
table; a worker changes the first under the lock and the second in a later step.

**`Fetches`** has one goroutine per command of the other four kinds. `fetchSem`, `picMu`,
`lastPic` and `pins` are the fields of `Bridge`; what a command's checks look at is a
choice, and so is what WhatsApp answers. `Panic` may replace any step that calls a
library or the store and runs the deferred functions first. `Quiesce` and `Cancel` are
the two halves of `Stop` that a command can tell apart. Commands are numbered in the
order of their lines, so that the model needs no symmetry.

**`Transport`** and **`Ogg`** are pure: what the allowlist lets through, on labels and address
ranges, and the walk over the pages of a voice note, with the widths of its unsigned
arithmetic as constants. `Ogg` also has the definition that the function's comment gives
(`WellFormed`, `DurationOf`), to check the walk against.

**`Download`** extends both with one download: checks on the descriptor, `Guard`, `Resolve`,
redirects, the body limit in pieces of any size, the attempts of the library, and the
checks on what came. It is the part of `Fetches` between `download` or `info` and `seal`;
the two are checked apart because they share no variable but the result.

The `MC` modules give the constants their values, the `Proofs` modules hold the theorems.

## 3. The runs

TLC finishes each of them in about three minutes or less with two workers.

| Run | Bounds | Shows |
|---|---|---|
| `SendPathCore` | 2 commands, 2 ids, text and media, all faults, a panic anywhere before the reply, 1 crash, the clock set back once | `TypeOK`, `OneSlot`, `AtMostOnce`, `EndsCleanly`, `BusyOnlyWhileSending`, `RefinesOutbox`, `Answered` |
| `SendPathLimits` | 3 commands, 2 ids, text, 1 send in a window of 2, floor 1, room for 1 id, 5 instants, 1 crash, the clock set back once by 2, the faults that refuse a command before its id is stored | `RateWindow`, `RemembersSteady`, `RefusalLeavesIdUnused`, `BackstopHasCause` |
| `SendPathForgets` | 3 commands, 2 ids, room for one id, no fault, the clock set back once | **violated**: `RemembersLast` |
| `Lifecycle` | 2 commands, 2 events of any kind, every outcome of init, a wait that may expire | `StoreGuarded`, `FinalOrder`, `LogoutCarriedOut`, `ExitCodeIsTrue`, `ProcessEnds` |
| `LifecycleStatus` | connection events | **violated**: `StatusIsCurrent` |
| `History` | 2 parts out of several that exceed the batch size and the cap, batches cut at 1 or 2 messages, a window of 2, any acks | `WindowHolds`, `CountsAreSent`, `QueueDrains`, `DoneComes` |
| `HistoryUnknownAck` | 1 part, a window of 1, any acks | **violated**: `UnknownAckIgnored` |
| `Pairing` | 2 commands, 2 events of any kind, one code per QR event, channels of capacity 1 | `OneFinal`, `CurrentLives`, `LinkIsReported`, `PairingEnds` |
| `Chats` | a linked id with its number, a group, 2 workers, 3 jobs, 1 restart, failing writes | `AliasOncePerRun`, `Remembered`, `GroupComes` |
| `ChatsAliasTwice` | the same without failing writes | **violated**: `AliasOnce` |
| `Fetches` | 3 commands of any kind, 2 tokens, an interval of 2, 2 pins in a window of 3, a panic in any call, `Stop` and a cancelled session at any time | `TypeOK`, `SlotsHeld`, `AvatarPaced`, `PinsLimited`, `FilesAnnounced`, `CommandsEnd` |
| `Download` | 63 descriptors of every kind at, below and above its cap; 8 URLs, 7 answers of the resolver, bodies up to 8 units in any pieces, 1 retry; voice files of up to 3 pages with 5-bit granules and 2-bit sequence numbers, some longer than the cap | `OnlyWhatsApp`, `BodyBounded`, `TooLargeIsTrue`, `VoiceIsHonest`, `TooLargeIsFinal`, `DownloadEnds` |

In `Lifecycle`, `History`, `Pairing`, `Chats` and `Download` the type invariant is a conjunct of
another invariant.

Why these bounds are enough to be of use: an interleaving bug in this code needs two
actors and one piece of shared state, a restart bug one restart, and a bug at a limit
a limit of one or two. Two commands contend for the slot and share an outbox id; three
with room for one id evict, so that a wrong row evicted shows at the third; a window of one send is full after one; two pairings
overlap where the second begins while the handlers of the first still run; of three
fetches one waits while two hold the tokens, and of three pins the third is over the
limit; the small widths in `Download` make sums wrap and numbers run over. Every
property has a mutant of the code (`PROJECT.json`, "mutants"), a plausible slip such
as a flag not cleared or a lock not taken, and under each of them TLC finds the
property violated within the same bounds.

Symmetry (commands and outbox ids) is used in the runs of `SendPath` that check safety
only. `CHECK_DEADLOCK FALSE` is set where the system may rest: all commands answered,
no event to come. The runs of `Lifecycle` check deadlock: a process that has exited
stutters, and nothing else may rest while the loop or `Stop` can go on.

### 3.1 Fairness

* `SendPath`: a command's goroutine goes on. `SendMessage` and `Upload` have timeouts, the
  store a busy timeout.
* `Lifecycle`: `run`, `Stop` and the goroutines go on; goroutines that wait for WhatsApp
  need not finish: that is what the wait's timeout is for. No command or event is owed.
* `History`: the worker goes on, a handler reaches its signal, and the client acknowledges
  the last batch it was given, as `PROTOCOL.md` 6.9 asks of it. A client that never does
  may leave the worker blocked, for ever.
* `Pairing`: the pairing's goroutine with its timers, the handlers and `pairEnd`'s goroutine
  go on. No event of WhatsApp is owed.
* `Chats`: goroutines go on and group queries end (20 s and 60 s). No event is owed.
* `Fetches`: a command's goroutine goes on, since every call to WhatsApp has a timeout (20 s,
  25 s, `FetchTimeout`), and the clock advances. Weak fairness per command suffices: one that
  waits for a token or the lock while others come and go is not starved in the model, because
  the commands are finitely many; nothing is said of an unbounded stream of them.
* `Download`: some step of the download is taken, the timeout included. No answer is owed.

### 3.2 Where code and documentation disagree

Four runs show it:

1. `SendPathForgets`. `ReserveOutbox` keeps the newest rows by wall clock. With a full
   table and a clock set back, the row it deletes is the one just inserted.
   Its time goes with it: a restart within the window does not count that send any more,
   which `RateWindow` therefore excepts (`forgotten`).
2. `LifecycleStatus`. `changeState` writes the line after the unlock, so that two changes may
   be reported in the other order and the client is left with the wrong state.
3. `HistoryUnknownAck`. `Window.Ack` releases every outstanding batch up to the seq it is given,
   also when that seq was never handed out, where `PROTOCOL.md` 6.9 and its own comment say
   that such a seq is ignored. `WindowHolds` is about clients that do not do this.
4. `ChatsAliasTwice`. `AddChats`, overtaken by `ResolveLIDChat`, stores the linked id as still
   waiting for its number; the next run merges it again.

Others were met on the way and are recorded as hazards with a note, where a property had
to allow them:

* a logout recorded by a goroutine that outlived `Stop`'s wait, between `Stop`'s reading of the
  flag and `stopCode`'s, gives exit code 7 with a store that was closed and not deleted;
  `LogoutCarriedOut` says what holds of it;
* a failed prune refuses a send whose id stays reserved;
* every restart after a clock change clamps the send times anew;
* a fatal error that loses the `select` against EOF gives exit code 0;
* `status {stopped}` is dropped when `StreamReplaced` is being reported as the writer is
  quiesced;
* `done` of the history may be written while a part is queued, which came between `queued` and
  `historyDone` or as the idle timer fired; history on a second connection is not reported
  done;
* a pairing may start on an account that was linked since its check, and its end then
  disconnects the linked client; a code may follow a pairing's final line, and `paired` its
  `pair_failed`;
* a message may be written under a linked id after its merge; a chat whose row is being
  written when the process dies is forgotten though the client was told of it;
* a `set_pin` that was overtaken between reading the clock and taking the lock forgets the
  pins ahead of it;
* a granule within a second of 2^64 wraps the sum that rounds a voice note's duration up.

## 4. What is proved

Every safety invariant and every action property of the passing runs, and the refinement
of `Outbox`, is a theorem, for any number of commands, ids, chats and goroutines, any
limits, crashes, faults and environment that the constants allow. Each module assumes the
named `Assumption` of its component, the types of the constants; what a theorem assumes
beyond that is said below. In each module the pattern is the same: named parts of an
inductive invariant, one lemma per part or per action that can disturb it, lemmas for
steps that change nothing it speaks of, and one temporal step at the end.

### 4.1 `SendPathProofs`

* `TypeCorrect`: `Spec => []TypeOK`. `Codes` and `Steps` bound the places and replies; the times
  in `sends` are left to the invariants of the rate.
* `SingleSlot`: `Spec => []OneSlot`: the slot is taken exactly while one command is in
  `SlotSteps`. Three lemmas (untouched, freed, kept) cover all steps but the
  CompareAndSwap and a crash.
* `AtMostOnceDelivery`: `Spec => []AtMostOnce`, with `NoEviction`: `Ids` is finite with at most
  `OutboxKeep` members. `AtMostOnce` speaks of the log of hand-offs and is not inductive.
  `OutboxInv` adds why it holds: the table has one row per id; every id handed over has a
  row; and the id of a command that is between its INSERT and its hand-off has a row and
  is not in the log. That a hand-off leaves the last part true of the other commands
  needs `OneSlot`: there is no other command in that part. With `NoEviction` the prune
  deletes nothing (`PruneNothing`, by cardinality).
* `ImplementsOutbox`: `Spec => RefinesOutbox`, with `NoEviction`. The INSERT is `Reserve`, the
  hand-off is `HandOff`, all else, crashes included, is a stutter.
* `EndsCleanlyAlways`, by `EndInv`: who has not replied has no reply; the file of a command
  exists at most until its goroutine is done.
* `BusyMeansSending`: `BusyOnlyWhileSending`, from `OneSlot` and `EndInv`: who holds the slot has
  not replied.
* `RefusalKeepsId`: `RefusalLeavesIdUnused`, by `UseInv`, with `"prune_io"` not in `Faults`: when
  the DELETE fails after the INSERT, the command is refused and its id is reserved. That is
  the hazard at `ReserveOutbox`; the assumption is needed.
* `RemembersSteadily`: `RemembersSteady`, for a table of any size, without `NoEviction`. `RowInv`
  numbers the rows by the reservations. While the clock was never set back the order by
  `created` is the order of the numbers, a command about to insert will be the last, and
  each reservation is in the table or has `OutboxKeep` later ones (`Kept`). That the DELETE
  keeps this is `PrunedIsOld`: the rows that came before the one deleted are at least
  `OutboxKeep`, each with a number of its own.
* `RateHolds`: `RateWindow`, and the same without its exception for forgotten sends, with
  `NoEviction` and neither `"mark_io"` nor `"recent_io"` in `Faults`.
  A bound on a window over a log that other steps and restarts share is far from
  inductive. `RateInv` says why it holds. `BackInv`: there is an injection of the hand-offs of the last
  window into `sends`, each to a time that is no older (by `Slack`, what `clampSends` may take
  off, where the clock was set back). `clampSends` (`ClampBacks`), the filter of
  `backstopAllows` (`RecentBacks`) and the reload of `init` (`StoredBacks`, from `StoredInv`: the rows of
  hand-offs carry their times) keep it; `recordSend` adds a time that no hand-off has yet.
  So if `backstopAllows` finds fewer than the limit, there are fewer hand-offs
  (`AllowedIsSpaced`, a pigeonhole), and a hand-off now keeps the window (`SpaceInv`, up to the hand-off
  itself, alone in the slot). Three assumptions beyond the types are needed. A row
  evicted within the window is a send that a restart forgets: reservations that
  fail before the hand-off evict rows and are not counted, and a clock set back evicts
  the newest. (The run has evictions and no `NoEviction`, and excepts `forgotten` sends.) The two faults lose a time, or all of
  them, for the next start; the code only logs them. That `MinSendInterval` is at most
  `SendWindow` was found while proving and is now part of `SendPathAssumption`; it holds of
  the code's values (commands.go:53-55): otherwise `clampSends` moves a time out of the window.
* `BackstopCaused`: `BackstopHasCause`, with no assumption: the other direction. `CauseInv`: while
  the clock was not set back each row with a time has a counted send of its own
  (`TrackInv`), and the times in `sends` that are younger than the clock change and the
  last start (`Fresh`) have counted sends of their own, no older (`FreshInv`). At a refusal a window or
  more after both, all times that `backstopAllows` looks at are fresh (`KeptAreCounted`).

What `Clamp`, `Recent` and `RecentSends` compute is proved once, for any times: `ClampIs`,
`ClampGood`, `OrderedNumbers` and `OrderedRows` (what `Ordered` is), `RecentIs`, `RecentSendsIs`.

### 4.2 `FetchesProofs`

* `TypeCorrect` (`Spec => []TypeOK`) and `SlotsSafe` (`Spec => []SlotsHeld`) come from one
  inductive invariant, `SlotInv`: neither is inductive alone. That `fetchSem` stays in
  `0 .. MaxFetches` when a token is given back needs that it counts the running
  downloads, and that a step gives back what it took needs `StepOfKind`: which kind of
  command can be at which step. Lemmas for a token taken, a lock taken, all released
  and nothing changed cover the actions; the count goes by cardinality of the set of
  downloads that run.
* `AvatarsPaced`: `Spec => []AvatarPaced`. `PicInv` adds that `lastPic` is the last query and not
  in the future, that a sleeper's timer ends at `lastPic + AvatarInterval` or later, and
  that who is about to ask may. A query leaves the last part true of the others because
  `SlotInv` says that there is no other past the lock.
* `FilesSafe`: `Spec => []FilesAnnounced`. `FileInv` adds that a command that has yet to write
  its final line has no file and no line.
* `PinsPaced`: `Spec => []PinsLimited`. `PinInv`: the times that were pinned increase, and one that
  is no longer in `pins` is `Forgotten`: any time at which `pinAllowed` may say yes is a window
  later. A refused `set_pin` also drops times, with its own older clock; that those stay
  `Forgotten` is `ForgottenRefused`, and needs that `MinPinInterval` is at most `PinWindow`
  (commands.go:504-506), now part of `FetchesAssumption`.

### 4.3 `LifecycleProofs`

One invariant, `IInv`, in eight parts, and `TypeCorrect` with it: where `Stop` is and what is so
before `init` (`ControlInv`), who may use the store (`StoreInv`), who still runs after a wait that did
not expire (`WaitInv`), the last lines in the protocol's order (`OrderInv`), which of them were written
(`SaidInv`), what a goroutine about to send an exit code has done (`PendingInv`) and what
the code in the channel or in `run`'s hands says (`CodeInv`).

* `StoreGuardedAlways`, from `StoreInv`: the store is closed only when no goroutine is using
  it, so the goroutines that outlive the wait find it closed and do not use it.
* `FinalOrderAlways`, from `OrderInv`: once the writer is quiesced each of the lines is one that `Stop` has come to.
* `LogoutCarriedOutAlways`, from `WaitInv`, `SaidInv`, `StoreInv` and `CodeInv`; that a logout `Stop`
  read stays recorded until the exit code is chosen is part of `PendingInv`.
* `ExitCodeTrueAlways`, from `PendingInv` and `CodeInv`.

### 4.4 `HistoryProofs`

* `TypeCorrect`: the worker's variables fit its place (`PlaceInv`); caps and batch sizes hold.
* `WindowHoldsAlways`: `WindowInv` says that, unless the client invented a seq, those
  outstanding are the interval after the last one covered by an ack, and `SeqInv` that each line has the number after the last.
* `CountsAreSentAlways`: `SumInv`: for each chat, what is in `sent` and in the batches still to
  send adds up to its count. `CountsAreSent` counts messages, pairs of a batch and a
  number within it; that a batch appended, removed or split adds or takes its size is
  `OfAppend`, `OfTail` and `OfSplit`, by cardinality. That every way of cutting a chat's
  messages has all of them is `CutCovers` and `CutOrder`.

### 4.5 `PairingProofs`

* `OneFinalAlways`: `EndInv`: a pairing that is current, not started yet, or about to write its own final line has
  none yet; a handler that took a pairing is the only one that did, and the
  pairing is not current any more. Taking the pairing under the lock is what makes this inductive.
* `CurrentLivesAlways`: `ContextInv`. `LinkReported`: `LinkInv`.

### 4.6 `ChatsProofs`

`TypeCorrect` includes what a job's step says of the chat it is about (`Fits`) and that only
linked ids wait in the store.

* `OneAliasPerRun`: `MergeInv`: a linked id that was taken does not wait any more, and of the
  goroutines between the taking and the `alias_of` line only one is at that id.
* `RememberedAlways`: `RememberInv`: a reported chat is in the store, about to be written by
  a goroutine, or known to be lost; a chat the client was told of was reported.

### 4.7 `OggProofs` and `DownloadProofs`

The walk over the pages is a recursive function. The induction over its argument is written as
the choice of a least counterexample (`LeastOne`, from the library's theorem that strict
inclusion of finite sets is well founded), so that no theorem with an operator
parameter is needed; `WalkExists` shows that the recursion has a solution.

* `DurationIsTrue`: for every file of any length whose last granule is not within a second of
  2^64, `OggDurationSeconds` is `DurationOf`, what the function's comment says.
* `DurationNeverMore`: also where it wraps, the result is at most that. `DurationIsNumber`: it
  is 0 or at least what the size stands for.

`Download` has one invariant, `IInv`, over all URLs, hosts and addresses:

* `OnlyWhatsAppAlways`, from `DialInv`: the name to dial passed `Guard`, after every redirect.
* `BodyBoundedAlways`, from `BodyInv`: what is held and what may come is the limit, and what
  is held and what is still to come the file. `TooLargeAlways` and `TooLargeFinal`, from `OverInv`.
* `VoiceHonestAlways`, from `OkInv` and the theorems of `OggProofs`.

### 4.8 Only model-checked

Liveness, which needs fairness and `ENABLED`, out of the prover's reach: `Answered`,
`ProcessEnds`, `QueueDrains`, `DoneComes`, `PairingEnds`, `GroupComes`, `CommandsEnd` and
`DownloadEnds`. And the four properties that the code does not keep, which are refuted by
example (3.2).

## 5. What is not modelled

* The content of messages, contacts, names and receipts, and their formatting
  (`wa/convert.go`, `wa/codes.go`): a mapping field by field, without state.
* Contacts: a cache in front of `contact` lines. It has the race of `markReported` between
  mark and write, without a store behind it; the hazard is listed. A worker per contact
  would multiply the state space of `Chats` for a property that the code does not keep.
* The codec (`protocol/commands.go`, `protocol/events.go`, `protocol/envelope.go`): which JSON is a
  valid command. Stateless validation, and its tests enumerate the cases.
* The table `voolo_media`: in `Fetches` and `Download` a descriptor is any.
* Cryptography, files' permissions, TLS, and which octets an address range has.
* The pages of an Ogg file as bytes: a page is what its header says, and whether it fits.
* Panics of the send path after its reply (in `media.Discard`, say): `goSafe` would then write a
  second reply. Panics outside commands, `processHistory` and the send path: a panic between
  `markReported` and `ensureGroup` in a handler leaves a group without its description.
* In `Fetches`, sealing the hand-off file and writing the line that names it are one step:
  nothing comes between them. In `Download`, the next media host that the library tries after an error.
* In `Pairing`, how often the 405 retry refreshes, which is in `Lifecycle`, and the end of a pairing
  by a logout of the account behind it (`loggedOutBy`), with which the process exits; in `History`, the registry of chats,
  which is in `Chats`.
* whatsmeow: an environment that may send any event at any time, within the order that
  its own code gives them (`Lifecycle`: an event of a socket needs the socket).

## 6. Plan

Done, in this order, by what an error would cost: `Outbox` and `SendPath` with their proofs,
`Lifecycle`, `History`, `Pairing`, `Chats`, `Fetches`, `Transport`, `Ogg` and `Download`.

Proved, after that: all safety properties of every component (section 4).

Next:

1. An abstract specification of the protocol's session (ready, pairing, stopped) that
   `Lifecycle` and `Pairing` implement together, and of the message counts of `History`.
2. A proof of `RateWindow` as the run checks it, with `forgotten` in place of `NoEviction`.
3. The order of `alias_of` and message lines in `Chats`, for chats that nobody else merges.
