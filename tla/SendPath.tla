------------------------------ MODULE SendPath ------------------------------
(***************************************************************************)
(* The send path of the bridge: send_text and send_media, from the moment  *)
(* Handle starts the command's goroutine to its one final reply.           *)
(*                                                                         *)
(* Each command runs beginSend (the checks, the single send slot, the      *)
(* backstop, the reservation of the outbox id in the store) and deliver    *)
(* (count the send, mark it dispatched, hand it to WhatsApp, free the      *)
(* slot, reply), interleaved with the other commands.  The process may     *)
(* crash between any two steps and start again on the same store, and the  *)
(* computer's clock may be set back.                                       *)
(*                                                                         *)
(* Time: a Go time.Time taken with time.Now() carries a wall clock and a   *)
(* monotonic reading; one read back from the store carries the wall clock  *)
(* only.  Two times are compared by their monotonic readings when both     *)
(* have one.  Ticks of `real` are the monotonic clock.                     *)
(***************************************************************************)
EXTENDS Integers, Sequences, FiniteSets

CONSTANTS
  Cmds,             \* command ids, each used for at most one send
  Ids,              \* outbox ids the client may choose
  Kinds,            \* which sends the client uses: "text", "media"
  OutboxKeep,       \* store.OutboxKeep: how many outbox ids are remembered
  MaxSendsInWindow, \* wa.MaxSendsInWindow
  SendWindow,       \* wa.SendWindow, in ticks
  MinSendInterval,  \* wa.MinSendInterval, in ticks
  Faults,           \* which failures the environment may produce
  JumpsBack,        \* amounts by which the wall clock may be set back
  MaxReal,          \* bound: last tick of the real clock
  MaxCrashes,       \* bound: crashes of the process
  MaxJumps,         \* bound: changes of the wall clock
  Null              \* no value: an SQL NULL, a variable not set yet

FaultKinds == {"known_io", "insert_io", "prune_io", "mark_io", "result_io", "recent_io", "panic"}

ASSUME SendPathAssumption ==
  /\ OutboxKeep \in Nat \ {0}
  /\ MaxSendsInWindow \in Nat \ {0}
  /\ SendWindow \in Nat
  /\ MinSendInterval \in 0 .. SendWindow
  /\ Kinds \subseteq {"text", "media"}
  /\ Faults \subseteq FaultKinds
  /\ JumpsBack \subseteq Nat
  /\ MaxReal \in Nat
  /\ MaxCrashes \in Nat
  /\ MaxJumps \in Nat
  /\ Null \notin Int
  /\ Null \notin Ids

VARIABLES
  real,         \* the monotonic clock
  wall,         \* the computer's wall clock
  jumps,        \* how often the wall clock was set back
  up,           \* the process runs and init has succeeded
  crashes,      \* how often the process crashed
  sends,        \* Bridge.sends: times of the sends counted, oldest first
  sending,      \* Bridge.sending: the single send slot is taken
  rows,         \* the table voolo_sent of the store
  pc,           \* where the goroutine of each command is
  kind,         \* "text" or "media"
  outbox,       \* the outbox id of each command
  now,          \* the time its goroutine read last
  code,         \* the error code it is about to reply with
  replies,      \* the final replies written for each command
  files,        \* send_media hand-off files that exist
  reservations, \* history: outbox ids in the order they were inserted
  inserted,     \* history: the commands that inserted their outbox id
  counted,      \* history: when each send was counted toward the backstop
  handoffs,     \* history: what was handed to WhatsApp, and when it was counted
  forgotten,    \* history: the recent ones of which a start found no time in the store
  skew          \* history: when the clock was last set back, or the bridge noticed, and
                \* when the process last started

vars == <<real, wall, jumps, up, crashes, sends, sending, rows, pc, kind, outbox, now,
          code, replies, files, reservations, inserted, counted, handoffs, forgotten, skew>>

clockVars   == <<real, wall, jumps>>
processVars == <<up, crashes>>
cmdVars     == <<kind, outbox>>
localVars   == <<kind, outbox, now, code>>
historyVars == <<reservations, inserted, counted, handoffs, forgotten, skew>>

-----------------------------------------------------------------------------
(* Time *)

Time == [wall : Int, mono : Int, hasMono : BOOLEAN]

\* time.Now()
Now == [wall |-> wall, mono |-> real, hasMono |-> TRUE]

\* time.UnixMilli(ms): a time read from the store
FromStore(w) == [wall |-> w, mono |-> 0, hasMono |-> FALSE]

\* t.Add(d)
Add(t, d) == [t EXCEPT !.wall = @ + d, !.mono = @ + d]

\* t.Sub(u)
Sub(t, u) == IF t.hasMono /\ u.hasMono THEN t.mono - u.mono ELSE t.wall - u.wall

\* t.After(u), u.Before(t)
After(t, u) == Sub(t, u) > 0

-----------------------------------------------------------------------------
(* The backstop *)

\* Mutant of Clamp: times in the future are left where they are.
ClampNothing(ts, at) == ts

\* clampSends: times after `at` move to one floor interval before it; if there
\* was one, each time that lies before its predecessor is raised to it.
Clamp(ts, at) ==
  LET moved == [i \in DOMAIN ts |->
                  IF After(ts[i], at) THEN Add(at, -MinSendInterval) ELSE ts[i]]
      raised[i \in DOMAIN ts] ==
        IF i > 1 /\ After(raised[i - 1], moved[i]) THEN raised[i - 1] ELSE moved[i]
  IN  IF \E i \in DOMAIN ts : After(ts[i], at) THEN raised ELSE ts

\* History: the first clampSends since the clock was set back, the moment the
\* bridge notices.
Notice == IF skew.noticed THEN skew ELSE [skew EXCEPT !.at = real, !.noticed = TRUE]

\* The members of S in the order that the pairs of `before` give.
Ordered(S, before) ==
  [i \in 1 .. Cardinality(S) |-> CHOOSE x \in S : Cardinality({y \in S : <<y, x>> \in before}) = i - 1]

\* The pairs of an increasing order.
Increasing(S) == {p \in S \X S : p[1] < p[2]}

\* backstopAllows, its effect on Bridge.sends: those in the window stay.
Recent(ts, at) ==
  LET clamped == Clamp(ts, at)
      keep    == {i \in DOMAIN clamped : Sub(at, clamped[i]) < SendWindow}
      kept    == Ordered(keep, Increasing(keep))
  IN  [i \in DOMAIN kept |-> clamped[kept[i]]]

\* backstopAllows, its answer
Allows(keep, at) ==
  /\ Len(keep) < MaxSendsInWindow
  /\ Len(keep) > 0 => Sub(at, keep[Len(keep)]) >= MinSendInterval

-----------------------------------------------------------------------------
(* The table voolo_sent *)

Row == [id : Ids, created : Int, rowid : Nat, dispatched : Int \cup {Null}, message : BOOLEAN]

\* Mutant of OutboxKnown: only sends that WhatsApp confirmed are known.
OutboxKnownIfSent(o) == \E r \in rows : r.id = o /\ r.message

\* store.OutboxKnown
OutboxKnown(o) == \E r \in rows : r.id = o

\* ORDER BY created_at DESC, rowid DESC: r comes before s
Newer(r, s) == r.created > s.created \/ (r.created = s.created /\ r.rowid > s.rowid)

\* Mutant of Pruned: one row too few is kept.
PrunedOneMore(rs) == {r \in rs : Cardinality({s \in rs : Newer(s, r)}) < OutboxKeep - 1}

\* Mutant of Pruned: the oldest rows are kept, not the newest.
PrunedOldest(rs) == {r \in rs : Cardinality({s \in rs : Newer(r, s)}) < OutboxKeep}

\* The rows that ReserveOutbox's DELETE leaves
Pruned(rs) == {r \in rs : Cardinality({s \in rs : Newer(s, r)}) < OutboxKeep}

\* The row that ReserveOutbox's INSERT adds.  SQLite numbers it above every
\* row of the table; only that order matters.
NewRow(o, at) ==
  [id |-> o, created |-> at.wall, rowid |-> Len(reservations) + 1,
   dispatched |-> Null, message |-> FALSE]

\* store.MarkDispatched: an UPDATE, which may find no row
MarkDispatched(rs, o, at) ==
  {IF r.id = o THEN [r EXCEPT !.dispatched = at.wall] ELSE r : r \in rs}

\* store.SetOutboxMessage
SetOutboxMessage(rs, o) ==
  {IF r.id = o THEN [r EXCEPT !.message = TRUE] ELSE r : r \in rs}

\* ORDER BY dispatched_at, rowid: the pairs of rows in that order
ByTime(rs) ==
  {p \in rs \X rs : \/ p[1].dispatched < p[2].dispatched
                    \/ p[1].dispatched = p[2].dispatched /\ p[1].rowid < p[2].rowid}

\* store.RecentSends: the times after `since`, in that order
RecentSends(since) ==
  LET found   == {r \in rows : r.dispatched # Null /\ r.dispatched > since}
      ordered == Ordered(found, ByTime(found))
  IN  [i \in DOMAIN ordered |-> FromStore(ordered[i].dispatched)]

-----------------------------------------------------------------------------
(* Commands *)

\* The goroutine holds the single send slot at these steps.
SlotSteps == {"chat", "known", "backstop", "insert", "prune", "prepare", "upload",
              "record", "mark", "handoff", "waiting"}

Steps == SlotSteps \cup {"idle", "begin", "fail", "panicked", "result", "discard", "done", "lost"}

\* What ready, the media checks, Upload and SendMessage answer when they fail
\* (one code stands for each group of codes), and the other final replies.
Codes == {"none", "not_ready", "busy", "unknown_chat", "store_io", "duplicate_outbox_id",
          "rate_limited_local", "media_error", "upload_error", "send_error", "internal", "send_result"}

Running(c) == pc[c] \notin {"idle", "done", "lost"}

Goto(c, step) == pc' = [pc EXCEPT ![c] = step]

\* Free the slot, then write error{e}: the two are separate steps.
Refuse(c, e) ==
  /\ Goto(c, "fail")
  /\ code' = [code EXCEPT ![c] = e]
  /\ sending' = FALSE

\* Go on to the next step, holding the slot.
Proceed(c, step) ==
  /\ Goto(c, step)
  /\ UNCHANGED <<code, sending>>

\* Mutant of Handle: the outbox id is not passed to the goroutine.
HandleDropsId(c, k, o) ==
  /\ up
  /\ pc[c] = "idle"
  /\ Goto(c, "begin")
  /\ kind' = [kind EXCEPT ![c] = k]
  /\ files' = IF k = "media" THEN files \cup {c} ELSE files
  /\ UNCHANGED <<clockVars, processVars, sends, sending, rows, outbox, now, code, replies, historyVars>>

\* Handle: a send_text or send_media arrives and asyncCmd starts its goroutine.
Handle(c, k, o) ==
  /\ up
  /\ pc[c] = "idle"
  /\ Goto(c, "begin")
  /\ kind' = [kind EXCEPT ![c] = k]
  /\ outbox' = [outbox EXCEPT ![c] = o]
  /\ files' = IF k = "media" THEN files \cup {c} ELSE files
  /\ UNCHANGED <<clockVars, processVars, sends, sending, rows, now, code, replies, historyVars>>

\* beginSend: ready, then the slot by compare-and-swap.
Begin(c) ==
  /\ pc[c] = "begin"
  /\ \/ /\ Goto(c, "fail")
        /\ code' = [code EXCEPT ![c] = "not_ready"]
        /\ UNCHANGED sending
     \/ /\ sending
        /\ Goto(c, "fail")
        /\ code' = [code EXCEPT ![c] = "busy"]
        /\ UNCHANGED sending
     \/ /\ ~sending
        /\ sending' = TRUE
        /\ Goto(c, "chat")
        /\ UNCHANGED code
  /\ UNCHANGED <<clockVars, processVars, sends, rows, cmdVars, now, replies, files, historyVars>>

\* beginSend: knownChat.
CheckChat(c) ==
  /\ pc[c] = "chat"
  /\ Proceed(c, "known") \/ Refuse(c, "unknown_chat")
  /\ UNCHANGED <<clockVars, processVars, sends, rows, cmdVars, now, replies, files, historyVars>>

\* beginSend: OutboxKnown.
CheckKnown(c) ==
  /\ pc[c] = "known"
  /\ \/ "known_io" \in Faults /\ Refuse(c, "store_io")
     \/ OutboxKnown(outbox[c]) /\ Refuse(c, "duplicate_outbox_id")
     \/ ~OutboxKnown(outbox[c]) /\ Proceed(c, "backstop")
  /\ UNCHANGED <<clockVars, processVars, sends, rows, cmdVars, now, replies, files, historyVars>>

\* Mutant of CheckBackstop: the id is reserved before the backstop is asked.
CheckBackstopReservesFirst(c) ==
  /\ pc[c] = "backstop"
  /\ now' = [now EXCEPT ![c] = Now]
  /\ sends' = Recent(sends, Now)
  /\ rows' = rows \cup {NewRow(outbox[c], Now)}
  /\ reservations' = Append(reservations, outbox[c])
  /\ inserted' = inserted \cup {c}
  /\ IF Allows(Recent(sends, Now), Now)
     THEN Proceed(c, "prune")
     ELSE Refuse(c, "rate_limited_local")
  /\ skew' = Notice
  /\ UNCHANGED <<clockVars, processVars, cmdVars, replies, files, counted, handoffs, forgotten>>

\* beginSend: backstopAllows(now), which also rewrites Bridge.sends.
CheckBackstop(c) ==
  /\ pc[c] = "backstop"
  /\ now' = [now EXCEPT ![c] = Now]
  /\ sends' = Recent(sends, Now)
  /\ IF Allows(Recent(sends, Now), Now)
     THEN Proceed(c, "insert")
     ELSE Refuse(c, "rate_limited_local")
  /\ skew' = Notice
  /\ UNCHANGED <<clockVars, processVars, rows, cmdVars, replies, files, reservations, inserted, counted, handoffs,
                 forgotten>>

\* ReserveOutbox, its INSERT ... ON CONFLICT DO NOTHING.
Insert(c) ==
  /\ pc[c] = "insert"
  /\ \/ /\ "insert_io" \in Faults
        /\ Refuse(c, "store_io")
        /\ UNCHANGED <<rows, reservations, inserted>>
     \/ /\ OutboxKnown(outbox[c])
        /\ Refuse(c, "duplicate_outbox_id")
        /\ UNCHANGED <<rows, reservations, inserted>>
     \/ /\ ~OutboxKnown(outbox[c])
        /\ Proceed(c, "prune")
        /\ rows' = rows \cup {NewRow(outbox[c], now[c])}
        /\ reservations' = Append(reservations, outbox[c])
        /\ inserted' = inserted \cup {c}
  /\ UNCHANGED <<clockVars, processVars, sends, cmdVars, now, replies, files, counted, handoffs, forgotten, skew>>

\* ReserveOutbox, its DELETE: a statement of its own, not in a transaction
\* with the INSERT.
Prune(c) ==
  /\ pc[c] = "prune"
  /\ \/ /\ "prune_io" \in Faults
        /\ Refuse(c, "store_io")
        /\ UNCHANGED rows
     \/ /\ Proceed(c, IF kind[c] = "media" THEN "prepare" ELSE "record")
        /\ rows' = Pruned(rows)
  /\ UNCHANGED <<clockVars, processVars, sends, cmdVars, now, replies, files, historyVars>>

\* media.Open: the hand-off file is deleted once it was looked at, whatever it holds.
Opened(c) == files \ {c}

\* sendMedia: media.Open and the checks of kind, type and duration.
Prepare(c) ==
  /\ pc[c] = "prepare"
  /\ files' = Opened(c)
  /\ Proceed(c, "upload") \/ Refuse(c, "media_error")
  /\ UNCHANGED <<clockVars, processVars, sends, rows, cmdVars, now, replies, historyVars>>

\* sendMedia: Upload.
Upload(c) ==
  /\ pc[c] = "upload"
  /\ Proceed(c, "record") \/ Refuse(c, "upload_error")
  /\ UNCHANGED <<clockVars, processVars, sends, rows, cmdVars, now, replies, files, historyVars>>

\* deliver: read the clock and recordSend.
RecordSend(c) ==
  /\ pc[c] = "record"
  /\ now' = [now EXCEPT ![c] = Now]
  /\ sends' = Append(sends, Now)
  /\ counted' = Append(counted, real)
  /\ Proceed(c, "mark")
  /\ UNCHANGED <<clockVars, processVars, rows, cmdVars, replies, files, reservations, inserted, handoffs, forgotten,
                 skew>>

\* deliver: MarkDispatched; a failure is only logged.
Mark(c) ==
  /\ pc[c] = "mark"
  /\ \/ rows' = MarkDispatched(rows, outbox[c], now[c])
     \/ "mark_io" \in Faults /\ UNCHANGED rows
  /\ Proceed(c, "handoff")
  /\ UNCHANGED <<clockVars, processVars, sends, cmdVars, now, replies, files, historyVars>>

\* deliver: SendMessage is called.
HandOff(c) ==
  /\ pc[c] = "handoff"
  /\ handoffs' = Append(handoffs, [id |-> outbox[c], at |-> now[c].mono])
  /\ Proceed(c, "waiting")
  /\ UNCHANGED <<clockVars, processVars, sends, rows, cmdVars, now, replies, files, reservations, inserted, counted,
                 forgotten, skew>>

\* Mutant of Sent: release is not called when SendMessage has succeeded.
SentKeepsSlot(c) ==
  /\ pc[c] = "waiting"
  /\ Refuse(c, "send_error") \/ Proceed(c, "result")
  /\ UNCHANGED <<clockVars, processVars, sends, rows, cmdVars, now, replies, files, historyVars>>

\* deliver: SendMessage returns (at the latest with its timeout); release runs
\* before anything is written.
Sent(c) ==
  /\ pc[c] = "waiting"
  /\ \/ Refuse(c, "send_error")
     \/ /\ sending' = FALSE
        /\ Goto(c, "result")
        /\ UNCHANGED code
  /\ UNCHANGED <<clockVars, processVars, sends, rows, cmdVars, now, replies, files, historyVars>>

\* The goroutine has returned; what it held is gone.
NoClock == [wall |-> 0, mono |-> 0, hasMono |-> TRUE]

Return(c) ==
  /\ Goto(c, "done")
  /\ kind' = [kind EXCEPT ![c] = "text"]
  /\ outbox' = [outbox EXCEPT ![c] = Null]
  /\ now' = [now EXCEPT ![c] = NoClock]
  /\ code' = [code EXCEPT ![c] = "none"]

\* The final reply; send_media's deferred media.Discard still has to run.
Reply(c, r) ==
  /\ replies' = [replies EXCEPT ![c] = Append(@, r)]
  /\ \/ kind[c] = "media" /\ Goto(c, "discard") /\ UNCHANGED localVars
     \/ kind[c] = "text" /\ Return(c)

\* deliver: SetOutboxMessage (a failure is only logged), then send_result.
Result(c) ==
  /\ pc[c] = "result"
  /\ \/ rows' = SetOutboxMessage(rows, outbox[c])
     \/ "result_io" \in Faults /\ UNCHANGED rows
  /\ Reply(c, "send_result")
  /\ UNCHANGED <<clockVars, processVars, sends, sending, files, historyVars>>

\* Mutant of Fail: deliver goes on after a failed send (a missing return).
FailFallsThrough(c) ==
  /\ pc[c] = "fail"
  /\ \/ /\ code[c] = "send_error"
        /\ replies' = [replies EXCEPT ![c] = Append(@, "send_error")]
        /\ Goto(c, "result")
        /\ UNCHANGED localVars
     \/ code[c] # "send_error" /\ Reply(c, code[c])
  /\ UNCHANGED <<clockVars, processVars, sends, sending, rows, files, historyVars>>

\* fail: error{code} is written.
Fail(c) ==
  /\ pc[c] = "fail"
  /\ Reply(c, code[c])
  /\ UNCHANGED <<clockVars, processVars, sends, sending, rows, files, historyVars>>

\* sendMedia: the deferred media.Discard.
Discard(c) ==
  /\ pc[c] = "discard"
  /\ files' = files \ {c}
  /\ Return(c)
  /\ UNCHANGED <<clockVars, processVars, sends, sending, rows, replies, historyVars>>

\* Where a panic leaves the command without its reply.
PanicSteps == SlotSteps \cup {"begin", "fail", "result"}

\* Mutant of Panic: the slot stays taken.
PanicKeepsSlot(c) ==
  /\ "panic" \in Faults
  /\ pc[c] \in PanicSteps
  /\ Goto(c, "panicked")
  /\ UNCHANGED <<clockVars, processVars, sends, sending, rows, localVars, replies, files, historyVars>>

\* A panic before the reply: the deferred functions free the slot if this command holds
\* it, and never the slot of another one (sync.Once).
Panic(c) ==
  /\ "panic" \in Faults
  /\ pc[c] \in PanicSteps
  /\ sending' = (sending /\ pc[c] \notin SlotSteps)
  /\ Goto(c, "panicked")
  /\ UNCHANGED <<clockVars, processVars, sends, rows, localVars, replies, files, historyVars>>

\* Mutant of Recovered: the panic is recovered but not reported.
RecoveredSilently(c) ==
  /\ pc[c] = "panicked"
  /\ files' = files \ {c}
  /\ Return(c)
  /\ UNCHANGED <<clockVars, processVars, sends, sending, rows, replies, historyVars>>

\* After a panic: Discard runs, then goSafe recovers and writes error{internal}.
Recovered(c) ==
  /\ pc[c] = "panicked"
  /\ files' = files \ {c}
  /\ replies' = [replies EXCEPT ![c] = Append(@, "internal")]
  /\ Return(c)
  /\ UNCHANGED <<clockVars, processVars, sends, sending, rows, historyVars>>

CommandStep(c) ==
  \/ Begin(c) \/ CheckChat(c) \/ CheckKnown(c) \/ CheckBackstop(c)
  \/ Insert(c) \/ Prune(c) \/ Prepare(c) \/ Upload(c)
  \/ RecordSend(c) \/ Mark(c) \/ HandOff(c) \/ Sent(c)
  \/ Result(c) \/ Fail(c) \/ Discard(c) \/ Recovered(c)

-----------------------------------------------------------------------------
(* The environment *)

Tick ==
  /\ real < MaxReal
  /\ real' = real + 1
  /\ wall' = wall + 1
  /\ UNCHANGED <<jumps, processVars, sends, sending, rows, pc, localVars, replies, files, historyVars>>

SetClockBack(d) ==
  /\ jumps < MaxJumps
  /\ jumps' = jumps + 1
  /\ wall' = wall - d
  /\ skew' = [skew EXCEPT !.at = real, !.noticed = FALSE]
  /\ UNCHANGED <<real, processVars, sends, sending, rows, pc, localVars, replies, files, reservations, inserted, counted, handoffs,
                 forgotten>>

\* The process ends without running any deferred function (kill, power loss).
\* Commands in progress get no reply; the store keeps what was committed.
Crash ==
  /\ up
  /\ crashes < MaxCrashes
  /\ up' = FALSE
  /\ crashes' = crashes + 1
  /\ sends' = <<>>
  /\ sending' = FALSE
  /\ pc' = [c \in Cmds |-> IF Running(c) THEN "lost" ELSE pc[c]]
  /\ kind' = [c \in Cmds |-> "text"]
  /\ outbox' = [c \in Cmds |-> Null]
  /\ now' = [c \in Cmds |-> NoClock]
  /\ code' = [c \in Cmds |-> "none"]
  /\ UNCHANGED <<clockVars, rows, replies, files, historyVars>>

\* The hand-off files left by an earlier process that have grown stale go.
CleanStale(stale) == files \ stale

\* The sends of the last SendWindow of which the table has no time (any more).
Evicted == {i \in DOMAIN handoffs :
              /\ real - handoffs[i].at < SendWindow
              /\ \A r \in rows : r.id # handoffs[i].id \/ r.dispatched = Null}

\* Mutant of DoInit: the sends of an earlier run are not loaded.
DoInitForgets(stale) ==
  /\ ~up
  /\ up' = TRUE
  /\ sends' = <<>>
  /\ skew' = [Notice EXCEPT !.started = real]
  /\ forgotten' = forgotten \cup Evicted
  /\ files' = CleanStale(stale)
  /\ UNCHANGED <<clockVars, crashes, sending, rows, pc, localVars, replies, reservations, inserted, counted, handoffs>>

\* doInit on the store that is there: the recent sends are loaded (a failure is
\* only logged) and clamped, and hand-off files that have grown stale deleted.
DoInit(stale) ==
  /\ ~up
  /\ up' = TRUE
  /\ \/ sends' = Clamp(RecentSends(wall - SendWindow), Now)
     \/ "recent_io" \in Faults /\ sends' = <<>>
  /\ skew' = [Notice EXCEPT !.started = real]
  /\ forgotten' = forgotten \cup Evicted
  /\ files' = CleanStale(stale)
  /\ UNCHANGED <<clockVars, crashes, sending, rows, pc, localVars, replies, reservations, inserted, counted, handoffs>>

-----------------------------------------------------------------------------
\* A first start on a new store.
Init ==
  /\ real = 0
  /\ wall = 0
  /\ jumps = 0
  /\ up = TRUE
  /\ crashes = 0
  /\ sends = <<>>
  /\ sending = FALSE
  /\ rows = {}
  /\ pc = [c \in Cmds |-> "idle"]
  /\ kind = [c \in Cmds |-> "text"]
  /\ outbox = [c \in Cmds |-> Null]
  /\ now = [c \in Cmds |-> NoClock]
  /\ code = [c \in Cmds |-> "none"]
  /\ replies = [c \in Cmds |-> <<>>]
  /\ files = {}
  /\ reservations = <<>>
  /\ inserted = {}
  /\ counted = <<>>
  /\ handoffs = <<>>
  /\ forgotten = {}
  /\ skew = [at |-> Null, noticed |-> TRUE, started |-> 0]

Next ==
  \/ \E c \in Cmds :
       \/ \E k \in Kinds, o \in Ids : Handle(c, k, o)
       \/ CommandStep(c)
       \/ Panic(c)
  \/ Tick
  \/ \E d \in JumpsBack : SetClockBack(d)
  \/ Crash
  \/ \E stale \in SUBSET files : DoInit(stale)

Spec == Init /\ [][Next]_vars

\* A command's own steps are scheduled: a goroutine runs on, SendMessage and
\* Upload end with their timeouts, store calls with SQLite's busy timeout.
FairSpec == Spec /\ \A c \in Cmds : WF_vars(CommandStep(c))

-----------------------------------------------------------------------------
(* Properties *)

\* The types of the variables.  The times in sends are left to the rate properties.
TypeOK ==
  /\ real \in Nat /\ wall \in Int /\ jumps \in Nat
  /\ up \in BOOLEAN /\ crashes \in Nat
  /\ sending \in BOOLEAN
  /\ rows \subseteq Row
  /\ pc \in [Cmds -> Steps]
  /\ kind \in [Cmds -> {"text", "media"}]
  /\ outbox \in [Cmds -> Ids \cup {Null}]
  /\ \A c \in Cmds : Running(c) => outbox[c] \in Ids
  /\ now \in [Cmds -> Time]
  /\ code \in [Cmds -> Codes]
  /\ replies \in [Cmds -> Seq(Codes)]
  /\ files \subseteq Cmds
  /\ reservations \in Seq(Ids)
  /\ inserted \subseteq Cmds
  /\ counted \in Seq(Nat)
  /\ handoffs \in Seq([id : Ids, at : Int])
  /\ forgotten \subseteq DOMAIN handoffs
  /\ skew \in [at : Nat \cup {Null}, noticed : BOOLEAN, started : Nat]

\* Only one send is in flight, and the slot is taken exactly while one is: no
\* path (refusal, failed upload, panic, crash) leaves it taken.
OneSlot ==
  /\ \A c, d \in Cmds : pc[c] \in SlotSteps /\ pc[d] \in SlotSteps => c = d
  /\ sending <=> \E c \in Cmds : pc[c] \in SlotSteps

\* While the store forgets nothing, no outbox id is handed to WhatsApp twice,
\* whatever crashes, restarts and clock changes happen in between.
AtMostOnce ==
  \A i, j \in DOMAIN handoffs : handoffs[i].id = handoffs[j].id => i = j

\* The store can hold every outbox id: the prune never removes a row.
NoEviction == IsFiniteSet(Ids) /\ Cardinality(Ids) <= OutboxKeep

\* Why no id is handed over twice: the table has one row per id, an id handed
\* over stays in the table, and the id of a send that is reserved but not yet
\* handed over is in the table and was never handed over.
Reserved == {"prune", "prepare", "upload", "record", "mark", "handoff"}
OutboxInv ==
  /\ \A r, s \in rows : r.id = s.id => r = s
  /\ \A i \in DOMAIN handoffs : OutboxKnown(handoffs[i].id)
  /\ \A c \in Cmds : pc[c] \in Reserved =>
       OutboxKnown(outbox[c]) /\ \A i \in DOMAIN handoffs : handoffs[i].id # outbox[c]
  /\ AtMostOnce

\* The bridge remembers the last OutboxKeep outbox ids: an id is reserved again
\* only after OutboxKeep other reservations.
RemembersLast ==
  \A i, j \in DOMAIN reservations :
    i < j /\ reservations[i] = reservations[j] => j - i > OutboxKeep

\* It does so, across crashes and with a table that has to forget, as long as the
\* clock, by which ReserveOutbox orders the rows it keeps, is never set back.
RemembersSteady == skew.at = Null => RemembersLast

\* However a command ends (refusal, failed upload, panic, send error), it has one
\* final reply at most, and the hand-off file of a send_media is gone.
EndsCleanly ==
  /\ \A c \in Cmds : Len(replies[c]) <= 1
  /\ \A c \in files : pc[c] # "done"

\* A command that beginSend refused has not used its outbox id.
RefusalLeavesIdUnused ==
  \A c \in inserted : replies[c] # <<>> =>
    replies[c][1] \notin {"not_ready", "busy", "unknown_chat", "store_io",
                         "duplicate_outbox_id", "rate_limited_local"}

\* Of the sends i to j at most MaxSendsInWindow are in any window, and two are never
\* closer than the floor interval.  After a clock set back the window may be shorter
\* by the floor interval that clampSends takes off.
WithinRate(i, j) ==
  /\ j - i = MaxSendsInWindow => handoffs[j].at - handoffs[i].at >= SendWindow - MinSendInterval
  /\ skew.at = Null =>
       /\ j - i = MaxSendsInWindow => handoffs[j].at - handoffs[i].at >= SendWindow
       /\ j - i = 1 => handoffs[j].at - handoffs[i].at >= MinSendInterval

\* The sends handed over keep the backstop's limits across crashes and restarts, also
\* with a table that has to forget, except where a start found the row of a recent one
\* gone: then the backstop has forgotten that send (doInit, RecentSends).
RateWindow ==
  \A i, j \in DOMAIN handoffs : (i .. j) \cap forgotten = {} => WithinRate(i, j)

\* A client that waited for the reply of every earlier send is never told busy:
\* busy is answered only while another send has not been replied to.
BusyOnlyWhileSending ==
  [][\A c \in Cmds :
       pc[c] = "begin" /\ pc'[c] = "fail" /\ code'[c] = "busy" =>
         \E d \in Cmds \ {c} : Running(d) /\ replies[d] = <<>>]_vars

\* The sends counted in the window that ends now.
CountedNow == {i \in DOMAIN counted : real - counted[i] < SendWindow}

\* backstopAllows refuses a command in this step.
Refused(c) == pc[c] = "backstop" /\ pc'[c] = "fail" /\ code'[c] = "rate_limited_local"

\* Sends that account for a refusal: a full window of them, or one within the
\* floor interval.
SendsCause ==
  \/ Cardinality(CountedNow) >= MaxSendsInWindow
  \/ \E i \in DOMAIN counted : real - counted[i] < MinSendInterval

\* The backstop refuses only with cause: sends, or a clock that was set back, and
\* then for one window after the bridge noticed (at init or at a send) or last
\* started: every start loads the unclamped times again (clampSends, doInit).
BackstopHasCause ==
  [][\A c \in Cmds : Refused(c) =>
       \/ SendsCause
       \/ skew.at # Null /\ (~skew.noticed \/ real - skew.at < SendWindow \/ real - skew.started < SendWindow)]_vars

\* The send path implements the client's view of outbox ids while the store
\* forgets none: a crash or a retry by the client is invisible there.
AbstractOutbox ==
  INSTANCE Outbox WITH reserved <- {r.id : r \in rows},
                       log <- [i \in DOMAIN handoffs |-> handoffs[i].id]
RefinesOutbox == AbstractOutbox!Spec

\* Every command is answered, unless the process dies first.
Answered == \A c \in Cmds : pc[c] = "begin" ~> replies[c] # <<>> \/ pc[c] = "lost"
=============================================================================
