------------------------------ MODULE History ------------------------------
(***************************************************************************)
(* History sync: the notification queue of a session, the worker that      *)
(* downloads each part at the pace of the client's acks, the caps and the  *)
(* splitting into batches, the window of unacknowledged batches, and the   *)
(* end of the sync (sync_progress done).                                   *)
(*                                                                         *)
(* A part is what one notification downloads to: its conversations, each a *)
(* chat and the number of its messages that are recent enough, and whether *)
(* the phone reports progress 100 with it.                                 *)
(***************************************************************************)
EXTENDS Integers, Sequences, FiniteSets, FiniteSetsExt

CONSTANTS
  Chats,            \* chat JIDs
  Parts,            \* the parts the phone may send
  WindowSize,       \* history.WindowSize
  MaxPerChat,       \* limits.historyMaxPerChat
  MaxBatchMessages, \* protocol.MaxBatchMessages
  MaxParts,         \* bound: parts the phone sends
  Null

ASSUME HistoryAssumption ==
  /\ Parts \subseteq [convs : Seq([chat : Chats, n : Nat]), full : BOOLEAN]
  /\ WindowSize \in Nat \ {0}
  /\ MaxPerChat \in Nat
  /\ MaxBatchMessages \in Nat \ {0}
  /\ MaxParts \in Nat
  /\ Null \notin Parts

VARIABLES
  hq,          \* session.hq: parts notified and not yet popped
  hsig,        \* session.hsig, a channel of capacity 1: a signal waits in it
  hseen,       \* session.hseen
  hdone,       \* session.hdone
  signalling,  \* handlers that have queued a part and not yet signalled it
  cancelled,   \* the session's context
  pc,          \* where the worker is
  part,        \* the part it processes
  convs,       \* the conversations of it still to do
  idle,        \* the idle timer runs
  batches,     \* the batches of the current conversation still to send
  counts,      \* Caps.counts
  next,        \* Window.next
  outstanding, \* Window.outstanding
  woken,       \* the channel Acquire waits on has been closed
  sent,        \* the history_batch lines written
  ackedTo,     \* history: the last seq handed out that an ack of such a seq has covered
  invented,    \* history: the client acknowledged a seq that was never handed out
  dones,       \* sync_progress {done: true} lines written
  dropped,     \* history: a panic or the end of the session dropped a part
  received     \* parts notified

vars == <<hq, hsig, hseen, hdone, signalling, cancelled, pc, part, convs, idle, batches, counts,
          next, outstanding, woken, sent, ackedTo, invented, dones, dropped, received>>

queueVars   == <<hq, hsig, hseen, signalling, received>>
workVars    == <<part, convs, idle, batches, dropped>>
windowVars  == <<next, outstanding, woken, ackedTo, invented>>
resultVars  == <<counts, sent, dones, hdone>>

-----------------------------------------------------------------------------
(* The caps and the batches *)

\* Caps.Filter: how many messages of a chat still fit.
Kept(chat, n) ==
  LET room == IF MaxPerChat > counts[chat] THEN MaxPerChat - counts[chat] ELSE 0
  IN  IF n > room THEN room ELSE n

\* The messages before the i-th batch.
Start(e, i) == IF i = 1 THEN 0 ELSE e[i - 1]

\* The places where Split may cut n messages of a chat, the last after the last one:
\* before a batch has MaxBatchMessages messages, wherever it reaches MaxBatchBytes.
Ends(n) ==
  {e \in UNION {[1 .. l -> 1 .. n] : l \in 0 .. n} :
     /\ \A i, j \in DOMAIN e : i < j => e[i] < e[j]
     /\ \A i \in DOMAIN e : e[i] - Start(e, i) <= MaxBatchMessages
     /\ n > 0 => \E i \in DOMAIN e : e[i] = n}

\* The batches between these places.
Cut(chat, e) == [i \in DOMAIN e |-> [chat |-> chat, n |-> e[i] - Start(e, i)]]

\* Mutant of Split: what is left after the loop is not appended.
SplitDropsRest(chat, n) == {Cut(chat, SubSeq(e, 1, Len(e) - 1)) : e \in Ends(n)}

\* Split: the ways it can cut, each for messages of some encoded sizes.
Split(chat, n) == {Cut(chat, e) : e \in Ends(n)}

-----------------------------------------------------------------------------
(* Notifications, acks *)

\* enqueueHistory, under hmu.
Enqueue(p) ==
  /\ ~cancelled
  /\ received < MaxParts
  /\ received' = received + 1
  /\ hq' = Append(hq, p)
  /\ hseen' = TRUE
  /\ signalling' = signalling + 1
  /\ UNCHANGED <<hsig, cancelled, pc, workVars, windowVars, resultVars>>

\* ... then a send on hsig that never blocks.
Signal ==
  /\ signalling > 0
  /\ signalling' = signalling - 1
  /\ hsig' = TRUE
  /\ UNCHANGED <<hq, hseen, received, cancelled, pc, workVars, windowVars, resultVars>>

\* What the acks of seqs that were handed out have covered.
Covered(q) == IF q < next THEN Max({ackedTo, q}) ELSE ackedTo

\* Mutant of Ack: the waiter is not woken.
AckSilently(q) ==
  /\ outstanding' = {s \in outstanding : s > q}
  /\ ackedTo' = Covered(q)
  /\ invented' = (invented \/ q >= next)
  /\ UNCHANGED <<next, woken, queueVars, cancelled, pc, workVars, resultVars>>

\* Window.Ack: q and every earlier batch; nothing asks whether q was handed out.
Ack(q) ==
  /\ outstanding' = {s \in outstanding : s > q}
  /\ woken' = (woken \/ outstanding' # outstanding)
  /\ ackedTo' = Covered(q)
  /\ invented' = (invented \/ q >= next)
  /\ UNCHANGED <<next, queueVars, cancelled, pc, workVars, resultVars>>

\* What the client may acknowledge: a seq it got, one it acknowledged before, one
\* that was lost with the session, and one that was never handed out.
AckSeqs == 1 .. next

\* Stop or a logout cancels the session.
Cancel ==
  /\ ~cancelled
  /\ cancelled' = TRUE
  /\ UNCHANGED <<queueVars, pc, workVars, windowVars, resultVars>>

-----------------------------------------------------------------------------
(* historyLoop *)

Goes(a, b) == pc = a /\ pc' = b /\ UNCHANGED cancelled

Top ==
  /\ Goes("top", IF cancelled THEN "gone" ELSE "pop")
  /\ UNCHANGED <<queueVars, workVars, windowVars, resultVars>>

Pop ==
  /\ Goes("pop", IF hq = <<>> THEN "arm" ELSE "download")
  /\ IF hq = <<>> THEN UNCHANGED <<hq, part>> ELSE hq' = Tail(hq) /\ part' = Head(hq)
  /\ UNCHANGED <<hsig, hseen, signalling, received, convs, idle, batches, dropped,
                 windowVars, resultVars>>

\* Mutant of Arm: only progress 100 ends the sync.
ArmNever ==
  /\ Goes("arm", "select")
  /\ idle' = FALSE
  /\ UNCHANGED <<queueVars, part, convs, batches, dropped, windowVars, resultVars>>

\* The idle timer runs while history was seen and is not done.
Arm ==
  /\ Goes("arm", "select")
  /\ idle' = (hseen /\ ~hdone)
  /\ UNCHANGED <<queueVars, part, convs, batches, dropped, windowVars, resultVars>>

SelectDone ==
  /\ Goes("select", "gone")
  /\ cancelled
  /\ UNCHANGED <<queueVars, workVars, windowVars, resultVars>>

SelectSignal ==
  /\ Goes("select", "top")
  /\ hsig
  /\ hsig' = FALSE
  /\ UNCHANGED <<hq, hseen, signalling, received, workVars, windowVars, resultVars>>

SelectIdle ==
  /\ Goes("select", "done")
  /\ idle
  /\ UNCHANGED <<queueVars, workVars, windowVars, resultVars>>

\* historyDone: once for the life of the session.
HistoryDone ==
  /\ Goes("done", "top")
  /\ hdone' = (hdone \/ ~cancelled)
  /\ dones' = IF cancelled \/ hdone THEN dones ELSE dones + 1
  /\ UNCHANGED <<queueVars, workVars, windowVars, counts, sent>>

-----------------------------------------------------------------------------
(* processHistory *)

\* The download fails, or gives a part of a kind that is not reported, or panics.
DownloadFails ==
  /\ Goes("download", "top")
  /\ dropped' = TRUE
  /\ UNCHANGED <<queueVars, part, convs, idle, batches, windowVars, resultVars>>

Download ==
  /\ Goes("download", "convs")
  /\ convs' = part.convs
  /\ UNCHANGED <<queueVars, part, idle, batches, dropped, windowVars, resultVars>>

\* The loop over the conversations is over: by the session's end, or after the last.
ConvsEnd ==
  /\ cancelled \/ convs = <<>>
  /\ Goes("convs", IF cancelled THEN "top" ELSE "progress")
  /\ dropped' = (dropped \/ cancelled)
  /\ UNCHANGED <<queueVars, part, convs, idle, batches, windowVars, resultVars>>

\* historyConversation up to the batches.
Conversation ==
  /\ ~cancelled
  /\ convs # <<>>
  /\ Goes("convs", "batches")
  /\ LET c == Head(convs)
         k == Kept(c.chat, c.n)
     IN  /\ counts' = [counts EXCEPT ![c.chat] = @ + k]
         /\ batches' \in Split(c.chat, k)
  /\ convs' = Tail(convs)
  /\ UNCHANGED <<queueVars, part, idle, dropped, windowVars, sent, dones, hdone>>

\* A panic in the client or the store drops the rest of the part.
Panic ==
  /\ Goes(pc, "top")
  /\ pc \in {"convs", "batches"}
  /\ dropped' = TRUE
  /\ UNCHANGED <<queueVars, part, convs, idle, batches, windowVars, resultVars>>

BatchesEnd ==
  /\ batches = <<>>
  /\ Goes("batches", "convs")
  /\ UNCHANGED <<queueVars, workVars, windowVars, resultVars>>

\* Mutant of HasRoom: one batch too many.
HasRoomForOneMore == Cardinality(outstanding) <= WindowSize

HasRoom == Cardinality(outstanding) < WindowSize

\* Window.Acquire: a cancelled context gets no seq ...
AcquireFails ==
  /\ batches # <<>>
  /\ cancelled
  /\ Goes("batches", "convs")
  /\ UNCHANGED <<queueVars, workVars, windowVars, resultVars>>

\* ... there is room (the context may have been cancelled after the check) ...
Acquire ==
  /\ batches # <<>>
  /\ HasRoom
  /\ Goes("batches", "emit")
  /\ next' = next + 1
  /\ outstanding' = outstanding \cup {next}
  /\ UNCHANGED <<woken, ackedTo, invented, queueVars, workVars, resultVars>>

\* ... or it takes the channel that the next ack closes, and waits for it.
Block ==
  /\ batches # <<>>
  /\ ~HasRoom
  /\ Goes("batches", "blocked")
  /\ woken' = FALSE
  /\ UNCHANGED <<next, outstanding, ackedTo, invented, queueVars, workVars, resultVars>>

Unblock ==
  /\ woken \/ cancelled
  /\ Goes("blocked", IF woken THEN "batches" ELSE "convs")
  /\ UNCHANGED <<queueVars, workVars, windowVars, resultVars>>

\* The batch is written unless the session ended meanwhile: then its seq is lost.
EmitBatch ==
  /\ ~cancelled
  /\ Goes("emit", "batches")
  /\ sent' = Append(sent, [seq |-> next - 1, chat |-> Head(batches).chat, n |-> Head(batches).n])
  /\ batches' = Tail(batches)
  /\ UNCHANGED <<queueVars, part, convs, idle, dropped, windowVars, counts, dones, hdone>>

EmitCancelled ==
  /\ cancelled
  /\ Goes("emit", "convs")
  /\ UNCHANGED <<queueVars, workVars, windowVars, resultVars>>

\* sync_progress {done: false}; then the end, if this was the last part queued.
Progress ==
  /\ Goes("progress", IF cancelled THEN "top" ELSE "last")
  /\ UNCHANGED <<queueVars, workVars, windowVars, resultVars>>

Last ==
  /\ Goes("last", IF part.full /\ hq = <<>> THEN "done" ELSE "top")
  /\ UNCHANGED <<queueVars, workVars, windowVars, resultVars>>

-----------------------------------------------------------------------------
Init ==
  /\ hq = <<>> /\ hsig = FALSE /\ hseen = FALSE /\ hdone = FALSE /\ signalling = 0
  /\ cancelled = FALSE
  /\ pc = "top" /\ part = Null /\ convs = <<>> /\ idle = FALSE /\ batches = <<>>
  /\ counts = [c \in Chats |-> 0]
  /\ next = 1 /\ outstanding = {} /\ woken = FALSE
  /\ sent = <<>> /\ ackedTo = 0 /\ invented = FALSE /\ dones = 0 /\ dropped = FALSE
  /\ received = 0

Select == SelectDone \/ SelectSignal \/ SelectIdle

Worker ==
  \/ Top \/ Pop \/ Arm \/ Select \/ HistoryDone
  \/ DownloadFails \/ Download \/ ConvsEnd \/ Conversation \/ Panic
  \/ BatchesEnd \/ AcquireFails \/ Acquire \/ Block \/ Unblock
  \/ EmitBatch \/ EmitCancelled \/ Progress \/ Last

Next ==
  \/ Worker
  \/ \E p \in Parts : Enqueue(p)
  \/ Signal
  \/ \E q \in AckSeqs : Ack(q)
  \/ Cancel

Spec == Init /\ [][Next]_vars

\* The worker runs, handlers reach their signal, and the client acknowledges
\* the last batch it got.
FairSpec ==
  /\ Spec
  /\ WF_vars(Worker)
  /\ WF_vars(Signal)
  /\ WF_vars(sent # <<>> /\ Ack(Len(sent)))

-----------------------------------------------------------------------------
(* Properties *)

\* The types of the variables.
TypeOK ==
  /\ hq \in Seq(Parts)
  /\ hsig \in BOOLEAN /\ hseen \in BOOLEAN /\ hdone \in BOOLEAN /\ idle \in BOOLEAN
  /\ signalling \in 0 .. MaxParts
  /\ cancelled \in BOOLEAN /\ woken \in BOOLEAN /\ invented \in BOOLEAN /\ dropped \in BOOLEAN
  /\ pc \in {"top", "pop", "arm", "select", "gone", "done", "download", "convs", "batches",
             "blocked", "emit", "progress", "last"}
  /\ part \in Parts \cup {Null}
  /\ convs \in Seq([chat : Chats, n : Nat])
  /\ batches \in Seq([chat : Chats, n : 1 .. MaxBatchMessages])
  /\ counts \in [Chats -> 0 .. MaxPerChat]
  /\ next \in Nat \ {0}
  /\ outstanding \subseteq 1 .. next - 1
  /\ sent \in Seq([seq : Nat \ {0}, chat : Chats, n : 1 .. MaxBatchMessages])
  /\ ackedTo \in 0 .. next - 1
  /\ dones \in 0 .. 1
  /\ received \in 0 .. MaxParts

\* The variables keep their types; the batches on stdout are numbered 1, 2, 3, ...
\* without a gap, across parts, panics and blocked windows; and never more than
\* WindowSize of them are beyond the last one the client's acks have covered, in
\* whatever order it acknowledges and whatever it repeats, as long as it never
\* acknowledges a seq that was not handed out (Window.Acquire and Ack).
WindowHolds ==
  /\ TypeOK
  /\ \A i \in DOMAIN sent : sent[i].seq = i
  /\ ~invented => Len(sent) - ackedTo <= WindowSize

\* The same of a client that also acknowledges what it never got, if "unknown or
\* repeated seqs are ignored" (the comment of Window.Ack, and PROTOCOL.md 6.9).
\* The code releases every batch before such a seq.
UnknownAckIgnored == Len(sent) - ackedTo <= WindowSize

\* The messages of a chat in a sequence of batches, each by its batch and its place in it.
MessagesOf(chat, s) ==
  UNION {{<<i, k>> : k \in 1 .. s[i].n} : i \in {j \in DOMAIN s : s[j].chat = chat}}

Of(chat, s) == Cardinality(MessagesOf(chat, s))

\* All parts together never give the client more than MaxPerChat messages of a
\* chat, and no message that passed the caps is lost: what Caps counted has been
\* sent when the worker rests, unless a panic or the session's end cut a part
\* short (Caps.Filter, Split, the window).
CountsAreSent ==
  \A c \in Chats :
    /\ Of(c, sent) <= counts[c]
    /\ counts[c] <= MaxPerChat
    /\ pc = "select" /\ ~dropped => Of(c, sent) = counts[c]

\* Every part notified is taken up, with the window never stuck: no signal on
\* hsig and no wake-up of Acquire is lost.
QueueDrains == hq # <<>> ~> (hq = <<>> \/ cancelled)

\* A history sync that has begun is reported done, by progress 100 or by the
\* idle timer.
DoneComes == hseen ~> (dones = 1 \/ cancelled)
=============================================================================
