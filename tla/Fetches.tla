------------------------------ MODULE Fetches ------------------------------
(***************************************************************************)
(* The commands that ask WhatsApp for something and send no message:       *)
(* mark_read, fetch_media, set_pin and fetch_avatar.  Each runs on a       *)
(* goroutine of its own (asyncCmd) and they share little: the semaphore of *)
(* fetch_media, the lock and the last query of fetch_avatar, the times of  *)
(* recent set_pins.  All of it must survive a call that fails, a panic in  *)
(* a library and the end of the session.                                   *)
(*                                                                         *)
(* What the checks of a command look at (the account, the chats, the media *)
(* description, the caps) is a choice here; Download has the caps.  Time   *)
(* is the monotonic clock, in ticks.                                       *)
(***************************************************************************)
EXTENDS Integers, Sequences, FiniteSets

CONSTANTS
  NumCmds,         \* bound: how many commands the client sends
  Kinds,           \* which commands the client uses
  MaxFetches,      \* capacity of Bridge.fetchSem
  AvatarInterval,  \* wa.AvatarInterval, in ticks
  MinPinInterval,  \* wa.MinPinInterval
  MaxPinsInWindow, \* wa.MaxPinsInWindow
  PinWindow,       \* wa.PinWindow
  LastTick,        \* bound: the clock goes on from here for a sleeper only
  Null

Cmds == 1 .. NumCmds  \* in the order of their lines on stdin

Commands == {"mark_read", "fetch_media", "set_pin", "fetch_avatar"}

ASSUME FetchesAssumption ==
  /\ NumCmds \in Nat
  /\ Kinds \subseteq Commands
  /\ MaxFetches \in Nat \ {0}
  /\ AvatarInterval \in Nat
  /\ MinPinInterval \in Nat \ {0} /\ MaxPinsInWindow \in Nat \ {0} /\ PinWindow \in Nat
  /\ MinPinInterval <= PinWindow
  /\ LastTick \in Nat
  /\ Null \notin Int /\ Null \notin Commands

VARIABLES
  real,      \* the monotonic clock
  quiesced,  \* Stop has quiesced the writer; no command starts any more
  cancelled, \* the session's context
  pc,        \* where the goroutine of each command is
  kind,      \* which command it is, while it runs
  now,       \* the time it read: set_pin's clock, the end of fetch_avatar's wait
  fetchSem,  \* tokens in Bridge.fetchSem
  picMu,     \* who holds Bridge.picMu
  lastPic,   \* Bridge.lastPic: Null when WhatsApp was not asked yet
  pins,      \* Bridge.pins
  files,     \* commands whose hand-off file is in mediaDir
  replies,   \* the final lines of each command on stdout
  asked,     \* history: when WhatsApp was asked for a picture
  pinned,    \* history: the times of the set_pins allowed, in their order
  overtaken  \* history: a set_pin was checked with a time older than a recorded one

bridgeVars  == <<fetchSem, picMu, lastPic, pins>>
historyVars == <<asked, pinned, overtaken>>
outVars     == <<files, replies>>
vars == <<real, quiesced, cancelled, pc, kind, now, bridgeVars, outVars, historyVars>>

Steps == {"idle", "check", "ask", "clock", "pin", "slot", "download", "lock", "sleep", "query",
          "info", "seal", "leave", "done"}
\* The final lines: an error, ok or an avatar without a picture, and media_ready or an
\* avatar, which name a hand-off file.
Lines == {"error", "ok", "file"}

\* The token of the semaphore and the lock are held from here to the return.
Fetching(c) == kind[c] = "fetch_media" /\ pc[c] \in {"download", "seal", "leave"}
InPic(c)    == kind[c] = "fetch_avatar" /\ pc[c] \in {"sleep", "query", "info", "seal", "leave"}

\* A goroutine that has returned has no locals left.
Goes(c, s) ==
  /\ pc' = [pc EXCEPT ![c] = s]
  /\ kind' = IF s = "done" THEN [kind EXCEPT ![c] = Null] ELSE kind

\* Goroutine c goes from a to b; of its locals nothing changes.
Moves(c, a, b) ==
  /\ pc[c] = a
  /\ Goes(c, b)
  /\ UNCHANGED <<real, quiesced, cancelled, now>>

\* Writer.emit: after Quiesce a line is dropped.
Emit(c, l) == replies' = IF quiesced THEN replies ELSE [replies EXCEPT ![c] = Append(@, l)]

\* At a the command writes its final line.  fetch_media and fetch_avatar then still
\* have their deferred functions to run, if they hold anything.
Answers(c, a, l) ==
  /\ Moves(c, a, IF Fetching(c) \/ InPic(c) THEN "leave" ELSE "done")
  /\ Emit(c, l)
  /\ UNCHANGED <<bridgeVars, historyVars>>

-----------------------------------------------------------------------------
(* Handle, and what the four commands check first *)

Handle(c, k) ==
  /\ ~quiesced
  /\ pc[c] = "idle"
  /\ \A d \in Cmds : d < c => pc[d] # "idle"
  /\ pc' = [pc EXCEPT ![c] = "check"]
  /\ kind' = [kind EXCEPT ![c] = k]
  /\ UNCHANGED <<real, quiesced, cancelled, now, bridgeVars, outVars, historyVars>>

\* Where a command goes on when nothing refuses it.
First == [mark_read |-> "ask", set_pin |-> "clock", fetch_media |-> "slot", fetch_avatar |-> "lock"]

\* Mutant of Check: a refusal returns without fail.
CheckSilent(c) ==
  /\ pc[c] = "check"
  /\ \E s \in {First[kind[c]], "done"} : Moves(c, "check", s)
  /\ UNCHANGED <<bridgeVars, outVars, historyVars>>

\* ready, the chat, the senders of a mark_read; GetMedia, Fetchable and CheckFetch of
\* a fetch_media.
Check(c) ==
  /\ pc[c] = "check"
  /\ \/ Answers(c, "check", "error")
     \/ Moves(c, "check", First[kind[c]]) /\ UNCHANGED <<bridgeVars, replies, historyVars>>
  /\ UNCHANGED files

-----------------------------------------------------------------------------
(* mark_read, set_pin *)

\* setPin reads the clock before pinAllowed takes the lock.
ReadClock(c) ==
  /\ pc[c] = "clock"
  /\ Goes(c, "pin")
  /\ now' = [now EXCEPT ![c] = real]
  /\ UNCHANGED <<real, quiesced, cancelled, bridgeVars, outVars, historyVars>>

\* The set_pins of the window; times ahead of this one are forgotten.  Bridge.pins is
\* in order, every time being appended to earlier ones only, and holds none twice.
Recent(at) == {t \in pins : at - t >= 0 /\ at - t < PinWindow}

\* Mutant of Spare: one pin too many in a window.
SpareOneMore(keep, at) ==
  /\ Cardinality(keep) <= MaxPinsInWindow
  /\ \A t \in keep : at - t >= MinPinInterval

Spare(keep, at) ==
  /\ Cardinality(keep) < MaxPinsInWindow
  /\ \A t \in keep : at - t >= MinPinInterval

\* pinAllowed, under mu
PinAllowed(c) ==
  LET keep == Recent(now[c]) IN
  /\ pc[c] = "pin"
  /\ \/ /\ Spare(keep, now[c])
        /\ Goes(c, "ask")
        /\ pins' = keep \cup {now[c]}
        /\ pinned' = Append(pinned, now[c])
        /\ UNCHANGED replies
     \/ /\ ~Spare(keep, now[c])
        /\ Goes(c, "done")
        /\ pins' = keep
        /\ Emit(c, "error")
        /\ UNCHANGED pinned
  /\ now' = [now EXCEPT ![c] = 0]
  /\ overtaken' = (overtaken \/ \E t \in pins : t > now[c])
  /\ UNCHANGED <<real, quiesced, cancelled, fetchSem, picMu, lastPic, files, asked>>

\* MarkRead or SendAppState returns, at the latest with its timeout.
Ask(c) ==
  /\ \E l \in {"ok", "error"} : Answers(c, "ask", l)
  /\ UNCHANGED files

-----------------------------------------------------------------------------
(* fetch_media *)

\* The select: a token, or the session has ended, and then nothing is written.
TakeSlot(c) ==
  /\ fetchSem < MaxFetches
  /\ Moves(c, "slot", "download")
  /\ fetchSem' = fetchSem + 1
  /\ UNCHANGED <<picMu, lastPic, pins, outVars, historyVars>>

NoSlot(c) ==
  /\ cancelled
  /\ Moves(c, "slot", "done")
  /\ UNCHANGED <<bridgeVars, outVars, historyVars>>

\* The download ends, at the latest with FetchTimeout: it fails or is over the
\* caps, or its bytes go on to Seal.
Download(c) ==
  /\ \/ Answers(c, "download", "error")
     \/ Moves(c, "download", "seal") /\ UNCHANGED <<bridgeVars, replies, historyVars>>
  /\ UNCHANGED files

\* Mutant of Seal: a file that could not be written to the end is left behind.
SealKeepsFile(c) ==
  /\ \E l \in {"error", "file"} : Answers(c, "seal", l)
  /\ files' = files \cup {c}

\* media.Seal: the file is written and named in the final line, or removed again.
Seal(c) ==
  \/ Answers(c, "seal", "error") /\ UNCHANGED files
  \/ Answers(c, "seal", "file") /\ files' = files \cup {c}

-----------------------------------------------------------------------------
(* fetch_avatar *)

\* The rest of the interval since the last query: wait > 0 && wait <= AvatarInterval.
Waits == lastPic # Null /\ AvatarInterval - (real - lastPic) \in 1 .. AvatarInterval

\* picMu.Lock, then the wait is worked out under mu.
LockPic(c) ==
  /\ pc[c] = "lock"
  /\ picMu = Null
  /\ picMu' = c
  /\ Goes(c, IF Waits THEN "sleep" ELSE "query")
  /\ now' = [now EXCEPT ![c] = IF Waits THEN lastPic + AvatarInterval ELSE 0]
  /\ UNCHANGED <<real, quiesced, cancelled, fetchSem, lastPic, pins, outVars, historyVars>>

Sleeps(c, s) ==
  /\ pc[c] = "sleep"
  /\ Goes(c, s)
  /\ now' = [now EXCEPT ![c] = 0]
  /\ UNCHANGED <<real, quiesced, cancelled, bridgeVars, outVars, historyVars>>

\* The timer fires, or the session has ended, and then nothing is written.
Wake(c) ==
  /\ real >= now[c]
  /\ Sleeps(c, "query")

SleepEnds(c) ==
  /\ cancelled
  /\ Sleeps(c, "leave")

\* Mutant of Query: the time of the query is not kept.
QueryForgets(c) ==
  /\ Moves(c, "query", "info")
  /\ asked' = Append(asked, real)
  /\ UNCHANGED <<bridgeVars, outVars, pinned, overtaken>>

\* lastPic is set and WhatsApp is asked.
Query(c) ==
  /\ Moves(c, "query", "info")
  /\ lastPic' = real
  /\ asked' = Append(asked, real)
  /\ UNCHANGED <<fetchSem, picMu, pins, outVars, pinned, overtaken>>

\* GetProfilePictureInfo: hidden, none or unchanged; an error, also of FetchPicture or
\* of what it brought; or a picture for Seal.
Info(c) ==
  /\ \/ \E l \in {"ok", "error"} : Answers(c, "info", l)
     \/ Moves(c, "info", "seal") /\ UNCHANGED <<bridgeVars, replies, historyVars>>
  /\ UNCHANGED files

-----------------------------------------------------------------------------
(* The end of a command *)

\* Mutant of Released: whoever leaves takes a token out.
ReleasedAlways(c) ==
  /\ fetchSem' = fetchSem - 1
  /\ picMu' = IF InPic(c) THEN Null ELSE picMu

\* The deferred functions: <-fetchSem, picMu.Unlock
Released(c) ==
  /\ fetchSem' = IF Fetching(c) THEN fetchSem - 1 ELSE fetchSem
  /\ picMu' = IF InPic(c) THEN Null ELSE picMu

Leave(c) ==
  /\ Moves(c, "leave", "done")
  /\ Released(c)
  /\ UNCHANGED <<lastPic, pins, outVars, historyVars>>

\* Mutant of Panic: the slot is given back at the end of fetchMedia, not deferred.
PanicKeepsSlot(c) ==
  /\ \E s \in {"check", "ask", "download", "info", "seal"} : Moves(c, s, "done")
  /\ Emit(c, "error")
  /\ UNCHANGED <<bridgeVars, files, historyVars>>

\* A panic in a call of a library or the store: the deferred functions run, then
\* asyncCmd's fail(internal).
Panic(c) ==
  /\ \E s \in {"check", "ask", "download", "info", "seal"} : Moves(c, s, "done")
  /\ Released(c)
  /\ Emit(c, "error")
  /\ UNCHANGED <<lastPic, pins, files, historyVars>>

-----------------------------------------------------------------------------
(* The session *)

\* Stop begins, and later cancels; a logout cancels before Stop begins.
Quiesce ==
  /\ ~quiesced
  /\ quiesced' = TRUE
  /\ UNCHANGED <<real, cancelled, pc, kind, now, bridgeVars, outVars, historyVars>>

Cancel ==
  /\ ~cancelled
  /\ cancelled' = TRUE
  /\ UNCHANGED <<real, quiesced, pc, kind, now, bridgeVars, outVars, historyVars>>

Tick ==
  /\ real < LastTick \/ \E c \in Cmds : pc[c] = "sleep" /\ real < now[c]
  /\ real' = real + 1
  /\ UNCHANGED <<quiesced, cancelled, pc, kind, now, bridgeVars, outVars, historyVars>>

Init ==
  /\ real = 0 /\ quiesced = FALSE /\ cancelled = FALSE
  /\ pc = [c \in Cmds |-> "idle"]
  /\ kind = [c \in Cmds |-> Null]
  /\ now = [c \in Cmds |-> 0]
  /\ fetchSem = 0 /\ picMu = Null /\ lastPic = Null /\ pins = {}
  /\ files = {} /\ replies = [c \in Cmds |-> <<>>]
  /\ asked = <<>> /\ pinned = <<>> /\ overtaken = FALSE

\* The steps of a command that a panic does not replace.
Step(c) ==
  \/ Check(c) \/ ReadClock(c) \/ PinAllowed(c) \/ Ask(c)
  \/ TakeSlot(c) \/ NoSlot(c) \/ Download(c) \/ Seal(c)
  \/ LockPic(c) \/ Wake(c) \/ SleepEnds(c) \/ Query(c) \/ Info(c)
  \/ Leave(c)

Next ==
  \/ \E c \in Cmds, k \in Kinds : Handle(c, k)
  \/ \E c \in Cmds : Step(c) \/ Panic(c)
  \/ Quiesce \/ Cancel \/ Tick

Spec == Init /\ [][Next]_vars

\* A goroutine runs on, every call to WhatsApp has a timeout, and time passes.
FairSpec == Spec /\ WF_vars(Tick) /\ \A c \in Cmds : WF_vars(Step(c))

-----------------------------------------------------------------------------
(* Properties *)

\* The types of the variables.
TypeOK ==
  /\ real \in Nat /\ quiesced \in BOOLEAN /\ cancelled \in BOOLEAN
  /\ pc \in [Cmds -> Steps]
  /\ kind \in [Cmds -> Commands \cup {Null}]
  /\ \A c \in Cmds : pc[c] \notin {"idle", "done"} => kind[c] \in Commands
  /\ now \in [Cmds -> Int]
  /\ fetchSem \in 0 .. MaxFetches
  /\ picMu \in Cmds \cup {Null}
  /\ lastPic \in Nat \cup {Null}
  /\ pins \subseteq Int
  /\ files \subseteq Cmds
  /\ replies \in [Cmds -> Seq(Lines)]
  /\ asked \in Seq(Nat) /\ pinned \in Seq(Int)
  /\ overtaken \in BOOLEAN

\* The semaphore holds one token for every download that runs, and no other, and
\* picMu is held exactly by the fetch_avatar in its section: no refusal, failure,
\* panic or cancelled wait leaks one or gives one back twice (fetchMedia,
\* fetchAvatar and their deferred functions).
SlotsHeld ==
  /\ fetchSem = Cardinality({c \in Cmds : Fetching(c)})
  /\ \A c \in Cmds : InPic(c) <=> picMu = c

\* WhatsApp is asked for pictures at most once in AvatarInterval, however many
\* fetch_avatars wait and however they end (fetchAvatar; PROTOCOL.md 6.13).
AvatarPaced ==
  \A i, j \in DOMAIN asked : i < j => asked[j] - asked[i] >= AvatarInterval

\* At most MaxPinsInWindow set_pins in any PinWindow and MinPinInterval between
\* two, as long as no goroutine overtook another between reading the clock and
\* taking the lock: pinAllowed forgets times ahead of its own (PROTOCOL.md 6.12).
PinsLimited ==
  ~overtaken =>
    \A i, j \in DOMAIN pinned :
      /\ j - i = 1 => pinned[j] - pinned[i] >= MinPinInterval
      /\ j - i = MaxPinsInWindow => pinned[j] - pinned[i] >= PinWindow

\* A command gets at most one final line, a line that names a hand-off file comes
\* with the file, and no file stays that the client was not told of, unless Stop
\* had quiesced the writer: CleanStale is for those (Seal, Writer.emit).
FilesAnnounced ==
  \A c \in Cmds :
    /\ Len(replies[c]) <= 1
    /\ \A i \in DOMAIN replies[c] : replies[c][i] = "file" => c \in files
    /\ c \in files /\ pc[c] = "done" /\ ~quiesced => replies[c] = <<"file">>

\* Every command that came ends, also one that waits for a token or the lock when the
\* session is cancelled (Stop waits for them), and with its final line unless the
\* session ended first.
CommandsEnd ==
  <>[](\A c \in Cmds :
         pc[c] = "idle" \/ (pc[c] = "done" /\ (replies[c] # <<>> \/ quiesced \/ cancelled)))
=============================================================================
