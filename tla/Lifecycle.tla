----------------------------- MODULE Lifecycle -----------------------------
(***************************************************************************)
(* The life of one bridge process: run's loop over stdin, the init timer   *)
(* and the fatal channel; init; the goroutines Stop waits for (goSafe);    *)
(* whatsmeow's event handlers, which it does not wait for; logout, by      *)
(* command or by WhatsApp; the 405 retry; and Stop itself, step by step,   *)
(* down to the exit code.                                                  *)
(*                                                                         *)
(* Every step below is one critical section of Bridge.mu, Writer.mu or     *)
(* Store.mu, or one call into the client: between two of them any other    *)
(* goroutine may run.  `out` holds the lines of stdout that the protocol   *)
(* orders; replies of the commands other than logout and shutdown are the  *)
(* single line "reply".                                                    *)
(***************************************************************************)
EXTENDS Integers, Sequences, FiniteSets

CONSTANTS
  Events,       \* which whatsmeow events WhatsApp may send
  InitOutcomes, \* what opening the store may give
  WaitExpires,  \* whether a goroutine may outlive Stop's wait of 1.5 s
  MaxCommands,  \* bound: commands on stdin other than shutdown
  MaxEvents,    \* bound: events of whatsmeow
  Null

\* Goroutines started with goSafe: Stop's WaitGroup counts them.  The bound of
\* this model is one of each at a time.
Workers == {"history", "connect", "logout", "command", "remote", "refresh"}

\* onEvent, one goroutine of whatsmeow per kind of event.
Handlers == {"Connected", "Disconnected", "StreamReplaced", "LoggedOut", "ClientOutdated"}

Jobs == Workers \cup Handlers

\* What Open may report: a key that does not fit the file, another process with
\* the lock, or any other error.
OpenErrors == {"store_key_invalid", "store_locked", "store_io"}

ASSUME LifecycleAssumption ==
  /\ Events \subseteq Handlers
  /\ InitOutcomes \subseteq OpenErrors \cup {"ok"}
  /\ WaitExpires \in BOOLEAN
  /\ MaxCommands \in Nat
  /\ MaxEvents \in Nat
  /\ Null \notin {"user", "remote"}

VARIABLES
  main,      \* where run, and Stop when it runs, is
  why,       \* what ended the loop
  inited,    \* Bridge.inited (and Bridge.sess is set)
  paired,    \* the account of the client is not empty
  link,      \* the client's socket: down, dialing (it redials by itself) or up
  cancelled, \* the session's context
  state,     \* Bridge.state
  stopped,   \* Bridge.stopped
  outdated,  \* Bridge.outdated
  loggedOut, \* Bridge.loggedOut: Null, or who asked for the logout
  lo,        \* the value of it that Stop read
  fatal,     \* the channel Bridge.fatal, of capacity 1
  quiesced,  \* Writer.quiesced
  store,     \* the store's files and handle
  at,        \* where each goroutine is; "idle" when it does not run
  out,       \* the lines written to stdout
  mark,      \* history: Len(out) when the writer was quiesced
  expired,   \* history: Stop's wait ended with a goroutine still running
  commands,  \* commands read
  events,    \* events received
  exitCode   \* the code run returns (Null before)

vars == <<main, why, inited, paired, link, cancelled, state, stopped, outdated, loggedOut,
          lo, fatal, quiesced, store, at, out, mark, expired, commands, events, exitCode>>

mainVars   == <<main, why, lo, mark, expired, exitCode>>
initVars   == <<inited, paired>>
bridgeVars == <<state, stopped, outdated, loggedOut>>
linkVars   == <<link, cancelled>>
countVars  == <<commands, events>>

-----------------------------------------------------------------------------
(* Lines of stdout *)

Status(s)  == <<"status", s>>
Fatal(c)   == <<"fatal", c>>
Line(l)    == <<l, "">>
States     == {"unpaired", "connecting", "connected", "reconnecting", "stopped"}
FatalExit  == [store_key_invalid |-> 3, store_locked |-> 4, client_outdated |-> 5]
ExitNoInit == 6
ExitLoggedOut == 7
Lines == {Status(s) : s \in States} \cup {Fatal(c) : c \in DOMAIN FatalExit}
           \cup {Line(l) : l \in {"reply", "signal", "store_io", "logged_out", "ok_logout", "ok_shutdown"}}

\* Mutant of Emit: Quiesce is not looked at.
EmitAlways(l) == Append(out, l)

\* Bridge.emit: the line is dropped once the writer is quiesced.
Emit(l) == IF quiesced THEN out ELSE Append(out, l)

\* Bridge.exit: the first request wins.
Exit(c) == IF fatal = <<>> THEN <<c>> ELSE fatal

\* goSafe: after Stop has begun it starts nothing.
Spawn(procs, j) == IF stopped THEN procs ELSE [procs EXCEPT ![j] = "start"]

-----------------------------------------------------------------------------
(* run: the loop *)

\* A line of stdin.
Read == /\ main = "select"
        /\ commands < MaxCommands
        /\ commands' = commands + 1

\* init when the bridge is initialized, or another command when it is not.
Refused ==
  /\ Read
  /\ out' = Emit(Line("reply"))
  /\ UNCHANGED <<mainVars, initVars, bridgeVars, linkVars, fatal, quiesced, store, at, events>>

\* doInit fails; store_io leaves the bridge waiting for another init.
InitFails ==
  /\ Read
  /\ ~inited
  /\ \E c \in InitOutcomes \cap OpenErrors :
       IF c \in DOMAIN FatalExit
         THEN out' = Emit(Fatal(c)) /\ fatal' = Exit(FatalExit[c])
         ELSE out' = Emit(Line("reply")) /\ UNCHANGED fatal
  /\ UNCHANGED <<mainVars, initVars, bridgeVars, linkVars, quiesced, store, at, events>>

\* doInit succeeds: install starts the history worker; a linked account is
\* connected at once.
InitDone ==
  /\ Read
  /\ ~inited
  /\ "ok" \in InitOutcomes
  /\ inited' = TRUE
  /\ paired' \in BOOLEAN
  /\ store' = "open"
  /\ state' = IF paired' THEN "connecting" ELSE "unpaired"
  /\ out' = Append(Emit(Line("reply")), Status(state'))
  /\ at' = LET running == Spawn(at, "history")
           IN  IF paired' THEN Spawn(running, "connect") ELSE running
  /\ UNCHANGED <<mainVars, stopped, outdated, loggedOut, linkVars, fatal, quiesced, events>>

\* Handle starts the goroutine of a command.
StartCommand(j) ==
  /\ Read
  /\ inited
  /\ at[j] = "idle"
  /\ at' = Spawn(at, j)
  /\ UNCHANGED <<mainVars, initVars, bridgeVars, linkVars, fatal, quiesced, store, out, events>>

\* The loop ends (shutdown, stdin EOF, the init timer, or an exit code from the
\* fatal channel) and Stop begins: from now on goSafe starts nothing.
EndLoop(w) ==
  /\ main = "select"
  /\ why' = w
  /\ stopped' = TRUE
  /\ main' = "quiesce"
  /\ UNCHANGED <<initVars, state, outdated, loggedOut, linkVars, lo, quiesced, store, at, out,
                 mark, expired, countVars>>

Shutdown == EndLoop("shutdown") /\ UNCHANGED <<fatal, exitCode>>
StdinEOF == EndLoop("eof") /\ UNCHANGED <<fatal, exitCode>>

\* Mutant of NoInit: the timer ends an initialized bridge too.
NoInitAnyway == EndLoop("noinit") /\ UNCHANGED <<fatal, exitCode>>

NoInit   == ~inited /\ EndLoop("noinit") /\ UNCHANGED <<fatal, exitCode>>
Ending   == fatal # <<>> /\ EndLoop("fatal") /\ exitCode' = Head(fatal) /\ fatal' = <<>>

-----------------------------------------------------------------------------
(* Stop *)

StopStep(a, b) ==
  /\ main = a
  /\ main' = b
  /\ UNCHANGED <<why, initVars, stopped, outdated, loggedOut, fatal, at, countVars>>

Quiesce ==
  /\ StopStep("quiesce", "cancel")
  /\ quiesced' = TRUE
  /\ mark' = Len(out)
  /\ UNCHANGED <<linkVars, state, lo, store, out, expired, exitCode>>

Cancel ==
  /\ StopStep("cancel", "wait")
  /\ cancelled' = TRUE
  /\ link' = "down"
  /\ UNCHANGED <<state, lo, quiesced, store, out, mark, expired, exitCode>>

WorkersDone == \A j \in Workers : at[j] = "idle"

\* Mutant of Wait: no timeout.
WaitForever ==
  /\ StopStep("wait", "read")
  /\ WorkersDone
  /\ expired' = FALSE
  /\ UNCHANGED <<linkVars, state, lo, quiesced, store, out, mark, exitCode>>

\* Every goroutine has finished, or the wait expires.
Wait ==
  /\ StopStep("wait", "read")
  /\ WorkersDone \/ WaitExpires
  /\ expired' = ~WorkersDone
  /\ UNCHANGED <<linkVars, state, lo, quiesced, store, out, mark, exitCode>>

\* Mutant of ReadLogout: a logout recorded during the wait is not looked for.
ReadLogoutEarly ==
  /\ StopStep("read", "close")
  /\ UNCHANGED <<linkVars, state, lo, quiesced, store, out, mark, expired, exitCode>>

\* Under mu, after the wait.
ReadLogout ==
  /\ StopStep("read", "close")
  /\ lo' = loggedOut
  /\ UNCHANGED <<linkVars, state, quiesced, store, out, mark, expired, exitCode>>

\* Mutant of StoreFree: Close and Wipe do not take the lock.
StoreFreeAlways == TRUE

\* Store.mu is held for reading by every method call in progress.
StoreFree == \A j \in Jobs : at[j] # "using"

\* Wipe after a logout (it may fail to delete the files), else Close.
CloseStore ==
  /\ StopStep("close", "report")
  /\ StoreFree
  /\ store' \in CASE ~inited -> {store}
                   [] inited /\ lo = Null -> {"closed"}
                   [] OTHER -> {"deleted", "undeleted"}
  /\ out' = out \o (IF store' = "undeleted" THEN <<Line("store_io")>> ELSE <<>>)
                \o (IF inited /\ lo # Null THEN <<Line("logged_out")>> ELSE <<>>)
  /\ UNCHANGED <<linkVars, state, lo, quiesced, mark, expired, exitCode>>

\* changeState: the line is written if the state changes.
StoppedLine == IF inited /\ state # "stopped" THEN <<Status("stopped")>> ELSE <<>>

\* The last lines: the status, and the replies to logout and shutdown.
Report ==
  /\ StopStep("report", "code")
  /\ state' = IF inited THEN "stopped" ELSE state
  /\ out' = out \o StoppedLine
                \o (IF lo = "user" THEN <<Line("ok_logout")>> ELSE <<>>)
                \o (IF why = "shutdown" THEN <<Line("ok_shutdown")>> ELSE <<>>)
  /\ UNCHANGED <<linkVars, lo, quiesced, store, mark, expired, exitCode>>

\* stopCode: LoggedOut reads the flag again.
StopCode == IF loggedOut # Null THEN ExitLoggedOut ELSE 0

ExitProcess ==
  /\ StopStep("code", "exited")
  /\ exitCode' = CASE why = "fatal" -> exitCode
                   [] why = "noinit" -> ExitNoInit
                   [] OTHER -> StopCode
  /\ UNCHANGED <<linkVars, state, lo, quiesced, store, out, mark, expired>>

-----------------------------------------------------------------------------
(* Goroutines *)

\* Goroutine j goes from a to b.
Step(j, a, b) ==
  /\ main # "exited"
  /\ at[j] = a
  /\ at' = [at EXCEPT ![j] = b]
  /\ UNCHANGED <<mainVars, initVars, stopped, quiesced, store, countVars>>

\* ... and changes nothing else, or writes one line.
Moves(j, a, b) ==
  Step(j, a, b) /\ UNCHANGED <<state, outdated, loggedOut, linkVars, fatal, out>>
Writes(j, a, b, l) ==
  Step(j, a, b) /\ out' = Emit(l) /\ UNCHANGED <<state, outdated, loggedOut, linkVars, fatal>>

\* ... and ends by starting goroutine k.
Starts(j, a, k) ==
  /\ main # "exited"
  /\ at[j] = a
  /\ at[k] = "idle"
  /\ at' = Spawn([at EXCEPT ![j] = "idle"], k)
  /\ UNCHANGED <<mainVars, initVars, bridgeVars, linkVars, fatal, quiesced, store, out, countVars>>

\* The state each goroutine sets with changeState.
Target == [connect |-> "reconnecting", refresh |-> "connecting", Connected |-> "connected",
           Disconnected |-> "reconnecting", StreamReplaced |-> "stopped"]

\* changeState, under mu; and its line, written after the unlock.
SetState(j) ==
  /\ Step(j, "set", IF state # Target[j] THEN "status" ELSE "end")
  /\ state' = Target[j]
  /\ UNCHANGED <<outdated, loggedOut, linkVars, fatal, out>>

EmitStatus(j) == Writes(j, "status", "end", Status(Target[j]))

\* The goroutine ends; connect, called after the refresh, starts one for Connect.
End(j) == IF j = "refresh" THEN Starts(j, "end", "connect") ELSE Moves(j, "end", "idle")

\* connect: Connect succeeds, or fails and the session still runs.
Connect ==
  \/ /\ Step("connect", "start", "idle")
     /\ link' = "dialing"
     /\ UNCHANGED <<state, outdated, loggedOut, cancelled, fatal, out>>
  \/ Moves("connect", "start", IF cancelled THEN "idle" ELSE "set")

\* historyLoop: a turn of the worker unless the session ended.
HistoryTurn == Moves("history", "start", IF cancelled THEN "idle" ELSE "work")

\* A command that needs the store, or is refused before.
CommandStart == \E next \in {"work", "reply"} : Moves("command", "start", next)

\* The worker takes its next turn; a command replies.
AfterStore(j) == IF j = "history" THEN "start" ELSE "reply"

\* Store.use: the call runs, or gets ErrClosed.
UseStore(j) == Moves(j, "work", IF store = "open" THEN "using" ELSE AfterStore(j))

StoreDone(j) == Moves(j, "using", AfterStore(j))

Reply(j) == Writes(j, "reply", "idle", Line("reply"))

\* logout: not paired or not connected, else ask WhatsApp.
AskLogout ==
  \/ Moves("logout", "start", "reply")
  \/ paired /\ link = "up" /\ ~cancelled /\ Moves("logout", "start", "asked")

\* WhatsApp confirms, possibly while Stop runs, or the call fails.
Answer == \E next \in {"record", "reply"} : Moves("logout", "asked", next)

\* loggedOutBy, under mu: the first logout is recorded.
Record(j) ==
  /\ Step(j, IF j = "remote" THEN "start" ELSE "record", IF loggedOut = Null THEN "cancel" ELSE "idle")
  /\ loggedOut' = CASE loggedOut # Null -> loggedOut
                    [] loggedOut = Null /\ j = "logout" -> "user"
                    [] OTHER -> "remote"
  /\ UNCHANGED <<state, outdated, linkVars, fatal, out>>

CancelSession(j) ==
  /\ Step(j, "cancel", "exit")
  /\ cancelled' = TRUE
  /\ link' = "down"
  /\ UNCHANGED <<state, outdated, loggedOut, fatal, out>>

RequestExit(j) ==
  /\ Step(j, "exit", "idle")
  /\ fatal' = Exit(IF j \in {"logout", "remote"} THEN ExitLoggedOut ELSE FatalExit.client_outdated)
  /\ UNCHANGED <<state, outdated, loggedOut, linkVars, out>>

\* clientOutdated's goroutine: refresh the version, then reconnect a linked account.
Refresh ==
  \/ Moves("refresh", "start", "signal")
  \/ /\ paired
     /\ Step("refresh", "start", "set")
     /\ link' = "down"
     /\ UNCHANGED <<state, outdated, loggedOut, cancelled, fatal, out>>
  \/ ~paired /\ Moves("refresh", "start", "idle")

\* outdatedFatal: the signal, then the fatal error, then the exit code.
OutdatedSignal(j) == Writes(j, "signal", "fatal", Line("signal"))
OutdatedFatal(j)  == Writes(j, "fatal", "exit", Fatal("client_outdated"))

-----------------------------------------------------------------------------
(* onEvent *)

\* The client: in which states of its socket an event happens, and where it leads.
Before == [Connected |-> {"dialing"}, Disconnected |-> {"up"}, StreamReplaced |-> {"dialing", "up"},
           LoggedOut |-> {"dialing", "up"}, ClientOutdated |-> {"dialing"}]
Leads  == [Connected |-> "up", Disconnected |-> "dialing", StreamReplaced |-> "down",
           LoggedOut |-> "down", ClientOutdated |-> "down"]

\* whatsmeow calls the handler on a goroutine of its own.
Dispatch(h) ==
  /\ main # "exited"
  /\ link \in Before[h]
  /\ link' = Leads[h]
  /\ events < MaxEvents
  /\ events' = events + 1
  /\ at[h] = "idle"
  /\ at' = [at EXCEPT ![h] = "enter"]
  /\ UNCHANGED <<mainVars, initVars, bridgeVars, cancelled, fatal, quiesced, store, out, commands>>

\* The check at the top of onEvent, and the signal of StreamReplaced.
OnEvent(h) ==
  \/ cancelled /\ Moves(h, "enter", "idle")
  \/ ~cancelled /\ h \in {"LoggedOut", "ClientOutdated"} /\ Moves(h, "enter", "handle")
  \/ ~cancelled /\ h \in {"Connected", "Disconnected"} /\ Moves(h, "enter", "set")
  \/ ~cancelled /\ h = "StreamReplaced" /\ Writes(h, "enter", "set", Line("signal"))

\* A remote logout is recorded by a goroutine that Stop waits for.
OnLoggedOut == Starts("LoggedOut", "handle", "remote")

\* clientOutdated: count, under mu; the first time refresh, then fail.
OnOutdated ==
  /\ Step("ClientOutdated", "handle", IF outdated > 0 THEN "signal" ELSE "retry")
  /\ outdated' = outdated + 1
  /\ UNCHANGED <<state, loggedOut, linkVars, fatal, out>>

StartRefresh == Starts("ClientOutdated", "retry", "refresh")

-----------------------------------------------------------------------------
Init ==
  /\ main = "select"
  /\ why = Null
  /\ inited = FALSE
  /\ paired = FALSE
  /\ link = "down"
  /\ cancelled = FALSE
  /\ state = ""
  /\ stopped = FALSE
  /\ outdated = 0
  /\ loggedOut = Null
  /\ lo = Null
  /\ fatal = <<>>
  /\ quiesced = FALSE
  /\ store = "absent"
  /\ at = [j \in Jobs |-> "idle"]
  /\ out = <<>>
  /\ mark = 0
  /\ expired = FALSE
  /\ commands = 0
  /\ events = 0
  /\ exitCode = Null

Loop == Refused \/ InitFails \/ InitDone \/ (\E j \in {"logout", "command"} : StartCommand(j))
          \/ Shutdown \/ StdinEOF \/ NoInit

Stop == Quiesce \/ Cancel \/ Wait \/ ReadLogout \/ CloseStore \/ Report \/ ExitProcess

Goroutine(j) ==
  \/ j \in DOMAIN Target /\ (SetState(j) \/ EmitStatus(j) \/ End(j))
  \/ j = "connect" /\ Connect
  \/ j = "history" /\ HistoryTurn
  \/ j = "command" /\ CommandStart
  \/ j = "logout" /\ (AskLogout \/ Answer)
  \/ j \in {"history", "command"} /\ (UseStore(j) \/ StoreDone(j))
  \/ j \in {"command", "logout"} /\ Reply(j)
  \/ j \in {"logout", "remote"} /\ (Record(j) \/ CancelSession(j))
  \/ j = "refresh" /\ Refresh
  \/ j \in {"refresh", "ClientOutdated"} /\ (OutdatedSignal(j) \/ OutdatedFatal(j))
  \/ j \in {"logout", "remote", "refresh", "ClientOutdated"} /\ RequestExit(j)
  \/ j \in Handlers /\ OnEvent(j)
  \/ j = "LoggedOut" /\ OnLoggedOut
  \/ j = "ClientOutdated" /\ (OnOutdated \/ StartRefresh)

\* The process has exited.
Exited == main = "exited" /\ UNCHANGED vars

Next ==
  \/ Loop
  \/ Ending
  \/ Stop
  \/ \E j \in Jobs : Goroutine(j)
  \/ \E h \in Events : Dispatch(h)
  \/ Exited

Spec == Init /\ [][Next]_vars

\* select serves the fatal channel when it is ready, Stop takes its steps, a
\* method call of the store returns, and the goroutine that records a logout
\* runs on.  Nothing else need ever move: not WhatsApp, the client or stdin, and
\* not a command in a call that never returns.
FairSpec ==
  /\ Spec
  /\ WF_vars(Ending)
  /\ WF_vars(Stop)
  /\ \A j \in {"history", "command"} : WF_vars(StoreDone(j))
  /\ \A j \in {"logout", "remote"} : WF_vars(CancelSession(j) \/ RequestExit(j))

-----------------------------------------------------------------------------
(* Properties *)

Places == {"idle", "start", "work", "using", "reply", "asked", "record", "cancel", "exit",
           "set", "status", "end", "signal", "fatal", "enter", "handle", "retry"}

\* The types of the variables.
TypeOK ==
  /\ main \in {"select", "quiesce", "cancel", "wait", "read", "close", "report", "code", "exited"}
  /\ why \in {Null, "shutdown", "eof", "noinit", "fatal"}
  /\ inited \in BOOLEAN /\ paired \in BOOLEAN /\ link \in {"down", "dialing", "up"} /\ cancelled \in BOOLEAN
  /\ state \in States \cup {""}
  /\ stopped \in BOOLEAN /\ quiesced \in BOOLEAN /\ expired \in BOOLEAN
  /\ outdated \in 0 .. MaxEvents
  /\ loggedOut \in {Null, "user", "remote"} /\ lo \in {Null, "user", "remote"}
  /\ fatal \in {<<>>} \cup {<<c>> : c \in {3, 4, 5, 7}}
  /\ store \in {"absent", "open", "closed", "deleted", "undeleted"}
  /\ at \in [Jobs -> Places]
  /\ out \in Seq(Lines)
  /\ mark \in 0 .. Len(out)
  /\ commands \in 0 .. MaxCommands /\ events \in 0 .. MaxEvents
  /\ exitCode \in {Null, 0, 3, 4, 5, 6, 7}

Wrote(l) == \E i \in DOMAIN out : out[i] = l

\* The order of the final lines.
FinalLines == <<Line("store_io"), Line("logged_out"), Status("stopped"), Line("ok_logout"),
                Line("ok_shutdown")>>

\* Once Stop has quiesced the writer, stdout carries nothing but Stop's own
\* final lines, each at most once and in the order of PROTOCOL.md 6.11, whatever
\* the goroutines and handlers that still run try to write (Writer.emit,
\* Bridge.Stop).
FinalOrder ==
  quiesced =>
    \A i \in mark + 1 .. Len(out) :
      \E r \in DOMAIN FinalLines :
        /\ out[i] = FinalLines[r]
        /\ i > mark + 1 => \E q \in 1 .. r - 1 : out[i - 1] = FinalLines[q]

\* The variables keep their types; no method call of the store runs on a closed or
\* deleted database, even when a goroutine outlived Stop's wait (Store.use, Close,
\* Wipe); and unless the wait expired, the store is closed or deleted only when
\* every goroutine has finished, and none starts later (goSafe and Stop).
StoreGuarded ==
  /\ TypeOK
  /\ (\E j \in Jobs : at[j] = "using") => store = "open"
  /\ store \in {"closed", "deleted", "undeleted"} /\ ~expired => WorkersDone

\* A logout that Stop saw is carried through before the process exits: the store is
\* deleted (or Stop says that it could not), logged_out and the command's ok are
\* written, and the code is 7 or that of an earlier fatal error; and Stop sees every
\* recorded logout, unless its wait expired.  One recorded after such a wait may
\* find the store only closed although the code is 7 (Stop, loggedOutBy, stopCode).
LogoutCarriedOut ==
  main = "exited" =>
    /\ lo # Null =>
         /\ store \in {"deleted", "undeleted"}
         /\ store = "undeleted" => Wrote(Line("store_io"))
         /\ Wrote(Line("logged_out"))
         /\ lo = "user" => Wrote(Line("ok_logout"))
         /\ why # "fatal" => exitCode = ExitLoggedOut
    /\ loggedOut # Null /\ ~expired => lo = loggedOut

\* What the exit code says is true, whichever of stdin, the init timer, the fatal
\* channel and a logout came first: 6 means that init never succeeded, 7 that a
\* logout was recorded, 3, 4 and 5 that the fatal error of that code was
\* written, and 0 none of these but a fatal error that lost to shutdown or EOF
\* (run's select, Bridge.exit, stopCode).
ExitCodeIsTrue ==
  main = "exited" =>
    /\ exitCode = ExitNoInit => ~inited
    /\ exitCode = ExitLoggedOut => loggedOut # Null
    /\ exitCode \in {3, 4, 5} => \E c \in DOMAIN FatalExit : FatalExit[c] = exitCode /\ Wrote(Fatal(c))
    /\ exitCode = 0 => loggedOut = Null /\ why \in {"shutdown", "eof"}

LastStatus ==
  LET written == {i \in DOMAIN out : out[i][1] = "status"}
  IN  IF written = {} THEN "" ELSE out[CHOOSE i \in written : \A k \in written : k <= i][2]

\* With no status line on its way, the last one written is the bridge's state:
\* "the connection state, sent on every change" (changeState, PROTOCOL.md 5.3).
StatusIsCurrent ==
  inited /\ ~stopped /\ (\A j \in Jobs : at[j] # "status") => LastStatus = state

\* Whatever ended the loop, the process exits (Stop never waits for ever), also with
\* goroutines that never finish; and a recorded logout ends it by itself, without a
\* shutdown command (loggedOutBy's exit request, served by run's select).
ProcessEnds == (main # "select" \/ loggedOut # Null) ~> main = "exited"
=============================================================================
