-------------------------- MODULE LifecycleProofs --------------------------
(***************************************************************************)
(* Proofs about Lifecycle: its types, the store behind Stop, the order of  *)
(* the last lines, a logout that is carried out, and the meaning of the    *)
(* exit code, for every number of commands and events and every set of     *)
(* events, outcomes of init and waits.                                     *)
(***************************************************************************)
EXTENDS Lifecycle, TLAPS

Mains      == {"select", "quiesce", "cancel", "wait", "read", "close", "report", "code", "exited"}
AfterRead  == {"close", "report", "code", "exited"}
AfterClose == {"report", "code", "exited"}
Codes      == {3, 4, 5, 7}
Whys       == {Null, "shutdown", "eof", "noinit", "fatal"}
Links      == {"down", "dialing", "up"}
Logouts    == {Null, "user", "remote"}
Stores     == {"absent", "open", "closed", "deleted", "undeleted"}
ExitCodes  == {Null, 0, 3, 4, 5, 6, 7}
BridgeStates == States \cup {""}

\* A ClientOutdated that was received and not yet counted.
Uncounted == IF at["ClientOutdated"] \in {"enter", "handle"} THEN 1 ELSE 0

TypeInv == TypeOK /\ outdated + Uncounted <= events

\* Where Stop is, and what is so before init.
ControlInv ==
  /\ stopped <=> main # "select"
  /\ quiesced <=> main \notin {"select", "quiesce"}
  /\ main # "select" => why \in {"shutdown", "eof", "noinit", "fatal"}
  /\ main # "select" /\ why = "noinit" => ~inited
  /\ ~inited => link = "down" /\ store = "absent" /\ loggedOut = Null /\ lo = Null
  /\ ~inited => \A j \in Jobs : at[j] = "idle"

\* The store is open until Stop closes or deletes it, which waits for its users.
StoreInv ==
  /\ \A j \in Jobs : at[j] = "using" => store = "open"
  /\ store \in {"closed", "deleted", "undeleted"} => main \in AfterClose
  /\ inited /\ main \in AfterClose => store \in IF lo = Null THEN {"closed"} ELSE {"deleted", "undeleted"}

\* Unless the wait expired, no goroutine that could record a logout runs behind it.
WaitInv ==
  /\ main \in {"read"} \cup AfterRead /\ ~expired => WorkersDone
  /\ main \in AfterRead /\ ~expired => lo = loggedOut

-----------------------------------------------------------------------------
(* Lines *)

\* A line more on stdout; nothing is ever taken away.
LEMMA EmitLine ==
  ASSUME TypeOK, NEW l \in Lines
  PROVE  /\ Emit(l) \in Seq(Lines)
         /\ Len(Emit(l)) >= Len(out)
         /\ \A i \in DOMAIN out : i \in DOMAIN Emit(l) /\ Emit(l)[i] = out[i]
         /\ ~quiesced => \E i \in DOMAIN Emit(l) : Emit(l)[i] = l
         /\ quiesced => Emit(l) = out
<1>1. out \in Seq(Lines)
  BY DEF TypeOK
<1>2. CASE quiesced
  BY <1>1, <1>2 DEF Emit
<1>3. CASE ~quiesced
  <2>1. Emit(l) = Append(out, l)
    BY <1>3 DEF Emit
  <2>2. Len(out) + 1 \in DOMAIN Append(out, l) /\ Append(out, l)[Len(out) + 1] = l
    BY <1>1
  <2> QED
    BY <1>1, <1>3, <2>1, <2>2
<1> QED
  BY <1>2, <1>3

\* The lines of the bridge are lines.
LEMMA LineTypes ==
  /\ \A s \in States : Status(s) \in Lines
  /\ Fatal("client_outdated") \in Lines /\ Fatal("store_key_invalid") \in Lines
  /\ Fatal("store_locked") \in Lines
  /\ Line("reply") \in Lines /\ Line("signal") \in Lines /\ Line("store_io") \in Lines
  /\ Line("logged_out") \in Lines /\ Line("ok_logout") \in Lines /\ Line("ok_shutdown") \in Lines
BY DEF Lines, FatalExit

\* A line that is written or not.
LEMMA MaybeLine ==
  ASSUME NEW l \in Lines, NEW s \in {<<>>, <<l>>}
  PROVE  s \in Seq(Lines)
<1>1. <<l>> \in Seq(Lines) /\ <<>> \in Seq(Lines)
  OBVIOUS
<1>2. s = <<>> \/ s = <<l>>
  BY Zenon
<1> QED
  BY <1>1, <1>2, Zenon

\* Every goroutine that changes the state changes it to a state.
LEMMA TargetType ==
  /\ DOMAIN Target = {"connect", "refresh", "Connected", "Disconnected", "StreamReplaced"}
  /\ \A j \in DOMAIN Target : Target[j] \in States
<1>1. DOMAIN Target = {"connect", "refresh", "Connected", "Disconnected", "StreamReplaced"}
  BY DEF Target
<1>2. /\ Target["connect"] \in States /\ Target["refresh"] \in States /\ Target["Connected"] \in States
      /\ Target["Disconnected"] \in States /\ Target["StreamReplaced"] \in States
  BY DEF Target, States
<1> QED
  BY <1>1, <1>2

-----------------------------------------------------------------------------
(* What a goroutine may do *)

\* A step of goroutine j moves j, may start another one unless Stop has begun, and
\* touches nothing of run and Stop.
Effect(j) ==
  /\ main # "exited"
  /\ UNCHANGED <<main, why, lo, mark, expired, exitCode, inited, paired, stopped, quiesced, store,
                 commands, events>>
  /\ at[j] # "idle" /\ at' \in [Jobs -> Places]
  /\ \A k \in Jobs \ {j} :
       at'[k] = at[k] \/ (~stopped /\ k \in Workers /\ at[k] = "idle" /\ at'[k] = "start")
  /\ at'[j] = "using" => store = "open"
  /\ cancelled' = cancelled \/ cancelled' = TRUE
  /\ link' \in {"down", "dialing", "up"} /\ state' \in States \cup {""}
  /\ out' = out \/ \E l \in Lines : out' = Emit(l)
  /\ fatal' = fatal \/ (RequestExit(j) /\ j \in {"logout", "remote", "refresh", "ClientOutdated"})
  /\ loggedOut' = loggedOut
       \/ (loggedOut = Null /\ loggedOut' \in {"user", "remote"} /\ j \in {"logout", "remote"})
  /\ j \in {"logout", "remote"} /\ at'[j] \in {"cancel", "exit"} => at[j] = "cancel" \/ loggedOut' # Null
  /\ j \in {"refresh", "ClientOutdated"} /\ at'[j] = "exit" => out' = Emit(Fatal("client_outdated"))
  /\ \/ outdated' = outdated /\ (j = "ClientOutdated" /\ at'[j] \in {"enter", "handle"} => at[j] = "enter")
     \/ outdated' = outdated + 1 /\ j = "ClientOutdated" /\ at[j] = "handle" /\ at'[j] \notin {"enter", "handle"}

\* What a goroutine's step does to what the invariant is about.
LEMMA GoroutineEffect ==
  ASSUME TypeOK, NEW j \in Jobs, Goroutine(j)
  PROVE  Effect(j)
<1> USE LineTypes, LifecycleAssumption
    DEF TypeOK, Effect, Step, Moves, Writes, Starts, Spawn, mainVars, initVars, bridgeVars, linkVars,
        countVars, Jobs, Workers, Handlers, Places
<1>1. CASE j \in DOMAIN Target /\ SetState(j)
  <2>1. j \in {"connect", "refresh", "Connected", "Disconnected", "StreamReplaced"} /\ Target[j] \in States
    BY <1>1, TargetType
  <2>2. CASE Step(j, "set", "status")
    BY <1>1, <2>1, <2>2 DEF SetState
  <2>3. CASE Step(j, "set", "end")
    BY <1>1, <2>1, <2>3 DEF SetState
  <2> QED
    BY <1>1, <2>2, <2>3, Zenon DEF SetState
<1>2. CASE j \in DOMAIN Target /\ EmitStatus(j)
  <2>1. j \in {"connect", "refresh", "Connected", "Disconnected", "StreamReplaced"} /\ Target[j] \in States
    BY <1>2, TargetType
  <2>2. Status(Target[j]) \in Lines
    BY <2>1
  <2> QED
    BY <1>2, <2>1, <2>2 DEF EmitStatus
<1>3. CASE j \in DOMAIN Target /\ End(j)
  <2>1. j \in {"connect", "refresh", "Connected", "Disconnected", "StreamReplaced"}
    BY <1>3, TargetType
  <2>2. CASE j = "refresh"
    <3>1. Starts("refresh", "end", "connect")
      BY <1>3, <2>2 DEF End
    <3> QED
      BY <2>2, <3>1
  <2>3. CASE j # "refresh"
    <3>1. Moves(j, "end", "idle")
      BY <1>3, <2>3 DEF End
    <3> QED
      BY <2>1, <2>3, <3>1
  <2> QED
    BY <2>2, <2>3
<1>4. CASE j = "connect" /\ Connect
  BY <1>4 DEF Connect
<1>5. CASE j = "history" /\ HistoryTurn
  BY <1>5 DEF HistoryTurn
<1>6. CASE j = "command" /\ CommandStart
  <2>1. Moves("command", "start", "work") \/ Moves("command", "start", "reply")
    BY <1>6, Zenon DEF CommandStart
  <2> QED
    BY <1>6, <2>1
<1>7. CASE j = "logout" /\ (AskLogout \/ Answer)
  <2>1. \/ Moves("logout", "start", "reply") \/ Moves("logout", "start", "asked")
        \/ Moves("logout", "asked", "record") \/ Moves("logout", "asked", "reply")
    BY <1>7, Zenon DEF AskLogout, Answer
  <2> QED
    BY <1>7, <2>1
<1>8. CASE j \in {"history", "command"} /\ (UseStore(j) \/ StoreDone(j))
  BY <1>8 DEF UseStore, StoreDone, AfterStore
<1>9. CASE j \in {"command", "logout"} /\ Reply(j)
  BY <1>9 DEF Reply
<1>10. CASE j \in {"logout", "remote"} /\ Record(j)
  <2>1. CASE loggedOut = Null
    <3>1. loggedOut' \in {"user", "remote"} /\ loggedOut' # Null
      BY <1>10, <2>1 DEF Record, LifecycleAssumption
    <3>2. Step(j, IF j = "remote" THEN "start" ELSE "record", "cancel")
      BY <1>10, <2>1 DEF Record
    <3> QED
      BY <1>10, <2>1, <3>1, <3>2 DEF Record
  <2>2. CASE loggedOut # Null
    <3>1. loggedOut' = loggedOut /\ UNCHANGED <<state, outdated, linkVars, fatal, out>>
      <4>1. loggedOut' = loggedOut
        BY <1>10, <2>2 DEF Record
      <4> QED
        BY <1>10, <4>1 DEF Record
    <3>2. Step(j, "start", "idle") \/ Step(j, "record", "idle")
      BY <1>10, <2>2 DEF Record
    <3> QED
      BY <1>10, <2>2, <3>1, <3>2
  <2> QED
    BY <2>1, <2>2
<1>11. CASE j \in {"logout", "remote"} /\ CancelSession(j)
  BY <1>11 DEF CancelSession
<1>12. CASE j = "refresh" /\ Refresh
  BY <1>12 DEF Refresh
<1>13. CASE j \in {"refresh", "ClientOutdated"} /\ (OutdatedSignal(j) \/ OutdatedFatal(j))
  BY <1>13 DEF OutdatedSignal, OutdatedFatal
<1>14. CASE j \in {"logout", "remote", "refresh", "ClientOutdated"} /\ RequestExit(j)
  BY <1>14 DEF RequestExit
<1>15. CASE j \in Handlers /\ OnEvent(j)
  BY <1>15 DEF OnEvent
<1>16. CASE j = "LoggedOut" /\ OnLoggedOut
  BY <1>16 DEF OnLoggedOut
<1>17. CASE j = "ClientOutdated" /\ OnOutdated
  BY <1>17 DEF OnOutdated
<1>18. CASE j = "ClientOutdated" /\ StartRefresh
  BY <1>18 DEF StartRefresh
<1> QED
  BY <1>1, <1>2, <1>3, <1>4, <1>5, <1>6, <1>7, <1>8, <1>9, <1>10, <1>11, <1>12, <1>13, <1>14, <1>15,
     <1>16, <1>17, <1>18 DEF Goroutine

-----------------------------------------------------------------------------
(* Types *)

Grows ==
  /\ out' \in Seq(Lines) /\ Len(out') >= Len(out)
  /\ \A i \in DOMAIN out : i \in DOMAIN out' /\ out'[i] = out[i]

\* Stdout is only ever added to.
LEMMA OutGrows ==
  ASSUME TypeOK, [Next]_vars
  PROVE  Grows
<1>0. out \in Seq(Lines)
  BY DEF TypeOK
<1>1. ASSUME out' = out
      PROVE  Grows
  BY <1>0, <1>1 DEF Grows
<1>2. ASSUME NEW l \in Lines, out' = Emit(l)
      PROVE  Grows
  BY <1>2, EmitLine DEF Grows
<1>3. ASSUME NEW s \in Seq(Lines), out' = out \o s
      PROVE  Grows
  BY <1>0, <1>3 DEF Grows
<1>4. ASSUME NEW j \in Jobs, Goroutine(j)
      PROVE  Grows
  <2>1. Effect(j)
    BY <1>4, GoroutineEffect
  <2> QED
    BY <1>1, <1>2, <2>1 DEF Effect
<1>5. CASE Refused
  BY <1>2, <1>5, LineTypes DEF Refused
<1>6. CASE InitFails
  <2>1. \E l \in Lines : out' = Emit(l)
    <3>1. PICK c \in OpenErrors :
             \/ out' = Emit(Fatal(c)) /\ c \in DOMAIN FatalExit
             \/ out' = Emit(Line("reply"))
      BY <1>6 DEF InitFails
    <3>2. c \in DOMAIN FatalExit => Fatal(c) \in Lines
      BY DEF Lines
    <3> QED
      BY <3>1, <3>2, LineTypes
  <2> QED
    BY <1>2, <2>1
<1>7. CASE InitDone
  <2> DEFINE first == Emit(Line("reply"))
  <2>1. /\ first \in Seq(Lines) /\ Len(first) >= Len(out)
        /\ \A i \in DOMAIN out : i \in DOMAIN first /\ first[i] = out[i]
    BY EmitLine, LineTypes
  <2>2. PICK l \in Lines : out' = Append(first, l)
    <3>1. state' \in States
      BY <1>7 DEF InitDone, States
    <3> QED
      BY <1>7, <3>1, LineTypes DEF InitDone
  <2> HIDE DEF first
  <2> QED
    BY <1>0, <2>1, <2>2 DEF Grows
<1>8. CASE CloseStore
  <2>1. PICK s \in {<<>>, <<Line("store_io")>>}, t \in {<<>>, <<Line("logged_out")>>} : out' = (out \o s) \o t
    BY <1>8 DEF CloseStore
  <2>2. s \in Seq(Lines) /\ t \in Seq(Lines)
    BY LineTypes, MaybeLine
  <2> QED
    BY <1>0, <2>1, <2>2 DEF Grows
<1>9. CASE Report
  <2>1. PICK s \in {<<>>, <<Status("stopped")>>}, t \in {<<>>, <<Line("ok_logout")>>},
             u \in {<<>>, <<Line("ok_shutdown")>>} : out' = ((out \o s) \o t) \o u
    BY <1>9 DEF Report, StoppedLine
  <2>2. Status("stopped") \in Lines
    BY LineTypes DEF States
  <2>3. s \in Seq(Lines) /\ t \in Seq(Lines) /\ u \in Seq(Lines)
    BY <2>2, LineTypes, MaybeLine
  <2>4. (out \o s) \o t \in Seq(Lines)
    BY <1>0, <2>3
  <2> QED
    BY <1>0, <2>1, <2>3, <2>4 DEF Grows
<1> QED
  BY <1>1, <1>4, <1>5, <1>6, <1>7, <1>8, <1>9
  DEF Next, Loop, Stop, StartCommand, Shutdown, StdinEOF, NoInit, Ending, EndLoop, Quiesce, Cancel, Wait,
      ReadLogout, ExitProcess, Exited, Dispatch, vars

\* TypeInv in parts, so that each is looked at by itself.
TMain ==
  /\ main \in Mains /\ why \in Whys /\ link \in Links /\ state \in BridgeStates
  /\ loggedOut \in Logouts /\ lo \in Logouts /\ store \in Stores /\ exitCode \in ExitCodes
TBool  == /\ inited \in BOOLEAN /\ paired \in BOOLEAN /\ cancelled \in BOOLEAN
          /\ stopped \in BOOLEAN /\ quiesced \in BOOLEAN /\ expired \in BOOLEAN
TFatal == fatal \in {<<>>} \cup {<<c>> : c \in Codes}
TAt    == at \in [Jobs -> Places]
TLines == out \in Seq(Lines) /\ mark \in 0 .. Len(out)
TCount == /\ outdated \in 0 .. MaxEvents /\ commands \in 0 .. MaxCommands /\ events \in 0 .. MaxEvents
          /\ outdated + Uncounted <= events

\* TypeOK is its parts.
LEMMA TypeParts ==
  /\ TypeInv <=> TMain /\ TBool /\ TFatal /\ TAt /\ TLines /\ TCount
  /\ TypeInv' <=> TMain' /\ TBool' /\ TFatal' /\ TAt' /\ TLines' /\ TCount'
BY Zenon DEF TypeInv, TypeOK, TMain, TBool, TFatal, TAt, TLines, TCount, Mains, Codes, Whys,
              Links, BridgeStates, Logouts, Stores, ExitCodes

\* Each part is kept by every step.
LEMMA NextMain ==
  ASSUME TypeInv, [Next]_vars
  PROVE  TMain'
<1>0. TMain /\ TypeOK /\ TFatal
  BY TypeParts DEF TypeInv
<1>1. ASSUME NEW j \in Jobs, Goroutine(j)
      PROVE  TMain'
  <2>1. Effect(j)
    BY <1>0, <1>1, GoroutineEffect
  <2>2. loggedOut' \in Logouts
    BY <1>0, <2>1 DEF Effect, TMain, Logouts
  <2>3. link' \in Links /\ state' \in BridgeStates
    BY <2>1 DEF Effect, Links, BridgeStates
  <2> QED
    BY <1>0, <2>1, <2>2, <2>3 DEF Effect, TMain
<1>2. ASSUME NEW h \in Events, Dispatch(h)
      PROVE  TMain'
  <2>1. Leads[h] \in Links
    BY LifecycleAssumption DEF Leads, Handlers, LifecycleAssumption, Links
  <2> QED
    BY <1>0, <1>2, <2>1 DEF Dispatch, TMain, mainVars, bridgeVars
<1>3. CASE InitDone
  <2>1. state' \in BridgeStates /\ store' \in Stores
    BY <1>3 DEF InitDone, BridgeStates, States, Stores
  <2> QED
    BY <1>0, <1>3, <2>1 DEF InitDone, TMain, mainVars, linkVars, Read
<1>4. CASE Refused \/ InitFails \/ \E j \in {"logout", "command"} : StartCommand(j)
  <2>1. UNCHANGED <<main, why, link, state, loggedOut, lo, store, exitCode>>
    BY <1>4 DEF Refused, InitFails, StartCommand, mainVars, bridgeVars, linkVars
  <2> QED
    BY <1>0, <2>1 DEF TMain
<1>5. ASSUME NEW w \in Whys, EndLoop(w), exitCode' \in {exitCode} \cup Codes
      PROVE  TMain'
  <2>1. main' \in Mains /\ exitCode' \in ExitCodes
    BY <1>0, <1>5 DEF EndLoop, TMain, Mains, Codes, ExitCodes
  <2> QED
    BY <1>0, <1>5, <2>1 DEF EndLoop, TMain, linkVars
<1>6. CASE Shutdown \/ StdinEOF \/ NoInit
  BY <1>5, <1>6 DEF Shutdown, StdinEOF, NoInit, Whys
<1>7. CASE Ending
  <2>1. Head(fatal) \in Codes
    BY <1>0, <1>7 DEF Ending, TFatal
  <2> QED
    BY <1>5, <1>7, <2>1 DEF Ending, Whys
<1>8. ASSUME NEW a, NEW b \in Mains, StopStep(a, b), link' \in Links, state' \in BridgeStates, lo' \in Logouts,
             store' \in Stores, exitCode' \in ExitCodes
      PROVE  TMain'
  BY <1>0, <1>8 DEF StopStep, TMain
<1>9. CASE Quiesce \/ Cancel \/ Wait \/ ReadLogout
  <2>1. PICK a, b \in Mains : StopStep(a, b)
    BY <1>9 DEF Quiesce, Cancel, Wait, ReadLogout, Mains
  <2>2. link' \in Links /\ state' \in BridgeStates /\ lo' \in Logouts /\ store' \in Stores /\ exitCode' \in ExitCodes
    BY <1>0, <1>9 DEF Quiesce, Cancel, Wait, ReadLogout, TMain, linkVars, Links
  <2> QED
    BY <1>8, <2>1, <2>2
<1>10. CASE CloseStore
  <2>1. store' \in Stores
    BY <1>0, <1>10 DEF CloseStore, TMain, Stores
  <2> QED
    BY <1>0, <1>8, <1>10, <2>1 DEF CloseStore, TMain, Mains, linkVars
<1>11. CASE Report
  <2>1. state' \in BridgeStates
    BY <1>0, <1>11 DEF Report, TMain, BridgeStates, States
  <2> QED
    BY <1>0, <1>8, <1>11, <2>1 DEF Report, TMain, Mains, linkVars
<1>12. CASE ExitProcess
  <2>1. exitCode' \in ExitCodes
    BY <1>0, <1>12 DEF ExitProcess, TMain, ExitNoInit, StopCode, ExitLoggedOut, ExitCodes
  <2> QED
    BY <1>0, <1>8, <1>12, <2>1 DEF ExitProcess, TMain, Mains, linkVars
<1>13. CASE UNCHANGED vars
  BY <1>0, <1>13 DEF vars, TMain
<1> QED
  BY <1>1, <1>2, <1>3, <1>4, <1>6, <1>7, <1>9, <1>10, <1>11, <1>12, <1>13 DEF Next, Loop, Stop, Exited

\* Every step keeps the flags' types.
LEMMA NextBool ==
  ASSUME TypeInv, [Next]_vars
  PROVE  TBool'
<1>0. TBool /\ TypeOK
  BY TypeParts DEF TypeInv
<1>1. ASSUME NEW j \in Jobs, Goroutine(j)
      PROVE  TBool'
  <2>1. Effect(j)
    BY <1>0, <1>1, GoroutineEffect
  <2> QED
    BY <1>0, <2>1, Zenon DEF Effect, TBool
<1>2. CASE ~\E j \in Jobs : Goroutine(j)
  BY <1>0, <1>2, Zenon
  DEF Next, Loop, Stop, Exited, Refused, InitFails, InitDone, StartCommand, Shutdown, StdinEOF, NoInit,
      Ending, EndLoop, Quiesce, Cancel, Wait, ReadLogout, CloseStore, Report, ExitProcess, StopStep, Dispatch,
      TBool, vars, mainVars, initVars, bridgeVars, linkVars
<1> QED
  BY <1>1, <1>2

\* Every step keeps the type of the exit by fatal.
LEMMA NextFatal ==
  ASSUME TypeInv, [Next]_vars
  PROVE  TFatal'
<1>0. TFatal /\ TypeOK
  BY TypeParts DEF TypeInv
<1>1. ASSUME NEW c \in Codes, fatal' = Exit(c)
      PROVE  TFatal'
  BY <1>0, <1>1 DEF Exit, TFatal
<1>2. ASSUME NEW j \in Jobs, Goroutine(j)
      PROVE  TFatal'
  <2>1. Effect(j)
    BY <1>0, <1>2, GoroutineEffect
  <2>2. CASE RequestExit(j)
    <3>1. \E c \in Codes : fatal' = Exit(c)
      BY <2>2 DEF RequestExit, ExitLoggedOut, FatalExit, Codes
    <3> QED
      BY <1>1, <3>1
  <2> QED
    BY <1>0, <2>1, <2>2 DEF Effect, TFatal
<1>3. CASE InitFails
  <2>1. (\E c \in Codes : fatal' = Exit(c)) \/ fatal' = fatal
    BY <1>3 DEF InitFails, OpenErrors, FatalExit, Codes
  <2> QED
    BY <1>0, <1>1, <2>1 DEF TFatal
<1>4. CASE fatal' = <<>>
  BY <1>4 DEF TFatal
<1>5. CASE fatal' = fatal
  BY <1>0, <1>5 DEF TFatal
<1> QED
  BY <1>2, <1>3, <1>4, <1>5
  DEF Next, Loop, Stop, Exited, Refused, InitDone, StartCommand, Shutdown, StdinEOF, NoInit, Ending,
      Quiesce, Cancel, Wait, ReadLogout, CloseStore, Report, ExitProcess, StopStep, Dispatch, vars

\* Every step keeps the places of the goroutines.
LEMMA NextAt ==
  ASSUME TypeInv, [Next]_vars
  PROVE  TAt'
<1>0. TAt /\ TypeOK
  BY TypeParts DEF TypeInv
<1>1. ASSUME NEW j \in Jobs, Goroutine(j)
      PROVE  TAt'
  <2>1. Effect(j)
    BY <1>0, <1>1, GoroutineEffect
  <2> QED
    BY <2>1 DEF Effect, TAt
<1>2. ASSUME NEW h \in Events, Dispatch(h)
      PROVE  TAt'
  BY <1>0, <1>2 DEF Dispatch, TAt, Places
<1>3. CASE InitDone \/ \E j \in {"logout", "command"} : StartCommand(j)
  BY <1>0, <1>3 DEF InitDone, StartCommand, Spawn, TAt, Places
<1>4. CASE at' = at
  BY <1>0, <1>4 DEF TAt
<1> QED
  BY <1>1, <1>2, <1>3, <1>4
  DEF Next, Loop, Stop, Exited, Refused, InitFails, Shutdown, StdinEOF, NoInit, Ending, EndLoop,
      Quiesce, Cancel, Wait, ReadLogout, CloseStore, Report, ExitProcess, StopStep, vars

\* Every step keeps the types of the lines written.
LEMMA NextLines ==
  ASSUME TypeInv, [Next]_vars
  PROVE  TLines'
<1>0. TLines /\ Grows /\ TypeOK
  BY TypeParts, OutGrows DEF TypeInv
<1>1. mark' = mark \/ mark' = Len(out)
  <2>1. ASSUME NEW j \in Jobs, Goroutine(j)
        PROVE  mark' = mark
    BY <1>0, <2>1, GoroutineEffect DEF Effect
  <2> QED
    BY <2>1
    DEF Next, Loop, Stop, Exited, Refused, InitFails, InitDone, StartCommand, Shutdown, StdinEOF, NoInit,
        Ending, EndLoop, Quiesce, Cancel, Wait, ReadLogout, CloseStore, Report, ExitProcess, Dispatch,
        vars, mainVars
<1> QED
  BY <1>0, <1>1 DEF TLines, Grows

\* Every step keeps the counters' types.
LEMMA NextCount ==
  ASSUME TypeInv, [Next]_vars
  PROVE  TCount'
<1>0. TCount /\ TypeOK /\ TAt /\ "ClientOutdated" \in Jobs /\ MaxCommands \in Nat /\ MaxEvents \in Nat
  BY TypeParts, LifecycleAssumption DEF TypeInv, Jobs, Handlers, LifecycleAssumption
<1>1. ASSUME NEW j \in Jobs, Goroutine(j)
      PROVE  TCount'
  <2>1. Effect(j)
    BY <1>0, <1>1, GoroutineEffect
  <2>2. CASE outdated' = outdated + 1 /\ j = "ClientOutdated" /\ at[j] = "handle" /\ at'[j] \notin {"enter", "handle"}
    <3>1. Uncounted = 1 /\ Uncounted' = 0
      BY <2>2 DEF Uncounted
    <3>2. events' = events /\ commands' = commands
      BY <2>1 DEF Effect
    <3> QED
      BY <1>0, <2>2, <3>1, <3>2 DEF TCount
  <2>3. CASE outdated' = outdated /\ (j = "ClientOutdated" /\ at'[j] \in {"enter", "handle"} => at[j] = "enter")
    <3>1. at'["ClientOutdated"] \in {"enter", "handle"} => at["ClientOutdated"] \in {"enter", "handle"}
      BY <1>0, <2>1, <2>3 DEF Effect
    <3> QED
      <4>1. \/ Uncounted' = 0 /\ (Uncounted = 0 \/ Uncounted = 1)
            \/ Uncounted' = 1 /\ Uncounted = 1
        BY <3>1 DEF Uncounted
      <4>2. events' = events /\ commands' = commands /\ outdated' = outdated
        BY <2>1, <2>3 DEF Effect
      <4>3. TCount /\ MaxEvents \in Nat /\ MaxCommands \in Nat
        BY <1>0
      <4> QED
        BY <4>1, <4>2, <4>3 DEF TCount
  <2> QED
    BY <2>1, <2>2, <2>3 DEF Effect
<1>2. ASSUME NEW h \in Events, Dispatch(h)
      PROVE  TCount'
  BY <1>0, <1>2 DEF Dispatch, TCount, Uncounted, TAt, bridgeVars
<1>3. ASSUME UNCHANGED <<outdated, events>>, commands' = commands \/ (commands < MaxCommands /\ commands' = commands + 1),
             at'["ClientOutdated"] = at["ClientOutdated"]
      PROVE  TCount'
  BY <1>0, <1>3 DEF TCount, Uncounted
<1>4. CASE InitDone \/ \E j \in {"logout", "command"} : StartCommand(j)
  BY <1>0, <1>3, <1>4 DEF InitDone, StartCommand, Spawn, Read, TAt, bridgeVars
<1> QED
  BY <1>1, <1>2, <1>3, <1>4
  DEF Next, Loop, Stop, Exited, Refused, InitFails, Read, Shutdown, StdinEOF, NoInit, Ending, EndLoop,
      Quiesce, Cancel, Wait, ReadLogout, CloseStore, Report, ExitProcess, StopStep, vars, bridgeVars, countVars

\* Types hold, and no ClientOutdated is counted that was not received.
LEMMA TypeInvariant == Spec => []TypeInv
<1>1. Init => TypeInv
  <2> SUFFICES ASSUME Init PROVE TypeInv
    OBVIOUS
  <2>1. TBool
    BY Zenon DEF Init, TBool
  <2>2. TMain /\ TFatal
    BY DEF Init, TMain, TFatal, Mains, Whys, Links, BridgeStates, Logouts, Stores, ExitCodes
  <2>3. TAt
    BY DEF Init, TAt, Places
  <2>4. TLines
    <3>1. <<>> \in Seq(Lines) /\ Len(<<>>) = 0
      OBVIOUS
    <3>2. out = <<>> /\ mark = 0
      BY DEF Init
    <3> QED
      BY <3>1, <3>2 DEF TLines
  <2>5. TCount
    <3>1. Uncounted = 0
      BY DEF Init, Uncounted, Jobs, Handlers
    <3> QED
      <4>1. outdated = 0 /\ commands = 0 /\ events = 0
        BY DEF Init
      <4>2. MaxCommands \in Nat /\ MaxEvents \in Nat
        BY LifecycleAssumption DEF LifecycleAssumption
      <4> QED
        BY <3>1, <4>1, <4>2 DEF TCount
  <2> QED
    BY <2>1, <2>2, <2>3, <2>4, <2>5, TypeParts
<1>2. TypeInv /\ [Next]_vars => TypeInv'
  BY NextMain, NextBool, NextFatal, NextAt, NextLines, NextCount, TypeParts
<1> QED
  BY <1>1, <1>2, PTL DEF Spec

-----------------------------------------------------------------------------
(* Run and Stop *)

\* What is not a goroutine's step leaves at as it is, or starts one.
LEMMA NextControl ==
  ASSUME TypeInv, ControlInv, [Next]_vars
  PROVE  ControlInv'
<1>0. TypeOK /\ TAt /\ TBool
  BY TypeParts DEF TypeInv
<1>1. ASSUME NEW j \in Jobs, Goroutine(j)
      PROVE  ControlInv'
  <2>1. Effect(j) /\ inited
    BY <1>0, <1>1, GoroutineEffect DEF Effect, ControlInv
  <2> QED
    BY <2>1 DEF Effect, ControlInv
<1>2. ASSUME NEW h \in Events, Dispatch(h)
      PROVE  ControlInv'
  <2>1. inited
    BY <1>2, LifecycleAssumption DEF Dispatch, Before, ControlInv, Handlers, LifecycleAssumption
  <2> QED
    BY <1>2, <2>1 DEF Dispatch, ControlInv, mainVars, initVars, bridgeVars
<1>3. CASE InitDone
  BY <1>3 DEF InitDone, ControlInv, mainVars, Read
<1>4. CASE Refused \/ InitFails
  BY <1>4 DEF Refused, InitFails, ControlInv, mainVars, initVars, bridgeVars, linkVars
<1>5. CASE \E j \in {"logout", "command"} : StartCommand(j)
  BY <1>5 DEF StartCommand, ControlInv, mainVars, initVars, bridgeVars, linkVars
<1>6. CASE Shutdown \/ StdinEOF \/ NoInit \/ Ending
  BY <1>6 DEF Shutdown, StdinEOF, NoInit, Ending, EndLoop, ControlInv, initVars, linkVars
<1>7. CASE Quiesce \/ Cancel \/ Wait \/ ReadLogout \/ Report \/ ExitProcess
  BY <1>7 DEF Quiesce, Cancel, Wait, ReadLogout, Report, ExitProcess, StopStep, ControlInv, initVars, linkVars
<1>8. CASE CloseStore
  <2>1. ~inited => store' = store
    BY <1>8 DEF CloseStore
  <2> QED
    BY <1>8, <2>1 DEF CloseStore, StopStep, ControlInv, initVars, linkVars
<1>9. CASE UNCHANGED vars
  BY <1>9 DEF vars, ControlInv
<1> QED
  BY <1>1, <1>2, <1>3, <1>4, <1>5, <1>6, <1>7, <1>8, <1>9 DEF Next, Loop, Stop, Exited

\* Every step keeps the store guarded.
LEMMA NextStore ==
  ASSUME TypeInv, ControlInv, StoreInv, [Next]_vars
  PROVE  StoreInv'
<1>0. TypeOK /\ TAt /\ TMain
  BY TypeParts DEF TypeInv
<1>1. ASSUME NEW j \in Jobs, Goroutine(j)
      PROVE  StoreInv'
  <2>1. Effect(j)
    BY <1>0, <1>1, GoroutineEffect
  <2> QED
    BY <2>1 DEF Effect, StoreInv
<1>2. ASSUME UNCHANGED <<inited, store, lo>>, main' = main \/ {main, main'} \cap AfterClose = {} \/ (main \in AfterClose /\ main' \in AfterClose),
             \A j \in Jobs : at'[j] = "using" => at[j] = "using"
      PROVE  StoreInv'
  BY <1>2 DEF StoreInv
<1>3. ASSUME NEW h \in Events, Dispatch(h)
      PROVE  StoreInv'
  BY <1>0, <1>2, <1>3 DEF Dispatch, TAt, initVars, mainVars
<1>4. CASE InitDone
  BY <1>0, <1>4 DEF InitDone, Read, Spawn, TAt, StoreInv, mainVars, AfterClose
<1>5. CASE \E j \in {"logout", "command"} : StartCommand(j)
  BY <1>0, <1>2, <1>5 DEF StartCommand, Spawn, TAt, initVars, mainVars
<1>6. CASE Refused \/ InitFails \/ Shutdown \/ StdinEOF \/ NoInit \/ Ending \/ UNCHANGED vars
  BY <1>2, <1>6 DEF Refused, InitFails, Shutdown, StdinEOF, NoInit, Ending, EndLoop, AfterClose, vars,
                    initVars, mainVars
<1>7. CASE Quiesce \/ Cancel \/ Wait \/ Report \/ ExitProcess
  BY <1>2, <1>7 DEF Quiesce, Cancel, Wait, Report, ExitProcess, StopStep, AfterClose, initVars
<1>8. CASE ReadLogout
  BY <1>8 DEF ReadLogout, StopStep, StoreInv, AfterClose, initVars
<1>9. CASE CloseStore
  <2>1. /\ main' = "report" /\ inited' = inited /\ lo' = lo /\ at' = at
        /\ \A j \in Jobs : at[j] # "using"
        /\ inited => store' \in IF lo = Null THEN {"closed"} ELSE {"deleted", "undeleted"}
    BY <1>9 DEF CloseStore, StopStep, StoreFree, initVars
  <2> QED
    BY <2>1 DEF StoreInv, AfterClose
<1> QED
  BY <1>1, <1>3, <1>4, <1>5, <1>6, <1>7, <1>8, <1>9 DEF Next, Loop, Stop, Exited

\* Every step keeps what Stop waits for.
LEMMA NextWait ==
  ASSUME TypeInv, ControlInv, WaitInv, [Next]_vars
  PROVE  WaitInv'
<1>0. TypeOK /\ TAt /\ Workers \subseteq Jobs
  BY TypeParts DEF TypeInv, Jobs
<1>1. ASSUME NEW j \in Jobs, Goroutine(j)
      PROVE  WaitInv'
  <2>1. Effect(j)
    BY <1>0, <1>1, GoroutineEffect
  <2>2. CASE main \in {"read"} \cup AfterRead /\ ~expired
    <3>1. j \notin Workers /\ stopped
      BY <1>0, <2>1, <2>2 DEF Effect, WaitInv, WorkersDone, ControlInv, AfterRead
    <3>2. \A k \in Workers : at'[k] = at[k]
      BY <1>0, <2>1, <3>1 DEF Effect
    <3>3. loggedOut' = loggedOut
      BY <2>1, <3>1 DEF Effect, Workers
    <3> QED
      BY <2>1, <3>2, <3>3 DEF Effect, WaitInv, WorkersDone
  <2>3. CASE ~(main \in {"read"} \cup AfterRead /\ ~expired)
    BY <2>1, <2>3 DEF Effect, WaitInv, AfterRead
  <2> QED
    BY <2>2, <2>3
<1>2. ASSUME NEW h \in Events, Dispatch(h)
      PROVE  WaitInv'
  <2>1. h \notin Workers
    BY LifecycleAssumption DEF LifecycleAssumption, Handlers, Workers
  <2>2. \A k \in Workers : at'[k] = at[k]
    BY <1>0, <1>2, <2>1 DEF Dispatch, TAt
  <2> QED
    BY <1>2, <2>2 DEF Dispatch, WaitInv, WorkersDone, mainVars, bridgeVars
<1>3. CASE Loop \/ Ending \/ Quiesce \/ Cancel
  <2>1. main' \in {"select", "quiesce", "cancel", "wait"}
    BY <1>3 DEF Loop, Ending, Refused, InitFails, InitDone, StartCommand, Read, Shutdown, StdinEOF, NoInit,
                EndLoop, Quiesce, Cancel, StopStep, mainVars
  <2> QED
    BY <2>1 DEF WaitInv, AfterRead
<1>4. CASE Wait
  BY <1>4 DEF Wait, StopStep, WaitInv, WorkersDone, AfterRead
<1>5. CASE ReadLogout \/ CloseStore \/ Report \/ ExitProcess \/ UNCHANGED vars
  BY <1>5 DEF ReadLogout, CloseStore, Report, ExitProcess, StopStep, WaitInv, WorkersDone, AfterRead, vars
<1> QED
  BY <1>1, <1>2, <1>3, <1>4, <1>5 DEF Next, Stop, Exited

-----------------------------------------------------------------------------
(* The last lines *)

\* From place k + 1 on, s has only the first m of the last lines, in their order.
InOrder(s, k, m) ==
  \A i \in k + 1 .. Len(s) :
    \E r \in 1 .. m :
      /\ s[i] = FinalLines[r]
      /\ i > k + 1 => \E q \in 1 .. r - 1 : s[i - 1] = FinalLines[q]

\* How many of the last lines Stop may have written.
Passed == IF main \in {"cancel", "wait", "read", "close"} THEN 0 ELSE IF main = "report" THEN 2 ELSE 5

OrderInv == quiesced => InOrder(out, mark, Passed)

\* The lines that report a logout, once Stop is past writing them.
SaidInv ==
  /\ main \in AfterClose /\ lo # Null => Wrote(Line("logged_out"))
  /\ main \in AfterClose /\ lo # Null /\ store = "undeleted" => Wrote(Line("store_io"))
  /\ main \in {"code", "exited"} /\ lo = "user" => Wrote(Line("ok_logout"))

\* The lines of the end, in their order.
LEMMA FinalTypes ==
  /\ DOMAIN FinalLines = 1 .. 5
  /\ FinalLines[1] = Line("store_io") /\ FinalLines[2] = Line("logged_out")
  /\ FinalLines[3] = Status("stopped") /\ FinalLines[4] = Line("ok_logout")
  /\ FinalLines[5] = Line("ok_shutdown")
  /\ \A r \in 1 .. 5 : FinalLines[r] \in Lines
<1>1. /\ DOMAIN FinalLines = 1 .. 5
      /\ FinalLines[1] = Line("store_io") /\ FinalLines[2] = Line("logged_out")
      /\ FinalLines[3] = Status("stopped") /\ FinalLines[4] = Line("ok_logout")
      /\ FinalLines[5] = Line("ok_shutdown")
  BY DEF FinalLines
<1>2. "stopped" \in States
  BY DEF States
<1>3. ASSUME NEW r \in 1 .. 5
      PROVE  FinalLines[r] \in Lines
  <2>1. r = 1 \/ r = 2 \/ r = 3 \/ r = 4 \/ r = 5
    OBVIOUS
  <2> QED
    BY <1>1, <1>2, <2>1, LineTypes, Zenon
<1> QED
  BY <1>1, <1>3

\* A last line may follow those before it.
LEMMA OrderedMore ==
  ASSUME NEW s \in Seq(Lines), NEW k \in 0 .. Len(s), NEW m \in 0 .. 4, NEW r \in m + 1 .. 5,
         InOrder(s, k, m), NEW t \in {<<>>, <<FinalLines[r]>>}
  PROVE  s \o t \in Seq(Lines) /\ k \in 0 .. Len(s \o t) /\ InOrder(s \o t, k, r)
<1> DEFINE l == FinalLines[r]
<1>1. l \in Lines /\ r \in 1 .. 5
  BY FinalTypes
<1>2. ASSUME NEW n \in m .. 5
      PROVE  InOrder(s, k, n)
  BY <1>2 DEF InOrder
<1>3. CASE t = <<>>
  <2>1. s \o t = s
    BY <1>3
  <2> QED
    BY <1>2, <2>1
<1>4. CASE t = <<l>>
  <2> HIDE DEF l
  <2>1. /\ s \o t = Append(s, l) /\ Append(s, l) \in Seq(Lines) /\ Len(Append(s, l)) = Len(s) + 1
        /\ Append(s, l)[Len(s) + 1] = l
        /\ \A i \in 1 .. Len(s) : Append(s, l)[i] = s[i]
    BY <1>1, <1>4
  <2>2. ASSUME NEW i \in k + 1 .. Len(s)
        PROVE  \E n \in 1 .. r : /\ Append(s, l)[i] = FinalLines[n]
                                 /\ i > k + 1 => \E q \in 1 .. n - 1 : Append(s, l)[i - 1] = FinalLines[q]
    <3>1. PICK n \in 1 .. m : /\ s[i] = FinalLines[n]
                              /\ i > k + 1 => \E q \in 1 .. n - 1 : s[i - 1] = FinalLines[q]
      BY DEF InOrder
    <3>2. n \in 1 .. r /\ Append(s, l)[i] = s[i] /\ (i > k + 1 => Append(s, l)[i - 1] = s[i - 1])
      BY <2>1
    <3> QED
      BY <3>1, <3>2
  <2>3. Len(s) + 1 > k + 1 => \E q \in 1 .. r - 1 : Append(s, l)[Len(s)] = FinalLines[q]
    <3> SUFFICES ASSUME Len(s) > k
                 PROVE  \E q \in 1 .. r - 1 : Append(s, l)[Len(s)] = FinalLines[q]
      OBVIOUS
    <3>1. PICK q \in 1 .. m : s[Len(s)] = FinalLines[q]
      BY DEF InOrder
    <3> QED
      BY <2>1, <3>1
  <2>4. InOrder(Append(s, l), k, r)
    <3> SUFFICES ASSUME NEW i \in k + 1 .. Len(s) + 1
                 PROVE  \E n \in 1 .. r : /\ Append(s, l)[i] = FinalLines[n]
                                          /\ i > k + 1 => \E q \in 1 .. n - 1 : Append(s, l)[i - 1] = FinalLines[q]
      BY <2>1 DEF InOrder
    <3>1. CASE i \in k + 1 .. Len(s)
      BY <2>2, <3>1
    <3>2. CASE i = Len(s) + 1
      BY <1>1, <2>1, <2>3, <3>2 DEF l
    <3> QED
      BY <3>1, <3>2
  <2> QED
    BY <2>1, <2>4
<1> QED
  BY <1>3, <1>4, Zenon

\* What is written stays written.
LEMMA WroteKept ==
  ASSUME TypeOK, [Next]_vars, NEW l
  PROVE  Wrote(l) => Wrote(l)'
BY OutGrows DEF Grows, Wrote

Holds(s, l) == \E i \in DOMAIN s : s[i] = l

\* A line is among those it is appended to, and stays there.
LEMMA WroteThat ==
  ASSUME NEW s \in Seq(Lines), NEW l \in Lines
  PROVE  Holds(s \o <<l>>, l)
<1>1. s \o <<l>> = Append(s, l) /\ Len(s) + 1 \in DOMAIN Append(s, l) /\ Append(s, l)[Len(s) + 1] = l
  OBVIOUS
<1> QED
  BY <1>1 DEF Holds

\* What is written stays written when lines are added.
LEMMA WroteStill ==
  ASSUME NEW s \in Seq(Lines), NEW l \in Lines, NEW t \in Seq(Lines), Holds(s, l)
  PROVE  Holds(s \o t, l)
<1>1. \A i \in DOMAIN s : i \in DOMAIN (s \o t) /\ (s \o t)[i] = s[i]
  OBVIOUS
<1> QED
  BY <1>1 DEF Holds

\* The writer carries nothing but the last lines once it is quiesced.
LEMMA NextOrder ==
  ASSUME TypeInv, ControlInv, OrderInv, [Next]_vars
  PROVE  OrderInv'
<1>0. TypeOK /\ TLines /\ TLines' /\ TMain
  BY TypeParts, NextLines DEF TypeInv
<1>1. ASSUME UNCHANGED <<quiesced, main>>, quiesced => UNCHANGED <<out, mark>>
      PROVE  OrderInv'
  BY <1>1 DEF OrderInv, Passed, InOrder
<1>2. ASSUME NEW j \in Jobs, Goroutine(j)
      PROVE  OrderInv'
  <2>1. Effect(j)
    BY <1>0, <1>2, GoroutineEffect
  <2>2. quiesced => out' = out
    BY <2>1 DEF Effect, Emit
  <2> QED
    BY <1>1, <2>1, <2>2 DEF Effect
<1>3. ASSUME NEW h \in Events, Dispatch(h)
      PROVE  OrderInv'
  BY <1>1, <1>3 DEF Dispatch, mainVars
<1>4. CASE Loop \/ Ending
  <2>1. ~quiesced
    BY <1>4 DEF Loop, Ending, Refused, InitFails, InitDone, StartCommand, Read, Shutdown, StdinEOF, NoInit,
                EndLoop, ControlInv
  <2>2. ~quiesced'
    BY <1>4, <2>1 DEF Loop, Ending, Refused, InitFails, InitDone, StartCommand, Shutdown, StdinEOF, NoInit, EndLoop
  <2> QED
    BY <2>2 DEF OrderInv
<1>5. CASE Quiesce
  <2>1. out' = out /\ mark' = Len(out)
    BY <1>5 DEF Quiesce
  <2>2. \A i \in Len(out) + 1 .. Len(out) : FALSE
    BY <1>0 DEF TLines
  <2> QED
    BY <2>1, <2>2 DEF OrderInv, InOrder
<1>6. CASE Cancel \/ Wait \/ ReadLogout
  <2>1. Passed = 0 /\ Passed' = 0
    BY <1>6 DEF Cancel, Wait, ReadLogout, StopStep, Passed
  <2>2. UNCHANGED <<quiesced, out, mark>>
    BY <1>6 DEF Cancel, Wait, ReadLogout
  <2> QED
    BY <2>1, <2>2 DEF OrderInv, InOrder
<1>7. CASE CloseStore
  <2>1. /\ quiesced /\ Passed = 0 /\ Passed' = 2 /\ mark' = mark
    BY <1>7 DEF CloseStore, StopStep, Passed, ControlInv
  <2>2. PICK s \in {<<>>, <<FinalLines[1]>>}, t \in {<<>>, <<FinalLines[2]>>} : out' = (out \o s) \o t
    BY <1>7, FinalTypes DEF CloseStore
  <2>3. out \in Seq(Lines) /\ mark \in 0 .. Len(out) /\ InOrder(out, mark, 0)
    BY <1>0, <2>1 DEF TLines, OrderInv
  <2>4. /\ out \o s \in Seq(Lines) /\ mark \in 0 .. Len(out \o s) /\ InOrder(out \o s, mark, 1)
    <3>1. 0 \in 0 .. 4 /\ 1 \in 0 + 1 .. 5
      OBVIOUS
    <3> QED
      BY <2>2, <2>3, <3>1, OrderedMore
  <2>5. InOrder((out \o s) \o t, mark, 2)
    <3>1. 1 \in 0 .. 4 /\ 2 \in 1 + 1 .. 5
      OBVIOUS
    <3> QED
      BY <2>2, <2>4, <3>1, OrderedMore
  <2> QED
    BY <2>1, <2>2, <2>5 DEF OrderInv, InOrder
<1>8. CASE Report
  <2>1. /\ quiesced /\ Passed = 2 /\ Passed' = 5 /\ mark' = mark
    BY <1>8 DEF Report, StopStep, Passed, ControlInv
  <2>2. PICK s \in {<<>>, <<FinalLines[3]>>}, t \in {<<>>, <<FinalLines[4]>>}, u \in {<<>>, <<FinalLines[5]>>} :
          out' = ((out \o s) \o t) \o u
    BY <1>8, FinalTypes DEF Report, StoppedLine
  <2>3. out \in Seq(Lines) /\ mark \in 0 .. Len(out) /\ InOrder(out, mark, 2)
    BY <1>0, <2>1 DEF TLines, OrderInv
  <2>4. /\ out \o s \in Seq(Lines) /\ mark \in 0 .. Len(out \o s) /\ InOrder(out \o s, mark, 3)
    <3>1. 2 \in 0 .. 4 /\ 3 \in 2 + 1 .. 5
      OBVIOUS
    <3> QED
      BY <2>2, <2>3, <3>1, OrderedMore
  <2>5. /\ (out \o s) \o t \in Seq(Lines) /\ mark \in 0 .. Len((out \o s) \o t)
        /\ InOrder((out \o s) \o t, mark, 4)
    <3>1. 3 \in 0 .. 4 /\ 4 \in 3 + 1 .. 5 /\ t \in {<<>>, <<FinalLines[4]>>}
      BY <2>2
    <3>2. PICK x : x = out \o s
      OBVIOUS
    <3>3. x \in Seq(Lines) /\ mark \in 0 .. Len(x) /\ InOrder(x, mark, 3)
      BY <2>4, <3>2
    <3>4. x \o t \in Seq(Lines) /\ mark \in 0 .. Len(x \o t) /\ InOrder(x \o t, mark, 4)
      BY <3>1, <3>3, OrderedMore
    <3> QED
      BY <3>2, <3>4
  <2>6. InOrder(((out \o s) \o t) \o u, mark, 5)
    <3>1. 4 \in 0 .. 4 /\ 5 \in 4 + 1 .. 5
      OBVIOUS
    <3> QED
      BY <2>2, <2>5, <3>1, OrderedMore
  <2> QED
    BY <2>1, <2>2, <2>6 DEF OrderInv, InOrder
<1>9. CASE ExitProcess
  <2>1. Passed = 5 /\ Passed' = 5
    BY <1>9 DEF ExitProcess, StopStep, Passed
  <2> QED
    BY <1>9, <2>1 DEF ExitProcess, OrderInv, InOrder
<1>10. CASE UNCHANGED vars
  BY <1>1, <1>10 DEF vars
<1> QED
  BY <1>2, <1>3, <1>4, <1>5, <1>6, <1>7, <1>8, <1>9, <1>10 DEF Next, Stop, Exited

\* Stop reports the logout it read.
LEMMA NextSaid ==
  ASSUME TypeInv, ControlInv, SaidInv, [Next]_vars
  PROVE  SaidInv'
<1>0. TypeOK /\ TLines
  BY TypeParts DEF TypeInv
<1>1. \A l : Wrote(l) => Wrote(l)'
  BY <1>0, WroteKept
<1>2. ASSUME main' \notin AfterClose
      PROVE  SaidInv'
  BY <1>2 DEF SaidInv, AfterClose
<1>3. ASSUME UNCHANGED <<store, lo>>, main' = main \/ (main = "code" /\ main' = "exited")
      PROVE  SaidInv'
  BY <1>1, <1>3 DEF SaidInv, AfterClose
<1>4. CASE CloseStore
  <2>1. lo # Null => inited
    BY DEF ControlInv
  <2>2. PICK s \in {<<>>, <<Line("store_io")>>}, t \in {<<>>, <<Line("logged_out")>>} :
          /\ out' = (out \o s) \o t
          /\ store' = "undeleted" => s = <<Line("store_io")>>
          /\ lo # Null => t = <<Line("logged_out")>>
    BY <1>4, <2>1 DEF CloseStore
  <2>3. s \in Seq(Lines) /\ t \in Seq(Lines) /\ out \in Seq(Lines) /\ out \o s \in Seq(Lines)
        /\ Line("store_io") \in Lines /\ Line("logged_out") \in Lines
    <3>1. s \in Seq(Lines) /\ t \in Seq(Lines) /\ out \in Seq(Lines)
      BY <1>0, LineTypes, MaybeLine DEF TLines
    <3> QED
      BY <3>1, LineTypes
  <2>4. lo # Null => Wrote(Line("logged_out"))'
    <3>1. Holds((out \o s) \o <<Line("logged_out")>>, Line("logged_out"))
      BY <2>3, WroteThat
    <3> QED
      BY <2>2, <3>1 DEF Wrote, Holds
  <2>5. store' = "undeleted" => Wrote(Line("store_io"))'
    <3>1. Holds(out \o <<Line("store_io")>>, Line("store_io"))
      BY <2>3, WroteThat
    <3>2. s = <<Line("store_io")>> => Holds((out \o s) \o t, Line("store_io"))
      BY <2>3, <3>1, WroteStill
    <3> QED
      BY <2>2, <3>2 DEF Wrote, Holds
  <2>6. main' = "report" /\ lo' = lo
    BY <1>4 DEF CloseStore, StopStep
  <2> QED
    BY <2>4, <2>5, <2>6 DEF SaidInv
<1>5. CASE Report
  <2>1. PICK s \in {<<>>, <<Status("stopped")>>}, t \in {<<>>, <<Line("ok_logout")>>},
             u \in {<<>>, <<Line("ok_shutdown")>>} :
          /\ out' = ((out \o s) \o t) \o u
          /\ lo = "user" => t = <<Line("ok_logout")>>
    BY <1>5 DEF Report, StoppedLine
  <2>2. s \in Seq(Lines) /\ t \in Seq(Lines) /\ u \in Seq(Lines) /\ out \in Seq(Lines)
    <3>1. Status("stopped") \in Lines
      BY LineTypes DEF States
    <3> QED
      BY <1>0, <3>1, LineTypes, MaybeLine DEF TLines
  <2>3. out \o s \in Seq(Lines) /\ (out \o s) \o t \in Seq(Lines)
    BY <2>2
  <2>4. lo = "user" => Wrote(Line("ok_logout"))'
    <3>1. Holds((out \o s) \o <<Line("ok_logout")>>, Line("ok_logout"))
      BY <2>3, LineTypes, WroteThat
    <3>2. t = <<Line("ok_logout")>> => Holds(((out \o s) \o t) \o u, Line("ok_logout"))
      BY <2>2, <2>3, <3>1, LineTypes, WroteStill
    <3> QED
      BY <2>1, <3>2 DEF Wrote, Holds
  <2>5. main = "report" /\ main' = "code" /\ lo' = lo /\ store' = store
    BY <1>5 DEF Report, StopStep
  <2> QED
    BY <1>1, <2>4, <2>5 DEF SaidInv, AfterClose
<1>6. ASSUME NEW j \in Jobs, Goroutine(j)
      PROVE  SaidInv'
  BY <1>0, <1>3, <1>6, GoroutineEffect DEF Effect
<1>7. ASSUME NEW h \in Events, Dispatch(h)
      PROVE  SaidInv'
  BY <1>3, <1>7 DEF Dispatch, mainVars
<1>8. CASE Loop \/ Ending \/ Quiesce \/ Cancel \/ Wait \/ ReadLogout
  <2>1. main' \in {"select", "quiesce", "cancel", "wait", "read", "close"}
    BY <1>8 DEF Loop, Ending, Refused, InitFails, InitDone, StartCommand, Read, Shutdown, StdinEOF, NoInit,
                EndLoop, Quiesce, Cancel, Wait, ReadLogout, StopStep, mainVars
  <2> QED
    BY <1>2, <2>1 DEF AfterClose
<1>9. CASE ExitProcess \/ UNCHANGED vars
  BY <1>3, <1>9 DEF ExitProcess, StopStep, vars
<1> QED
  BY <1>4, <1>5, <1>6, <1>7, <1>8, <1>9 DEF Next, Stop, Exited

-----------------------------------------------------------------------------
(* The exit code *)

\* Code c is true: 7 of a logout that was recorded, the others of a fatal error that
\* was written.
CodeTrue(c) ==
  /\ c = ExitLoggedOut => loggedOut # Null
  /\ c \in {3, 4, 5} => \E x \in DOMAIN FatalExit : FatalExit[x] = c /\ Wrote(Fatal(x))

\* A goroutine about to ask for an exit has done what its code says, and a logout
\* that Stop read was recorded.
PendingInv ==
  /\ lo # Null => loggedOut # Null
  /\ \A j \in {"logout", "remote"} : at[j] \in {"cancel", "exit"} => loggedOut # Null
  /\ main = "select" =>
       \A j \in {"refresh", "ClientOutdated"} : at[j] = "exit" => Wrote(Fatal("client_outdated"))

\* The code in the channel, then in run's hands, is true.
CodeInv ==
  /\ main = "select" => \A c \in Codes : fatal = <<c>> => CodeTrue(c)
  /\ main # "select" /\ why = "fatal" => exitCode \in Codes /\ CodeTrue(exitCode)
  /\ main = "exited" /\ why # "fatal" => exitCode = IF why = "noinit" THEN ExitNoInit ELSE StopCode

\* A logout that was recorded stays recorded.
LEMMA LogoutKept ==
  ASSUME TypeInv, [Next]_vars, loggedOut # Null
  PROVE  loggedOut' # Null
<1>0. TypeOK
  BY DEF TypeInv
<1>1. ASSUME NEW j \in Jobs, Goroutine(j)
      PROVE  loggedOut' # Null
  BY <1>0, <1>1, GoroutineEffect DEF Effect
<1>2. CASE ~\E j \in Jobs : Goroutine(j)
  <2>1. loggedOut' = loggedOut
    BY <1>2 DEF Next, Loop, Stop, Exited, Refused, InitFails, InitDone, StartCommand, Shutdown, StdinEOF, NoInit,
                Ending, EndLoop, Quiesce, Cancel, Wait, ReadLogout, CloseStore, Report, ExitProcess, StopStep,
                Dispatch, vars, bridgeVars
  <2> QED
    BY <2>1
<1> QED
  BY <1>1, <1>2

\* A code that is true stays true.
LEMMA CodeKept ==
  ASSUME TypeInv, [Next]_vars, NEW c \in Codes, CodeTrue(c)
  PROVE  CodeTrue(c)'
<1>1. \A x \in DOMAIN FatalExit : Wrote(Fatal(x)) => Wrote(Fatal(x))'
  BY WroteKept DEF TypeInv
<1>2. loggedOut # Null => loggedOut' # Null
  BY LogoutKept
<1> QED
  BY <1>1, <1>2 DEF CodeTrue

\* A fatal error written while the writer is not quiesced is on stdout.
LEMMA WroteNow ==
  ASSUME TypeOK, ~quiesced, NEW l \in Lines, out' = Emit(l)
  PROVE  Wrote(l)'
BY EmitLine DEF Wrote

\* Every step keeps a logout that is on its way.
LEMMA NextPending ==
  ASSUME TypeInv, ControlInv, PendingInv, [Next]_vars
  PROVE  PendingInv'
<1>0. TypeOK /\ TAt /\ Fatal("client_outdated") \in Lines
  BY TypeParts, LineTypes DEF TypeInv
<1>1. Wrote(Fatal("client_outdated")) => Wrote(Fatal("client_outdated"))'
  BY <1>0, WroteKept
<1>2. loggedOut # Null => loggedOut' # Null
  BY LogoutKept
<1>3. main' = "select" => main = "select"
  <2>1. ASSUME NEW j \in Jobs, Goroutine(j)
        PROVE  main' = main
    BY <1>0, <2>1, GoroutineEffect DEF Effect
  <2> QED
    BY <2>1 DEF Next, Loop, Stop, Exited, Refused, InitFails, InitDone, StartCommand, Read, Shutdown, StdinEOF,
                NoInit, Ending, EndLoop, Quiesce, Cancel, Wait, ReadLogout, CloseStore, Report, ExitProcess,
                StopStep, Dispatch, vars, mainVars
<1>4. lo' # Null => loggedOut' # Null
  <2>1. ASSUME NEW j \in Jobs, Goroutine(j)
        PROVE  lo' = lo
    BY <1>0, <2>1, GoroutineEffect DEF Effect
  <2>2. lo' = lo \/ (lo' = loggedOut /\ loggedOut' = loggedOut)
    BY <2>1 DEF Next, Loop, Stop, Exited, Refused, InitFails, InitDone, StartCommand, Read, Shutdown, StdinEOF,
                NoInit, Ending, EndLoop, Quiesce, Cancel, Wait, ReadLogout, CloseStore, Report, ExitProcess,
                StopStep, Dispatch, vars, mainVars
  <2> QED
    BY <1>2, <2>2 DEF PendingInv
<1>5. ASSUME \A j \in {"logout", "remote", "refresh", "ClientOutdated"} :
               at'[j] \in {"cancel", "exit"} => at'[j] = at[j]
      PROVE  PendingInv'
  BY <1>1, <1>2, <1>3, <1>5, <1>4 DEF PendingInv
<1>6. ASSUME NEW j \in Jobs, Goroutine(j)
      PROVE  PendingInv'
  <2>1. Effect(j)
    BY <1>0, <1>6, GoroutineEffect
  <2>2. ASSUME NEW k \in {"logout", "remote"}, at'[k] \in {"cancel", "exit"}
        PROVE  loggedOut' # Null
    <3>1. k \in Jobs
      BY DEF Jobs, Workers
    <3> QED
      BY <1>2, <2>1, <2>2, <3>1 DEF Effect, PendingInv
  <2>3. ASSUME main' = "select", NEW k \in {"refresh", "ClientOutdated"}, at'[k] = "exit"
        PROVE  Wrote(Fatal("client_outdated"))'
    <3>1. k \in Jobs /\ ~quiesced
      BY <1>3, <2>3 DEF Jobs, Workers, Handlers, ControlInv
    <3>2. CASE k = j
      BY <1>0, <2>1, <2>3, <3>1, <3>2, WroteNow DEF Effect
    <3>3. CASE k # j
      <4>1. at[k] = "exit"
        BY <2>1, <2>3, <3>1, <3>3 DEF Effect
      <4> QED
        BY <1>1, <1>3, <2>3, <4>1 DEF PendingInv
    <3> QED
      BY <3>2, <3>3
  <2> QED
    BY <1>4, <2>2, <2>3 DEF PendingInv
<1>7. ASSUME NEW h \in Events, Dispatch(h)
      PROVE  PendingInv'
  BY <1>0, <1>5, <1>7 DEF Dispatch, TAt, Jobs, Workers, Handlers
<1>8. CASE InitDone \/ \E j \in {"logout", "command"} : StartCommand(j)
  BY <1>0, <1>5, <1>8 DEF InitDone, StartCommand, Spawn, TAt, Jobs, Workers, Handlers
<1>9. CASE at' = at
  BY <1>5, <1>9
<1> QED
  BY <1>6, <1>7, <1>8, <1>9
  DEF Next, Loop, Stop, Exited, Refused, InitFails, Shutdown, StdinEOF, NoInit, Ending, EndLoop,
      Quiesce, Cancel, Wait, ReadLogout, CloseStore, Report, ExitProcess, StopStep, vars

\* Every step keeps the exit code true.
LEMMA NextCode ==
  ASSUME TypeInv, ControlInv, PendingInv, CodeInv, [Next]_vars
  PROVE  CodeInv'
<1>0. TypeOK /\ TFatal /\ TMain
  BY TypeParts DEF TypeInv
<1>1. \A c \in Codes : CodeTrue(c) => CodeTrue(c)'
  BY CodeKept
<1>2. ASSUME UNCHANGED <<main, why, exitCode>>, main # "exited",
             main = "select" => \A c \in Codes : fatal' = <<c>> => fatal' = fatal \/ CodeTrue(c)'
      PROVE  CodeInv'
  BY <1>1, <1>2 DEF CodeInv
<1>3. ASSUME NEW j \in Jobs, Goroutine(j)
      PROVE  CodeInv'
  <2>1. Effect(j)
    BY <1>0, <1>3, GoroutineEffect
  <2>2. ASSUME main = "select", NEW c \in Codes, fatal' = <<c>>, fatal' # fatal
        PROVE  CodeTrue(c)'
    <3>1. RequestExit(j) /\ j \in {"logout", "remote", "refresh", "ClientOutdated"}
      BY <2>1, <2>2 DEF Effect
    <3>2. c = (IF j \in {"logout", "remote"} THEN ExitLoggedOut ELSE FatalExit.client_outdated)
      BY <2>2, <3>1 DEF RequestExit, Exit
    <3>3. CASE j \in {"logout", "remote"}
      <4>1. c = 7 /\ loggedOut # Null
        BY <3>1, <3>2, <3>3 DEF ExitLoggedOut, RequestExit, Step, PendingInv
      <4> QED
        BY <4>1, LogoutKept DEF CodeTrue
    <3>4. CASE j \in {"refresh", "ClientOutdated"}
      <4>1. c = 5 /\ Wrote(Fatal("client_outdated"))
        BY <2>2, <3>1, <3>2, <3>4 DEF FatalExit, RequestExit, Step, PendingInv
      <4>2. Wrote(Fatal("client_outdated"))'
        BY <1>0, <4>1, WroteKept
      <4>3. "client_outdated" \in DOMAIN FatalExit /\ FatalExit["client_outdated"] = 5
        BY DEF FatalExit
      <4> QED
        BY <4>1, <4>2, <4>3 DEF CodeTrue, ExitLoggedOut
    <3> QED
      BY <3>1, <3>3, <3>4
  <2> QED
    BY <1>2, <2>1, <2>2 DEF Effect
<1>4. ASSUME NEW h \in Events, Dispatch(h)
      PROVE  CodeInv'
  BY <1>2, <1>4 DEF Dispatch, mainVars
<1>5. CASE Refused \/ InitDone \/ \E j \in {"logout", "command"} : StartCommand(j)
  BY <1>2, <1>5 DEF Refused, InitDone, StartCommand, Read, mainVars
<1>6. CASE InitFails
  <2>1. main = "select" /\ main' = main /\ UNCHANGED <<why, exitCode>> /\ ~quiesced
    BY <1>6 DEF InitFails, Read, mainVars, ControlInv
  <2>2. ASSUME NEW c \in Codes, fatal' = <<c>>, fatal' # fatal
        PROVE  CodeTrue(c)'
    <3>1. PICK x \in DOMAIN FatalExit : out' = Emit(Fatal(x)) /\ fatal' = Exit(FatalExit[x])
      BY <1>6, <2>2 DEF InitFails
    <3>2. FatalExit[x] = c /\ c # 7
      BY <2>2, <3>1 DEF Exit, FatalExit
    <3>3. Wrote(Fatal(x))'
      <4>1. Fatal(x) \in Lines
        BY DEF Lines
      <4> QED
        BY <1>0, <2>1, <3>1, <4>1, WroteNow
    <3> QED
      BY <3>2, <3>3 DEF CodeTrue, ExitLoggedOut
  <2> QED
    BY <1>2, <2>1, <2>2
<1>7. CASE Shutdown \/ StdinEOF \/ NoInit
  BY <1>7 DEF Shutdown, StdinEOF, NoInit, EndLoop, CodeInv
<1>8. CASE Ending
  <2>1. PICK c \in Codes : fatal = <<c>>
    BY <1>0, <1>8 DEF Ending, TFatal
  <2>2. main = "select" /\ main' = "quiesce" /\ why' = "fatal" /\ exitCode' = c
    BY <1>8, <2>1 DEF Ending, EndLoop
  <2>3. CodeTrue(c)'
    BY <1>1, <2>1, <2>2 DEF CodeInv
  <2>4. exitCode' \in Codes /\ CodeTrue(exitCode)'
    BY <2>2, <2>3 DEF CodeTrue
  <2> QED
    BY <2>2, <2>4 DEF CodeInv
<1>9. CASE Quiesce \/ Cancel \/ Wait \/ ReadLogout \/ CloseStore \/ Report
  <2>1. main \notin {"select", "exited"} /\ main' \notin {"select", "exited"} /\ UNCHANGED <<why, exitCode>>
    BY <1>9 DEF Quiesce, Cancel, Wait, ReadLogout, CloseStore, Report, StopStep
  <2> QED
    BY <1>1, <2>1 DEF CodeInv
<1>10. CASE ExitProcess
  <2>1. main = "code" /\ main' = "exited" /\ why' = why /\ loggedOut' = loggedOut
    BY <1>10 DEF ExitProcess, StopStep
  <2>2. CASE why = "fatal"
    <3>1. exitCode' = exitCode
      BY <1>10, <2>2 DEF ExitProcess
    <3> QED
      BY <1>1, <2>1, <2>2, <3>1 DEF CodeInv
  <2>3. CASE why # "fatal"
    <3>1. exitCode' = IF why = "noinit" THEN ExitNoInit ELSE StopCode
      BY <1>10, <2>3 DEF ExitProcess
    <3> QED
      BY <2>1, <2>3, <3>1 DEF CodeInv, StopCode
  <2> QED
    BY <2>2, <2>3
<1>11. CASE UNCHANGED vars
  BY <1>11 DEF vars, CodeInv, CodeTrue, Wrote, StopCode
<1> QED
  BY <1>3, <1>4, <1>5, <1>6, <1>7, <1>8, <1>9, <1>10, <1>11 DEF Next, Loop, Stop, Exited

-----------------------------------------------------------------------------
(* The theorems *)

\* All of the above, which holds together.
IInv == TypeInv /\ ControlInv /\ StoreInv /\ WaitInv /\ OrderInv /\ SaidInv /\ PendingInv /\ CodeInv

\* The invariant is inductive.
LEMMA Inductive == Spec => []IInv
<1>1. Init => ControlInv /\ StoreInv /\ WaitInv /\ SaidInv /\ PendingInv /\ CodeInv
  <2> SUFFICES ASSUME Init PROVE ControlInv /\ StoreInv /\ WaitInv /\ SaidInv /\ PendingInv /\ CodeInv
    OBVIOUS
  <2>1. main = "select" /\ \A j \in Jobs : at[j] = "idle"
    BY DEF Init
  <2>2. ControlInv
    BY <2>1 DEF Init, ControlInv
  <2>3. StoreInv /\ WaitInv /\ SaidInv
    BY <2>1 DEF Init, StoreInv, WaitInv, SaidInv, AfterRead, AfterClose
  <2>4. PendingInv
    BY <2>1 DEF Init, PendingInv, Jobs, Workers, Handlers
  <2>5. CodeInv
    <3>1. \A c \in Codes : fatal # <<c>>
      BY DEF Init
    <3> QED
      BY <2>1, <3>1 DEF CodeInv
  <2> QED
    BY <2>2, <2>3, <2>4, <2>5
<1>2. Init => OrderInv
  BY DEF Init, OrderInv
<1>3. TypeInv /\ ControlInv /\ StoreInv /\ WaitInv /\ OrderInv /\ SaidInv /\ PendingInv /\ CodeInv /\ [Next]_vars
        => ControlInv' /\ StoreInv' /\ WaitInv' /\ OrderInv' /\ SaidInv' /\ PendingInv' /\ CodeInv'
  BY NextControl, NextStore, NextWait, NextOrder, NextSaid, NextPending, NextCode
<1> QED
  BY <1>1, <1>2, <1>3, TypeInvariant, PTL DEF Spec, IInv

\* The variables keep their types, and the fatal channel never holds more than one
\* code (Bridge.exit), whatever commands, events and timers come.
THEOREM TypeCorrect == Spec => []TypeOK
<1>1. TypeInv => TypeOK
  BY DEF TypeInv
<1> QED
  BY <1>1, TypeInvariant, PTL

\* No method call of the store runs on a closed or deleted database, even when a
\* goroutine outlives Stop's wait; and unless the wait expired, Stop closes or
\* deletes the store only when every goroutine has finished (Store.use, goSafe, Stop).
THEOREM StoreGuardedAlways == Spec => []StoreGuarded
<1>1. IInv => StoreGuarded
  <2> SUFFICES ASSUME IInv PROVE StoreGuarded
    OBVIOUS
  <2>1. TypeOK
    BY DEF IInv, TypeInv
  <2>2. (\E j \in Jobs : at[j] = "using") => store = "open"
    BY DEF IInv, StoreInv
  <2>3. store \in {"closed", "deleted", "undeleted"} /\ ~expired => WorkersDone
    BY DEF IInv, StoreInv, WaitInv, AfterClose, AfterRead
  <2> QED
    BY <2>1, <2>2, <2>3 DEF StoreGuarded
<1> QED
  BY <1>1, Inductive, PTL

\* Once Stop has quiesced the writer, stdout carries nothing but Stop's own last
\* lines, in the order of PROTOCOL.md 6.11, whatever still runs (Writer.emit, Stop).
THEOREM FinalOrderAlways == Spec => []FinalOrder
<1>1. IInv => FinalOrder
  <2> SUFFICES ASSUME IInv, quiesced,
                      NEW i \in mark + 1 .. Len(out)
               PROVE  \E r \in DOMAIN FinalLines :
                        /\ out[i] = FinalLines[r]
                        /\ i > mark + 1 => \E q \in 1 .. r - 1 : out[i - 1] = FinalLines[q]
    BY DEF FinalOrder
  <2>1. InOrder(out, mark, Passed) /\ Passed \in 0 .. 5
    BY DEF IInv, OrderInv, Passed
  <2>2. PICK r \in 1 .. Passed :
          /\ out[i] = FinalLines[r]
          /\ i > mark + 1 => \E q \in 1 .. r - 1 : out[i - 1] = FinalLines[q]
    BY <2>1 DEF InOrder
  <2>3. r \in DOMAIN FinalLines
    BY <2>1, FinalTypes
  <2> QED
    BY <2>2, <2>3
<1> QED
  BY <1>1, Inductive, PTL

\* A logout that Stop saw is carried through before the process exits: the store is
\* deleted or its deletion reported as failed, logged_out and the command's ok are
\* written, and the code is 7 unless a fatal error came first; and Stop sees every
\* recorded logout unless its wait expired (Stop, loggedOutBy, stopCode).
THEOREM LogoutCarriedOutAlways == Spec => []LogoutCarriedOut
<1>1. ASSUME IInv, main = "exited", lo # Null
      PROVE  /\ store \in {"deleted", "undeleted"}
             /\ store = "undeleted" => Wrote(Line("store_io"))
             /\ Wrote(Line("logged_out"))
             /\ lo = "user" => Wrote(Line("ok_logout"))
             /\ why # "fatal" => exitCode = ExitLoggedOut
  <2>1. inited /\ loggedOut # Null
    BY <1>1 DEF IInv, ControlInv, PendingInv
  <2>2. store \in {"deleted", "undeleted"}
    BY <1>1, <2>1 DEF IInv, StoreInv, AfterClose
  <2>3. /\ store = "undeleted" => Wrote(Line("store_io"))
        /\ Wrote(Line("logged_out"))
        /\ lo = "user" => Wrote(Line("ok_logout"))
    BY <1>1 DEF IInv, SaidInv, AfterClose
  <2>4. why # "fatal" => exitCode = ExitLoggedOut
    BY <1>1, <2>1 DEF IInv, ControlInv, CodeInv, StopCode
  <2> QED
    BY <2>2, <2>3, <2>4
<1>2. ASSUME IInv, main = "exited", ~expired
      PROVE  lo = loggedOut
  BY <1>2 DEF IInv, WaitInv, AfterRead
<1>3. IInv => LogoutCarriedOut
  BY <1>1, <1>2 DEF LogoutCarriedOut
<1> QED
  BY <1>3, Inductive, PTL

\* What the exit code says is true, whichever of stdin, the init timer, the fatal
\* channel and a logout came first (run's select, Bridge.exit, stopCode).
THEOREM ExitCodeTrueAlways == Spec => []ExitCodeIsTrue
<1>1. IInv => ExitCodeIsTrue
  <2> SUFFICES ASSUME IInv, main = "exited"
               PROVE  /\ exitCode = ExitNoInit => ~inited
                      /\ exitCode = ExitLoggedOut => loggedOut # Null
                      /\ exitCode \in {3, 4, 5} => \E c \in DOMAIN FatalExit : FatalExit[c] = exitCode /\ Wrote(Fatal(c))
                      /\ exitCode = 0 => loggedOut = Null /\ why \in {"shutdown", "eof"}
    BY DEF ExitCodeIsTrue
  <2>1. CASE why = "fatal"
    BY <2>1 DEF IInv, CodeInv, CodeTrue, Codes, ExitNoInit, ExitLoggedOut
  <2>2. CASE why = "noinit"
    BY <2>2 DEF IInv, CodeInv, ControlInv, ExitNoInit, ExitLoggedOut
  <2>3. CASE why \in {"shutdown", "eof"}
    BY <2>3 DEF IInv, CodeInv, StopCode, ExitNoInit, ExitLoggedOut
  <2> QED
    BY <2>1, <2>2, <2>3 DEF IInv, ControlInv
<1> QED
  BY <1>1, Inductive, PTL
=============================================================================
