------------------------------ MODULE Pairing ------------------------------
(***************************************************************************)
(* Linking an account: pair_qr and pair_phone on a store without one.      *)
(* startPairing makes a pairing current; its goroutine (runPairing,        *)
(* cycleCodes) connects, waits for codes and shows them until they run     *)
(* out; the events of whatsmeow end it from goroutines of their own;       *)
(* takePair, under Bridge.mu, decides which of them does.                  *)
(***************************************************************************)
EXTENDS Integers, Sequences, FiniteSets

CONSTANTS
  Pairings,  \* pair_qr and pair_phone commands
  Events,    \* which events end a pairing: a subset of Enders
  MaxCodes,  \* codes in one QR event
  CodesCap,  \* capacity of pairing.codes
  RotCap,    \* capacity of pairing.rot
  MaxEvents, \* bound: events of whatsmeow
  Null

\* PairError stands for QRScannedWithoutMultidevice too.
Enders == {"PairSuccess", "PairError", "Disconnected", "ConnectFailure", "ClientOutdated"}

ASSUME PairingAssumption ==
  /\ Events \subseteq Enders
  /\ MaxCodes \in Nat \ {0}
  /\ CodesCap \in Nat \ {0}
  /\ RotCap \in Nat \ {0}
  /\ MaxEvents \in Nat
  /\ Null \notin Pairings

VARIABLES
  pair,     \* Bridge.pair
  phone,    \* pairing.phone is set
  ended,    \* pairing.ctx is cancelled
  codes,    \* events waiting in pairing.codes
  rot,      \* rotations waiting in pairing.rot
  pc,       \* where each pairing's goroutine is
  left,     \* codes it still has to show
  result,   \* the final line it is about to write
  at,       \* where each event handler is
  took,     \* the pairing each handler ended
  closing,  \* goroutines of pairEnd about to disconnect
  linked,   \* the store has an account
  link,     \* the client's socket
  state,    \* Bridge.state
  stopped,  \* Stop has begun
  out,      \* the pairing's lines on stdout
  events    \* events received

vars == <<pair, phone, ended, codes, rot, pc, left, result, at, took, closing, linked, link, state,
          stopped, out, events>>

chanVars    == <<codes, rot>>
localVars   == <<phone, left, result>>
handlerVars == <<at, took, closing, events>>

Line(l, p) == [line |-> l, pairing |-> p]
Emit(l, p) == IF stopped THEN out ELSE Append(out, Line(l, p))

-----------------------------------------------------------------------------
(* Commands *)

\* run's goroutine, which handles one command after the other and then calls Stop,
\* is inside startPairing.
Handling == \E p \in Pairings : pc[p] = "checked"

\* startPairing asks the store for the account first, without a lock.
CheckAccount(p) ==
  /\ ~stopped
  /\ ~Handling
  /\ pc[p] = "new"
  /\ ~linked
  /\ pc' = [pc EXCEPT ![p] = "checked"]
  /\ UNCHANGED <<pair, ended, chanVars, localVars, handlerVars, linked, link, state, stopped, out>>

\* Mutant of StartPairing: a second command takes the place of the running pairing.
StartPairingAnyway(p) ==
  /\ pc[p] = "checked"
  /\ pair' = p
  /\ phone' \in {[phone EXCEPT ![p] = v] : v \in BOOLEAN}
  /\ pc' = [pc EXCEPT ![p] = "connect"]
  /\ UNCHANGED <<ended, chanVars, left, result, handlerVars, linked, link, state, stopped, out>>

\* ... and then, under mu, looks for a running pairing and takes its place.  An
\* account linked in between is not noticed.
StartPairing(p) ==
  /\ pc[p] = "checked"
  /\ pair = Null
  /\ pair' = p
  /\ phone' \in {[phone EXCEPT ![p] = v] : v \in BOOLEAN}
  /\ pc' = [pc EXCEPT ![p] = "connect"]
  /\ UNCHANGED <<ended, chanVars, left, result, handlerVars, linked, link, state, stopped, out>>

\* already_paired, or busy.
RefusePairing(p) ==
  /\ \/ pc[p] = "new" /\ linked /\ ~Handling /\ ~stopped
     \/ pc[p] = "checked" /\ pair # Null
  /\ out' = Emit("error", p)
  /\ pc' = [pc EXCEPT ![p] = "over"]
  /\ UNCHANGED <<pair, ended, chanVars, localVars, handlerVars, linked, link, state, stopped>>

\* Stop: every pairing's context ends, the socket closes and stdout is quiet.
Stop ==
  /\ ~stopped
  /\ ~Handling
  /\ stopped' = TRUE
  /\ pair' = Null
  /\ ended' = [p \in Pairings |-> TRUE]
  /\ link' = "down"
  /\ UNCHANGED <<chanVars, localVars, pc, handlerVars, linked, state, out>>

-----------------------------------------------------------------------------
(* runPairing and cycleCodes.  Moves(p, a, b): the goroutine of p goes from a to b. *)

Moves(p, a, b) ==
  /\ pc[p] = a
  /\ pc' = [pc EXCEPT ![p] = b]
  /\ phone' = [phone EXCEPT ![p] = @ /\ b # "over"]
  /\ UNCHANGED <<handlerVars, linked, state, stopped>>

\* Connect succeeds (also when the socket is open already) or fails.
Connect(p) ==
  /\ \/ Moves(p, "connect", "first") /\ link' = "up" /\ UNCHANGED result
     \/ /\ Moves(p, "connect", "take")
        /\ result' = [result EXCEPT ![p] = "error"]
        /\ UNCHANGED link
  /\ UNCHANGED <<pair, ended, chanVars, left, out>>

\* The first codes arrive; for a phone number link they only open the window.
FirstCodes(p) ==
  /\ codes[p] > 0
  /\ Moves(p, "first", IF phone[p] THEN "phone" ELSE "show")
  /\ codes' = [codes EXCEPT ![p] = @ - 1]
  /\ left' = [left EXCEPT ![p] = MaxCodes]
  /\ UNCHANGED <<pair, ended, rot, result, link, out>>

\* FirstQRWait passes, or WhatsApp refuses the phone number.
Abort(p) ==
  /\ Moves(p, "first", "take") \/ (~ended[p] /\ Moves(p, "phone", "take"))
  /\ result' = [result EXCEPT ![p] = "error"]
  /\ UNCHANGED <<pair, ended, chanVars, left, link, out>>

\* PairPhone gives a code; it is written without another look at the context.
PairPhone(p) ==
  /\ Moves(p, "phone", "code")
  /\ UNCHANGED <<pair, ended, chanVars, left, result, link, out>>

PairCode(p) ==
  /\ Moves(p, "code", "show")
  /\ out' = Emit("pair_code", p)
  /\ UNCHANGED <<pair, ended, chanVars, left, result, link>>

\* The head of cycleCodes' loop.
ShowCode(p) ==
  /\ left[p] > 0
  /\ Moves(p, "show", "wait")
  /\ out' = IF phone[p] THEN out ELSE Emit("qr", p)
  /\ left' = [left EXCEPT ![p] = @ - 1]
  /\ UNCHANGED <<pair, ended, chanVars, result, link>>

\* The code's lifetime is over; an ADV rotation shows it again in its new form;
\* new codes replace the rest.
CodeExpires(p) ==
  /\ Moves(p, "wait", "show")
  /\ UNCHANGED <<pair, ended, chanVars, left, result, link, out>>

Rotated(p) ==
  /\ rot[p] > 0
  /\ Moves(p, "wait", "show")
  /\ rot' = [rot EXCEPT ![p] = @ - 1]
  /\ left' = [left EXCEPT ![p] = @ + 1]
  /\ UNCHANGED <<pair, ended, codes, result, link, out>>

NewCodes(p) ==
  /\ codes[p] > 0
  /\ Moves(p, "wait", "show")
  /\ codes' = [codes EXCEPT ![p] = @ - 1]
  /\ left' = [left EXCEPT ![p] = MaxCodes]
  /\ UNCHANGED <<pair, ended, rot, result, link, out>>

\* The pairing was ended by someone else.
Leave(p) ==
  /\ ended[p]
  /\ \E a \in {"first", "phone", "wait"} : Moves(p, a, "over")
  /\ UNCHANGED <<pair, ended, chanVars, left, result, link, out>>

CodesRunOut(p) ==
  /\ left[p] = 0
  /\ Moves(p, "show", "take")
  /\ result' = [result EXCEPT ![p] = "pair_failed"]
  /\ UNCHANGED <<pair, ended, chanVars, left, link, out>>

\* Mutant of Take: it does not look whether the pairing is still current.
TakeAnyway(p) ==
  /\ Moves(p, "take", "disconnect")
  /\ pair' = IF pair = p THEN Null ELSE pair
  /\ ended' = [ended EXCEPT ![p] = TRUE]
  /\ UNCHANGED <<chanVars, left, result, link, out>>

\* takePair by the pairing's own goroutine.
Take(p) ==
  /\ Moves(p, "take", IF pair = p THEN "disconnect" ELSE "over")
  /\ pair' = IF pair = p THEN Null ELSE pair
  /\ ended' = [ended EXCEPT ![p] = @ \/ pair = p]
  /\ UNCHANGED <<chanVars, left, result, link, out>>

Disconnect(p) ==
  /\ Moves(p, "disconnect", "fail")
  /\ link' = "down"
  /\ UNCHANGED <<pair, ended, chanVars, left, result, out>>

Fail(p) ==
  /\ Moves(p, "fail", "over")
  /\ out' = Emit(result[p], p)
  /\ result' = [result EXCEPT ![p] = Null]
  /\ UNCHANGED <<pair, ended, chanVars, left, link>>

-----------------------------------------------------------------------------
(* Events *)

Received == events < MaxEvents /\ events' = events + 1 /\ link = "up" /\ ~stopped

\* pairQR: a send on codes that never blocks; a full channel drops the codes.
QR ==
  /\ Received
  /\ pair # Null
  /\ codes' = [codes EXCEPT ![pair] = IF @ < CodesCap THEN @ + 1 ELSE @]
  /\ UNCHANGED <<pair, ended, rot, localVars, pc, at, took, closing, linked, link, state, stopped, out>>

\* pairRotate
RotateADVSecret ==
  /\ Received
  /\ pair # Null
  /\ rot' = [rot EXCEPT ![pair] = IF @ < RotCap THEN @ + 1 ELSE @]
  /\ UNCHANGED <<pair, ended, codes, localVars, pc, at, took, closing, linked, link, state, stopped, out>>

\* whatsmeow saves the account (of a phone that was shown a code), or loses the
\* socket, before it calls the handler.
Dispatch(e) ==
  /\ Received
  /\ at[e] = "idle"
  /\ e \in {"PairSuccess", "PairError"} => ~linked
  /\ e = "PairSuccess" => \E i \in DOMAIN out : out[i].line \in {"qr", "pair_code"}
  /\ at' = [at EXCEPT ![e] = "find"]
  /\ linked' = (linked \/ e = "PairSuccess")
  /\ link' = IF e \in {"Disconnected", "ConnectFailure", "ClientOutdated"} THEN "down" ELSE link
  /\ UNCHANGED <<pair, ended, chanVars, localVars, pc, took, closing, state, stopped, out>>

\* whatsmeow opens the socket of a linked account again by itself.
Redial ==
  /\ linked /\ link = "down" /\ ~stopped
  /\ link' = "up"
  /\ UNCHANGED <<pair, ended, chanVars, localVars, pc, handlerVars, linked, state, stopped, out>>

\* clientOutdated refreshes the version and, for a linked account or a running
\* pairing, opens the socket again, or goes on to outdatedFatal (HandlerFinds).
\* How often it refreshes is counted in Lifecycle, not here.
Refreshed ==
  /\ at["ClientOutdated"] = "find"
  /\ at' = [at EXCEPT !["ClientOutdated"] = "idle"]
  /\ link' \in IF (linked \/ pair # Null) /\ ~stopped THEN {"down", "up"} ELSE {link}
  /\ UNCHANGED <<pair, ended, chanVars, localVars, pc, took, closing, events, linked, state, stopped, out>>

\* currentPair by a handler (pairSuccess, or pairEnd): what takePair then looks for.
HandlerFinds(e) ==
  /\ at[e] = "find"
  /\ at' = [at EXCEPT ![e] = "take"]
  /\ took' = [took EXCEPT ![e] = pair]
  /\ UNCHANGED <<pair, ended, chanVars, localVars, pc, closing, events, linked, link, state, stopped, out>>

\* The pairing the handler found is still the current one.
StillCurrent(e) == took[e] # Null /\ took[e] = pair

\* Mutant of AfterTake: a PairSuccess with no pairing in progress is dropped.
AfterTakeCurrent(e) ==
  CASE StillCurrent(e) -> "write"
    [] e \in {"PairSuccess", "PairError", "ClientOutdated"} /\ ~StillCurrent(e) -> "idle"
    [] OTHER -> "set"

\* Where a handler goes after takePair: pairEnd ends a Disconnected that ended a
\* pairing, and is followed by setState otherwise; pairSuccess always goes on.
AfterTake(e) ==
  CASE e = "PairSuccess" \/ StillCurrent(e) -> "write"
    [] e \in {"PairError", "ClientOutdated"} /\ ~StillCurrent(e) -> "idle"
    [] OTHER -> "set"
AfterWrite(e) == IF e \in {"PairSuccess", "ConnectFailure"} THEN "set" ELSE "idle"

\* Mutant of HandlerTakes: the pairing's context is not cancelled.
HandlerTakesOnly(e) ==
  /\ at[e] = "take"
  /\ at' = [at EXCEPT ![e] = AfterTake(e)]
  /\ took' = [took EXCEPT ![e] = IF StillCurrent(e) THEN @ ELSE Null]
  /\ pair' = IF StillCurrent(e) THEN Null ELSE pair
  /\ UNCHANGED <<ended, chanVars, localVars, pc, closing, events, linked, link, state, stopped, out>>

\* takePair by a handler.
HandlerTakes(e) ==
  /\ at[e] = "take"
  /\ at' = [at EXCEPT ![e] = AfterTake(e)]
  /\ took' = [took EXCEPT ![e] = IF StillCurrent(e) THEN @ ELSE Null]
  /\ pair' = IF StillCurrent(e) THEN Null ELSE pair
  /\ ended' = [p \in Pairings |-> ended[p] \/ (StillCurrent(e) /\ p = pair)]
  /\ UNCHANGED <<chanVars, localVars, pc, closing, events, linked, link, state, stopped, out>>

\* paired, or pair_failed and a goroutine that disconnects.
HandlerWrites(e) ==
  /\ at[e] = "write"
  /\ at' = [at EXCEPT ![e] = AfterWrite(e)]
  /\ out' = Emit(IF e = "PairSuccess" THEN "paired" ELSE "pair_failed", took[e])
  /\ took' = [took EXCEPT ![e] = Null]
  /\ closing' = IF e = "PairSuccess" \/ stopped THEN closing ELSE closing + 1
  /\ UNCHANGED <<pair, ended, chanVars, localVars, pc, events, linked, link, state, stopped>>

HandlerSets(e) ==
  /\ at[e] = "set"
  /\ at' = [at EXCEPT ![e] = "idle"]
  /\ state' = CASE e = "PairSuccess" -> "connecting"
                [] e = "Disconnected" -> "reconnecting"
                [] OTHER -> "stopped"
  /\ UNCHANGED <<pair, ended, chanVars, localVars, pc, took, closing, events, linked, link, stopped, out>>

\* pairEnd's goroutine, whoever's socket it is by then.
CloseSocket ==
  /\ closing > 0
  /\ closing' = closing - 1
  /\ link' = "down"
  /\ UNCHANGED <<pair, ended, chanVars, localVars, pc, at, took, events, linked, state, stopped, out>>

-----------------------------------------------------------------------------
Init ==
  /\ pair = Null
  /\ phone = [p \in Pairings |-> FALSE]
  /\ ended = [p \in Pairings |-> FALSE]
  /\ codes = [p \in Pairings |-> 0]
  /\ rot = [p \in Pairings |-> 0]
  /\ pc = [p \in Pairings |-> "new"]
  /\ left = [p \in Pairings |-> 0]
  /\ result = [p \in Pairings |-> Null]
  /\ at = [e \in Enders |-> "idle"]
  /\ took = [e \in Enders |-> Null]
  /\ closing = 0
  /\ linked = FALSE
  /\ link = "down"
  /\ state = "unpaired"
  /\ stopped = FALSE
  /\ out = <<>>
  /\ events = 0

RunPairing(p) ==
  \/ Connect(p) \/ FirstCodes(p) \/ Abort(p) \/ PairPhone(p) \/ PairCode(p) \/ ShowCode(p)
  \/ CodeExpires(p) \/ Rotated(p) \/ NewCodes(p) \/ Leave(p) \/ CodesRunOut(p) \/ Take(p)
  \/ Disconnect(p) \/ Fail(p)

OnEvent(e) == HandlerFinds(e) \/ HandlerTakes(e) \/ HandlerWrites(e) \/ HandlerSets(e)

Next ==
  \/ \E p \in Pairings : CheckAccount(p) \/ StartPairing(p) \/ RefusePairing(p) \/ RunPairing(p)
  \/ \E e \in Events : Dispatch(e) \/ OnEvent(e)
  \/ "ClientOutdated" \in Events /\ Refreshed
  \/ QR \/ RotateADVSecret \/ Redial \/ CloseSocket \/ Stop

Spec == Init /\ [][Next]_vars

\* Goroutines and timers of the bridge run; WhatsApp owes nothing.
FairSpec ==
  /\ Spec
  /\ \A p \in Pairings : WF_vars(RunPairing(p))
  /\ \A e \in Events : WF_vars(OnEvent(e))
  /\ WF_vars(CloseSocket)

-----------------------------------------------------------------------------
(* Properties *)

\* The types of the variables.
TypeOK ==
  /\ pair \in Pairings \cup {Null}
  /\ phone \in [Pairings -> BOOLEAN] /\ ended \in [Pairings -> BOOLEAN]
  /\ codes \in [Pairings -> 0 .. CodesCap] /\ rot \in [Pairings -> 0 .. RotCap]
  /\ pc \in [Pairings -> {"new", "checked", "connect", "first", "phone", "code", "show", "wait", "take",
                          "disconnect", "fail", "over"}]
  /\ left \in [Pairings -> 0 .. MaxCodes]
  /\ result \in [Pairings -> {Null, "error", "pair_failed"}]
  /\ at \in [Enders -> {"idle", "find", "take", "write", "set"}]
  /\ took \in [Enders -> Pairings \cup {Null}]
  /\ closing \in Nat
  /\ linked \in BOOLEAN /\ link \in {"down", "up"} /\ stopped \in BOOLEAN
  /\ state \in {"unpaired", "connecting", "reconnecting", "stopped"}
  /\ out \in Seq([line : {"qr", "pair_code", "paired", "pair_failed", "error"},
                  pairing : Pairings \cup {Null}])
  /\ events \in 0 .. MaxEvents

Finals(p) == {i \in DOMAIN out : out[i].pairing = p /\ out[i].line \in {"paired", "pair_failed", "error"}}

\* A pairing command gets at most one final line, although its own timer and
\* every event handler race to end it (takePair).
OneFinal == \A p \in Pairings : Cardinality(Finals(p)) <= 1

\* The variables keep their types, and the current pairing is exactly the one whose
\* context lives: no goroutine of an earlier pairing runs on beside it, and none
\* waits for ever on a pairing nobody can end (takePair, startPairing, Stop).
CurrentLives ==
  /\ TypeOK
  /\ \A p \in Pairings :
       pc[p] \in {"connect", "first", "phone", "code", "show", "wait"} => (ended[p] <=> pair # p)

\* A pairing that was started ends with its final line, with no help from
\* WhatsApp: the timers of runPairing and cycleCodes bound it.
PairingEnds == \A p \in Pairings : pc[p] = "connect" ~> (stopped \/ Finals(p) # {})

\* The client always learns of a linked account: once the handler of PairSuccess
\* is through, paired has been written, also when the pairing's own timer ended
\* the pairing first (pairSuccess goes on without one; PROTOCOL.md 5.7).
LinkIsReported ==
  linked /\ at["PairSuccess"] = "idle" /\ ~stopped => \E i \in DOMAIN out : out[i].line = "paired"
=============================================================================
