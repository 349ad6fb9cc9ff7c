--------------------------- MODULE PairingProofs ---------------------------
(***************************************************************************)
(* Proofs about Pairing: its types, the one final line of a pairing, the   *)
(* context of the current pairing, and the report of a linked account, for *)
(* every number of commands, codes and events.                             *)
(***************************************************************************)
EXTENDS Pairing, FiniteSetTheorems, TLAPS

Unstarted  == {"new", "checked"}
RunSteps   == {"connect", "first", "phone", "code", "show", "wait"}
EndSteps   == {"take", "disconnect", "fail"}
LineKinds  == {"qr", "pair_code", "paired", "pair_failed", "error"}
FinalKinds == {"paired", "pair_failed", "error"}

\* What a goroutine's place says of its own variables.
PlacesFit ==
  \A p \in Pairings :
    /\ pc[p] = "wait" => left[p] < MaxCodes
    /\ pc[p] \in EndSteps => result[p] \in {"error", "pair_failed"}

TypeInv == TypeOK /\ PlacesFit

\* Who is about to write a final line of p: its own goroutine, or a handler.
EndsItself(p) == pc[p] \in {"disconnect", "fail"}
Ends(e, p)    == at[e] = "write" /\ took[e] = p

\* Whoever ended a pairing is the only one to write its final line, and it has not
\* done so yet.
EndInv ==
  \A p \in Pairings :
    /\ \A i, j \in Finals(p) : i = j
    /\ pair = p \/ pc[p] \in Unstarted \/ EndsItself(p) => Finals(p) = {}
    /\ \A e \in Enders : Ends(e, p) => Finals(p) = {} /\ pair # p /\ pc[p] \notin Unstarted /\ ~EndsItself(p)
    /\ pair = p => pc[p] \in RunSteps \cup {"take"}
    /\ \A e, f \in Enders : Ends(e, p) /\ Ends(f, p) => e = f

\* The context of a pairing ends when it stops being the current one.
ContextInv ==
  \A p \in Pairings :
    /\ pc[p] \in RunSteps => (ended[p] <=> pair # p)
    /\ pc[p] \in Unstarted /\ ~stopped => ~ended[p]
    /\ pc[p] = "checked" => ~stopped

\* The handler that was called for a new account is on its way to report it.
LinkInv ==
  linked /\ ~stopped /\ at["PairSuccess"] \notin {"find", "take", "write"} =>
    \E i \in DOMAIN out : out[i].line = "paired"

-----------------------------------------------------------------------------
\* A line more on stdout is still a sequence of lines.
LEMMA EmitType ==
  ASSUME TypeOK, NEW l \in LineKinds, NEW q \in Pairings \cup {Null}
  PROVE  Emit(l, q) \in Seq([line : LineKinds, pairing : Pairings \cup {Null}])
<1>1. Line(l, q) \in [line : LineKinds, pairing : Pairings \cup {Null}]
  BY DEF Line
<1>2. Append(out, Line(l, q)) \in Seq([line : LineKinds, pairing : Pairings \cup {Null}])
  BY <1>1 DEF TypeOK, LineKinds
<1>3. out \in Seq([line : LineKinds, pairing : Pairings \cup {Null}])
  BY DEF TypeOK, LineKinds
<1> QED
  BY <1>2, <1>3, Zenon DEF Emit

\* A step of a pairing's goroutine keeps the types.
LEMMA RunType ==
  ASSUME TypeInv, NEW p \in Pairings, RunPairing(p)
  PROVE  TypeInv'
<1> USE PairingAssumption DEF TypeInv, TypeOK, PlacesFit, EndSteps, Moves, chanVars, localVars, handlerVars
<1>1. CASE Connect(p)
  <2>1. CASE Moves(p, "connect", "first") /\ UNCHANGED result
    BY <1>1, <2>1 DEF Connect
  <2>2. CASE Moves(p, "connect", "take") /\ result' = [result EXCEPT ![p] = "error"]
    BY <1>1, <2>2 DEF Connect
  <2> QED
    BY <1>1, <2>1, <2>2 DEF Connect
<1>2. CASE FirstCodes(p)
  <2>1. codes' \in [Pairings -> 0 .. CodesCap] /\ left' \in [Pairings -> 0 .. MaxCodes]
    BY <1>2 DEF FirstCodes
  <2>2. CASE Moves(p, "first", "phone")
    BY <1>2, <2>1, <2>2 DEF FirstCodes
  <2>3. CASE Moves(p, "first", "show")
    BY <1>2, <2>1, <2>3 DEF FirstCodes
  <2> QED
    BY <1>2, <2>2, <2>3, Zenon DEF FirstCodes
<1>3. CASE Abort(p)
  BY <1>3 DEF Abort
<1>4. CASE PairPhone(p)
  BY <1>4 DEF PairPhone
<1>5. CASE PairCode(p)
  <2>1. out' \in Seq([line : LineKinds, pairing : Pairings \cup {Null}])
    BY <1>5, EmitType DEF PairCode, LineKinds
  <2> QED
    BY <1>5, <2>1 DEF PairCode, LineKinds
<1>6. CASE ShowCode(p)
  <2>1. out' \in Seq([line : LineKinds, pairing : Pairings \cup {Null}])
    BY <1>6, EmitType DEF ShowCode, LineKinds
  <2> QED
    BY <1>6, <2>1 DEF ShowCode, LineKinds
<1>7. CASE CodeExpires(p)
  BY <1>7 DEF CodeExpires
<1>8. CASE Rotated(p)
  BY <1>8 DEF Rotated
<1>9. CASE NewCodes(p)
  BY <1>9 DEF NewCodes
<1>10. CASE Leave(p)
  BY <1>10 DEF Leave
<1>11. CASE CodesRunOut(p)
  BY <1>11 DEF CodesRunOut
<1>12. CASE Take(p)
  BY <1>12 DEF Take
<1>13. CASE Disconnect(p)
  BY <1>13 DEF Disconnect
<1>14. CASE Fail(p)
  <2>1. out' \in Seq([line : LineKinds, pairing : Pairings \cup {Null}])
    BY <1>14, EmitType DEF Fail, LineKinds
  <2> QED
    BY <1>14, <2>1 DEF Fail, LineKinds
<1> QED
  BY <1>1, <1>2, <1>3, <1>4, <1>5, <1>6, <1>7, <1>8, <1>9, <1>10, <1>11, <1>12, <1>13, <1>14
  DEF RunPairing

\* So does a step of an event handler.
LEMMA HandlerType ==
  ASSUME TypeInv, NEW e \in Events, Dispatch(e) \/ OnEvent(e)
  PROVE  TypeInv'
<1> USE PairingAssumption DEF TypeInv, TypeOK, PlacesFit, EndSteps, chanVars, localVars, handlerVars
<1>0. e \in Enders
  BY DEF PairingAssumption
<1>1. CASE Dispatch(e)
  BY <1>0, <1>1 DEF Dispatch, Received
<1>2. CASE HandlerFinds(e)
  BY <1>0, <1>2 DEF HandlerFinds
<1>3. CASE HandlerTakes(e)
  <2>1. AfterTake(e) \in {"idle", "write", "set"}
    BY DEF AfterTake
  <2>2. ended' \in [Pairings -> BOOLEAN]
    BY <1>3 DEF HandlerTakes
  <2> QED
    BY <1>0, <1>3, <2>1, <2>2 DEF HandlerTakes
<1>4. CASE HandlerWrites(e)
  <2>1. out' \in Seq([line : LineKinds, pairing : Pairings \cup {Null}])
    BY <1>0, <1>4, EmitType DEF HandlerWrites, LineKinds
  <2>2. AfterWrite(e) \in {"idle", "set"}
    BY DEF AfterWrite
  <2>3. closing' \in Nat
    BY <1>4 DEF HandlerWrites
  <2> QED
    BY <1>0, <1>4, <2>1, <2>2, <2>3 DEF HandlerWrites, LineKinds
<1>5. CASE HandlerSets(e)
  BY <1>0, <1>5 DEF HandlerSets
<1> QED
  BY <1>1, <1>2, <1>3, <1>4, <1>5 DEF OnEvent

\* So does every step.
LEMMA NextType ==
  ASSUME TypeInv, [Next]_vars
  PROVE  TypeInv'
<1> USE PairingAssumption DEF TypeInv, TypeOK, PlacesFit, EndSteps, chanVars, localVars, handlerVars
<1>1. ASSUME NEW p \in Pairings, CheckAccount(p) \/ StartPairing(p)
      PROVE  TypeInv'
  <2>1. CASE CheckAccount(p)
    BY <2>1 DEF CheckAccount
  <2>2. CASE StartPairing(p)
    BY <2>2 DEF StartPairing
  <2> QED
    BY <1>1, <2>1, <2>2
<1>2. ASSUME NEW p \in Pairings, RefusePairing(p)
      PROVE  TypeInv'
  <2>1. out' \in Seq([line : LineKinds, pairing : Pairings \cup {Null}])
    BY <1>2, EmitType DEF RefusePairing, LineKinds
  <2> QED
    BY <1>2, <2>1 DEF RefusePairing, LineKinds
<1>3. ASSUME NEW p \in Pairings, RunPairing(p)
      PROVE  TypeInv'
  BY <1>3, RunType
<1>4. ASSUME NEW e \in Events, Dispatch(e) \/ OnEvent(e)
      PROVE  TypeInv'
  BY <1>4, HandlerType
<1>5. CASE QR
  BY <1>5 DEF QR, Received
<1>6. CASE RotateADVSecret
  BY <1>6 DEF RotateADVSecret, Received
<1>7. CASE CloseSocket \/ Redial
  BY <1>7 DEF CloseSocket, Redial
<1>8. CASE Stop
  BY <1>8 DEF Stop
<1>10. CASE Refreshed
  BY <1>10 DEF Refreshed, Enders
<1>9. CASE UNCHANGED vars
  BY <1>9 DEF vars
<1> QED
  BY <1>1, <1>2, <1>3, <1>4, <1>5, <1>6, <1>7, <1>8, <1>9, <1>10 DEF Next

\* Types hold, and a goroutine's variables fit the place it is at.
LEMMA TypeInvariant == Spec => []TypeInv
<1>1. Init => TypeInv
  <2> SUFFICES ASSUME Init PROVE TypeInv
    OBVIOUS
  <2>1. /\ phone \in [Pairings -> BOOLEAN] /\ ended \in [Pairings -> BOOLEAN]
        /\ linked \in BOOLEAN /\ stopped \in BOOLEAN
    BY Zenon DEF Init
  <2>2. /\ codes \in [Pairings -> 0 .. CodesCap] /\ rot \in [Pairings -> 0 .. RotCap]
        /\ left \in [Pairings -> 0 .. MaxCodes] /\ closing \in Nat /\ events \in 0 .. MaxEvents
    BY PairingAssumption DEF Init, PairingAssumption
  <2>3. out \in Seq([line : {"qr", "pair_code", "paired", "pair_failed", "error"},
                     pairing : Pairings \cup {Null}])
    BY DEF Init
  <2>4. PlacesFit
    BY DEF Init, PlacesFit, EndSteps
  <2> QED
    BY <2>1, <2>2, <2>3, <2>4 DEF Init, TypeInv, TypeOK
<1>2. TypeInv /\ [Next]_vars => TypeInv'
  BY NextType
<1> QED
  BY <1>1, <1>2, PTL DEF Spec

-----------------------------------------------------------------------------
(* One final line *)

\* A line on stdout is final for at most the pairing it names.
LEMMA EmitFinals ==
  ASSUME TypeOK, NEW l \in LineKinds, NEW q \in Pairings \cup {Null}, out' = Emit(l, q),
         NEW p \in Pairings
  PROVE  \/ Finals(p)' = Finals(p)
         \/ q = p /\ l \in FinalKinds /\ Finals(p)' = Finals(p) \cup {Len(out) + 1}
<1>1. CASE stopped
  BY <1>1 DEF Emit, Finals
<1>2. CASE ~stopped
  <2>1. out' = Append(out, Line(l, q))
    BY <1>2 DEF Emit
  <2>2. /\ DOMAIN out' = DOMAIN out \cup {Len(out) + 1}
        /\ out'[Len(out) + 1] = Line(l, q)
        /\ \A i \in DOMAIN out : out'[i] = out[i] /\ i # Len(out) + 1
    BY <2>1 DEF TypeOK
  <2>3. Line(l, q).line = l /\ Line(l, q).pairing = q
    BY DEF Line
  <2> QED
    BY <2>2, <2>3 DEF Finals, FinalKinds
<1> QED
  BY <1>1, <1>2

\* A step that writes no final line, starts no pairing and gives nobody the right
\* to write one.
LEMMA EndKept ==
  ASSUME EndInv,
         \A p \in Pairings :
           /\ Finals(p)' = Finals(p)
           /\ pc'[p] \in Unstarted => pc[p] \in Unstarted
           /\ EndsItself(p)' => EndsItself(p) \/ (pair = p /\ pair' = Null)
           /\ pair' = p => pair = p /\ pc'[p] \in RunSteps \cup {"take"}
           /\ \A e \in Enders : Ends(e, p)' => Ends(e, p)
  PROVE  EndInv'
BY DEF EndInv

\* Moving on of a goroutine that is not ending its pairing.
LEMMA RunEnd ==
  ASSUME TypeInv, EndInv, ContextInv, NEW p \in Pairings, RunPairing(p)
  PROVE  EndInv'
<1> USE DEF TypeInv, Moves, handlerVars, Unstarted
<1>0. /\ pc \in [Pairings -> Unstarted \cup RunSteps \cup EndSteps \cup {"over"}]
      /\ at' = at /\ took' = took
  <2>1. pc \in [Pairings -> Unstarted \cup RunSteps \cup EndSteps \cup {"over"}]
    BY DEF TypeOK, RunSteps, EndSteps
  <2>2. at' = at /\ took' = took
    BY DEF RunPairing, Connect, FirstCodes, Abort, PairPhone, PairCode, ShowCode, CodeExpires,
           Rotated, NewCodes, Leave, CodesRunOut, Take, Disconnect, Fail
  <2> QED
    BY <2>1, <2>2
<1>1. CASE Connect(p) \/ FirstCodes(p) \/ Abort(p) \/ PairPhone(p) \/ CodeExpires(p)
             \/ Rotated(p) \/ NewCodes(p) \/ CodesRunOut(p)
  <2>1. /\ pc[p] \in RunSteps
        /\ \E s \in RunSteps \cup {"take"} : pc' = [pc EXCEPT ![p] = s]
        /\ pair' = pair /\ out' = out
    BY <1>1 DEF Connect, FirstCodes, Abort, PairPhone, CodeExpires, Rotated, NewCodes, CodesRunOut,
                RunSteps
  <2> QED
    BY <1>0, <2>1, EndKept DEF Finals, Ends, EndsItself, RunSteps, EndInv
<1>2. CASE PairCode(p) \/ ShowCode(p)
  <2>1. /\ pc[p] \in RunSteps
        /\ \E s \in RunSteps : pc' = [pc EXCEPT ![p] = s]
        /\ pair' = pair
        /\ out' = out \/ \E l \in {"qr", "pair_code"} : out' = Emit(l, p)
    BY <1>2 DEF PairCode, ShowCode, RunSteps
  <2>2. \A q \in Pairings : Finals(q)' = Finals(q)
    BY <2>1, EmitFinals DEF Finals, FinalKinds, LineKinds
  <2> QED
    BY <1>0, <2>1, <2>2, EndKept DEF Ends, EndsItself, RunSteps, EndInv
<1>3. CASE Leave(p)
  <2>1. pc[p] \in RunSteps /\ pc' = [pc EXCEPT ![p] = "over"] /\ ended[p]
        /\ pair' = pair /\ out' = out
    BY <1>3 DEF Leave, RunSteps
  <2>2. pair # p
    BY <2>1 DEF ContextInv
  <2> QED
    BY <1>0, <2>1, <2>2, EndKept DEF Finals, Ends, EndsItself, RunSteps, EndInv
<1>4. CASE Take(p)
  <2>1. pc[p] = "take" /\ out' = out
    BY <1>4 DEF Take
  <2>2. CASE pair = p
    <3>1. pc' = [pc EXCEPT ![p] = "disconnect"] /\ pair' = Null
      BY <1>4, <2>2 DEF Take
    <3> QED
      BY <1>0, <2>1, <2>2, <3>1, EndKept, PairingAssumption
      DEF Finals, Ends, EndsItself, RunSteps, PairingAssumption
  <2>3. CASE pair # p
    <3>1. pc' = [pc EXCEPT ![p] = "over"] /\ pair' = pair
      BY <1>4, <2>3 DEF Take
    <3> QED
      BY <1>0, <2>1, <2>3, <3>1, EndKept DEF Finals, Ends, EndsItself, RunSteps, EndInv
  <2> QED
    BY <2>2, <2>3
<1>5. CASE Disconnect(p)
  <2>1. pc[p] = "disconnect" /\ pc' = [pc EXCEPT ![p] = "fail"] /\ out' = out /\ pair' = pair
    BY <1>5 DEF Disconnect
  <2> QED
    BY <1>0, <2>1, EndKept DEF Finals, Ends, EndsItself, RunSteps, EndInv
<1>6. CASE Fail(p)
  <2>1. /\ pc[p] = "fail" /\ pc' = [pc EXCEPT ![p] = "over"] /\ pair' = pair
        /\ out' = Emit(result[p], p)
    BY <1>6 DEF Fail
  <2>2. result[p] \in LineKinds
    BY <2>1 DEF PlacesFit, EndSteps, LineKinds
  <2>3. \A q \in Pairings : q # p => Finals(q)' = Finals(q)
    BY <2>1, <2>2, EmitFinals
  <2>4. \A i, j \in Finals(p)' : i = j
    <3>1. Finals(p) = {}
      BY <2>1 DEF EndInv, EndsItself
    <3> QED
      BY <2>1, <2>2, <3>1, EmitFinals
  <2>5. /\ pair # p /\ pc'[p] = "over" /\ \A e \in Enders : ~Ends(e, p)
        /\ \A q \in Pairings : q # p => pc'[q] = pc[q]
    BY <1>0, <2>1 DEF EndInv, EndsItself, RunSteps
  <2> QED
    BY <1>0, <2>1, <2>3, <2>4, <2>5 DEF EndInv, Ends, EndsItself
<1> QED
  BY <1>1, <1>2, <1>3, <1>4, <1>5, <1>6 DEF RunPairing

\* What a handler ends was current, and what it writes is the last line of that.
LEMMA HandlerEnd ==
  ASSUME TypeInv, EndInv, NEW h \in Events, Dispatch(h) \/ OnEvent(h)
  PROVE  EndInv'
<1> USE DEF TypeInv, Unstarted, localVars, chanVars
<1>0. /\ h \in Enders
      /\ at \in [Enders -> {"idle", "find", "take", "write", "set"}]
      /\ took \in [Enders -> Pairings \cup {Null}]
      /\ pc' = pc
  <2>1. pc' = pc
    BY DEF Dispatch, OnEvent, HandlerFinds, HandlerTakes, HandlerWrites, HandlerSets
  <2> QED
    BY <2>1, PairingAssumption DEF PairingAssumption, TypeOK
<1>1. CASE Dispatch(h) \/ HandlerFinds(h) \/ HandlerSets(h)
  <2>1. /\ at'[h] # "write" /\ \A e \in Enders : e # h => at'[e] = at[e] /\ took'[e] = took[e]
        /\ out' = out /\ pair' = pair
    BY <1>0, <1>1 DEF Dispatch, HandlerFinds, HandlerSets
  <2> QED
    BY <1>0, <2>1, EndKept DEF Finals, Ends, EndsItself, EndInv
<1>2. CASE HandlerTakes(h)
  <2>1. /\ at[h] = "take" /\ out' = out
        /\ \A e \in Enders : e # h => at'[e] = at[e] /\ took'[e] = took[e]
    BY <1>0, <1>2 DEF HandlerTakes
  <2>2. CASE StillCurrent(h)
    <3>1. took'[h] = pair /\ pair \in Pairings /\ pair' = Null
      BY <1>0, <1>2, <2>2 DEF HandlerTakes, StillCurrent
    <3>2. /\ Finals(pair) = {} /\ pc[pair] \in RunSteps \cup {"take"}
          /\ \A e \in Enders : ~Ends(e, pair)
      BY <3>1 DEF EndInv
    <3>3. \A p \in Pairings : p # pair => (Ends(h, p)' <=> FALSE)
      BY <3>1 DEF Ends
    <3>4. \A p \in Pairings, e \in Enders : e # h => (Ends(e, p)' <=> Ends(e, p))
      BY <2>1 DEF Ends
    <3>5. \A p \in Pairings : Finals(p)' = Finals(p) /\ pair' # p
      BY <2>1, <3>1, PairingAssumption DEF Finals, PairingAssumption
    <3>6. pc[pair] \notin Unstarted /\ ~EndsItself(pair)
      BY <3>2 DEF RunSteps, EndsItself
    <3> QED
      BY <1>0, <3>1, <3>2, <3>3, <3>4, <3>5, <3>6 DEF EndInv, EndsItself
  <2>3. CASE ~StillCurrent(h)
    <3>1. took'[h] = Null /\ pair' = pair
      BY <1>0, <1>2, <2>3 DEF HandlerTakes
    <3>2. \A p \in Pairings, e \in Enders : Ends(e, p)' => Ends(e, p)
      BY <2>1, <3>1, PairingAssumption DEF Ends, PairingAssumption
    <3> QED
      BY <1>0, <2>1, <3>1, <3>2, EndKept DEF Finals, EndsItself, EndInv
  <2> QED
    BY <2>2, <2>3
<1>3. CASE HandlerWrites(h)
  <2>1. /\ at[h] = "write" /\ took'[h] = Null /\ pair' = pair
        /\ \A e \in Enders : e # h => at'[e] = at[e] /\ took'[e] = took[e]
        /\ \E l \in FinalKinds : out' = Emit(l, took[h])
    BY <1>0, <1>3 DEF HandlerWrites, FinalKinds
  <2>2. \A p \in Pairings : p # took[h] => Finals(p)' = Finals(p)
    BY <1>0, <2>1, EmitFinals DEF FinalKinds, LineKinds
  <2>3. \A p \in Pairings, e \in Enders : Ends(e, p)' => Ends(e, p) /\ e # h
    BY <2>1, PairingAssumption DEF Ends, PairingAssumption
  <2>4. ASSUME NEW p \in Pairings, took[h] = p
        PROVE  EndInv'
    <3>1. Ends(h, p)
      BY <2>1, <2>4 DEF Ends
    <3>2. Finals(p) = {} /\ pair # p /\ pc[p] \notin Unstarted /\ ~EndsItself(p)
      BY <1>0, <3>1 DEF EndInv
    <3>3. \A e \in Enders : ~Ends(e, p)'
      <4> SUFFICES ASSUME NEW e \in Enders, Ends(e, p)'
                   PROVE  FALSE
        OBVIOUS
      <4>1. Ends(e, p) /\ e # h
        BY <2>3, <2>4
      <4> QED
        BY <1>0, <3>1, <4>1 DEF EndInv
    <3>4. \A i, j \in Finals(p)' : i = j
      <4>1. PICK l \in FinalKinds : out' = Emit(l, p)
        BY <2>1, <2>4
      <4>2. Finals(p)' \subseteq {Len(out) + 1}
        BY <3>2, <4>1, EmitFinals DEF FinalKinds, LineKinds
      <4> QED
        BY <4>2
    <3>5. \A q \in Pairings : q # p => Finals(q)' = Finals(q)
      BY <2>2, <2>4
    <3> QED
      BY <1>0, <2>1, <2>3, <3>2, <3>3, <3>4, <3>5 DEF EndInv, EndsItself
  <2>5. CASE took[h] \notin Pairings
    BY <1>0, <2>1, <2>2, <2>3, <2>5, EndKept DEF EndsItself, EndInv
  <2> QED
    BY <1>0, <2>4, <2>5
<1> QED
  BY <1>1, <1>2, <1>3 DEF OnEvent

\* Every step keeps who may write a final line apart.
LEMMA NextEnd ==
  ASSUME TypeInv, EndInv, ContextInv, [Next]_vars
  PROVE  EndInv'
<1> USE DEF TypeInv, Unstarted, localVars, chanVars, handlerVars
<1>1. ASSUME NEW p \in Pairings, StartPairing(p)
      PROVE  EndInv'
  <2>1. /\ pc[p] = "checked" /\ pc' = [pc EXCEPT ![p] = "connect"] /\ pair = Null /\ pair' = p
        /\ out' = out /\ at' = at /\ took' = took
    BY <1>1 DEF StartPairing
  <2>2. /\ pc'[p] = "connect" /\ \A q \in Pairings : q # p => pc'[q] = pc[q]
    BY <2>1 DEF TypeOK
  <2>3. /\ Finals(p) = {} /\ \A e \in Enders : ~Ends(e, p)
    BY <2>1 DEF EndInv
  <2>4. \A q \in Pairings : Finals(q)' = Finals(q) /\ \A e \in Enders : Ends(e, q)' <=> Ends(e, q)
    BY <2>1 DEF Finals, Ends
  <2> QED
    BY <2>1, <2>2, <2>3, <2>4 DEF EndInv, EndsItself, RunSteps
<1>2. ASSUME NEW p \in Pairings, RefusePairing(p)
      PROVE  EndInv'
  <2>1. /\ pc[p] \in Unstarted /\ pc' = [pc EXCEPT ![p] = "over"] /\ pair' = pair
        /\ out' = Emit("error", p) /\ at' = at /\ took' = took
    BY <1>2 DEF RefusePairing
  <2>2. /\ pc'[p] = "over" /\ \A q \in Pairings : q # p => pc'[q] = pc[q]
    BY <2>1 DEF TypeOK
  <2>3. /\ Finals(p) = {} /\ pair # p /\ \A e \in Enders : ~Ends(e, p)
    BY <2>1 DEF EndInv, RunSteps
  <2>4. \A q \in Pairings : \A e \in Enders : Ends(e, q)' <=> Ends(e, q)
    BY <2>1 DEF Ends
  <2>5. \A q \in Pairings : q # p => Finals(q)' = Finals(q)
    BY <2>1, EmitFinals DEF LineKinds
  <2>6. \A i, j \in Finals(p)' : i = j
    BY <2>1, <2>3, EmitFinals DEF LineKinds
  <2> QED
    BY <2>1, <2>2, <2>3, <2>4, <2>5, <2>6 DEF EndInv, EndsItself
<1>3. ASSUME NEW p \in Pairings, RunPairing(p)
      PROVE  EndInv'
  BY <1>3, RunEnd
<1>4. ASSUME NEW e \in Events, Dispatch(e) \/ OnEvent(e)
      PROVE  EndInv'
  BY <1>4, HandlerEnd
<1>5. CASE Stop
  BY <1>5, EndKept, PairingAssumption DEF Stop, Finals, Ends, EndsItself, PairingAssumption
<1>6. CASE UNCHANGED <<pair, pc, at, took, out>>
  BY <1>6, EndKept DEF Finals, Ends, EndsItself, EndInv
<1>7. ASSUME NEW p \in Pairings, CheckAccount(p)
      PROVE  EndInv'
  <2>1. /\ pc[p] = "new" /\ pc' = [pc EXCEPT ![p] = "checked"]
        /\ pair' = pair /\ out' = out /\ at' = at /\ took' = took
    BY <1>7 DEF CheckAccount
  <2>2. pair # p
    BY <2>1 DEF EndInv, RunSteps
  <2>3. pc'[p] = "checked" /\ \A q \in Pairings : q # p => pc'[q] = pc[q]
    BY <2>1 DEF TypeOK
  <2> QED
    BY <2>1, <2>2, <2>3, EndKept DEF Finals, Ends, EndsItself, EndInv
<1>8. CASE Refreshed
  <2>1. /\ UNCHANGED <<pair, pc, took, out>>
        /\ \A e \in Enders : at'[e] = at[e] \/ at'[e] = "idle"
    BY <1>8 DEF Refreshed, TypeOK
  <2> QED
    BY <2>1, EndKept DEF Finals, Ends, EndsItself, EndInv
<1> QED
  BY <1>1, <1>2, <1>3, <1>4, <1>5, <1>6, <1>7, <1>8
  DEF Next, QR, RotateADVSecret, CloseSocket, Redial, vars

-----------------------------------------------------------------------------
(* The context of the current pairing *)

\* Whatever ends a pairing ends its context in the same step.
LEMMA NextContext ==
  ASSUME TypeInv, EndInv, ContextInv, [Next]_vars
  PROVE  ContextInv'
<1> USE DEF TypeInv, Unstarted, localVars, chanVars, handlerVars
<1>1. ASSUME NEW p \in Pairings, StartPairing(p)
      PROVE  ContextInv'
  BY <1>1, PairingAssumption DEF StartPairing, ContextInv, TypeOK, RunSteps, PairingAssumption
<1>2. ASSUME NEW p \in Pairings, RefusePairing(p)
      PROVE  ContextInv'
  BY <1>2 DEF RefusePairing, ContextInv, TypeOK, RunSteps
<1>3. ASSUME NEW p \in Pairings, RunPairing(p)
      PROVE  ContextInv'
  <2>1. CASE Take(p)
    <3>1. /\ pc[p] = "take" /\ pc'[p] \notin RunSteps \cup Unstarted /\ stopped' = stopped
          /\ \A q \in Pairings : q # p => pc'[q] = pc[q] /\ ended'[q] = ended[q] /\ (pair' = q <=> pair = q)
      BY <2>1, PairingAssumption DEF Take, Moves, TypeOK, RunSteps, PairingAssumption
    <3> QED
      BY <3>1 DEF ContextInv
  <2>2. CASE ~Take(p)
    <3>1. /\ pair' = pair /\ ended' = ended /\ stopped' = stopped
          /\ \E a, b \in RunSteps \cup EndSteps \cup {"over"} :
               pc[p] = a /\ pc' = [pc EXCEPT ![p] = b] /\ (b \in RunSteps => a \in RunSteps)
      BY <1>3, <2>2
      DEF RunPairing, Connect, FirstCodes, Abort, PairPhone, PairCode, ShowCode, CodeExpires,
          Rotated, NewCodes, Leave, CodesRunOut, Disconnect, Fail, Moves, RunSteps, EndSteps
    <3> QED
      BY <3>1 DEF ContextInv, TypeOK, RunSteps, EndSteps
  <2> QED
    BY <2>1, <2>2
<1>4. ASSUME NEW e \in Events, Dispatch(e) \/ OnEvent(e)
      PROVE  ContextInv'
  <2>1. CASE HandlerTakes(e)
    <3>1. /\ pc' = pc /\ stopped' = stopped
          /\ \A p \in Pairings : ended'[p] <=> ended[p] \/ (StillCurrent(e) /\ p = pair)
      BY <2>1 DEF HandlerTakes
    <3>2. CASE StillCurrent(e)
      <4>1. pair' = Null /\ pair \in Pairings
        BY <2>1, <3>2 DEF HandlerTakes, StillCurrent, TypeOK
      <4>2. pc[pair] \notin Unstarted
        BY <4>1 DEF EndInv, RunSteps
      <4> QED
        BY <3>1, <3>2, <4>1, <4>2, PairingAssumption DEF ContextInv, PairingAssumption
    <3>3. CASE ~StillCurrent(e)
      <4>1. pair' = pair
        BY <2>1, <3>3 DEF HandlerTakes
      <4> QED
        BY <3>1, <3>3, <4>1 DEF ContextInv
    <3> QED
      BY <3>2, <3>3
  <2>2. CASE Dispatch(e) \/ HandlerFinds(e) \/ HandlerWrites(e) \/ HandlerSets(e)
    <3>1. UNCHANGED <<pair, ended, pc, stopped>>
      BY <2>2 DEF Dispatch, HandlerFinds, HandlerWrites, HandlerSets
    <3> QED
      BY <3>1 DEF ContextInv
  <2> QED
    BY <1>4, <2>1, <2>2 DEF OnEvent
<1>5. CASE Stop
  BY <1>5, PairingAssumption DEF Stop, Handling, ContextInv, PairingAssumption
<1>6. CASE UNCHANGED <<pair, ended, pc, stopped>>
  BY <1>6 DEF ContextInv
<1>7. ASSUME NEW p \in Pairings, CheckAccount(p)
      PROVE  ContextInv'
  BY <1>7 DEF CheckAccount, ContextInv, TypeOK, RunSteps
<1> QED
  BY <1>1, <1>2, <1>3, <1>4, <1>5, <1>6, <1>7
  DEF Next, QR, RotateADVSecret, CloseSocket, Redial, Refreshed, vars

-----------------------------------------------------------------------------
(* The report of a linked account *)

Reported == \E i \in DOMAIN out : out[i].line = "paired"

\* Stdout is only ever added to.
LEMMA EmitKeeps ==
  ASSUME TypeOK, NEW l \in LineKinds, NEW q \in Pairings \cup {Null}, out' = Emit(l, q)
  PROVE  /\ Reported => Reported'
         /\ l = "paired" /\ ~stopped => Reported'
<1>1. CASE stopped
  BY <1>1 DEF Emit, Reported
<1>2. CASE ~stopped
  <2>1. out' = Append(out, Line(l, q))
    BY <1>2 DEF Emit
  <2>2. /\ DOMAIN out' = DOMAIN out \cup {Len(out) + 1}
        /\ out'[Len(out) + 1] = Line(l, q)
        /\ \A i \in DOMAIN out : out'[i] = out[i]
    BY <2>1 DEF TypeOK
  <2> QED
    BY <2>2 DEF Line, Reported
<1> QED
  BY <1>1, <1>2

\* The handler of a PairSuccess reports the account it was called for, also when
\* the pairing it belongs to has ended.
LEMMA NextLink ==
  ASSUME TypeInv, LinkInv, [Next]_vars
  PROVE  LinkInv'
<1> USE DEF TypeInv, Unstarted, localVars, chanVars, handlerVars
<1>1. ASSUME UNCHANGED <<at, linked>>, stopped' = stopped,
             out' = out \/ \E l \in LineKinds, q \in Pairings \cup {Null} : out' = Emit(l, q)
      PROVE  LinkInv'
  BY <1>1, EmitKeeps DEF LinkInv, Reported
<1>2. ASSUME NEW p \in Pairings, CheckAccount(p) \/ StartPairing(p) \/ RefusePairing(p) \/ RunPairing(p)
      PROVE  LinkInv'
  <2>1. UNCHANGED <<at, linked>> /\ stopped' = stopped
    BY <1>2 DEF CheckAccount, StartPairing, RefusePairing, RunPairing, Connect, FirstCodes, Abort, PairPhone,
                PairCode, ShowCode, CodeExpires, Rotated, NewCodes, Leave, CodesRunOut, Take,
                Disconnect, Fail, Moves
  <2>2. out' = out \/ \E l \in LineKinds, q \in Pairings \cup {Null} : out' = Emit(l, q)
    <3>1. CASE Fail(p)
      <4>1. result[p] \in LineKinds
        BY <3>1 DEF Fail, Moves, PlacesFit, EndSteps, LineKinds
      <4> QED
        BY <3>1, <4>1 DEF Fail
    <3>2. CASE ~Fail(p)
      BY <1>2, <3>2
      DEF CheckAccount, StartPairing, RefusePairing, RunPairing, Connect, FirstCodes, Abort, PairPhone,
          PairCode, ShowCode, CodeExpires, Rotated, NewCodes, Leave, CodesRunOut, Take,
          Disconnect, LineKinds
    <3> QED
      BY <3>1, <3>2
  <2> QED
    BY <1>1, <2>1, <2>2
<1>3. ASSUME NEW e \in Events, Dispatch(e) \/ OnEvent(e)
      PROVE  LinkInv'
  <2>0. /\ e \in Enders /\ "PairSuccess" \in Enders
        /\ at \in [Enders -> {"idle", "find", "take", "write", "set"}]
    BY PairingAssumption DEF PairingAssumption, Enders, TypeOK
  <2>1. CASE Dispatch(e)
    BY <2>0, <2>1 DEF Dispatch, LinkInv
  <2>2. CASE HandlerFinds(e)
    BY <2>0, <2>2 DEF HandlerFinds, LinkInv
  <2>3. CASE HandlerTakes(e)
    BY <2>0, <2>3 DEF HandlerTakes, AfterTake, LinkInv
  <2>4. CASE HandlerWrites(e)
    <3>1. took[e] \in Pairings \cup {Null}
      BY <2>0 DEF TypeOK
    <3>2. UNCHANGED <<linked, stopped>> /\ at[e] = "write" /\ at' = [at EXCEPT ![e] = AfterWrite(e)]
      BY <2>4 DEF HandlerWrites
    <3>3. Reported => Reported'
      BY <2>4, <3>1, EmitKeeps DEF HandlerWrites, LineKinds
    <3>4. e = "PairSuccess" /\ ~stopped => Reported'
      BY <2>4, <3>1, EmitKeeps DEF HandlerWrites, LineKinds
    <3> QED
      BY <2>0, <3>2, <3>3, <3>4 DEF LinkInv, Reported
  <2>5. CASE HandlerSets(e)
    BY <2>0, <2>5 DEF HandlerSets, LinkInv
  <2> QED
    BY <1>3, <2>1, <2>2, <2>3, <2>4, <2>5 DEF OnEvent
<1>4. CASE Stop
  BY <1>4 DEF Stop, LinkInv
<1>5. CASE QR \/ RotateADVSecret \/ Redial \/ CloseSocket \/ UNCHANGED vars
  BY <1>5, <1>1 DEF QR, RotateADVSecret, Redial, CloseSocket, handlerVars, vars
<1>6. CASE Refreshed
  <2>1. UNCHANGED <<linked, stopped, out>> /\ at'["PairSuccess"] = at["PairSuccess"]
    BY <1>6 DEF Refreshed, TypeOK
  <2> QED
    BY <2>1 DEF LinkInv
<1> QED
  BY <1>2, <1>3, <1>4, <1>5, <1>6 DEF Next

-----------------------------------------------------------------------------
(* Theorems *)

\* The three invariants hold together: that a final line is the last word on its
\* pairing needs the context of the current one, and the other way about.
LEMMA Invariants == Spec => [](TypeInv /\ EndInv /\ ContextInv)
<1>1. Init => EndInv /\ ContextInv
  <2> SUFFICES ASSUME Init PROVE EndInv /\ ContextInv
    OBVIOUS
  <2>1. \A p \in Pairings : Finals(p) = {} /\ pc[p] = "new" /\ ~ended[p] /\ ~stopped /\ pair # p
    BY PairingAssumption DEF Init, Finals, PairingAssumption
  <2>2. \A e \in Enders, p \in Pairings : ~Ends(e, p)
    BY DEF Init, Ends
  <2> QED
    BY <2>1, <2>2 DEF EndInv, ContextInv, EndsItself, RunSteps, Unstarted
<1>2. TypeInv /\ EndInv /\ ContextInv /\ [Next]_vars => EndInv' /\ ContextInv'
  BY NextEnd, NextContext
<1> QED
  BY <1>1, <1>2, TypeInvariant, PTL DEF Spec

\* The variables of the linking keep their types, whatever the commands, the
\* timers and the events of whatsmeow do.
THEOREM TypeCorrect == Spec => []TypeOK
<1>1. TypeInv => TypeOK
  BY DEF TypeInv
<1> QED
  BY <1>1, TypeInvariant, PTL

\* However the timers of a pairing, the events that end it and other commands
\* race (takePair), it gets at most one paired, pair_failed or error.
THEOREM OneFinalAlways == Spec => []OneFinal
<1>1. EndInv => OneFinal
  <2> SUFFICES ASSUME EndInv, NEW p \in Pairings
               PROVE  Cardinality(Finals(p)) <= 1
    BY DEF OneFinal
  <2>1. CASE Finals(p) = {}
    BY <2>1, FS_EmptySet
  <2>2. ASSUME NEW i \in Finals(p)
        PROVE  Cardinality(Finals(p)) <= 1
    <3>1. Finals(p) = {i}
      BY <2>2 DEF EndInv
    <3>2. Cardinality({i}) = 1
      BY FS_Singleton, Zenon
    <3> QED
      BY <3>1, <3>2
  <2> QED
    BY <2>1, <2>2
<1> QED
  BY <1>1, Invariants, PTL

\* Between startPairing, takePair and Stop, the context of a pairing that waits
\* lives exactly as long as the pairing is the current one.
THEOREM CurrentLivesAlways == Spec => []CurrentLives
<1>1. TypeInv /\ ContextInv => CurrentLives
  BY DEF TypeInv, ContextInv, CurrentLives, RunSteps
<1> QED
  BY <1>1, Invariants, PTL

\* pairSuccess reports every linked account, also one whose pairing was ended by
\* its own timer in between.
THEOREM LinkReported == Spec => []LinkIsReported
<1>1. Init => LinkInv
  BY DEF Init, LinkInv
<1>2. TypeInv /\ LinkInv /\ [Next]_vars => LinkInv'
  BY NextLink
<1>3. LinkInv => LinkIsReported
  BY DEF LinkInv, LinkIsReported
<1> QED
  BY <1>1, <1>2, <1>3, TypeInvariant, PTL DEF Spec
=============================================================================
