--------------------------- MODULE FetchesProofs ---------------------------
(***************************************************************************)
(* Proofs about Fetches: its types, the tokens and the lock, the pace of   *)
(* the picture queries, the hand-off files and the backstop of set_pin,    *)
(* for every number of commands and every limit.                           *)
(***************************************************************************)
EXTENDS Fetches, FiniteSetTheorems, TLAPS

\* Which command may be at which step.
Fits(k, s) ==
  /\ s \in {"slot", "download"} => k = "fetch_media"
  /\ s \in {"lock", "sleep", "query", "info"} => k = "fetch_avatar"
  /\ s \in {"clock", "pin"} => k = "set_pin"
  /\ s = "ask" => k \in {"mark_read", "set_pin"}
  /\ s \in {"seal", "leave"} => k \in {"fetch_media", "fetch_avatar"}

StepOfKind == \A c \in Cmds : Fits(kind[c], pc[c])

\* lastPic is the last query, and who is past its wait need not wait any more.
PicInv ==
  /\ lastPic = Null => asked = <<>>
  /\ lastPic # Null => asked # <<>> /\ asked[Len(asked)] = lastPic /\ lastPic <= real
  /\ \A c \in Cmds :
       /\ pc[c] = "sleep" => lastPic # Null /\ now[c] >= lastPic + AvatarInterval
       /\ pc[c] = "query" => lastPic = Null \/ real >= lastPic + AvatarInterval

\* A command that has not written its final line has no file.
FileInv ==
  \A c \in Cmds :
    /\ pc[c] \notin {"leave", "done"} => replies[c] = <<>> /\ c \notin files
    /\ Len(replies[c]) <= 1
    /\ \A i \in DOMAIN replies[c] : replies[c][i] = "file" => c \in files
    /\ c \in files /\ ~quiesced => replies[c] = <<"file">>

\* The part of TypeOK about the places of the commands.
Placed ==
  /\ pc \in [Cmds -> Steps]
  /\ kind \in [Cmds -> Commands \cup {Null}]
  /\ \A c \in Cmds : pc[c] \notin {"idle", "done"} => kind[c] \in Commands

Fetchers == {c \in Cmds : Fetching(c)}

SlotInv == TypeOK /\ StepOfKind /\ SlotsHeld

-----------------------------------------------------------------------------

\* There are finitely many commands, so the downloads can be counted.
LEMMA FetchersFinite == IsFiniteSet(Fetchers) /\ Cardinality(Fetchers) \in Nat
<1>1. IsFiniteSet(Cmds)
  BY FetchesAssumption, FS_Interval DEF Cmds
<1>2. Fetchers \subseteq Cmds
  BY DEF Fetchers
<1> QED
  BY <1>1, <1>2, FS_Subset, FS_CardinalityType

\* A line more on stdout is still a sequence of lines.
LEMMA EmitType ==
  ASSUME NEW c \in Cmds, NEW l \in Lines, replies \in [Cmds -> Seq(Lines)], Emit(c, l)
  PROVE  replies' \in [Cmds -> Seq(Lines)]
<1>1. Append(replies[c], l) \in Seq(Lines)
  OBVIOUS
<1> QED
  BY <1>1 DEF Emit

\* A command that runs stays one of the four on its way.
LEMMA GoesType ==
  ASSUME NEW c \in Cmds, NEW s \in Steps, TypeOK, kind[c] \in Commands, Goes(c, s)
  PROVE  Placed'
  BY DEF Goes, Placed, TypeOK

\* What Goes leaves of the pc and the kind of each command.
LEMMA GoesEffect ==
  ASSUME TypeOK, NEW c \in Cmds, NEW s \in Steps, Goes(c, s)
  PROVE  /\ pc'[c] = s
         /\ s # "done" => kind'[c] = kind[c]
         /\ s = "done" => kind'[c] = Null
         /\ \A d \in Cmds \ {c} : pc'[d] = pc[d] /\ kind'[d] = kind[d]
  BY DEF Goes, TypeOK

\* A step that keeps what c holds keeps the count.
LEMMA SlotsKept ==
  ASSUME TypeOK, SlotsHeld, NEW c \in Cmds, NEW s \in Steps, Goes(c, s),
         fetchSem' = fetchSem, picMu' = picMu,
         Fetching(c)' <=> Fetching(c), InPic(c)' <=> InPic(c)
  PROVE  SlotsHeld'
<1>1. \A d \in Cmds \ {c} : pc'[d] = pc[d] /\ kind'[d] = kind[d]
  BY GoesEffect DEF TypeOK
<1>2. \A d \in Cmds : (Fetching(d)' <=> Fetching(d)) /\ (InPic(d)' <=> InPic(d))
  BY <1>1 DEF Fetching, InPic
<1>3. {d \in Cmds : Fetching(d)}' = {d \in Cmds : Fetching(d)}
  BY <1>2
<1> QED
  BY <1>2, <1>3 DEF SlotsHeld

\* The deferred functions give back exactly what c holds.
LEMMA SlotsReleased ==
  ASSUME TypeOK, SlotsHeld, NEW c \in Cmds, Goes(c, "done"), Released(c)
  PROVE  SlotsHeld' /\ fetchSem' \in 0 .. MaxFetches /\ picMu' \in Cmds \cup {Null}
<1>1. /\ pc'[c] = "done"
      /\ \A d \in Cmds \ {c} : pc'[d] = pc[d] /\ kind'[d] = kind[d]
  BY GoesEffect DEF TypeOK, Steps
<1>2. /\ ~Fetching(c)' /\ ~InPic(c)'
      /\ \A d \in Cmds \ {c} : (Fetching(d)' <=> Fetching(d)) /\ (InPic(d)' <=> InPic(d))
  BY <1>1 DEF Fetching, InPic
<1>3. Fetchers' = Fetchers \ {c}
  BY <1>2 DEF Fetchers
<1>4. fetchSem = Cardinality(Fetchers)
  BY DEF SlotsHeld, Fetchers
<1>5. fetchSem' = Cardinality(Fetchers \ {c}) /\ fetchSem' \in 0 .. MaxFetches
  <2>1. CASE Fetching(c)
    <3>1. c \in Fetchers
      BY <2>1 DEF Fetchers
    <3>2. Cardinality(Fetchers \ {c}) = Cardinality(Fetchers) - 1 /\ IsFiniteSet(Fetchers \ {c})
      BY <3>1, FetchersFinite, FS_RemoveElement
    <3>3. Cardinality(Fetchers \ {c}) \in Nat
      BY <3>2, FS_CardinalityType
    <3> QED
      BY <1>4, <2>1, <3>2, <3>3, FetchesAssumption DEF Released, TypeOK
  <2>2. CASE ~Fetching(c)
    <3>1. Fetchers \ {c} = Fetchers
      BY <2>2 DEF Fetchers
    <3> QED
      BY <1>4, <2>2, <3>1 DEF Released, TypeOK
  <2> QED
    BY <2>1, <2>2
<1>6. fetchSem' = Cardinality({d \in Cmds : Fetching(d)})'
  BY <1>3, <1>5 DEF Fetchers
<1>7. \A d \in Cmds : InPic(d)' <=> picMu' = d
  <2>1. \A d \in Cmds : InPic(d) <=> picMu = d
    BY DEF SlotsHeld
  <2>2. Null \notin Cmds
    BY FetchesAssumption DEF Cmds
  <2> QED
    BY <1>2, <2>1, <2>2 DEF Released
<1> QED
  BY <1>5, <1>6, <1>7 DEF SlotsHeld, Released, TypeOK

\* The token taken in the select is counted for the command that took it.
LEMMA SlotTaken ==
  ASSUME TypeOK, StepOfKind, SlotsHeld, NEW c \in Cmds, TakeSlot(c)
  PROVE  SlotsHeld' /\ fetchSem' \in 0 .. MaxFetches
<1>1. /\ pc[c] = "slot" /\ pc'[c] = "download"
      /\ kind[c] = "fetch_media" /\ kind'[c] = "fetch_media"
      /\ \A d \in Cmds \ {c} : pc'[d] = pc[d] /\ kind'[d] = kind[d]
  BY GoesEffect DEF TypeOK, Steps, TakeSlot, Moves, StepOfKind, Fits
<1>2. /\ Fetching(c)' /\ ~Fetching(c)
      /\ \A d \in Cmds \ {c} : Fetching(d)' <=> Fetching(d)
      /\ \A d \in Cmds : InPic(d)' <=> InPic(d)
  BY <1>1 DEF Fetching, InPic
<1>3. Fetchers' = Fetchers \cup {c} /\ c \notin Fetchers
  BY <1>2 DEF Fetchers
<1>4. Cardinality(Fetchers') = Cardinality(Fetchers) + 1
  BY <1>3, FetchersFinite, FS_AddElement
<1>5. fetchSem = Cardinality(Fetchers)
  BY DEF SlotsHeld, Fetchers
<1>6. fetchSem' = Cardinality({d \in Cmds : Fetching(d)})'
  BY <1>4, <1>5 DEF Fetchers, TakeSlot
<1>7. fetchSem' \in 0 .. MaxFetches
  BY FetchesAssumption DEF TypeOK, TakeSlot
<1> QED
  BY <1>2, <1>6, <1>7 DEF SlotsHeld, TakeSlot

\* picMu.Lock makes the command the one in its section.
LEMMA PicLocked ==
  ASSUME TypeOK, StepOfKind, SlotsHeld, NEW c \in Cmds, LockPic(c)
  PROVE  SlotsHeld'
<1>1. /\ pc[c] = "lock" /\ pc'[c] \in {"sleep", "query"}
      /\ kind[c] = "fetch_avatar" /\ kind'[c] = "fetch_avatar"
      /\ \A d \in Cmds \ {c} : pc'[d] = pc[d] /\ kind'[d] = kind[d]
  BY GoesEffect DEF TypeOK, Steps, LockPic, StepOfKind, Fits
<1>2. /\ InPic(c)'
      /\ \A d \in Cmds \ {c} : InPic(d)' <=> InPic(d)
      /\ \A d \in Cmds : Fetching(d)' <=> Fetching(d)
  BY <1>1 DEF Fetching, InPic
<1>3. {d \in Cmds : Fetching(d)}' = {d \in Cmds : Fetching(d)}
  BY <1>2
<1>4. \A d \in Cmds : ~InPic(d)
  BY FetchesAssumption DEF SlotsHeld, LockPic, Cmds
<1> QED
  BY <1>2, <1>3, <1>4 DEF SlotsHeld, LockPic

\* A command goes only where its kind leads it.
LEMMA PlaceKept ==
  ASSUME TypeOK, StepOfKind, NEW c \in Cmds, NEW s \in Steps, Goes(c, s), Fits(kind[c], s)
  PROVE  StepOfKind'
<1>1. /\ pc'[c] = s
      /\ s # "done" => kind'[c] = kind[c]
      /\ \A d \in Cmds \ {c} : pc'[d] = pc[d] /\ kind'[d] = kind[d]
  BY GoesEffect DEF TypeOK
<1>2. Fits(kind'[c], pc'[c])
  BY <1>1 DEF Fits
<1> QED
  BY <1>1, <1>2 DEF StepOfKind

\* Steps at which a command holds neither a token nor the lock.
Free == {"check", "ask", "clock", "pin", "slot", "lock", "done"}

\* A step between two such places, or between two of a fetch in its section.
LEMMA HoldsSame ==
  ASSUME TypeOK, StepOfKind, NEW c \in Cmds, NEW s \in Steps, Goes(c, s), Fits(kind[c], s),
         \/ pc[c] \in Free /\ s \in Free
         \/ pc[c] \in {"download", "sleep", "query", "info"} /\ s \in {"sleep", "query", "info", "seal", "leave"}
  PROVE  (Fetching(c)' <=> Fetching(c)) /\ (InPic(c)' <=> InPic(c))
<1>1. pc'[c] = s /\ (s # "done" => kind'[c] = kind[c])
  BY GoesEffect
<1>2. CASE pc[c] \in Free /\ s \in Free
  BY <1>1, <1>2 DEF Fetching, InPic, Free
<1>3. CASE pc[c] \in {"download", "sleep", "query", "info"} /\ s \in {"sleep", "query", "info", "seal", "leave"}
  <2>1. kind'[c] = kind[c] /\ kind[c] \in {"fetch_media", "fetch_avatar"}
    BY <1>1, <1>3 DEF StepOfKind, Fits
  <2>2. kind[c] = "fetch_media" => pc[c] = "download" /\ s \in {"seal", "leave"}
    BY <1>3 DEF StepOfKind, Fits
  <2>3. kind[c] = "fetch_avatar" => pc[c] \in {"sleep", "query", "info"}
    BY <1>3 DEF StepOfKind, Fits
  <2> QED
    BY <1>1, <1>3, <2>1, <2>2, <2>3 DEF Fetching, InPic
<1> QED
  BY <1>2, <1>3

Asking == {"check", "ask", "download", "info", "seal"}

\* A running command is one of the four.
LEMMA KindOfRunning ==
  ASSUME TypeOK, NEW c \in Cmds, pc[c] \notin {"idle", "done"}
  PROVE  kind[c] \in Commands
  BY DEF TypeOK

\* The final line is written under the lock or the token, if any, and keeps both.
LEMMA AnswersInv ==
  ASSUME SlotInv, NEW c \in Cmds, NEW a \in Asking, NEW l \in Lines,
         Answers(c, a, l), files' \subseteq Cmds
  PROVE  SlotInv'
<1> DEFINE s == IF Fetching(c) \/ InPic(c) THEN "leave" ELSE "done"
<1>1. s \in Steps /\ Goes(c, s) /\ pc[c] = a /\ kind[c] \in Commands
  BY KindOfRunning DEF SlotInv, Answers, Moves, Asking, Steps
<1>2. StepOfKind'
  <2>1. Fits(kind[c], s)
    BY DEF Fits, Fetching, InPic
  <2> QED
    BY <1>1, <2>1, PlaceKept DEF SlotInv
<1>3. SlotsHeld'
  <2>1. (Fetching(c)' <=> Fetching(c)) /\ (InPic(c)' <=> InPic(c))
    <3>1. pc'[c] = s /\ (s # "done" => kind'[c] = kind[c])
      BY <1>1, GoesEffect DEF SlotInv, TypeOK
    <3> QED
      BY <1>1, <3>1 DEF Fetching, InPic, Asking
  <2> QED
    BY <1>1, <2>1, SlotsKept DEF SlotInv, Answers, bridgeVars
<1>4. TypeOK'
  <2>1. Placed'
    BY <1>1, GoesType DEF SlotInv
  <2>2. replies' \in [Cmds -> Seq(Lines)]
    BY EmitType DEF SlotInv, TypeOK, Placed, Answers
  <2> QED
    BY <2>1, <2>2 DEF SlotInv, TypeOK, Placed, Answers, Moves, bridgeVars, historyVars
<1> QED
  BY <1>2, <1>3, <1>4 DEF SlotInv

\* A step from a to b that takes and gives nothing.
LEMMA MovesInv ==
  ASSUME SlotInv, NEW c \in Cmds, NEW a \in Steps \ {"idle", "done"}, NEW b \in Steps,
         pc[c] = a, Goes(c, b), Fits(kind[c], b), UNCHANGED <<fetchSem, picMu>>,
         Fetching(c)' <=> Fetching(c), InPic(c)' <=> InPic(c)
  PROVE  StepOfKind' /\ SlotsHeld' /\ Placed'
<1>1. kind[c] \in Commands
  BY KindOfRunning DEF SlotInv
<1> QED
  BY <1>1, PlaceKept, SlotsKept, GoesType DEF SlotInv

\* SlotInv is kept by each step of a command and by a panic.
LEMMA SlotInvStep ==
  ASSUME SlotInv, NEW c \in Cmds, Step(c) \/ Panic(c)
  PROVE  SlotInv'
<1> USE FetchesAssumption
<1>0. TypeOK /\ StepOfKind /\ SlotsHeld
  BY DEF SlotInv
<1>1. CASE Check(c)
  <2>1. CASE Answers(c, "check", "error")
    BY <1>1, <2>1, <1>0, AnswersInv DEF Check, Asking, Lines, TypeOK
  <2>2. CASE Moves(c, "check", First[kind[c]]) /\ UNCHANGED <<bridgeVars, replies, historyVars>>
    <3>1. pc[c] = "check" /\ kind[c] \in Commands /\ Goes(c, First[kind[c]])
      BY <2>2, <1>0, KindOfRunning DEF Moves
    <3>2. First[kind[c]] \in {"ask", "clock", "slot", "lock"} /\ Fits(kind[c], First[kind[c]])
      BY <3>1 DEF Commands, First, Fits
    <3>3. (Fetching(c)' <=> Fetching(c)) /\ (InPic(c)' <=> InPic(c))
      BY <1>0, <3>1, <3>2, HoldsSame DEF Steps, Free
    <3>4. StepOfKind' /\ SlotsHeld' /\ Placed'
      BY <2>2, <3>1, <3>2, <3>3, MovesInv DEF bridgeVars, Steps
    <3> QED
      BY <1>0, <1>1, <2>2, <3>4 DEF SlotInv, TypeOK, Placed, Check, Moves, bridgeVars, historyVars
  <2> QED
    BY <1>1, <2>1, <2>2 DEF Check
<1>2. CASE ReadClock(c)
  <2>0. Fits(kind[c], "pin")
    BY <1>0, <1>2 DEF ReadClock, StepOfKind, Fits
  <2>1. (Fetching(c)' <=> Fetching(c)) /\ (InPic(c)' <=> InPic(c))
    BY <1>0, <1>2, <2>0, HoldsSame DEF ReadClock, Steps, Free
  <2>2. StepOfKind' /\ SlotsHeld' /\ Placed'
    BY <1>2, <2>0, <2>1, MovesInv DEF ReadClock, bridgeVars, Steps
  <2>3. now' \in [Cmds -> Int]
    BY <1>0, <1>2 DEF ReadClock, TypeOK
  <2> QED
    BY <1>0, <1>2, <2>2, <2>3 DEF SlotInv, TypeOK, Placed, ReadClock, bridgeVars, historyVars, outVars
<1>3. CASE PinAllowed(c)
  <2> DEFINE b == IF Spare(Recent(now[c]), now[c]) THEN "ask" ELSE "done"
  <2>0. pc[c] = "pin" /\ Goes(c, b)
    BY <1>3 DEF PinAllowed
  <2>1. (Fetching(c)' <=> Fetching(c)) /\ (InPic(c)' <=> InPic(c)) /\ Fits(kind[c], b)
    <3>1. b \in Free /\ b \in Steps /\ Fits(kind[c], b)
      BY <1>0, <2>0 DEF Free, Steps, StepOfKind, Fits
    <3> QED
      BY <1>0, <2>0, <3>1, HoldsSame DEF Free
  <2>2. StepOfKind' /\ SlotsHeld' /\ Placed'
    BY <1>3, <2>0, <2>1, MovesInv DEF PinAllowed, bridgeVars, Steps
  <2>3. replies' \in [Cmds -> Seq(Lines)]
    BY <1>0, <1>3, EmitType DEF TypeOK, PinAllowed, Lines
  <2>4. pins' \subseteq Int /\ pinned' \in Seq(Int) /\ now' \in [Cmds -> Int]
    <3>0. now[c] \in Int /\ pinned \in Seq(Int) /\ pins \subseteq Int
      BY <1>0 DEF TypeOK
    <3>1. Recent(now[c]) \subseteq Int /\ Append(pinned, now[c]) \in Seq(Int)
      <4>1. Recent(now[c]) \subseteq Int
        BY <3>0, Zenon DEF Recent
      <4>2. Append(pinned, now[c]) \in Seq(Int)
        BY <3>0
      <4> QED
        BY <4>1, <4>2
    <3>2. /\ pins' \in {Recent(now[c]), Recent(now[c]) \cup {now[c]}}
          /\ pinned' \in {pinned, Append(pinned, now[c])}
      BY <1>3, Zenon DEF PinAllowed
    <3>3. now' \in [Cmds -> Int]
      BY <1>0, <1>3 DEF PinAllowed, TypeOK
    <3> QED
      BY <3>0, <3>1, <3>2, <3>3
  <2>5. overtaken' \in BOOLEAN
    BY <1>3, Zenon DEF PinAllowed
  <2> QED
    BY <1>0, <1>3, <2>2, <2>3, <2>4, <2>5 DEF SlotInv, TypeOK, Placed, PinAllowed
<1>4. CASE Ask(c)
  BY <1>0, <1>4, AnswersInv DEF Ask, Asking, Lines, TypeOK
<1>5. CASE TakeSlot(c)
  <2>1. SlotsHeld' /\ fetchSem' \in 0 .. MaxFetches
    BY <1>0, <1>5, SlotTaken
  <2>2. pc[c] = "slot" /\ Goes(c, "download") /\ Fits(kind[c], "download") /\ kind[c] \in Commands
    BY <1>0, <1>5, KindOfRunning DEF TakeSlot, Moves, StepOfKind, Fits
  <2>3. StepOfKind'
    BY <1>0, <2>2, PlaceKept DEF Steps
  <2>4. Placed'
    BY <1>0, <2>2, GoesType DEF Steps
  <2> QED
    BY <1>0, <1>5, <2>1, <2>3, <2>4 DEF SlotInv, TypeOK, Placed, TakeSlot, Moves, historyVars, outVars
<1>6. CASE NoSlot(c)
  <2>1. (Fetching(c)' <=> Fetching(c)) /\ (InPic(c)' <=> InPic(c)) /\ Fits(kind[c], "done")
    BY <1>0, <1>6, GoesEffect DEF NoSlot, Moves, Fetching, InPic, TypeOK, Steps, Fits
  <2>2. StepOfKind' /\ SlotsHeld' /\ Placed'
    BY <1>6, <2>1, MovesInv DEF NoSlot, Moves, bridgeVars, Steps
  <2> QED
    BY <1>0, <1>6, <2>2 DEF SlotInv, TypeOK, Placed, NoSlot, Moves, bridgeVars, historyVars, outVars
<1>7. CASE Download(c)
  <2>1. ASSUME NEW l \in Lines, Answers(c, "download", l) PROVE SlotInv'
    BY <1>0, <1>7, <2>1, AnswersInv DEF Download, Asking, TypeOK
  <2>2. CASE Moves(c, "download", "seal") /\ UNCHANGED <<bridgeVars, replies, historyVars>>
    <3>1. pc[c] = "download" /\ Goes(c, "seal") /\ Fits(kind[c], "seal") /\ UNCHANGED <<fetchSem, picMu>>
      BY <1>0, <2>2 DEF Moves, bridgeVars, StepOfKind, Fits
    <3>2. (Fetching(c)' <=> Fetching(c)) /\ (InPic(c)' <=> InPic(c))
      BY <1>0, <3>1, HoldsSame DEF Steps, Free
    <3>3. StepOfKind' /\ SlotsHeld' /\ Placed'
      BY <3>1, <3>2, MovesInv DEF Steps
    <3> QED
      BY <1>0, <1>7, <2>2, <3>3 DEF SlotInv, TypeOK, Placed, Download, Moves, bridgeVars, historyVars
  <2> QED
    BY <1>7, <2>1, <2>2 DEF Download, Lines
<1>8. CASE Seal(c)
  BY <1>0, <1>8, AnswersInv DEF Seal, Asking, Lines, TypeOK
<1>9. CASE LockPic(c)
  <2> DEFINE b == IF Waits THEN "sleep" ELSE "query"
  <2>1. SlotsHeld'
    BY <1>0, <1>9, PicLocked
  <2>2. pc[c] = "lock" /\ Goes(c, b) /\ Fits(kind[c], b) /\ kind[c] \in Commands
    BY <1>0, <1>9, KindOfRunning DEF LockPic, StepOfKind, Fits
  <2>3. StepOfKind' /\ Placed'
    BY <1>0, <2>2, PlaceKept, GoesType DEF Steps
  <2>4. now' \in [Cmds -> Int]
    BY <1>0, <1>9 DEF LockPic, TypeOK, Waits
  <2> QED
    BY <1>0, <1>9, <2>1, <2>3, <2>4 DEF SlotInv, TypeOK, Placed, LockPic, historyVars, outVars
<1>10. CASE Wake(c)
  <2>1. pc[c] = "sleep" /\ Goes(c, "query") /\ Fits(kind[c], "query") /\ UNCHANGED <<fetchSem, picMu>>
    BY <1>0, <1>10 DEF Wake, Sleeps, bridgeVars, StepOfKind, Fits
  <2>2. (Fetching(c)' <=> Fetching(c)) /\ (InPic(c)' <=> InPic(c))
    BY <1>0, <2>1, HoldsSame DEF Steps, Free
  <2>3. StepOfKind' /\ SlotsHeld' /\ Placed'
    BY <2>1, <2>2, MovesInv DEF Steps
  <2>4. now' \in [Cmds -> Int]
    BY <1>0, <1>10 DEF Wake, Sleeps, TypeOK
  <2> QED
    BY <1>0, <1>10, <2>3, <2>4 DEF SlotInv, TypeOK, Placed, Wake, Sleeps, bridgeVars, historyVars, outVars
<1>11. CASE SleepEnds(c)
  <2>1. pc[c] = "sleep" /\ Goes(c, "leave") /\ Fits(kind[c], "leave") /\ UNCHANGED <<fetchSem, picMu>>
    BY <1>0, <1>11 DEF SleepEnds, Sleeps, bridgeVars, StepOfKind, Fits
  <2>2. (Fetching(c)' <=> Fetching(c)) /\ (InPic(c)' <=> InPic(c))
    BY <1>0, <2>1, HoldsSame DEF Steps, Free
  <2>3. StepOfKind' /\ SlotsHeld' /\ Placed'
    BY <2>1, <2>2, MovesInv DEF Steps
  <2>4. now' \in [Cmds -> Int]
    BY <1>0, <1>11 DEF SleepEnds, Sleeps, TypeOK
  <2> QED
    BY <1>0, <1>11, <2>3, <2>4 DEF SlotInv, TypeOK, Placed, SleepEnds, Sleeps, bridgeVars, historyVars, outVars
<1>12. CASE Query(c)
  <2>1. pc[c] = "query" /\ Goes(c, "info") /\ Fits(kind[c], "info") /\ UNCHANGED <<fetchSem, picMu>>
    BY <1>0, <1>12 DEF Query, Moves, bridgeVars, StepOfKind, Fits
  <2>2. (Fetching(c)' <=> Fetching(c)) /\ (InPic(c)' <=> InPic(c))
    BY <1>0, <2>1, HoldsSame DEF Steps, Free
  <2>3. StepOfKind' /\ SlotsHeld' /\ Placed'
    BY <2>1, <2>2, MovesInv DEF Steps
  <2> QED
    BY <1>0, <1>12, <2>3 DEF SlotInv, TypeOK, Placed, Query, Moves, bridgeVars, historyVars, outVars
<1>13. CASE Info(c)
  <2>1. ASSUME NEW l \in Lines, Answers(c, "info", l) PROVE SlotInv'
    BY <1>0, <1>13, <2>1, AnswersInv DEF Info, Asking, TypeOK
  <2>2. CASE Moves(c, "info", "seal") /\ UNCHANGED <<bridgeVars, replies, historyVars>>
    <3>1. pc[c] = "info" /\ Goes(c, "seal") /\ Fits(kind[c], "seal") /\ UNCHANGED <<fetchSem, picMu>>
      BY <1>0, <2>2 DEF Moves, bridgeVars, StepOfKind, Fits
    <3>2. (Fetching(c)' <=> Fetching(c)) /\ (InPic(c)' <=> InPic(c))
      BY <1>0, <3>1, HoldsSame DEF Steps, Free
    <3>3. StepOfKind' /\ SlotsHeld' /\ Placed'
      BY <3>1, <3>2, MovesInv DEF Steps
    <3> QED
      BY <1>0, <1>13, <2>2, <3>3 DEF SlotInv, TypeOK, Placed, Info, Moves, bridgeVars, historyVars
  <2> QED
    BY <1>13, <2>1, <2>2 DEF Info, Lines
<1>14. CASE Leave(c)
  <2>1. Goes(c, "done") /\ Released(c) /\ pc[c] \notin {"idle", "done"}
    BY <1>14 DEF Leave, Moves
  <2>2. SlotsHeld' /\ fetchSem' \in 0 .. MaxFetches /\ picMu' \in Cmds \cup {Null}
    BY <1>0, <2>1, SlotsReleased
  <2>3. StepOfKind'
    BY <1>0, <2>1, PlaceKept DEF Steps, Fits
  <2>4. Placed'
    BY <1>0, <2>1, KindOfRunning, GoesType DEF Steps
  <2> QED
    BY <1>0, <1>14, <2>2, <2>3, <2>4 DEF SlotInv, TypeOK, Placed, Leave, Moves, historyVars, outVars
<1>15. CASE Panic(c)
  <2>1. Goes(c, "done") /\ Released(c) /\ pc[c] \notin {"idle", "done"}
    BY <1>15 DEF Panic, Moves
  <2>2. SlotsHeld' /\ fetchSem' \in 0 .. MaxFetches /\ picMu' \in Cmds \cup {Null}
    BY <1>0, <2>1, SlotsReleased
  <2>3. StepOfKind'
    BY <1>0, <2>1, PlaceKept DEF Steps, Fits
  <2>4. Placed'
    BY <1>0, <2>1, KindOfRunning, GoesType DEF Steps
  <2>5. replies' \in [Cmds -> Seq(Lines)]
    BY <1>0, <1>15, EmitType DEF TypeOK, Panic, Lines
  <2> QED
    BY <1>0, <1>15, <2>2, <2>3, <2>4, <2>5 DEF SlotInv, TypeOK, Placed, Panic, Moves, historyVars
<1> QED
  BY <1>1, <1>2, <1>3, <1>4, <1>5, <1>6, <1>7, <1>8, <1>9, <1>10, <1>11, <1>12, <1>13, <1>14, <1>15 DEF Step

\* SlotInv holds when nothing has come yet.
LEMMA SlotInvInit == Init => SlotInv
<1> SUFFICES ASSUME Init PROVE SlotInv
  OBVIOUS
<1> USE FetchesAssumption
<1>1. TypeOK /\ StepOfKind
  <2>1. Placed
    BY DEF Init, Placed, Steps
  <2>2. replies \in [Cmds -> Seq(Lines)] /\ asked \in Seq(Nat) /\ pinned \in Seq(Int)
    BY DEF Init
  <2>3. now \in [Cmds -> Int] /\ fetchSem \in 0 .. MaxFetches
    BY DEF Init
  <2>4. StepOfKind
    BY DEF Init, StepOfKind, Fits
  <2> QED
    BY <2>1, <2>2, <2>3, <2>4 DEF Init, TypeOK, Placed
<1>2. \A c \in Cmds : ~Fetching(c) /\ ~InPic(c)
  BY DEF Init, Fetching, InPic
<1>3. {c \in Cmds : Fetching(c)} = {}
  BY <1>2
<1>4. fetchSem = Cardinality({c \in Cmds : Fetching(c)})
  BY <1>3, FS_EmptySet DEF Init
<1> QED
  BY <1>1, <1>2, <1>4 DEF SlotInv, SlotsHeld, Init, Cmds

\* A step that leaves every command where it is, and what it holds, keeps SlotsHeld.
LEMMA SlotsUntouched ==
  ASSUME SlotsHeld, UNCHANGED <<pc, kind, fetchSem, picMu>>
  PROVE  SlotsHeld'
<1>1. {d \in Cmds : Fetching(d)}' = {d \in Cmds : Fetching(d)}
  BY DEF Fetching
<1> QED
  BY <1>1 DEF SlotsHeld, InPic

\* SlotInv is inductive.
LEMMA SlotInvNext == SlotInv /\ [Next]_vars => SlotInv'
<1> SUFFICES ASSUME SlotInv, [Next]_vars PROVE SlotInv'
  OBVIOUS
<1> USE FetchesAssumption
<1>0. TypeOK /\ StepOfKind /\ SlotsHeld
  BY DEF SlotInv
<1>1. ASSUME NEW c \in Cmds, NEW k \in Kinds, Handle(c, k) PROVE SlotInv'
  <2>1. /\ pc[c] = "idle" /\ pc'[c] = "check" /\ kind'[c] = k /\ k \in Commands
        /\ \A d \in Cmds \ {c} : pc'[d] = pc[d] /\ kind'[d] = kind[d]
    BY <1>0, <1>1 DEF Handle, TypeOK
  <2>2. \A d \in Cmds : (Fetching(d)' <=> Fetching(d)) /\ (InPic(d)' <=> InPic(d))
    BY <2>1 DEF Fetching, InPic
  <2>3. {d \in Cmds : Fetching(d)}' = {d \in Cmds : Fetching(d)}
    BY <2>2
  <2>4. SlotsHeld'
    BY <1>0, <1>1, <2>2, <2>3 DEF SlotsHeld, Handle, bridgeVars
  <2>5. StepOfKind'
    BY <1>0, <2>1 DEF StepOfKind, Fits
  <2>6. Placed'
    BY <1>0, <1>1, <2>1 DEF TypeOK, Handle, Placed, Steps
  <2> QED
    BY <1>0, <1>1, <2>4, <2>5, <2>6 DEF SlotInv, TypeOK, Placed, Handle, bridgeVars, historyVars, outVars
<1>2. ASSUME NEW c \in Cmds, Step(c) \/ Panic(c) PROVE SlotInv'
  BY <1>2, SlotInvStep
<1>3. CASE Quiesce
  <2>1. SlotsHeld'
    BY <1>0, <1>3, SlotsUntouched DEF Quiesce, bridgeVars
  <2> QED
    BY <1>0, <1>3, <2>1 DEF SlotInv, TypeOK, StepOfKind, Quiesce, bridgeVars, historyVars, outVars
<1>4. CASE Cancel
  <2>1. SlotsHeld'
    BY <1>0, <1>4, SlotsUntouched DEF Cancel, bridgeVars
  <2> QED
    BY <1>0, <1>4, <2>1 DEF SlotInv, TypeOK, StepOfKind, Cancel, bridgeVars, historyVars, outVars
<1>5. CASE Tick
  <2>1. SlotsHeld'
    BY <1>0, <1>5, SlotsUntouched DEF Tick, bridgeVars
  <2> QED
    BY <1>0, <1>5, <2>1 DEF SlotInv, TypeOK, StepOfKind, Tick, bridgeVars, historyVars, outVars
<1>6. CASE UNCHANGED vars
  <2>1. SlotsHeld'
    BY <1>0, <1>6, SlotsUntouched DEF vars, bridgeVars
  <2> QED
    BY <1>0, <1>6, <2>1 DEF SlotInv, TypeOK, StepOfKind, vars, bridgeVars, historyVars, outVars
<1> QED
  BY <1>1, <1>2, <1>3, <1>4, <1>5, <1>6 DEF Next

\* The variables keep their types, for every number of commands and every limit; the
\* count of Bridge.fetchSem stays within its capacity.
THEOREM TypeCorrect == Spec => []TypeOK
<1>1. Init => SlotInv
  BY SlotInvInit
<1>2. SlotInv /\ [Next]_vars => SlotInv'
  BY SlotInvNext
<1>3. SlotInv => TypeOK
  BY DEF SlotInv
<1> QED
  BY <1>1, <1>2, <1>3, PTL DEF Spec

\* fetchMedia and fetchAvatar give back exactly what they took, on every path: the
\* semaphore counts the running downloads and picMu is the lock of the fetch_avatar
\* in its section.
THEOREM SlotsSafe == Spec => []SlotsHeld
<1>1. Init => SlotInv
  BY SlotInvInit
<1>2. SlotInv /\ [Next]_vars => SlotInv'
  BY SlotInvNext
<1>3. SlotInv => SlotsHeld
  BY DEF SlotInv
<1> QED
  BY <1>1, <1>2, <1>3, PTL DEF Spec

-----------------------------------------------------------------------------
(* The pace of the picture queries *)

PaceInv == SlotInv /\ PicInv /\ AvatarPaced

\* A step that asks for nothing and leads no command to its wait or its query.
LEMMA PaceKept ==
  ASSUME TypeOK, PicInv, AvatarPaced, NEW c \in Cmds, NEW s \in Steps \ {"sleep", "query"}, Goes(c, s),
         UNCHANGED <<real, lastPic, asked>>, \A d \in Cmds \ {c} : now'[d] = now[d]
  PROVE  PicInv' /\ AvatarPaced'
<1>1. pc'[c] = s /\ \A d \in Cmds \ {c} : pc'[d] = pc[d]
  BY GoesEffect
<1>2. AvatarPaced'
  BY DEF AvatarPaced
<1>3. PicInv'
  BY <1>1 DEF PicInv
<1> QED
  BY <1>2, <1>3

\* The one step that asks comes AvatarInterval after the last that did, and nobody
\* else is past the lock then.
LEMMA PaceAsked ==
  ASSUME SlotInv, PicInv, AvatarPaced, NEW c \in Cmds, Query(c)
  PROVE  PicInv' /\ AvatarPaced'
<1> USE FetchesAssumption
<1>0. TypeOK /\ StepOfKind /\ SlotsHeld
  BY DEF SlotInv
<1>1. /\ pc[c] = "query" /\ Goes(c, "info")
      /\ lastPic' = real /\ asked' = Append(asked, real) /\ real' = real
  BY DEF Query, Moves
<1>2. pc'[c] = "info" /\ \A d \in Cmds \ {c} : pc'[d] = pc[d]
  BY <1>0, <1>1, GoesEffect DEF Steps
<1>3. ASSUME NEW d \in Cmds, pc[d] \in {"sleep", "query"} PROVE d = c
  <2>1. InPic(d) /\ InPic(c)
    BY <1>0, <1>1, <1>3 DEF InPic, StepOfKind, Fits
  <2> QED
    BY <1>0, <2>1 DEF SlotsHeld
<1>4. \A d \in Cmds : pc'[d] \notin {"sleep", "query"}
  BY <1>2, <1>3
<1>5. real \in Nat /\ asked \in Seq(Nat) /\ lastPic \in Nat \cup {Null}
  BY <1>0 DEF TypeOK
<1>6. PicInv'
  BY <1>1, <1>4, <1>5 DEF PicInv
<1>7. AvatarPaced'
  <2> SUFFICES ASSUME NEW i \in DOMAIN asked', NEW j \in DOMAIN asked', i < j
               PROVE  asked'[j] - asked'[i] >= AvatarInterval
    BY DEF AvatarPaced
  <2>1. i \in 1 .. Len(asked) /\ j \in 1 .. Len(asked) + 1 /\ asked'[i] = asked[i] /\ asked[i] \in Nat
    BY <1>1, <1>5
  <2>2. CASE j \in 1 .. Len(asked)
    BY <1>1, <1>5, <2>1, <2>2 DEF AvatarPaced
  <2>3. CASE j = Len(asked) + 1
    <3>1. /\ asked'[j] = real /\ Len(asked) \in 1 .. Len(asked)
          /\ lastPic \in Nat /\ asked[Len(asked)] = lastPic /\ real >= lastPic + AvatarInterval
      BY <1>1, <1>5, <2>1, <2>3 DEF PicInv
    <3>2. CASE i = Len(asked)
      BY <1>5, <2>1, <3>1, <3>2
    <3>3. CASE i < Len(asked)
      <4>1. asked[Len(asked)] - asked[i] >= AvatarInterval
        BY <1>5, <2>1, <3>1, <3>3 DEF AvatarPaced
      <4> QED
        BY <1>5, <2>1, <3>1, <4>1
    <3> QED
      BY <2>1, <3>1, <3>2, <3>3
  <2> QED
    BY <2>1, <2>2, <2>3
<1> QED
  BY <1>6, <1>7

\* The pace is kept by each step of a command and by a panic.
LEMMA PaceStep ==
  ASSUME SlotInv, PicInv, AvatarPaced, NEW c \in Cmds, Step(c) \/ Panic(c)
  PROVE  PicInv' /\ AvatarPaced'
<1> USE FetchesAssumption
<1>0. TypeOK /\ StepOfKind
  BY DEF SlotInv
<1> USE <1>0
<1>1. ASSUME NEW a \in Steps, NEW l \in Lines, Answers(c, a, l) PROVE PicInv' /\ AvatarPaced'
  BY <1>1, PaceKept DEF Answers, Moves, bridgeVars, historyVars, Steps
<1>2. ASSUME NEW a \in Steps, NEW b \in Steps \ {"sleep", "query"}, Moves(c, a, b), UNCHANGED <<lastPic, asked>>
      PROVE  PicInv' /\ AvatarPaced'
  BY <1>2, PaceKept DEF Moves
<1>3. CASE Check(c)
  <2>1. pc[c] = "check" => First[kind[c]] \in Steps \ {"sleep", "query"}
    BY KindOfRunning DEF First, Commands, Steps
  <2> QED
    BY <1>1, <1>2, <1>3, <2>1 DEF Check, Lines, Steps, bridgeVars, historyVars
<1>4. CASE ReadClock(c)
  BY <1>4, PaceKept DEF ReadClock, bridgeVars, historyVars, Steps, TypeOK
<1>5. CASE PinAllowed(c)
  BY <1>5, PaceKept DEF PinAllowed, Steps, TypeOK
<1>6. CASE Ask(c) \/ Seal(c)
  BY <1>1, <1>6 DEF Ask, Seal, Lines, Steps
<1>7. CASE TakeSlot(c) \/ NoSlot(c)
  BY <1>2, <1>7 DEF TakeSlot, NoSlot, bridgeVars, historyVars, Steps
<1>8. CASE Download(c) \/ Info(c)
  BY <1>1, <1>2, <1>8 DEF Download, Info, Lines, Steps, bridgeVars, historyVars
<1>9. CASE LockPic(c)
  <2>1. /\ pc'[c] = IF Waits THEN "sleep" ELSE "query"
        /\ \A d \in Cmds \ {c} : pc'[d] = pc[d]
    BY <1>9, GoesEffect DEF LockPic, Steps
  <2>2. /\ now'[c] = IF Waits THEN lastPic + AvatarInterval ELSE 0
        /\ \A d \in Cmds \ {c} : now'[d] = now[d]
        /\ UNCHANGED <<real, lastPic, asked>>
    BY <1>9 DEF LockPic, TypeOK, historyVars
  <2>3. Waits => lastPic # Null /\ lastPic \in Nat
    BY DEF Waits, TypeOK
  <2>4. ~Waits => lastPic = Null \/ real >= lastPic + AvatarInterval
    BY DEF Waits, TypeOK, PicInv
  <2>5. PicInv'
    BY <2>1, <2>2, <2>3, <2>4 DEF PicInv
  <2> QED
    BY <2>2, <2>5 DEF AvatarPaced
<1>10. CASE Wake(c)
  <2>1. pc[c] = "sleep" /\ pc'[c] = "query" /\ \A d \in Cmds \ {c} : pc'[d] = pc[d]
    BY <1>10, GoesEffect DEF Wake, Sleeps, Steps
  <2>2. /\ real >= now[c] /\ UNCHANGED <<real, lastPic, asked>>
        /\ \A d \in Cmds \ {c} : now'[d] = now[d]
    BY <1>10 DEF Wake, Sleeps, TypeOK, bridgeVars, historyVars
  <2>3. real >= lastPic + AvatarInterval
    BY <2>1, <2>2 DEF PicInv, TypeOK
  <2>4. PicInv'
    BY <2>1, <2>2, <2>3 DEF PicInv
  <2> QED
    BY <2>2, <2>4 DEF AvatarPaced
<1>11. CASE SleepEnds(c)
  BY <1>11, PaceKept DEF SleepEnds, Sleeps, bridgeVars, historyVars, Steps, TypeOK
<1>12. CASE Query(c)
  BY <1>12, PaceAsked
<1>13. CASE Leave(c) \/ Panic(c)
  BY <1>2, <1>13 DEF Leave, Panic, historyVars, Steps
<1> QED
  BY <1>3, <1>4, <1>5, <1>6, <1>7, <1>8, <1>9, <1>10, <1>11, <1>12, <1>13 DEF Step

\* PaceInv is inductive.
LEMMA PaceNext == PaceInv /\ [Next]_vars => PaceInv'
<1> SUFFICES ASSUME PaceInv, [Next]_vars PROVE PaceInv'
  OBVIOUS
<1>0. SlotInv /\ PicInv /\ AvatarPaced /\ TypeOK
  BY DEF PaceInv, SlotInv
<1>1. SlotInv'
  BY <1>0, SlotInvNext
<1>2. ASSUME NEW c \in Cmds, NEW k \in Kinds, Handle(c, k) PROVE PicInv' /\ AvatarPaced'
  <2>1. pc'[c] = "check" /\ (\A d \in Cmds \ {c} : pc'[d] = pc[d]) /\ UNCHANGED <<now, real, lastPic, asked>>
    BY <1>0, <1>2 DEF Handle, TypeOK, bridgeVars, historyVars
  <2> QED
    BY <1>0, <2>1 DEF PicInv, AvatarPaced
<1>3. ASSUME NEW c \in Cmds, Step(c) \/ Panic(c) PROVE PicInv' /\ AvatarPaced'
  BY <1>0, <1>3, PaceStep
<1>4. CASE Quiesce \/ Cancel \/ UNCHANGED vars
  <2>1. UNCHANGED <<pc, now, real, lastPic, asked>>
    BY <1>4 DEF Quiesce, Cancel, vars, bridgeVars, historyVars
  <2> QED
    BY <1>0, <1>1, <2>1 DEF PaceInv, PicInv, AvatarPaced
<1>5. CASE Tick
  <2>1. UNCHANGED <<pc, now, lastPic, asked>> /\ real' = real + 1
    BY <1>5 DEF Tick, bridgeVars, historyVars
  <2>2. AvatarPaced'
    BY <1>0, <2>1 DEF AvatarPaced
  <2>3. real \in Nat /\ lastPic \in Nat \cup {Null}
    BY <1>0 DEF TypeOK
  <2>4. PicInv'
    BY <1>0, <2>1, <2>3, FetchesAssumption DEF PicInv
  <2> QED
    BY <1>1, <2>2, <2>4 DEF PaceInv
<1> QED
  BY <1>0, <1>1, <1>2, <1>3, <1>4, <1>5 DEF Next, PaceInv

\* WhatsApp is asked for profile pictures at most once in AvatarInterval, whatever
\* number of fetch_avatars there is and however each of them ends (fetchAvatar).
THEOREM AvatarsPaced == Spec => []AvatarPaced
<1>1. Init => PaceInv
  <2> SUFFICES ASSUME Init PROVE PaceInv
    OBVIOUS
  <2>1. PicInv /\ AvatarPaced
    BY DEF Init, PicInv, AvatarPaced
  <2> QED
    BY <2>1, SlotInvInit DEF PaceInv
<1>2. PaceInv /\ [Next]_vars => PaceInv'
  BY PaceNext
<1>3. PaceInv => AvatarPaced
  BY DEF PaceInv
<1> QED
  BY <1>1, <1>2, <1>3, PTL DEF Spec

-----------------------------------------------------------------------------
(* The hand-off files and the final lines *)

FilesInv == SlotInv /\ FileInv

\* A step of c before its final line that writes none, or of its deferred functions.
LEMMA FilesKept ==
  ASSUME TypeOK, FileInv, NEW c \in Cmds, NEW s \in Steps, Goes(c, s),
         pc[c] # "done", pc[c] = "leave" => s = "done", UNCHANGED <<quiesced, files, replies>>
  PROVE  FileInv'
<1>1. pc'[c] = s /\ \A d \in Cmds \ {c} : pc'[d] = pc[d]
  BY GoesEffect
<1> QED
  BY <1>1 DEF FileInv

\* The final line: the first of c, and with the file if it names one.
LEMMA FilesWritten ==
  ASSUME TypeOK, FileInv, NEW c \in Cmds, NEW s \in {"leave", "done"}, Goes(c, s),
         pc[c] \notin {"leave", "done"}, NEW l \in Lines, Emit(c, l), quiesced' = quiesced,
         files' = IF l = "file" THEN files \cup {c} ELSE files
  PROVE  FileInv'
<1>1. pc'[c] = s /\ \A d \in Cmds \ {c} : pc'[d] = pc[d]
  BY GoesEffect DEF Steps
<1>2. replies[c] = <<>> /\ c \notin files
  BY DEF FileInv
<1>3. \A d \in Cmds \ {c} : replies'[d] = replies[d] /\ (d \in files' <=> d \in files)
  BY DEF Emit, TypeOK
<1>4. replies'[c] = IF quiesced THEN <<>> ELSE <<l>>
  BY <1>2 DEF Emit, TypeOK
<1>5. c \in files' <=> l = "file"
  BY <1>2
<1>6. /\ Len(replies'[c]) <= 1
      /\ \A i \in DOMAIN replies'[c] : replies'[c][i] = "file" => c \in files'
      /\ c \in files' /\ ~quiesced' => replies'[c] = <<"file">>
  BY <1>4, <1>5
<1> QED
  BY <1>1, <1>3, <1>6 DEF FileInv

\* FileInv is kept by each step of a command and by a panic.
LEMMA FilesStep ==
  ASSUME SlotInv, FileInv, NEW c \in Cmds, Step(c) \/ Panic(c)
  PROVE  FileInv'
<1>0. TypeOK
  BY DEF SlotInv
<1> USE <1>0
<1>1. ASSUME NEW a \in Asking, NEW l \in Lines, Answers(c, a, l),
             files' = IF l = "file" THEN files \cup {c} ELSE files
      PROVE  FileInv'
  BY <1>1, FilesWritten DEF Answers, Moves, Asking
<1>2. ASSUME NEW a \in Steps \ {"leave", "done"}, NEW b \in Steps, Moves(c, a, b), UNCHANGED <<files, replies>>
      PROVE  FileInv'
  BY <1>2, FilesKept DEF Moves
<1>3. CASE Check(c)
  <2>1. pc[c] = "check" => First[kind[c]] \in Steps
    BY KindOfRunning DEF First, Commands, Steps
  <2> QED
    BY <1>1, <1>2, <1>3, <2>1 DEF Check, Lines, Asking, Steps
<1>4. CASE ReadClock(c)
  BY <1>4, FilesKept DEF ReadClock, outVars, Steps
<1>5. CASE PinAllowed(c)
  <2>1. pc[c] = "pin" /\ UNCHANGED <<quiesced, files>>
    BY <1>5 DEF PinAllowed
  <2>2. CASE Goes(c, "ask") /\ UNCHANGED replies
    BY <2>1, <2>2, FilesKept DEF Steps
  <2>3. CASE Goes(c, "done") /\ Emit(c, "error")
    BY <2>1, <2>3, FilesWritten DEF Lines
  <2> QED
    BY <1>5, <2>2, <2>3 DEF PinAllowed
<1>6. CASE Ask(c)
  BY <1>1, <1>6 DEF Ask, Lines, Asking
<1>7. CASE TakeSlot(c) \/ NoSlot(c)
  BY <1>2, <1>7 DEF TakeSlot, NoSlot, outVars, Steps
<1>8. CASE Download(c) \/ Info(c)
  BY <1>1, <1>2, <1>8 DEF Download, Info, Lines, Asking, Steps
<1>9. CASE Seal(c)
  BY <1>1, <1>9 DEF Seal, Lines, Asking
<1>10. CASE LockPic(c)
  BY <1>10, FilesKept DEF LockPic, outVars, Steps
<1>11. CASE Wake(c) \/ SleepEnds(c)
  BY <1>11, FilesKept DEF Wake, SleepEnds, Sleeps, outVars, Steps
<1>12. CASE Query(c)
  BY <1>2, <1>12 DEF Query, outVars, Steps
<1>13. CASE Leave(c)
  BY <1>13, FilesKept DEF Leave, Moves, outVars, Steps
<1>14. CASE Panic(c)
  <2>1. Goes(c, "done") /\ pc[c] \notin {"leave", "done"} /\ Emit(c, "error") /\ UNCHANGED <<quiesced, files>>
    BY <1>14 DEF Panic, Moves
  <2> QED
    BY <2>1, FilesWritten DEF Lines
<1> QED
  BY <1>3, <1>4, <1>5, <1>6, <1>7, <1>8, <1>9, <1>10, <1>11, <1>12, <1>13, <1>14 DEF Step

\* FilesInv is inductive.
LEMMA FilesNext == FilesInv /\ [Next]_vars => FilesInv'
<1> SUFFICES ASSUME FilesInv, [Next]_vars PROVE FilesInv'
  OBVIOUS
<1>0. SlotInv /\ FileInv /\ TypeOK
  BY DEF FilesInv, SlotInv
<1>1. SlotInv'
  BY <1>0, SlotInvNext
<1>2. ASSUME NEW c \in Cmds, NEW k \in Kinds, Handle(c, k) PROVE FileInv'
  <2>1. /\ pc[c] = "idle" /\ pc'[c] = "check" /\ \A d \in Cmds \ {c} : pc'[d] = pc[d]
        /\ UNCHANGED <<quiesced, files, replies>>
    BY <1>0, <1>2 DEF Handle, TypeOK, outVars
  <2> QED
    BY <1>0, <2>1 DEF FileInv
<1>3. ASSUME NEW c \in Cmds, Step(c) \/ Panic(c) PROVE FileInv'
  BY <1>0, <1>3, FilesStep
<1>4. CASE Quiesce
  <2>1. quiesced' = TRUE /\ UNCHANGED <<pc, files, replies>>
    BY <1>4 DEF Quiesce, outVars
  <2> QED
    BY <1>0, <1>1, <2>1 DEF FileInv, FilesInv
<1>5. CASE Cancel \/ Tick \/ UNCHANGED vars
  <2>1. UNCHANGED <<pc, quiesced, files, replies>>
    BY <1>5 DEF Cancel, Tick, vars, outVars
  <2> QED
    BY <1>0, <1>1, <2>1 DEF FileInv, FilesInv
<1> QED
  BY <1>0, <1>1, <1>2, <1>3, <1>4, <1>5 DEF Next, FilesInv

\* A command has at most one final line, one that names a hand-off file comes with the
\* file, and no file stays of which the client was not told, unless the writer was
\* quiesced before (Seal, asyncCmd's recover, Writer.emit).
THEOREM FilesSafe == Spec => []FilesAnnounced
<1>1. Init => FilesInv
  <2> SUFFICES ASSUME Init PROVE FilesInv
    OBVIOUS
  <2>1. FileInv
    BY DEF Init, FileInv
  <2> QED
    BY <2>1, SlotInvInit DEF FilesInv
<1>2. FilesInv /\ [Next]_vars => FilesInv'
  BY FilesNext
<1>3. FilesInv => FilesAnnounced
  BY DEF FilesInv, FileInv, FilesAnnounced
<1> QED
  BY <1>1, <1>2, <1>3, PTL DEF Spec

-----------------------------------------------------------------------------
(* The backstop of set_pin *)

\* A set_pin at this time would be allowed, and overtakes none that is remembered.
Allowed(at) == Spare(Recent(at), at) /\ \A t \in pins : t <= at

\* A time that was forgotten is a window away from every set_pin that may come: those
\* that forgot it were refused, and a time before theirs is refused again.
Forgotten(t) == \A at \in Int : Allowed(at) => at - t >= PinWindow

PinInv ==
  /\ IsFiniteSet(pins)
  /\ ~overtaken =>
       /\ \A i, j \in DOMAIN pinned : i < j => pinned[i] < pinned[j]
       /\ \A i \in DOMAIN pinned : pinned[i] \in pins \/ Forgotten(pinned[i])

PinsInv == SlotInv /\ PinInv /\ PinsLimited

\* What is kept for a later time is kept for an earlier one that overtakes none of it.
LEMMA KeptEarlier ==
  ASSUME TypeOK, NEW at \in Int, NEW at2 \in Int, at2 <= at, \A t \in Recent(at) : t <= at2
  PROVE  {t \in Recent(at) : at2 - t >= 0 /\ at2 - t < PinWindow} = Recent(at)
<1>1. PinWindow \in Nat /\ pins \subseteq Int
  BY FetchesAssumption DEF TypeOK
<1>2. ASSUME NEW u \in Recent(at)
      PROVE  at2 - u >= 0 /\ at2 - u < PinWindow
  <2>1. u \in pins /\ at - u < PinWindow /\ u <= at2
    BY DEF Recent
  <2> QED
    BY <1>1, <2>1
<1> QED
  BY <1>2, Zenon

\* A refused set_pin forgets only what no later one can come close to.
LEMMA ForgottenRefused ==
  ASSUME TypeOK, NEW at \in Int, \A t \in pins : t <= at, ~Spare(Recent(at), at), pins' = Recent(at),
         NEW t \in Int, t \in pins \/ Forgotten(t)
  PROVE  t \in pins' \/ Forgotten(t)'
<1>0. PinWindow \in Nat /\ pins \subseteq Int /\ MinPinInterval \in Nat
  BY FetchesAssumption DEF TypeOK
<1> SUFFICES ASSUME t \notin Recent(at), NEW at2 \in Int, Allowed(at2)'
             PROVE  at2 - t >= PinWindow
  BY DEF Forgotten
<1>1. PICK kept : kept = {u \in Recent(at) : at2 - u >= 0 /\ at2 - u < PinWindow}
  OBVIOUS
<1>2. Spare(kept, at2) /\ \A u \in Recent(at) : u <= at2
  BY <1>1, Zenon DEF Allowed, Recent
<1>3. at < at2
  <2> SUFFICES ASSUME at2 <= at PROVE FALSE
    BY <1>0
  <2>1. kept = Recent(at)
    BY <1>1, <1>2, KeptEarlier
  <2>2. \A u \in Recent(at) : at - u >= MinPinInterval
    <3>1. \A u \in Recent(at) : u \in Int /\ at2 - u >= MinPinInterval
      BY <1>0, <1>2, <2>1 DEF Spare, Recent
    <3> QED
      BY <1>0, <3>1
  <2>3. Spare(Recent(at), at)
    BY <1>2, <2>1, <2>2 DEF Spare
  <2> QED
    BY <2>3
<1>4. Recent(at2) = kept
  <2>1. ASSUME NEW u \in pins, at2 - u >= 0, at2 - u < PinWindow
        PROVE  at - u >= 0 /\ at - u < PinWindow
    BY <1>0, <1>3, <2>1
  <2> QED
    BY <1>1, <2>1, Zenon DEF Recent
<1>5. Allowed(at2)
  <2>1. \A u \in pins : u <= at2
    BY <1>0, <1>3
  <2> QED
    BY <1>2, <1>4, <2>1 DEF Allowed
<1>6. CASE t \in pins
  BY <1>0, <1>3, <1>6 DEF Recent
<1>7. CASE Forgotten(t)
  BY <1>5, <1>7 DEF Forgotten
<1> QED
  BY <1>6, <1>7

\* An allowed set_pin comes after every other, a window after those forgotten, the
\* shortest interval after the last and a window after the one MaxPinsInWindow before.
LEMMA PinSpaced ==
  ASSUME TypeOK, PinInv, ~overtaken, NEW at \in Int, Allowed(at), NEW i \in DOMAIN pinned
  PROVE  /\ at > pinned[i]
         /\ at - pinned[i] >= MinPinInterval
         /\ Len(pinned) + 1 - i = MaxPinsInWindow => at - pinned[i] >= PinWindow
<1>0. /\ PinWindow \in Nat /\ MinPinInterval \in Nat \ {0} /\ MaxPinsInWindow \in Nat
      /\ MinPinInterval <= PinWindow
  BY FetchesAssumption
<1>1. pinned \in Seq(Int) /\ pins \subseteq Int /\ \A l \in DOMAIN pinned : pinned[l] \in Int
  BY DEF TypeOK
<1>2. ASSUME NEW l \in DOMAIN pinned, pinned[l] \notin Recent(at)
      PROVE  at - pinned[l] >= PinWindow
  <2>1. CASE pinned[l] \in pins
    BY <1>0, <1>1, <1>2, <2>1 DEF Allowed, Recent
  <2>2. CASE Forgotten(pinned[l])
    BY <2>2 DEF Forgotten
  <2> QED
    BY <2>1, <2>2 DEF PinInv
<1>3. at - pinned[i] >= MinPinInterval
  <2>1. CASE pinned[i] \in Recent(at)
    BY <2>1 DEF Allowed, Spare
  <2>2. CASE pinned[i] \notin Recent(at)
    BY <1>0, <1>1, <1>2, <2>2
  <2> QED
    BY <2>1, <2>2
<1>4. ASSUME Len(pinned) + 1 - i = MaxPinsInWindow
      PROVE  at - pinned[i] >= PinWindow
  <2> SUFFICES ASSUME ~(at - pinned[i] >= PinWindow) PROVE FALSE
    OBVIOUS
  <2>1. ASSUME NEW l \in i .. Len(pinned)
        PROVE  pinned[l] \in Recent(at)
    <3>1. l \in DOMAIN pinned /\ pinned[i] <= pinned[l]
      BY <1>1 DEF PinInv
    <3>2. ~(at - pinned[l] >= PinWindow)
      BY <1>0, <1>1, <3>1
    <3> QED
      BY <1>2, <3>1, <3>2
  <2>2. IsFiniteSet(Recent(at)) /\ Cardinality(Recent(at)) < MaxPinsInWindow
    <3>1. Recent(at) \subseteq pins
      BY DEF Recent
    <3> QED
      BY <3>1, FS_Subset DEF PinInv, Allowed, Spare
  <2>3. IsFiniteSet(i .. Len(pinned)) /\ Cardinality(i .. Len(pinned)) = MaxPinsInWindow
    <3>1. i \in Int /\ Len(pinned) \in Int /\ i <= Len(pinned) /\ Len(pinned) - i + 1 = MaxPinsInWindow
      BY <1>0, <1>1, <1>4
    <3> QED
      BY <3>1, FS_Interval
  <2>4. PICK f : f = [l \in i .. Len(pinned) |-> pinned[l]]
    OBVIOUS
  <2>5. f \in [i .. Len(pinned) -> Recent(at)]
    BY <2>1, <2>4
  <2>6. \E x, y \in i .. Len(pinned) : x # y /\ f[x] = f[y]
    BY <2>2, <2>3, <2>5, FS_PigeonHole
  <2>7. PICK x \in i .. Len(pinned), y \in i .. Len(pinned) : x # y /\ pinned[x] = pinned[y]
    BY <2>4, <2>6
  <2>8. x \in DOMAIN pinned /\ y \in DOMAIN pinned /\ (x < y \/ y < x)
    BY <1>1, <2>7
  <2> QED
    BY <1>1, <2>7, <2>8 DEF PinInv
<1> QED
  BY <1>0, <1>1, <1>3, <1>4

\* pinAllowed keeps the times apart.
LEMMA PinStep ==
  ASSUME TypeOK, PinInv, PinsLimited, NEW c \in Cmds, PinAllowed(c)
  PROVE  PinInv' /\ PinsLimited'
<1>0. /\ now[c] \in Int /\ pinned \in Seq(Int) /\ pins \subseteq Int
      /\ PinWindow \in Nat /\ MinPinInterval \in Nat \ {0} /\ MaxPinsInWindow \in Nat \ {0}
  BY FetchesAssumption DEF TypeOK
<1>1. PICK at \in Int : at = now[c]
  BY <1>0
<1>2. ~overtaken' => ~overtaken /\ \A t \in pins : t <= at
  <2>1. overtaken' = (overtaken \/ \E t \in pins : t > at)
    BY <1>1, Zenon DEF PinAllowed
  <2>2. ~overtaken' => ~overtaken /\ \A t \in pins : ~(t > at)
    BY <2>1, Zenon
  <2>3. \A t \in pins : ~(t > at) => t <= at
    BY <1>0
  <2> QED
    BY <2>2, <2>3, Zenon
<1>3. IsFiniteSet(Recent(at)) /\ IsFiniteSet(Recent(at) \cup {at})
  <2>1. Recent(at) \subseteq pins
    BY DEF Recent
  <2>2. IsFiniteSet(Recent(at))
    BY <2>1, FS_Subset DEF PinInv
  <2> QED
    BY <2>2, FS_AddElement
<1>4. CASE Spare(Recent(at), at)
  <2>1. pins' = Recent(at) \cup {at} /\ pinned' = Append(pinned, at)
    BY <1>1, <1>4 DEF PinAllowed
  <2>2. /\ Len(pinned') = Len(pinned) + 1 /\ DOMAIN pinned' = 1 .. Len(pinned) + 1
        /\ pinned'[Len(pinned) + 1] = at /\ \A i \in 1 .. Len(pinned) : pinned'[i] = pinned[i]
    BY <1>0, <2>1
  <2> SUFFICES ASSUME ~overtaken'
               PROVE  /\ \A i, j \in DOMAIN pinned' : i < j => pinned'[i] < pinned'[j]
                      /\ \A i \in DOMAIN pinned' :
                           pinned'[i] \in pins' \/ \A at2 \in Int : Allowed(at2)' => at2 - pinned'[i] >= PinWindow
                      /\ \A i, j \in DOMAIN pinned' :
                           /\ j - i = 1 => pinned'[j] - pinned'[i] >= MinPinInterval
                           /\ j - i = MaxPinsInWindow => pinned'[j] - pinned'[i] >= PinWindow
    <3>1. IsFiniteSet(pins')
      BY <1>3, <2>1
    <3> QED
      BY <3>1, Zenon DEF PinInv, PinsLimited, Forgotten
  <2>3. ~overtaken /\ Allowed(at)
    BY <1>2, <1>4 DEF Allowed
  <2>4. ASSUME NEW i \in 1 .. Len(pinned)
        PROVE  /\ i \in DOMAIN pinned /\ pinned[i] \in Int /\ at > pinned[i]
               /\ at - pinned[i] >= MinPinInterval
               /\ Len(pinned) + 1 - i = MaxPinsInWindow => at - pinned[i] >= PinWindow
    BY <1>0, <2>3, PinSpaced
  <2>5. ASSUME NEW i \in DOMAIN pinned', NEW j \in DOMAIN pinned', i < j
        PROVE  /\ pinned'[i] < pinned'[j]
               /\ j - i = 1 => pinned'[j] - pinned'[i] >= MinPinInterval
               /\ j - i = MaxPinsInWindow => pinned'[j] - pinned'[i] >= PinWindow
    <3>1. CASE j = Len(pinned) + 1
      <4>1. i \in 1 .. Len(pinned) /\ pinned'[i] = pinned[i] /\ pinned'[j] = at
        BY <1>0, <2>2, <2>5, <3>1
      <4>2. /\ pinned[i] \in Int /\ at > pinned[i] /\ at - pinned[i] >= MinPinInterval
            /\ Len(pinned) + 1 - i = MaxPinsInWindow => at - pinned[i] >= PinWindow
        BY <2>4, <4>1
      <4> QED
        BY <1>0, <3>1, <4>1, <4>2
    <3>2. CASE j \in 1 .. Len(pinned)
      <4>1. i \in 1 .. Len(pinned) /\ i \in DOMAIN pinned /\ j \in DOMAIN pinned
        BY <1>0, <2>2, <2>5, <3>2
      <4> QED
        BY <2>2, <2>3, <2>5, <3>2, <4>1 DEF PinInv, PinsLimited
    <3> QED
      BY <1>0, <2>2, <3>1, <3>2
  <2>6. ASSUME NEW i \in DOMAIN pinned'
        PROVE  pinned'[i] \in pins' \/ \A at2 \in Int : Allowed(at2)' => at2 - pinned'[i] >= PinWindow
    <3>1. CASE i = Len(pinned) + 1
      BY <2>1, <2>2, <3>1
    <3>2. CASE i \in 1 .. Len(pinned)
      <4>1. i \in DOMAIN pinned /\ pinned[i] \in Int /\ pinned'[i] = pinned[i] /\ at > pinned[i]
        BY <2>2, <2>4, <3>2
      <4>2. CASE pinned[i] \in Recent(at)
        BY <2>1, <4>1, <4>2
      <4>3. CASE pinned[i] \notin Recent(at)
        <5>1. at - pinned[i] >= PinWindow
          <6>1. CASE pinned[i] \in pins
            BY <1>0, <4>1, <4>3, <6>1 DEF Recent
          <6>2. CASE Forgotten(pinned[i])
            BY <2>3, <6>2 DEF Forgotten
          <6> QED
            BY <2>3, <4>1, <6>1, <6>2 DEF PinInv
        <5>2. ASSUME NEW at2 \in Int, Allowed(at2)'
              PROVE  at2 - pinned[i] >= PinWindow
          <6>1. at <= at2
            BY <2>1, <5>2 DEF Allowed
          <6> QED
            BY <1>0, <4>1, <5>1, <6>1
        <5> QED
          BY <4>1, <5>2
      <4> QED
        BY <4>2, <4>3
    <3> QED
      BY <1>0, <2>2, <3>1, <3>2
  <2> HIDE DEF PinInv
  <2>7. \A i, j \in DOMAIN pinned' : j - i = 1 \/ j - i = MaxPinsInWindow => i < j
    BY <1>0, <2>2
  <2> QED
    BY <2>5, <2>6, <2>7
<1>5. CASE ~Spare(Recent(at), at)
  <2>1. pins' = Recent(at) /\ pinned' = pinned
    BY <1>1, <1>5 DEF PinAllowed
  <2>3. ~overtaken' => \A i, j \in DOMAIN pinned' : i < j => pinned'[i] < pinned'[j]
    BY <1>2, <2>1 DEF PinInv
  <2>4. ~overtaken' => \A i \in DOMAIN pinned' :
                          pinned'[i] \in pins' \/ \A at2 \in Int : Allowed(at2)' => at2 - pinned'[i] >= PinWindow
    <3> SUFFICES ASSUME ~overtaken', NEW i \in DOMAIN pinned
                 PROVE  pinned[i] \in pins' \/ \A at2 \in Int : Allowed(at2)' => at2 - pinned[i] >= PinWindow
      BY <2>1
    <3>1. PICK t : t = pinned[i]
      OBVIOUS
    <3>2. pinned[i] \in Int /\ (pinned[i] \in pins \/ Forgotten(pinned[i])) /\ \A u \in pins : u <= at
      BY <1>0, <1>2 DEF PinInv
    <3>3. t \in pins' \/ Forgotten(t)'
      BY <1>5, <2>1, <3>1, <3>2, ForgottenRefused
    <3> QED
      BY <3>1, <3>3 DEF Forgotten
  <2>5. PinsLimited'
    BY <1>2, <2>1 DEF PinsLimited
  <2> QED
    <3>1. IsFiniteSet(pins')
      BY <1>3, <2>1
    <3> QED
      BY <2>3, <2>4, <2>5, <3>1, Zenon DEF PinInv, Forgotten
<1> QED
  BY <1>4, <1>5

\* PinsInv is inductive: no other step touches the times.
LEMMA PinsNext == PinsInv /\ [Next]_vars => PinsInv'
<1> SUFFICES ASSUME PinsInv, [Next]_vars PROVE PinsInv'
  OBVIOUS
<1>0. SlotInv /\ PinInv /\ PinsLimited /\ TypeOK
  BY DEF PinsInv, SlotInv
<1>1. SlotInv'
  BY <1>0, SlotInvNext
<1>2. CASE \E c \in Cmds : PinAllowed(c)
  BY <1>0, <1>1, <1>2, PinStep DEF PinsInv
<1>3. CASE UNCHANGED <<pins, pinned, overtaken>>
  <2>1. \A t : Forgotten(t)' <=> Forgotten(t)
    BY <1>3 DEF Forgotten, Allowed, Recent
  <2> QED
    BY <1>0, <1>1, <1>3, <2>1 DEF PinsInv, PinInv, PinsLimited
<1>4. [Next]_vars => (\E c \in Cmds : PinAllowed(c)) \/ UNCHANGED <<pins, pinned, overtaken>>
  BY DEF Next, Step, Handle, Check, ReadClock, Ask, TakeSlot, NoSlot, Download, Seal, LockPic, Wake, SleepEnds,
         Sleeps, Query, Info, Leave, Panic, Answers, Quiesce, Cancel, Tick, vars, bridgeVars, historyVars
<1> QED
  BY <1>2, <1>3, <1>4

\* set_pin keeps to its limits in any window, with however many commands, as long as no
\* goroutine overtakes another between its clock and the lock (pinAllowed).
THEOREM PinsPaced == Spec => []PinsLimited
<1>1. Init => PinsInv
  <2> SUFFICES ASSUME Init PROVE PinsInv
    OBVIOUS
  <2>1. PinInv /\ PinsLimited
    BY FS_EmptySet DEF Init, PinInv, PinsLimited
  <2> QED
    BY <2>1, SlotInvInit DEF PinsInv
<1>2. PinsInv /\ [Next]_vars => PinsInv'
  BY PinsNext
<1>3. PinsInv => PinsLimited
  BY DEF PinsInv
<1> QED
  BY <1>1, <1>2, <1>3, PTL DEF Spec
=============================================================================
