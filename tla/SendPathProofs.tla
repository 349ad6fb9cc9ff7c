--------------------------- MODULE SendPathProofs ---------------------------
(***************************************************************************)
(* Theorems about SendPath, for every set of commands and outbox ids, every *)
(* fault, every bound.                                                     *)
(***************************************************************************)
EXTENDS SendPath, FiniteSetTheorems, TLAPS

\* time.Now() is a time, and reads the two clocks.
LEMMA TimeType ==
  ASSUME TypeOK
  PROVE  Now \in Time /\ Now.mono = real /\ Now.wall = wall
BY DEF TypeOK, Now, Time

\* Noticing a clock change keeps the type of the history of changes.
LEMMA NoticeType ==
  ASSUME TypeOK
  PROVE  Notice \in [at : Nat \cup {Null}, noticed : BOOLEAN, started : Nat]
BY DEF TypeOK, Notice

\* The two UPDATEs of voolo_sent keep its rows well-formed.
LEMMA MarkDispatchedType ==
  ASSUME NEW rs \in SUBSET Row, NEW o, NEW at, at.wall \in Int
  PROVE  MarkDispatched(rs, o, at) \subseteq Row
<1> SUFFICES ASSUME NEW r \in rs
             PROVE  (IF r.id = o THEN [r EXCEPT !.dispatched = at.wall] ELSE r) \in Row
  BY DEF MarkDispatched
<1>1. r \in Row
  OBVIOUS
<1>2. [r EXCEPT !.dispatched = at.wall] \in Row
  BY <1>1 DEF Row
<1> QED
  BY <1>1, <1>2

\* SetOutboxMessage's UPDATE leaves rows of the table.
LEMMA SetOutboxMessageType ==
  ASSUME NEW rs \in SUBSET Row, NEW o
  PROVE  SetOutboxMessage(rs, o) \subseteq Row
<1> SUFFICES ASSUME NEW r \in rs
             PROVE  (IF r.id = o THEN [r EXCEPT !.message = TRUE] ELSE r) \in Row
  BY DEF SetOutboxMessage
<1>1. r \in Row
  OBVIOUS
<1>2. [r EXCEPT !.message = TRUE] \in Row
  BY <1>1 DEF Row
<1> QED
  BY <1>1, <1>2

\* The final reply keeps the types of what it changes.
LEMMA ReplyType ==
  ASSUME TypeOK, NEW c \in Cmds, NEW r \in Codes, Running(c), Reply(c, r)
  PROVE  /\ replies' \in [Cmds -> Seq(Codes)]
         /\ pc' \in [Cmds -> Steps]
         /\ kind' \in [Cmds -> {"text", "media"}]
         /\ outbox' \in [Cmds -> Ids \cup {Null}]
         /\ \A d \in Cmds : Running(d)' => outbox'[d] \in Ids
         /\ now' \in [Cmds -> Time]
         /\ code' \in [Cmds -> Codes]
<1>1. replies' \in [Cmds -> Seq(Codes)]
  BY DEF TypeOK, Reply
<1>2. CASE Return(c)
  BY <1>1, <1>2 DEF TypeOK, Return, Goto, NoClock, Time, Steps, Running, Codes
<1>3. CASE Goto(c, "discard") /\ UNCHANGED localVars
  BY <1>1, <1>3 DEF TypeOK, localVars, Goto, Steps, Running
<1>4. QED
  BY <1>2, <1>3 DEF Reply

\* The steps of a command keep the types.
LEMMA CommandType ==
  ASSUME TypeOK, NEW c \in Cmds, CommandStep(c)
  PROVE  TypeOK'
<1> USE SendPathAssumption DEF TypeOK, clockVars, processVars, cmdVars, localVars, historyVars,
        Goto, Refuse, Proceed, Steps, SlotSteps, Codes, Running
<1>1. CASE Begin(c)
  <2>1. pc' \in [Cmds -> Steps] /\ code' \in [Cmds -> Codes]
    BY <1>1 DEF Begin
  <2>2. sending' \in BOOLEAN
    BY <1>1 DEF Begin
  <2>3. \A d \in Cmds : Running(d)' => outbox'[d] \in Ids
    BY <1>1 DEF Begin
  <2>4. QED
    BY <1>1, <2>1, <2>2, <2>3 DEF Begin
<1>2. CASE CheckChat(c)
  BY <1>2 DEF CheckChat
<1>3. CASE CheckKnown(c)
  BY <1>3 DEF CheckKnown
<1>4. CASE CheckBackstop(c)
  <2>1. now' \in [Cmds -> Time] /\ skew' \in [at : Nat \cup {Null}, noticed : BOOLEAN, started : Nat]
    BY <1>4, TimeType, NoticeType DEF CheckBackstop
  <2>2. pc' \in [Cmds -> Steps] /\ sending' \in BOOLEAN /\ code' \in [Cmds -> Codes]
    BY <1>4 DEF CheckBackstop
  <2>3. \A d \in Cmds : Running(d)' => outbox'[d] \in Ids
    BY <1>4 DEF CheckBackstop
  <2>4. QED
    BY <1>4, <2>1, <2>2, <2>3 DEF CheckBackstop
<1>5. CASE Insert(c)
  <2>1. outbox[c] \in Ids /\ now[c] \in Time
    BY <1>5 DEF Insert
  <2>2. NewRow(outbox[c], now[c]) \in Row
    BY <2>1 DEF NewRow, Row, Time
  <2>3. Append(reservations, outbox[c]) \in Seq(Ids)
    BY <2>1
  <2>4. rows' \subseteq Row /\ reservations' \in Seq(Ids) /\ inserted' \subseteq Cmds
    BY <1>5, <2>2, <2>3 DEF Insert
  <2>5. pc' \in [Cmds -> Steps] /\ sending' \in BOOLEAN /\ code' \in [Cmds -> Codes]
    BY <1>5 DEF Insert
  <2>6. \A d \in Cmds : Running(d)' => outbox'[d] \in Ids
    BY <1>5 DEF Insert
  <2>7. QED
    BY <1>5, <2>4, <2>5, <2>6 DEF Insert
<1>6. CASE Prune(c)
  BY <1>6 DEF Prune, Pruned
<1>7. CASE Prepare(c)
  BY <1>7 DEF Prepare, Opened
<1>8. CASE Upload(c)
  BY <1>8 DEF Upload
<1>9. CASE RecordSend(c)
  BY <1>9, TimeType DEF RecordSend
<1>10. CASE Mark(c)
  <2>1. MarkDispatched(rows, outbox[c], now[c]) \subseteq Row
    BY MarkDispatchedType DEF Time
  <2>2. QED
    BY <1>10, <2>1 DEF Mark
<1>11. CASE HandOff(c)
  <2>1. [id |-> outbox[c], at |-> now[c].mono] \in [id : Ids, at : Int]
    BY <1>11 DEF HandOff, Time
  <2>2. QED
    BY <1>11, <2>1 DEF HandOff
<1>12. CASE Sent(c)
  BY <1>12 DEF Sent
<1>13. CASE Result(c)
  <2>1. SetOutboxMessage(rows, outbox[c]) \subseteq Row
    BY SetOutboxMessageType
  <2>2. rows' \subseteq Row
    BY <1>13, <2>1 DEF Result
  <2>3. Reply(c, "send_result")
    BY <1>13 DEF Result
  <2>4. Running(c) /\ "send_result" \in Codes
    BY <1>13 DEF Result
  <2>5. /\ replies' \in [Cmds -> Seq(Codes)]
        /\ pc' \in [Cmds -> Steps]
        /\ kind' \in [Cmds -> {"text", "media"}]
        /\ outbox' \in [Cmds -> Ids \cup {Null}]
        /\ \A d \in Cmds : Running(d)' => outbox'[d] \in Ids
        /\ now' \in [Cmds -> Time]
        /\ code' \in [Cmds -> Codes]
    <3> HIDE DEF TypeOK, Goto, Steps, SlotSteps, Codes, Running
    <3> QED BY <2>3, <2>4, ReplyType
  <2>6. QED
    BY <1>13, <2>2, <2>5 DEF Result
<1>14. CASE Fail(c)
  <2>1. Reply(c, code[c])
    BY <1>14 DEF Fail
  <2>2. code[c] \in Codes /\ Running(c)
    BY <1>14 DEF Fail
  <2>3. /\ replies' \in [Cmds -> Seq(Codes)]
        /\ pc' \in [Cmds -> Steps]
        /\ kind' \in [Cmds -> {"text", "media"}]
        /\ outbox' \in [Cmds -> Ids \cup {Null}]
        /\ \A d \in Cmds : Running(d)' => outbox'[d] \in Ids
        /\ now' \in [Cmds -> Time]
        /\ code' \in [Cmds -> Codes]
    <3> HIDE DEF TypeOK, Goto, Steps, SlotSteps, Codes, Running
    <3> QED BY <2>1, <2>2, ReplyType
  <2>4. QED
    BY <1>14, <2>3 DEF Fail
<1>15. CASE Discard(c)
  BY <1>15 DEF Discard, Return, NoClock, Time
<1>16. CASE Recovered(c)
  BY <1>16 DEF Recovered, Return, NoClock, Time
<1>17. QED
  BY <1>1, <1>2, <1>3, <1>4, <1>5, <1>6, <1>7, <1>8, <1>9, <1>10, <1>11, <1>12,
     <1>13, <1>14, <1>15, <1>16 DEF CommandStep

\* So does every other step.
LEMMA NextType ==
  ASSUME TypeOK, [Next]_vars
  PROVE  TypeOK'
<1> USE SendPathAssumption DEF TypeOK, clockVars, processVars, cmdVars, localVars, historyVars,
        Goto, Steps, SlotSteps, Codes, Running
<1>1. ASSUME NEW c \in Cmds, NEW k \in Kinds, NEW o \in Ids, Handle(c, k, o)
      PROVE  TypeOK'
  BY <1>1 DEF Handle
<1>2. ASSUME NEW c \in Cmds, CommandStep(c)
      PROVE  TypeOK'
  BY <1>2, CommandType
<1>3. ASSUME NEW c \in Cmds, Panic(c)
      PROVE  TypeOK'
  <2>1. sending' \in BOOLEAN
    BY <1>3, Zenon DEF Panic
  <2>2. pc' \in [Cmds -> Steps]
    BY <1>3 DEF Panic
  <2>3. UNCHANGED <<clockVars, processVars, sends, rows, localVars, replies, files, historyVars>>
    BY <1>3, Zenon DEF Panic
  <2>4. ASSUME NEW d \in Cmds, Running(d)'
        PROVE  outbox'[d] \in Ids
    BY <1>3, <2>4 DEF Panic, PanicSteps
  <2> HIDE DEF Steps, SlotSteps, Codes, Running, Goto
  <2> QED
    BY <2>1, <2>2, <2>3, <2>4
<1>4. CASE Tick
  BY <1>4 DEF Tick
<1>5. ASSUME NEW d \in JumpsBack, SetClockBack(d)
      PROVE  TypeOK'
  <2>1. d \in Nat /\ wall \in Int /\ jumps \in Nat
    BY <1>5
  <2>2. wall' \in Int /\ jumps' \in Nat
    <3> HIDE SendPathAssumption DEF TypeOK, Goto, Steps, SlotSteps, Codes, Running
    <3>1. wall' = wall - d /\ jumps' = jumps + 1
      BY <1>5 DEF SetClockBack
    <3>2. QED
      BY <2>1, <3>1
  <2>3. skew' \in [at : Nat \cup {Null}, noticed : BOOLEAN, started : Nat]
    BY <1>5 DEF SetClockBack
  <2>4. QED
    BY <1>5, <2>2, <2>3 DEF SetClockBack
<1>6. CASE Crash
  <2>1. pc' \in [Cmds -> Steps] /\ \A c \in Cmds : ~Running(c)'
    BY <1>6 DEF Crash
  <2>2. NoClock \in Time
    BY DEF NoClock, Time
  <2>3. now' \in [Cmds -> Time]
    BY <1>6, <2>2 DEF Crash
  <2>4. kind' \in [Cmds -> {"text", "media"}] /\ outbox' \in [Cmds -> Ids \cup {Null}] /\ code' \in [Cmds -> Codes]
    BY <1>6 DEF Crash
  <2>5. up' \in BOOLEAN /\ sending' \in BOOLEAN
    BY <1>6, Zenon DEF Crash
  <2>6. crashes' \in Nat
    BY <1>6 DEF Crash
  <2>7. QED
    BY <1>6, <2>1, <2>3, <2>4, <2>5, <2>6 DEF Crash
<1>7. ASSUME NEW stale \in SUBSET files, DoInit(stale)
      PROVE  TypeOK'
  <2>1. skew' \in [at : Nat \cup {Null}, noticed : BOOLEAN, started : Nat]
    <3> DEFINE n == Notice
    <3>1. n \in [at : Nat \cup {Null}, noticed : BOOLEAN, started : Nat]
      BY NoticeType
    <3>2. skew' = [n EXCEPT !.started = real]
      BY <1>7 DEF DoInit
    <3> HIDE DEF n
    <3>3. QED
      BY <3>1, <3>2
  <2>2. Evicted \subseteq DOMAIN handoffs
    BY DEF Evicted
  <2>3. QED
    BY <1>7, <2>1, <2>2 DEF DoInit, CleanStale
<1>8. CASE UNCHANGED vars
  BY <1>8 DEF vars
<1>9. QED
  BY <1>1, <1>2, <1>3, <1>4, <1>5, <1>6, <1>7, <1>8 DEF Next

\* Type correctness: every variable of the send path keeps its type, and a
\* running command has an outbox id, for every instance of the module.
THEOREM TypeCorrect == Spec => []TypeOK
<1>1. Init => TypeOK
  <2> SUFFICES ASSUME Init PROVE TypeOK
    OBVIOUS
  <2>1. NoClock \in Time
    BY DEF NoClock, Time
  <2>2. pc \in [Cmds -> Steps] /\ \A c \in Cmds : ~Running(c)
    BY DEF Init, Steps, Running
  <2>3. replies \in [Cmds -> Seq(Codes)] /\ code \in [Cmds -> Codes]
    BY DEF Init, Codes
  <2>4. now \in [Cmds -> Time]
    BY <2>1 DEF Init
  <2>5. real \in Nat /\ wall \in Int /\ jumps \in Nat /\ crashes \in Nat
    BY DEF Init
  <2>10. up \in BOOLEAN /\ sending \in BOOLEAN
    BY Zenon DEF Init
  <2>6. rows \subseteq Row /\ files \subseteq Cmds /\ inserted \subseteq Cmds
    BY DEF Init
  <2>7. kind \in [Cmds -> {"text", "media"}] /\ outbox \in [Cmds -> Ids \cup {Null}]
    BY DEF Init
  <2>8. reservations \in Seq(Ids) /\ counted \in Seq(Nat) /\ handoffs \in Seq([id : Ids, at : Int])
    BY DEF Init
  <2>12. forgotten \subseteq DOMAIN handoffs
    BY DEF Init
  <2>9. skew \in [at : Nat \cup {Null}, noticed : BOOLEAN, started : Nat]
    BY DEF Init
  <2>11. QED
    BY <2>2, <2>3, <2>4, <2>5, <2>6, <2>7, <2>8, <2>9, <2>10, <2>12 DEF TypeOK
<1>2. TypeOK /\ [Next]_vars => TypeOK'
  BY NextType
<1>3. QED
  BY <1>1, <1>2, PTL DEF Spec

-----------------------------------------------------------------------------
\* A step that leaves every program counter in or out of the slot, and the slot
\* as it was.
LEMMA SlotUntouched ==
  ASSUME OneSlot, UNCHANGED sending,
         \A c \in Cmds : pc'[c] \in SlotSteps <=> pc[c] \in SlotSteps
  PROVE  OneSlot'
BY DEF OneSlot

\* The command that holds the slot leaves it.
LEMMA SlotFreed ==
  ASSUME OneSlot, NEW c \in Cmds, pc \in [Cmds -> Steps], pc[c] \in SlotSteps,
         sending' = FALSE, NEW step, step \notin SlotSteps, Goto(c, step)
  PROVE  OneSlot'
<1>1. \A d \in Cmds : pc'[d] \notin SlotSteps
  BY DEF OneSlot, Goto
<1>2. QED
  BY <1>1 DEF OneSlot

\* A command moves from one step to another of the same kind.
LEMMA SlotKept ==
  ASSUME OneSlot, NEW c \in Cmds, pc \in [Cmds -> Steps], UNCHANGED sending,
         NEW step, Goto(c, step), step \in SlotSteps <=> pc[c] \in SlotSteps
  PROVE  OneSlot'
<1>1. \A d \in Cmds : pc'[d] \in SlotSteps <=> pc[d] \in SlotSteps
  BY DEF Goto
<1>2. QED
  BY <1>1, SlotUntouched

\* At most one send is in flight and the slot is taken exactly while one is,
\* whatever is refused, fails, panics or crashes (Bridge.sending).
THEOREM SingleSlot == Spec => []OneSlot
<1>1. Init => OneSlot
  BY DEF Init, OneSlot, SlotSteps
<1>2. TypeOK /\ OneSlot /\ [Next]_vars => OneSlot'
  <2> SUFFICES ASSUME TypeOK, OneSlot, [Next]_vars
               PROVE  OneSlot'
    OBVIOUS
  <2>0. pc \in [Cmds -> Steps]
    BY DEF TypeOK
  <2>1. ASSUME NEW c \in Cmds, NEW k \in Kinds, NEW o \in Ids, Handle(c, k, o)
        PROVE  OneSlot'
    BY <2>0, <2>1, SlotKept DEF Handle, SlotSteps
  <2>2. ASSUME NEW c \in Cmds, CommandStep(c)
        PROVE  OneSlot'
    <3>1. CASE Begin(c)
      <4>1. CASE ~sending /\ sending' = TRUE /\ Goto(c, "chat")
        BY <2>0, <4>1 DEF OneSlot, Goto, SlotSteps
      <4>2. CASE UNCHANGED sending /\ Goto(c, "fail")
        BY <2>0, <3>1, <4>2, SlotKept DEF Begin, SlotSteps
      <4>3. QED
        BY <3>1, <4>1, <4>2 DEF Begin
    <3>2. CASE CheckChat(c) \/ CheckKnown(c) \/ CheckBackstop(c) \/ Insert(c) \/ Prune(c)
                 \/ Prepare(c) \/ Upload(c) \/ RecordSend(c) \/ Mark(c) \/ HandOff(c)
      <4>1. pc[c] \in SlotSteps
        BY <3>2 DEF CheckChat, CheckKnown, CheckBackstop, Insert, Prune, Prepare, Upload,
                    RecordSend, Mark, HandOff, SlotSteps
      <4>2. \/ sending' = FALSE /\ Goto(c, "fail")
            \/ UNCHANGED sending /\ \E step \in SlotSteps : Goto(c, step)
        BY <3>2 DEF CheckChat, CheckKnown, CheckBackstop, Insert, Prune, Prepare, Upload,
                    RecordSend, Mark, HandOff, SlotSteps, Refuse, Proceed
      <4>3. CASE sending' = FALSE /\ Goto(c, "fail")
        BY <2>0, <4>1, <4>3, SlotFreed DEF SlotSteps
      <4>4. CASE UNCHANGED sending /\ \E step \in SlotSteps : Goto(c, step)
        BY <2>0, <4>1, <4>4, SlotKept
      <4>5. QED
        BY <4>2, <4>3, <4>4
    <3>3. CASE Sent(c)
      <4>1. pc[c] \in SlotSteps /\ sending' = FALSE /\ (Goto(c, "fail") \/ Goto(c, "result"))
        BY <3>3 DEF Sent, Refuse, SlotSteps
      <4>2. "fail" \notin SlotSteps /\ "result" \notin SlotSteps
        BY DEF SlotSteps
      <4>3. QED
        BY <2>0, <4>1, <4>2, SlotFreed
    <3>4. CASE Result(c) \/ Fail(c) \/ Discard(c) \/ Recovered(c)
      <4>1. pc[c] \notin SlotSteps /\ UNCHANGED sending /\ (Goto(c, "discard") \/ Goto(c, "done"))
        BY <3>4 DEF Result, Fail, Discard, Recovered, Reply, Return, SlotSteps
      <4>2. "discard" \notin SlotSteps /\ "done" \notin SlotSteps
        BY DEF SlotSteps
      <4>3. QED
        BY <2>0, <4>1, <4>2, SlotKept
    <3>5. QED
      BY <2>2, <3>1, <3>2, <3>3, <3>4 DEF CommandStep
  <2>3. ASSUME NEW c \in Cmds, Panic(c)
        PROVE  OneSlot'
    <3>1. Goto(c, "panicked") /\ "panicked" \notin SlotSteps
      BY <2>3 DEF Panic, SlotSteps
    <3>2. CASE pc[c] \in SlotSteps
      <4>1. sending' = FALSE
        BY <2>3, <3>2, Zenon DEF Panic
      <4> QED
        BY <2>0, <3>1, <3>2, <4>1, SlotFreed
    <3>3. CASE pc[c] \notin SlotSteps
      <4>1. sending \in BOOLEAN
        BY Zenon DEF TypeOK
      <4>2. sending' = sending
        BY <2>3, <3>3, <4>1, Zenon DEF Panic
      <4> QED
        BY <2>0, <3>1, <3>3, <4>2, SlotKept
    <3> QED
      BY <3>2, <3>3
  <2>4. CASE Crash
    <3>1. \A c \in Cmds : pc'[c] \notin SlotSteps
      BY <2>0, <2>4 DEF Crash, Running, SlotSteps
    <3>2. QED
      BY <2>4, <3>1 DEF Crash, OneSlot
  <2>5. CASE UNCHANGED <<pc, sending>>
    BY <2>5, SlotUntouched
  <2>6. QED
    BY <2>1, <2>2, <2>3, <2>4, <2>5 DEF Next, Tick, SetClockBack, DoInit, vars
<1>3. QED
  BY <1>1, <1>2, TypeCorrect, PTL DEF Spec

-----------------------------------------------------------------------------
\* With room for every outbox id, the DELETE of ReserveOutbox removes nothing.
LEMMA PruneNothing ==
  ASSUME NoEviction, NEW rs \in SUBSET Row, \A r, s \in rs : r.id = s.id => r = s
  PROVE  Pruned(rs) = rs
<1> SUFFICES ASSUME NEW r \in rs
             PROVE  Cardinality({s \in rs : Newer(s, r)}) < OutboxKeep
  BY DEF Pruned
<1> DEFINE N == {s \in rs : Newer(s, r)}
           f == [s \in N |-> s.id]
           Others == Ids \ {r.id}
<1>1. r.id \in Ids /\ r.created \in Int /\ r.rowid \in Nat
  BY DEF Row
<1>2. \A s \in N : s.id \in Others
  BY <1>1 DEF Newer, Row
<1>3. f \in Injection(N, Others)
  BY <1>2 DEF Injection, IsInjective
<1>4. IsFiniteSet(Others) /\ Cardinality(Others) = Cardinality(Ids) - 1
  BY <1>1, FS_RemoveElement DEF NoEviction
<1>5. Cardinality(N) <= Cardinality(Others)
  BY <1>3, <1>4, FS_Injection
<1>6. IsFiniteSet(N) /\ Cardinality(N) \in Nat /\ Cardinality(Ids) \in Nat
  BY <1>3, <1>4, FS_Injection, FS_CardinalityType DEF NoEviction
<1>7. QED
  BY <1>4, <1>5, <1>6, SendPathAssumption DEF NoEviction

\* The UPDATEs of the table change no id and merge no rows.
LEMMA UpdateKeepsIds ==
  ASSUME NEW rs \in SUBSET Row, NEW o, NEW at,
         NEW new, new = MarkDispatched(rs, o, at) \/ new = SetOutboxMessage(rs, o)
  PROVE  /\ \A r \in rs : \E s \in new : s.id = r.id
         /\ \A s \in new : \E r \in rs : s.id = r.id
         /\ (\A r, s \in rs : r.id = s.id => r = s) => (\A r, s \in new : r.id = s.id => r = s)
<1> DEFINE F(r) == IF r.id = o THEN [r EXCEPT !.dispatched = at.wall] ELSE r
           G(r) == IF r.id = o THEN [r EXCEPT !.message = TRUE] ELSE r
<1>1. \A r \in rs : F(r).id = r.id /\ G(r).id = r.id
  BY DEF Row
<1>2. CASE new = {F(r) : r \in rs}
  <2> HIDE DEF F
  <2> QED
    BY <1>1, <1>2
<1>3. CASE new = {G(r) : r \in rs}
  <2> HIDE DEF G
  <2> QED
    BY <1>1, <1>3
<1>4. QED
  BY <1>2, <1>3 DEF MarkDispatched, SetOutboxMessage

\* What the log of hand-offs holds.
LEMMA HandOffIds ==
  ASSUME handoffs \in Seq([id : Ids, at : Int])
  PROVE  \A i \in DOMAIN handoffs : handoffs[i].id \in Ids
<1>1. ASSUME NEW S, NEW h \in Seq(S)
      PROVE  \A i \in DOMAIN h : h[i] \in S
  OBVIOUS
<1>2. \A i \in DOMAIN handoffs : handoffs[i] \in [id : Ids, at : Int]
  BY <1>1
<1>3. QED
  BY <1>2

\* A step that leaves the table and the hand-offs alone, brings no command to a
\* reserved step and changes the outbox id of none that stays in one.
LEMMA OutboxUntouched ==
  ASSUME OutboxInv, UNCHANGED handoffs,
         \A o \in Ids \cup {Null} : OutboxKnown(o)' <=> OutboxKnown(o),
         \A r, s \in rows' : r.id = s.id => r = s,
         handoffs \in Seq([id : Ids, at : Int]), outbox \in [Cmds -> Ids \cup {Null}],
         \A c \in Cmds : pc'[c] \in Reserved => pc[c] \in Reserved /\ outbox'[c] = outbox[c]
  PROVE  OutboxInv'
<1>1. \A i \in DOMAIN handoffs : handoffs[i].id \in Ids
  BY HandOffIds
<1>2. \A i \in DOMAIN handoffs' : OutboxKnown(handoffs[i].id)'
  BY <1>1 DEF OutboxInv
<1>3. \A c \in Cmds : pc'[c] \in Reserved => OutboxKnown(outbox[c])'
  BY DEF OutboxInv
<1>4. QED
  BY <1>2, <1>3 DEF OutboxInv, AtMostOnce

\* OutboxInv is inductive, with the type invariant and the single slot.
LEMMA OutboxStep ==
  ASSUME NoEviction, TypeOK, OneSlot, OutboxInv, [Next]_vars
  PROVE  OutboxInv'
<1>0. /\ rows \subseteq Row
      /\ pc \in [Cmds -> Steps]
      /\ outbox \in [Cmds -> Ids \cup {Null}]
      /\ handoffs \in Seq([id : Ids, at : Int])
  BY DEF TypeOK
<1>u. \A r, s \in rows : r.id = s.id => r = s
  BY DEF OutboxInv
\* Steps that touch neither the table nor the hand-offs.
<1>1. ASSUME UNCHANGED <<rows, handoffs>>,
             \A c \in Cmds : pc'[c] \in Reserved => pc[c] \in Reserved /\ outbox'[c] = outbox[c]
      PROVE  OutboxInv'
  BY <1>0, <1>1, <1>u, OutboxUntouched DEF OutboxKnown
\* Steps of a command that only move it.
<1>2. ASSUME NEW c \in Cmds, NEW step, Goto(c, step), UNCHANGED <<rows, handoffs, outbox>>,
             step \in Reserved => pc[c] \in Reserved
      PROVE  OutboxInv'
  BY <1>0, <1>1, <1>2 DEF Goto
<1>3. ASSUME NEW c \in Cmds, NEW k \in Kinds, NEW o \in Ids, Handle(c, k, o)
      PROVE  OutboxInv'
  BY <1>0, <1>1, <1>3 DEF Handle, Goto, Reserved, historyVars
<1>4. ASSUME NEW c \in Cmds, Begin(c) \/ CheckChat(c) \/ CheckKnown(c) \/ CheckBackstop(c)
             \/ Prepare(c) \/ Upload(c) \/ RecordSend(c) \/ Sent(c) \/ Panic(c)
      PROVE  OutboxInv'
  <2>1. UNCHANGED <<rows, handoffs, outbox>>
    BY <1>4 DEF Begin, CheckChat, CheckKnown, CheckBackstop, Prepare, Upload, RecordSend, Sent,
                Panic, historyVars, cmdVars, localVars
  <2>2. \E step : Goto(c, step) /\ (step \in Reserved => pc[c] \in Reserved)
    BY <1>4 DEF Begin, CheckChat, CheckKnown, CheckBackstop, Prepare, Upload, RecordSend, Sent,
                Panic, Refuse, Proceed, Reserved
  <2>3. QED
    BY <1>2, <2>1, <2>2
<1>5. ASSUME NEW c \in Cmds, Insert(c)
      PROVE  OutboxInv'
  <2>1. CASE UNCHANGED rows /\ Goto(c, "fail")
    BY <1>2, <1>5, <2>1 DEF Insert, cmdVars, Reserved
  <2>2. CASE ~OutboxKnown(outbox[c]) /\ Goto(c, "prune") /\ rows' = rows \cup {NewRow(outbox[c], now[c])}
    <3>1. pc[c] \in SlotSteps /\ UNCHANGED <<handoffs, outbox>>
      BY <1>5 DEF Insert, cmdVars, SlotSteps
    <3>2. \A d \in Cmds : d # c => pc'[d] \notin Reserved
      BY <1>0, <2>2, <3>1 DEF OneSlot, Goto, Reserved, SlotSteps
    <3>3. \A i \in DOMAIN handoffs : handoffs[i].id # outbox[c]
      BY <2>2 DEF OutboxInv
    <3>4. NewRow(outbox[c], now[c]).id = outbox[c]
      BY DEF NewRow
    <3>5. \A r, s \in rows' : r.id = s.id => r = s
      BY <1>u, <2>2, <3>4 DEF OutboxKnown
    <3>6. \A i \in DOMAIN handoffs' : OutboxKnown(handoffs[i].id)'
      BY <2>2, <3>1 DEF OutboxInv, OutboxKnown
    <3>7. OutboxKnown(outbox[c])'
      BY <2>2, <3>1, <3>4 DEF OutboxKnown
    <3>8. QED
      BY <3>1, <3>2, <3>3, <3>5, <3>6, <3>7 DEF OutboxInv, AtMostOnce
  <2>3. QED
    BY <1>5, <2>1, <2>2 DEF Insert, Refuse, Proceed
<1>6. ASSUME NEW c \in Cmds, Prune(c)
      PROVE  OutboxInv'
  <2>1. UNCHANGED rows
    BY <1>0, <1>6, <1>u, PruneNothing DEF Prune
  <2>2. \E step : Goto(c, step) /\ pc[c] \in Reserved
    BY <1>6 DEF Prune, Refuse, Proceed, Reserved
  <2>3. QED
    BY <1>2, <1>6, <2>1, <2>2 DEF Prune, historyVars, cmdVars
<1>7. ASSUME NEW c \in Cmds, Mark(c) \/ Result(c)
      PROVE  OutboxInv'
  <2>1. CASE UNCHANGED rows
    <3>1. \A d \in Cmds : pc'[d] \in Reserved => pc[d] \in Reserved /\ outbox'[d] = outbox[d]
      BY <1>0, <1>7 DEF Mark, Result, Reply, Return, Proceed, Goto, Reserved, cmdVars, localVars
    <3>2. QED
      BY <1>1, <1>7, <2>1, <3>1 DEF Mark, Result, historyVars
  <2>2. CASE rows' = MarkDispatched(rows, outbox[c], now[c]) \/ rows' = SetOutboxMessage(rows, outbox[c])
    <3>1. \A d \in Cmds : pc'[d] \in Reserved => pc[d] \in Reserved /\ outbox'[d] = outbox[d]
      BY <1>0, <1>7 DEF Mark, Result, Reply, Return, Proceed, Goto, Reserved, cmdVars, localVars
    <3>2. /\ \A r \in rows : \E s \in rows' : s.id = r.id
          /\ \A s \in rows' : \E r \in rows : s.id = r.id
          /\ \A r, s \in rows' : r.id = s.id => r = s
      BY <1>0, <1>u, <2>2, UpdateKeepsIds
    <3>3. \A o \in Ids \cup {Null} : OutboxKnown(o)' <=> OutboxKnown(o)
      BY <3>2 DEF OutboxKnown
    <3>4. UNCHANGED handoffs
      BY <1>7 DEF Mark, Result, historyVars
    <3>5. QED
      BY <1>0, <3>1, <3>2, <3>3, <3>4, OutboxUntouched
  <2>3. QED
    BY <1>7, <2>1, <2>2 DEF Mark, Result
<1>8. ASSUME NEW c \in Cmds, HandOff(c)
      PROVE  OutboxInv'
  <2>1. pc[c] \in SlotSteps /\ pc[c] \in Reserved /\ UNCHANGED <<rows, outbox>> /\ Goto(c, "waiting")
    BY <1>8 DEF HandOff, Proceed, cmdVars, SlotSteps, Reserved
  <2>2. \A d \in Cmds : pc'[d] \notin Reserved
    BY <1>0, <2>1 DEF OneSlot, Goto, Reserved, SlotSteps
  <2>3. OutboxKnown(outbox[c]) /\ \A i \in DOMAIN handoffs : handoffs[i].id # outbox[c]
    BY <2>1 DEF OutboxInv
  <2> DEFINE h == [id |-> outbox[c], at |-> now[c].mono]
  <2>4. handoffs' = Append(handoffs, h) /\ h.id = outbox[c]
    BY <1>8 DEF HandOff
  <2> HIDE DEF h
  <2>5. /\ DOMAIN handoffs' = DOMAIN handoffs \cup {Len(handoffs) + 1}
        /\ \A i \in DOMAIN handoffs : handoffs'[i] = handoffs[i] /\ i # Len(handoffs) + 1
        /\ handoffs'[Len(handoffs) + 1] = h
    BY <1>0, <2>4
  <2>6. \A i \in DOMAIN handoffs' : OutboxKnown(handoffs[i].id)'
    BY <2>1, <2>3, <2>4, <2>5 DEF OutboxInv, OutboxKnown
  <2>7. AtMostOnce'
    BY <2>3, <2>4, <2>5 DEF OutboxInv, AtMostOnce
  <2>8. QED
    BY <1>u, <2>1, <2>2, <2>6, <2>7 DEF OutboxInv
<1>9. ASSUME NEW c \in Cmds, Fail(c) \/ Discard(c) \/ Recovered(c)
      PROVE  OutboxInv'
  <2>1. UNCHANGED <<rows, handoffs>>
    BY <1>9 DEF Fail, Discard, Recovered, historyVars
  <2>2. \A d \in Cmds : pc'[d] \in Reserved => pc[d] \in Reserved /\ outbox'[d] = outbox[d]
    BY <1>0, <1>9 DEF Fail, Discard, Recovered, Reply, Return, Goto, Reserved, localVars
  <2>3. QED
    BY <1>1, <2>1, <2>2
<1>10. CASE Crash
  <2>1. \A c \in Cmds : pc'[c] \notin Reserved
    BY <1>0, <1>10 DEF Crash, Running, Reserved
  <2>2. QED
    BY <1>1, <1>10, <2>1 DEF Crash, historyVars
<1>11. CASE UNCHANGED <<rows, handoffs, pc, outbox>>
  BY <1>1, <1>11
<1>12. QED
  BY <1>3, <1>4, <1>5, <1>6, <1>7, <1>8, <1>9, <1>10, <1>11
     DEF Next, CommandStep, Tick, SetClockBack, DoInit, vars, historyVars, cmdVars, localVars

\* The inductive invariant holds from the first start on.
LEMMA OutboxInvariant == ASSUME NoEviction PROVE Spec => []OutboxInv
<1>1. Init => OutboxInv
  BY DEF Init, OutboxInv, AtMostOnce, Reserved
<1>2. TypeOK /\ OneSlot /\ OutboxInv /\ [Next]_vars => OutboxInv'
  BY OutboxStep
<1>3. QED
  BY <1>1, <1>2, TypeCorrect, SingleSlot, PTL DEF Spec

\* No message is handed to WhatsApp twice under one outbox id, across crashes,
\* restarts, failing store calls, panics and clock changes, as long as the store
\* has room for every id the client uses (store.OutboxKeep).
THEOREM AtMostOnceDelivery == ASSUME NoEviction PROVE Spec => []AtMostOnce
<1>1. OutboxInv => AtMostOnce
  BY DEF OutboxInv
<1>2. QED
  BY <1>1, OutboxInvariant, PTL

-----------------------------------------------------------------------------
\* The ids of the rows and of the hand-offs: what the abstract outbox sees.
RowIds == {r.id : r \in rows}
Log == [i \in DOMAIN handoffs |-> handoffs[i].id]

\* Every step of the send path is a step of the abstract outbox or invisible to it.
LEMMA OutboxSimulation ==
  ASSUME NoEviction, TypeOK, OutboxInv, [Next]_vars
  PROVE  [AbstractOutbox!Next]_<<RowIds, Log>>
<1>0. /\ rows \subseteq Row
      /\ handoffs \in Seq([id : Ids, at : Int])
      /\ outbox \in [Cmds -> Ids \cup {Null}]
      /\ \A c \in Cmds : Running(c) => outbox[c] \in Ids
  BY DEF TypeOK
<1>u. \A r, s \in rows : r.id = s.id => r = s
  BY DEF OutboxInv
<1>1. CASE UNCHANGED <<rows, handoffs>>
  BY <1>1 DEF RowIds, Log
<1>2. ASSUME NEW c \in Cmds, Insert(c), rows' = rows \cup {NewRow(outbox[c], now[c])},
             ~OutboxKnown(outbox[c])
      PROVE  AbstractOutbox!Next
  <2>1. outbox[c] \in Ids
    BY <1>0, <1>2 DEF Insert, Running
  <2>2. NewRow(outbox[c], now[c]).id = outbox[c]
    BY DEF NewRow
  <2>3. RowIds' = RowIds \cup {outbox[c]} /\ outbox[c] \notin RowIds
    BY <1>2, <2>2 DEF RowIds, OutboxKnown
  <2>4. Log' = Log
    BY <1>2 DEF Insert, Log
  <2>5. QED
    BY <2>1, <2>3, <2>4 DEF AbstractOutbox!Next, AbstractOutbox!Reserve, RowIds, Log
<1>3. ASSUME NEW c \in Cmds, Prune(c)
      PROVE  UNCHANGED <<rows, handoffs>>
  BY <1>0, <1>3, <1>u, PruneNothing DEF Prune, historyVars
<1>4. ASSUME NEW c \in Cmds, Mark(c) \/ Result(c)
      PROVE  UNCHANGED <<RowIds, Log>>
  <2>1. UNCHANGED handoffs
    BY <1>4 DEF Mark, Result, historyVars
  <2>2. CASE UNCHANGED rows
    BY <2>1, <2>2 DEF RowIds, Log
  <2>3. CASE rows' = MarkDispatched(rows, outbox[c], now[c]) \/ rows' = SetOutboxMessage(rows, outbox[c])
    <3>1. /\ \A r \in rows : \E s \in rows' : s.id = r.id
          /\ \A s \in rows' : \E r \in rows : s.id = r.id
          /\ \A r, s \in rows' : r.id = s.id => r = s
      BY <1>0, <1>u, <2>3, UpdateKeepsIds
    <3>2. RowIds' = RowIds
      BY <3>1 DEF RowIds
    <3>3. QED
      BY <2>1, <3>2 DEF Log
  <2>4. QED
    BY <1>4, <2>2, <2>3 DEF Mark, Result
<1>5. ASSUME NEW c \in Cmds, HandOff(c)
      PROVE  AbstractOutbox!Next
  <2>1. pc[c] \in Reserved /\ UNCHANGED rows /\ outbox[c] \in Ids
    BY <1>0, <1>5 DEF HandOff, Reserved, Running
  <2>2. outbox[c] \in RowIds /\ \A i \in DOMAIN handoffs : handoffs[i].id # outbox[c]
    BY <2>1 DEF OutboxInv, OutboxKnown, RowIds
  <2> DEFINE h == [id |-> outbox[c], at |-> now[c].mono]
  <2>3. handoffs' = Append(handoffs, h) /\ h.id = outbox[c]
    BY <1>5 DEF HandOff
  <2> HIDE DEF h
  <2>4. /\ DOMAIN handoffs' = 1..(Len(handoffs) + 1) /\ DOMAIN handoffs = 1..Len(handoffs)
        /\ Len(handoffs) \in Nat
        /\ \A i \in DOMAIN handoffs : handoffs'[i] = handoffs[i]
        /\ handoffs'[Len(handoffs) + 1] = h
    BY <1>0, <2>3
  <2>5. Log \in Seq(Ids) /\ Len(Log) = Len(handoffs)
    BY <1>0, <2>4, HandOffIds DEF Log
  <2>6. Log' = Append(Log, outbox[c])
    <3>1. Append(Log, outbox[c]) = [i \in 1..(Len(handoffs) + 1) |->
                                      IF i <= Len(handoffs) THEN Log[i] ELSE outbox[c]]
      BY <2>4, <2>5
    <3>2. \A i \in 1..(Len(handoffs) + 1) :
            handoffs'[i].id = IF i <= Len(handoffs) THEN handoffs[i].id ELSE outbox[c]
      BY <2>3, <2>4
    <3>3. QED
      BY <2>4, <3>1, <3>2 DEF Log
  <2>7. \A i \in DOMAIN Log : Log[i] # outbox[c]
    BY <2>2 DEF Log
  <2>8. QED
    BY <2>1, <2>2, <2>6, <2>7 DEF AbstractOutbox!Next, AbstractOutbox!HandOff, RowIds, Log
<1>6. ASSUME NEW c \in Cmds, CommandStep(c)
      PROVE  [AbstractOutbox!Next]_<<RowIds, Log>>
  <2>1. CASE Insert(c)
    <3>1. CASE UNCHANGED <<rows, handoffs>>
      BY <1>1, <3>1
    <3>2. CASE rows' = rows \cup {NewRow(outbox[c], now[c])} /\ ~OutboxKnown(outbox[c])
      BY <1>2, <2>1, <3>2
    <3>3. QED
      BY <2>1, <3>1, <3>2 DEF Insert
  <2>2. CASE Prune(c)
    BY <1>1, <1>3, <2>2
  <2>3. CASE Mark(c) \/ Result(c)
    BY <1>4, <2>3
  <2>4. CASE HandOff(c)
    BY <1>5, <2>4
  <2>5. CASE UNCHANGED <<rows, handoffs>>
    BY <1>1, <2>5
  <2>6. QED
    BY <1>6, <2>1, <2>2, <2>3, <2>4, <2>5
       DEF CommandStep, Begin, CheckChat, CheckKnown, CheckBackstop, Prepare, Upload, RecordSend,
           Sent, Fail, Discard, Recovered, historyVars
<1>7. QED
  BY <1>1, <1>6 DEF Next, Handle, Panic, Tick, SetClockBack, Crash, DoInit, vars, historyVars

\* The send path implements the abstract outbox: the client sees each id reserved
\* at most once and handed over at most once, and sees neither crashes nor retries.
THEOREM ImplementsOutbox == ASSUME NoEviction PROVE Spec => RefinesOutbox
<1>1. Init => AbstractOutbox!Init
  BY DEF Init, AbstractOutbox!Init
<1>2. TypeOK /\ OutboxInv /\ [Next]_vars => [AbstractOutbox!Next]_<<RowIds, Log>>
  BY OutboxSimulation
<1>3. QED
  BY <1>1, <1>2, TypeCorrect, OutboxInvariant, PTL
     DEF Spec, RefinesOutbox, AbstractOutbox!Spec, RowIds, Log

-----------------------------------------------------------------------------
(* The end of a command *)

Unanswered == SlotSteps \cup {"idle", "begin", "fail", "panicked", "result"}

\* Why a command has one final reply at most and leaves no file: it writes the reply
\* as it leaves the steps that have none, and only a send_media that runs has a file.
EndInv ==
  \A c \in Cmds :
    /\ pc[c] \in Unanswered => replies[c] = <<>>
    /\ Len(replies[c]) <= 1
    /\ c \in files => pc[c] \notin {"idle", "done"} /\ (Running(c) => kind[c] = "media")

\* A reply is the first one.
LEMMA ReplyEnds ==
  ASSUME TypeOK, EndInv, NEW c \in Cmds, NEW r \in Codes, pc[c] \in Unanswered, Running(c),
         Reply(c, r), UNCHANGED files
  PROVE  EndInv'
<1>1. replies[c] = <<>> /\ replies' = [replies EXCEPT ![c] = Append(replies[c], r)]
  BY DEF EndInv, Reply
<1>2. replies'[c] = <<r>> /\ \A d \in Cmds : d # c => replies'[d] = replies[d]
  BY <1>1 DEF TypeOK
<1>3. pc'[c] \notin Unanswered /\ pc'[c] # "idle" /\ \A d \in Cmds : d # c => pc'[d] = pc[d]
  BY DEF TypeOK, Reply, Return, Goto, Unanswered, SlotSteps
<1>4. \A d \in Cmds : d # c => kind'[d] = kind[d]
  BY DEF TypeOK, Reply, Return, localVars
<1>5. c \in files' => pc'[c] # "done" /\ kind'[c] = "media"
  <2>1. c \in files => kind[c] = "media"
    BY DEF EndInv
  <2>2. kind[c] = "media" => pc'[c] = "discard" /\ kind' = kind
    BY DEF TypeOK, Reply, Goto, localVars
  <2> QED
    BY <2>1, <2>2
<1>6. Len(<<r>>) <= 1
  OBVIOUS
<1> QED
  BY <1>2, <1>3, <1>4, <1>5, <1>6 DEF EndInv, Running

\* A step that moves commands between places without a reply and adds no file.
LEMMA EndUntouched ==
  ASSUME TypeOK, EndInv, UNCHANGED <<replies, kind>>, files' \subseteq files, NEW c \in Cmds, NEW step,
         Goto(c, step), pc[c] \in Unanswered, Running(c), step \in Unanswered, step # "idle"
  PROVE  EndInv'
<1>1. pc'[c] = step /\ \A d \in Cmds : d # c => pc'[d] = pc[d]
  BY DEF TypeOK, Goto
<1>2. "done" \notin Unanswered
  BY DEF Unanswered, SlotSteps
<1> QED
  BY <1>1, <1>2 DEF EndInv, Running

\* Every step keeps that.
LEMMA EndStep ==
  ASSUME TypeOK, EndInv, [Next]_vars
  PROVE  EndInv'
<1>0. pc \in [Cmds -> Steps] /\ kind \in [Cmds -> {"text", "media"}] /\ replies \in [Cmds -> Seq(Codes)]
  BY DEF TypeOK
<1>1. ASSUME NEW c \in Cmds, NEW k \in Kinds, NEW o \in Ids, Handle(c, k, o)
      PROVE  EndInv'
  <2>1. pc[c] = "idle" /\ c \notin files /\ UNCHANGED replies
    BY <1>1 DEF Handle, EndInv
  <2>2. pc'[c] = "begin" /\ kind'[c] = k /\ \A d \in Cmds : d # c => pc'[d] = pc[d] /\ kind'[d] = kind[d]
    BY <1>0, <1>1 DEF Handle, Goto
  <2>3. \A d \in Cmds : d \in files' => d \in files \/ (d = c /\ k = "media")
    BY <1>1 DEF Handle
  <2>4. pc[c] \in Unanswered
    BY <2>1 DEF Unanswered
  <2> QED
    BY <2>1, <2>2, <2>3, <2>4 DEF EndInv, Running
<1>2. ASSUME NEW c \in Cmds, Begin(c) \/ CheckChat(c) \/ CheckKnown(c) \/ CheckBackstop(c) \/ Insert(c)
             \/ Prune(c) \/ Prepare(c) \/ Upload(c) \/ RecordSend(c) \/ Mark(c) \/ HandOff(c) \/ Sent(c)
             \/ Panic(c)
      PROVE  EndInv'
  <2>1. UNCHANGED <<replies, kind>> /\ files' \subseteq files
    BY <1>2 DEF Begin, CheckChat, CheckKnown, CheckBackstop, Insert, Prune, Prepare, Upload, RecordSend,
                Mark, HandOff, Sent, Panic, Opened, cmdVars, localVars
  <2>2. pc[c] \in Unanswered /\ Running(c)
    BY <1>2 DEF Begin, CheckChat, CheckKnown, CheckBackstop, Insert, Prune, Prepare, Upload, RecordSend,
                Mark, HandOff, Sent, Panic, PanicSteps, Unanswered, SlotSteps, Running
  <2>3. \E step \in Unanswered \ {"idle"} : Goto(c, step)
    BY <1>2 DEF Begin, CheckChat, CheckKnown, CheckBackstop, Insert, Prune, Prepare, Upload, RecordSend,
                Mark, HandOff, Sent, Panic, Unanswered, SlotSteps, Refuse, Proceed
  <2> QED
    BY <2>1, <2>2, <2>3, EndUntouched
<1>3. ASSUME NEW c \in Cmds, Result(c) \/ Fail(c)
      PROVE  EndInv'
  <2>1. \E r \in Codes : Reply(c, r)
    BY <1>3 DEF Result, Fail, TypeOK, Codes
  <2>2. pc[c] \in Unanswered /\ Running(c) /\ UNCHANGED files
    BY <1>3 DEF Result, Fail, Unanswered, Running
  <2> QED
    BY <2>1, <2>2, ReplyEnds
<1>4. ASSUME NEW c \in Cmds, Discard(c) \/ Recovered(c)
      PROVE  EndInv'
  <2>1. /\ pc'[c] = "done" /\ c \notin files' /\ files' \subseteq files
        /\ \A d \in Cmds : d # c => pc'[d] = pc[d] /\ kind'[d] = kind[d] /\ replies'[d] = replies[d]
    BY <1>0, <1>4 DEF Discard, Recovered, Return, Goto
  <2>2. Len(replies'[c]) <= 1
    <3>1. CASE Discard(c)
      BY <3>1 DEF Discard, EndInv
    <3>2. CASE Recovered(c)
      <4>1. replies[c] = <<>>
        BY <3>2 DEF Recovered, EndInv, Unanswered
      <4>2. replies'[c] = Append(<<>>, "internal")
        BY <1>0, <3>2, <4>1 DEF Recovered
      <4>3. ASSUME NEW x PROVE Len(Append(<<>>, x)) <= 1
        OBVIOUS
      <4> QED
        BY <4>2, <4>3
    <3> QED
      BY <1>4, <3>1, <3>2
  <2>3. "done" \notin Unanswered
    BY DEF Unanswered, SlotSteps
  <2> QED
    BY <2>1, <2>2, <2>3 DEF EndInv, Running
<1>5. CASE Crash
  <2>1. UNCHANGED <<replies, files>>
    BY <1>5 DEF Crash
  <2>2. \A c \in Cmds : IF Running(c) THEN pc'[c] = "lost" ELSE pc'[c] = pc[c]
    BY <1>5 DEF Crash
  <2>3. "lost" \notin Unanswered
    BY DEF Unanswered, SlotSteps
  <2> QED
    BY <2>1, <2>2, <2>3 DEF EndInv, Running
<1>6. CASE UNCHANGED <<pc, replies, kind>> /\ files' \subseteq files
  BY <1>6 DEF EndInv, Running
<1>7. CASE Tick \/ (\E d \in JumpsBack : SetClockBack(d)) \/ (\E stale \in SUBSET files : DoInit(stale))
           \/ UNCHANGED vars
  <2>1. UNCHANGED <<pc, replies, kind>> /\ files' \subseteq files
    BY <1>7 DEF Tick, SetClockBack, DoInit, CleanStale, vars, localVars
  <2> QED
    BY <1>6, <2>1
<1> QED
  BY <1>1, <1>2, <1>3, <1>4, <1>5, <1>7 DEF Next, CommandStep

\* So that holds from the first start on.
LEMMA EndInvariant == Spec => []EndInv
<1>1. Init => EndInv
  BY DEF Init, EndInv, Running
<1>2. TypeOK /\ EndInv /\ [Next]_vars => EndInv'
  BY EndStep
<1> QED
  BY <1>1, <1>2, TypeCorrect, PTL DEF Spec

\* However a command ends, it has one final reply at most, and a command that is done
\* has left no hand-off file (deliver, fail, goSafe, media.Discard).
THEOREM EndsCleanlyAlways == Spec => []EndsCleanly
<1>1. EndInv /\ TypeOK => EndsCleanly
  BY DEF EndInv, EndsCleanly, TypeOK
<1> QED
  BY <1>1, EndInvariant, TypeCorrect, PTL

\* busy is answered only while another send holds the slot, and that one has not been
\* replied to: a client that waits for each reply is never told it (Bridge.sending).
THEOREM BusyMeansSending == Spec => BusyOnlyWhileSending
<1>1. TypeOK /\ OneSlot /\ EndInv /\ [Next]_vars
        => [\A c \in Cmds :
              pc[c] = "begin" /\ pc'[c] = "fail" /\ code'[c] = "busy" =>
                \E d \in Cmds \ {c} : Running(d) /\ replies[d] = <<>>]_vars
  <2> SUFFICES ASSUME TypeOK, OneSlot, EndInv, Next,
                      NEW c \in Cmds, pc[c] = "begin", pc'[c] = "fail", code'[c] = "busy"
               PROVE  \E d \in Cmds \ {c} : Running(d) /\ replies[d] = <<>>
    BY DEF vars
  <2>0. pc \in [Cmds -> Steps] /\ code \in [Cmds -> Codes]
    BY DEF TypeOK
  <2>1. ASSUME sending
        PROVE  \E d \in Cmds \ {c} : Running(d) /\ replies[d] = <<>>
    <3>1. PICK d \in Cmds : pc[d] \in SlotSteps
      BY <2>1 DEF OneSlot
    <3>2. d # c /\ Running(d) /\ replies[d] = <<>>
      BY <3>1 DEF EndInv, Unanswered, SlotSteps, Running
    <3> QED
      BY <3>2
  <2>2. CASE Begin(c)
    BY <2>0, <2>1, <2>2 DEF Begin, Goto
  <2>3. ASSUME NEW d \in Cmds, CommandStep(d) \/ Panic(d) \/ \E k \in Kinds, o \in Ids : Handle(d, k, o),
               ~Begin(c)
        PROVE  FALSE
    <3>1. d = c
      <4>1. \E step : Goto(d, step)
        BY <2>3 DEF CommandStep, Begin, CheckChat, CheckKnown, CheckBackstop, Insert, Prune, Prepare, Upload,
                    RecordSend, Mark, HandOff, Sent, Result, Fail, Discard, Recovered, Panic, Handle, Reply,
                    Return, Refuse, Proceed
      <4> QED
        BY <2>0, <4>1 DEF Goto
    <3>2. CASE Panic(d)
      BY <2>0, <3>1, <3>2 DEF Panic, Goto
    <3> QED
      BY <2>3, <3>1, <3>2
      DEF CommandStep, CheckChat, CheckKnown, CheckBackstop, Insert, Prune, Prepare, Upload,
          RecordSend, Mark, HandOff, Sent, Result, Fail, Discard, Recovered, Handle, SlotSteps
  <2>4. CASE Crash
    BY <2>4 DEF Crash, Running
  <2>5. CASE Tick \/ (\E d \in JumpsBack : SetClockBack(d)) \/ (\E stale \in SUBSET files : DoInit(stale))
    BY <2>5 DEF Tick, SetClockBack, DoInit
  <2> QED
    BY <2>2, <2>3, <2>4, <2>5 DEF Next
<1> QED
  BY <1>1, TypeCorrect, SingleSlot, EndInvariant, PTL DEF Spec, BusyOnlyWhileSending

-----------------------------------------------------------------------------
(* What a refusal leaves *)

Refusals == {"not_ready", "busy", "unknown_chat", "store_io", "duplicate_outbox_id", "rate_limited_local"}

AfterInsert == {"prune", "prepare", "upload", "record", "mark", "handoff", "waiting", "result",
                "fail", "panicked", "discard", "done", "lost"}

\* Why a refused command has not used its id: the INSERT is the last step of beginSend
\* that refuses, so a command that did insert fails with a code of the send itself.
UseInv ==
  \A c \in inserted :
    /\ pc[c] \in AfterInsert
    /\ pc[c] = "fail" => code[c] \notin Refusals
    /\ replies[c] # <<>> => replies[c][1] \notin Refusals

\* A command that stays after its INSERT, or has not come to it.
LEMMA UseUntouched ==
  ASSUME TypeOK, UseInv, UNCHANGED <<inserted, replies>>, NEW c \in Cmds, NEW step, Goto(c, step),
         \A d \in Cmds : d # c => code'[d] = code[d],
         c \in inserted => step \in AfterInsert /\ (step = "fail" => code'[c] \notin Refusals)
  PROVE  UseInv'
<1>1. pc'[c] = step /\ \A d \in Cmds : d # c => pc'[d] = pc[d]
  BY DEF TypeOK, Goto
<1>2. \A d \in inserted : d \in Cmds
  BY DEF TypeOK
<1> QED
  BY <1>1, <1>2 DEF UseInv

\* The reply to a command whose code is not that of a refusal, or that inserted nothing.
LEMMA UseReply ==
  ASSUME TypeOK, EndInv, UseInv, UNCHANGED inserted, NEW c \in Cmds, NEW r \in Codes, pc[c] \in Unanswered,
         replies' = [replies EXCEPT ![c] = Append(replies[c], r)], Goto(c, "done") \/ Goto(c, "discard"),
         \A d \in Cmds : d # c => code'[d] = code[d],
         c \in inserted => r \notin Refusals
  PROVE  UseInv'
<1>1. /\ pc'[c] \in {"done", "discard"}
      /\ \A d \in Cmds : d # c => pc'[d] = pc[d] /\ replies'[d] = replies[d]
  BY DEF TypeOK, Goto
<1>2. replies[c] = <<>>
  BY DEF EndInv
<1>3. replies'[c] = Append(<<>>, r)
  BY <1>2 DEF TypeOK
<1>4. ASSUME NEW x PROVE Append(<<>>, x)[1] = x
  OBVIOUS
<1>5. \A d \in inserted : d \in Cmds
  BY DEF TypeOK
<1> QED
  BY <1>1, <1>3, <1>4, <1>5 DEF UseInv, AfterInsert

\* Every step keeps that, unless ReserveOutbox's DELETE can fail.
LEMMA UseStep ==
  ASSUME "prune_io" \notin Faults, TypeOK, EndInv, UseInv, [Next]_vars
  PROVE  UseInv'
<1>0. /\ pc \in [Cmds -> Steps] /\ code \in [Cmds -> Codes] /\ replies \in [Cmds -> Seq(Codes)]
      /\ inserted \subseteq Cmds
  BY DEF TypeOK
<1>1. ASSUME NEW c \in Cmds, NEW k \in Kinds, NEW o \in Ids, Handle(c, k, o)
      PROVE  UseInv'
  <2>1. c \notin inserted
    BY <1>1 DEF Handle, UseInv, AfterInsert
  <2>2. Goto(c, "begin") /\ UNCHANGED <<inserted, replies, code>>
    BY <1>1 DEF Handle, historyVars
  <2> QED
    BY <2>1, <2>2, UseUntouched
<1>2. ASSUME NEW c \in Cmds, Begin(c) \/ CheckChat(c) \/ CheckKnown(c) \/ CheckBackstop(c)
      PROVE  UseInv'
  <2>1. c \notin inserted
    BY <1>2 DEF Begin, CheckChat, CheckKnown, CheckBackstop, UseInv, AfterInsert
  <2>2. /\ \E step : Goto(c, step)
        /\ UNCHANGED <<inserted, replies>>
        /\ code' = code \/ \E e : code' = [code EXCEPT ![c] = e]
    BY <1>2 DEF Begin, CheckChat, CheckKnown, CheckBackstop, historyVars, Refuse, Proceed
  <2>3. \A d \in Cmds : d # c => code'[d] = code[d]
    BY <1>0, <2>2
  <2> QED
    BY <2>1, <2>2, <2>3, UseUntouched
<1>3. ASSUME NEW c \in Cmds, Insert(c)
      PROVE  UseInv'
  <2>1. c \notin inserted /\ pc[c] = "insert" /\ UNCHANGED replies
    BY <1>3 DEF Insert, UseInv, AfterInsert
  <2>2. CASE inserted' = inserted
    <3>1. /\ \E step : Goto(c, step)
          /\ code' = code \/ \E e : code' = [code EXCEPT ![c] = e]
      BY <1>3 DEF Insert, Refuse, Proceed
    <3>2. \A d \in Cmds : d # c => code'[d] = code[d]
      BY <1>0, <3>1
    <3> QED
      BY <2>1, <2>2, <3>1, <3>2, UseUntouched
  <2>3. CASE Proceed(c, "prune") /\ inserted' = inserted \cup {c}
    <3>1. pc'[c] = "prune" /\ code' = code /\ \A d \in Cmds : d # c => pc'[d] = pc[d]
      BY <1>0, <2>3 DEF Proceed, Goto
    <3>2. replies[c] = <<>>
      BY <2>1 DEF EndInv, Unanswered, SlotSteps
    <3>3. "prune" \in AfterInsert
      BY DEF AfterInsert
    <3> QED
      BY <1>0, <2>1, <2>3, <3>1, <3>2, <3>3 DEF UseInv
  <2> QED
    BY <1>3, <2>2, <2>3 DEF Insert
<1>4. ASSUME NEW c \in Cmds, Prune(c) \/ Prepare(c) \/ Upload(c) \/ RecordSend(c) \/ Mark(c) \/ HandOff(c)
             \/ Sent(c) \/ Panic(c)
      PROVE  UseInv'
  <2>1. UNCHANGED <<inserted, replies>>
    BY <1>4 DEF Prune, Prepare, Upload, RecordSend, Mark, HandOff, Sent, Panic, historyVars
  <2>2. \/ /\ code' = code
           /\ \E step \in {"prepare", "record", "upload", "mark", "handoff", "waiting", "result", "panicked"} :
                Goto(c, step)
        \/ /\ Goto(c, "fail")
           /\ \E e \in {"media_error", "upload_error", "send_error"} : code' = [code EXCEPT ![c] = e]
    BY <1>4 DEF Prune, Prepare, Upload, RecordSend, Mark, HandOff, Sent, Panic, Refuse, Proceed, localVars
  <2>3. CASE /\ code' = code
             /\ \E step \in {"prepare", "record", "upload", "mark", "handoff", "waiting", "result", "panicked"} :
                  Goto(c, step)
    BY <2>1, <2>3, UseUntouched DEF AfterInsert
  <2>4. ASSUME Goto(c, "fail"),
               NEW e \in {"media_error", "upload_error", "send_error"}, code' = [code EXCEPT ![c] = e]
        PROVE  UseInv'
    <3>1. code'[c] = e /\ e \notin Refusals /\ \A d \in Cmds : d # c => code'[d] = code[d]
      BY <1>0, <2>4 DEF Refusals
    <3>2. "fail" \in AfterInsert
      BY DEF AfterInsert
    <3> QED
      BY <2>1, <2>4, <3>1, <3>2, UseUntouched
  <2> QED
    BY <2>2, <2>3, <2>4
<1>5. ASSUME NEW c \in Cmds, Result(c) \/ Fail(c) \/ Recovered(c)
      PROVE  UseInv'
  <2>1. pc[c] \in Unanswered /\ UNCHANGED inserted /\ (Goto(c, "done") \/ Goto(c, "discard"))
    BY <1>5 DEF Result, Fail, Recovered, Unanswered, historyVars, Reply, Return
  <2>2. \A d \in Cmds : d # c => code'[d] = code[d]
    BY <1>0, <1>5 DEF Result, Fail, Recovered, Reply, Return, localVars
  <2>3. \E r \in Codes : /\ replies' = [replies EXCEPT ![c] = Append(replies[c], r)]
                         /\ c \in inserted => r \notin Refusals
    <3>1. CASE Result(c)
      BY <3>1 DEF Result, Reply, Codes, Refusals
    <3>2. CASE Fail(c)
      BY <1>0, <3>2 DEF Fail, Reply, UseInv
    <3>3. CASE Recovered(c)
      BY <3>3 DEF Recovered, Codes, Refusals
    <3> QED
      BY <1>5, <3>1, <3>2, <3>3
  <2> QED
    BY <2>1, <2>2, <2>3, UseReply
<1>6. ASSUME NEW c \in Cmds, Discard(c)
      PROVE  UseInv'
  <2>1. Goto(c, "done") /\ UNCHANGED <<inserted, replies>> /\ \A d \in Cmds : d # c => code'[d] = code[d]
    BY <1>0, <1>6 DEF Discard, Return, historyVars
  <2> QED
    BY <2>1, UseUntouched DEF AfterInsert
<1>7. CASE Crash
  <2>1. UNCHANGED <<replies, inserted>>
    BY <1>7 DEF Crash, historyVars
  <2>2. \A c \in Cmds : IF Running(c) THEN pc'[c] = "lost" ELSE pc'[c] = pc[c]
    BY <1>7 DEF Crash
  <2> QED
    BY <1>0, <2>1, <2>2 DEF UseInv, Running, AfterInsert
<1>8. CASE Tick \/ (\E d \in JumpsBack : SetClockBack(d)) \/ (\E stale \in SUBSET files : DoInit(stale))
           \/ UNCHANGED vars
  <2>1. UNCHANGED <<pc, replies, code, inserted>>
    BY <1>8 DEF Tick, SetClockBack, DoInit, vars, localVars, historyVars
  <2> QED
    BY <2>1 DEF UseInv
<1> QED
  BY <1>1, <1>2, <1>3, <1>4, <1>5, <1>6, <1>7, <1>8 DEF Next, CommandStep

\* A command that was refused by beginSend has not used its outbox id, so the client
\* may send it again, unless the DELETE that follows the INSERT fails (ReserveOutbox).
THEOREM RefusalKeepsId == ASSUME "prune_io" \notin Faults PROVE Spec => []RefusalLeavesIdUnused
<1>1. Init => UseInv
  BY DEF Init, UseInv
<1>2. TypeOK /\ EndInv /\ UseInv /\ [Next]_vars => UseInv'
  BY UseStep
<1>3. UseInv => RefusalLeavesIdUnused
  BY DEF UseInv, RefusalLeavesIdUnused, Refusals
<1> QED
  BY <1>1, <1>2, <1>3, TypeCorrect, EndInvariant, PTL DEF Spec

-----------------------------------------------------------------------------
(* What a table that forgets remembers *)

\* The rows are numbered by the reservations they come from.
RowInv ==
  /\ \A r \in rows : r.rowid \in 1..Len(reservations) /\ r.id = reservations[r.rowid]
  /\ \A r, s \in rows : r.rowid = s.rowid => r = s

\* The i-th reservation is still in the table, or OutboxKeep others came after it.
Kept(i) == (\E r \in rows : r.rowid = i) \/ Len(reservations) - i >= OutboxKeep

\* The order of the rows by time, by which ReserveOutbox forgets, is their order.
RowsInOrder ==
  /\ \A r \in rows : r.created <= wall
  /\ \A r, s \in rows : r.rowid < s.rowid => r.created <= s.created

\* The time read at the backstop is still the latest when the INSERT uses it.
InsertsLast ==
  \A c \in Cmds : pc[c] = "insert" =>
    now[c].wall <= wall /\ \A r \in rows : r.created <= now[c].wall

\* Why the last OutboxKeep ids are remembered while the clock is never set back.
SteadyInv ==
  /\ RowInv
  /\ skew.at = Null =>
       /\ RowsInOrder
       /\ InsertsLast
       /\ \A i \in 1..Len(reservations) : Kept(i)
       /\ RemembersLast

\* A clock that was never set back was not set back in this step, so it did not go back.
LEMMA SteadyClock ==
  ASSUME TypeOK, [Next]_vars, skew'.at = Null
  PROVE  skew.at = Null /\ wall' >= wall /\ wall' \in Int
<1>0. real \in Nat /\ wall \in Int /\ skew \in [at : Nat \cup {Null}, noticed : BOOLEAN, started : Nat] /\ real # Null
  BY SendPathAssumption DEF TypeOK
<1>1. Notice.at = Null => skew.at = Null
  BY <1>0 DEF Notice
<1>2. \A x : [Notice EXCEPT !.started = x].at = Notice.at
  BY <1>0 DEF Notice
<1>3. CASE \E d \in JumpsBack : SetClockBack(d)
  BY <1>0, <1>3 DEF SetClockBack
<1>4. CASE Tick
  BY <1>0, <1>4 DEF Tick, historyVars
<1>5. CASE wall' = wall /\ (skew' = skew \/ skew' = Notice \/ skew' = [Notice EXCEPT !.started = real])
  <2>1. skew' = skew \/ skew'.at = Notice.at
    BY <1>2, <1>5
  <2> QED
    BY <1>0, <1>1, <1>5, <2>1
<1>6. ASSUME NEW c \in Cmds, NEW k \in Kinds, NEW o \in Ids, Handle(c, k, o)
      PROVE  wall' = wall /\ skew' = skew
  BY <1>6 DEF Handle, historyVars, clockVars
<1>7. ASSUME NEW c \in Cmds, CommandStep(c) \/ Panic(c)
      PROVE  wall' = wall /\ (skew' = skew \/ skew' = Notice)
  BY <1>7 DEF CommandStep, Begin, CheckChat, CheckKnown, CheckBackstop, Insert, Prune, Prepare, Upload,
              RecordSend, Mark, HandOff, Sent, Result, Fail, Discard, Recovered, Panic, historyVars, clockVars
<1>8. CASE Crash \/ (\E stale \in SUBSET files : DoInit(stale)) \/ UNCHANGED vars
  BY <1>8, <1>5 DEF Crash, DoInit, historyVars, clockVars, vars
<1> QED
  BY <1>3, <1>4, <1>5, <1>6, <1>7, <1>8 DEF Next

\* The rows as ReserveOutbox sees them.
SameRow(r, s) == r.rowid = s.rowid /\ r.id = s.id /\ r.created = s.created

\* A step that inserts and removes no row, and lets time only go on.
LEMMA SteadyUntouched ==
  ASSUME TypeOK, SteadyInv, UNCHANGED reservations,
         skew'.at = Null => skew.at = Null /\ wall' >= wall /\ wall' \in Int,
         rows' \subseteq Row,
         \A s \in rows' : \E r \in rows : SameRow(r, s),
         \A r \in rows : \E s \in rows' : SameRow(r, s),
         \A r, s \in rows' : r.rowid = s.rowid => r = s,
         skew'.at = Null => InsertsLast'
  PROVE  SteadyInv'
<1>1. RowInv'
  BY DEF SteadyInv, RowInv, SameRow
<1>2. ASSUME skew'.at = Null
      PROVE  RowsInOrder'
  <2>1. RowsInOrder /\ wall \in Int /\ \A r \in rows : r.created \in Int
    BY <1>2 DEF SteadyInv, TypeOK, Row
  <2>2. \A r \in rows' : r.created <= wall'
    BY <1>2, <2>1 DEF RowsInOrder, SameRow
  <2>3. \A r, s \in rows' : r.rowid < s.rowid => r.created <= s.created
    BY <2>1 DEF RowsInOrder, SameRow
  <2> QED
    BY <2>2, <2>3 DEF RowsInOrder
<1>3. ASSUME skew'.at = Null
      PROVE  RemembersLast' /\ \A i \in 1..Len(reservations') : Kept(i)'
  BY <1>3 DEF SteadyInv, RemembersLast, Kept, SameRow
<1> QED
  BY <1>1, <1>2, <1>3 DEF SteadyInv

\* The two UPDATEs change nothing that the DELETE looks at.
LEMMA UpdateKeepsRows ==
  ASSUME NEW rs \in SUBSET Row, NEW o, NEW at,
         NEW new, new = MarkDispatched(rs, o, at) \/ new = SetOutboxMessage(rs, o),
         \A r, s \in rs : r.rowid = s.rowid => r = s
  PROVE  /\ \A r \in rs : \E s \in new : SameRow(r, s)
         /\ \A s \in new : \E r \in rs : SameRow(r, s)
         /\ \A r, s \in new : r.rowid = s.rowid => r = s
<1> DEFINE F(r) == IF r.id = o THEN [r EXCEPT !.dispatched = at.wall] ELSE r
           G(r) == IF r.id = o THEN [r EXCEPT !.message = TRUE] ELSE r
<1>1. \A r \in rs : SameRow(r, F(r)) /\ SameRow(r, G(r))
  BY DEF Row, SameRow
<1>2. CASE new = {F(r) : r \in rs}
  <2> HIDE DEF F
  <2>1. \A r, s \in new : r.rowid = s.rowid => r = s
    BY <1>1, <1>2 DEF SameRow
  <2>2. \A r \in rs : F(r) \in new /\ SameRow(r, F(r))
    BY <1>1, <1>2
  <2>3. \A s \in new : \E r \in rs : s = F(r)
    BY <1>2
  <2>4. \A s \in new : \E r \in rs : SameRow(r, s)
    BY <1>1, <2>3
  <2> QED
    BY <2>1, <2>2, <2>4
<1>3. CASE new = {G(r) : r \in rs}
  <2> HIDE DEF G
  <2>1. \A r, s \in new : r.rowid = s.rowid => r = s
    BY <1>1, <1>3 DEF SameRow
  <2>2. \A r \in rs : G(r) \in new /\ SameRow(r, G(r))
    BY <1>1, <1>3
  <2>3. \A s \in new : \E r \in rs : s = G(r)
    BY <1>3
  <2>4. \A s \in new : \E r \in rs : SameRow(r, s)
    BY <1>1, <2>3
  <2> QED
    BY <2>1, <2>2, <2>4
<1> QED
  BY <1>2, <1>3 DEF MarkDispatched, SetOutboxMessage

\* The DELETE removes a row only when OutboxKeep reservations came after it.
LEMMA PrunedIsOld ==
  ASSUME TypeOK, RowInv, RowsInOrder, NEW r \in rows, r \notin Pruned(rows)
  PROVE  Len(reservations) - r.rowid >= OutboxKeep
<1> DEFINE N == {s \in rows : Newer(s, r)}
           L == Len(reservations)
           Later == (r.rowid + 1)..L
           f == [s \in N |-> s.rowid]
<1>0. L \in Nat /\ rows \subseteq Row /\ OutboxKeep \in Nat
  BY SendPathAssumption DEF TypeOK
<1>1. \A s \in rows : s.rowid \in 1..L /\ s.rowid \in Nat /\ s.created \in Int
  BY <1>0 DEF RowInv, Row
<1>2. \A s \in N : s.rowid \in Later
  <2> SUFFICES ASSUME NEW s \in N
               PROVE  s.rowid \in Later
    OBVIOUS
  <2>1. Newer(s, r) /\ s \in rows
    OBVIOUS
  <2>2. ~(s.rowid < r.rowid)
    BY <1>1, <2>1 DEF Newer, RowsInOrder
  <2>3. s.rowid # r.rowid
    BY <1>1, <2>1 DEF Newer, RowInv
  <2> QED
    BY <1>0, <1>1, <2>1, <2>2, <2>3
<1>3. f \in Injection(N, Later)
  <2>1. f \in [N -> Later]
    BY <1>2
  <2>2. \A s, t \in N : f[s] = f[t] => s = t
    BY DEF RowInv
  <2> QED
    BY <2>1, <2>2 DEF Injection, IsInjective
<1>4. IsFiniteSet(Later) /\ Cardinality(Later) = L - r.rowid
  <2>1. r.rowid + 1 \in Int /\ L \in Int
    BY <1>0, <1>1
  <2>2. r.rowid + 1 <= L + 1
    BY <1>0, <1>1
  <2> HIDE DEF L
  <2>3. Cardinality(Later) = IF r.rowid + 1 > L THEN 0 ELSE L - (r.rowid + 1) + 1
    BY <2>1, FS_Interval
  <2>4. IsFiniteSet(Later)
    BY <2>1, FS_Interval
  <2>5. r.rowid \in Int
    BY <1>1
  <2> HIDE DEF Later
  <2>6. Cardinality(Later) = L - r.rowid
    BY <2>1, <2>2, <2>3, <2>5
  <2> QED
    BY <2>4, <2>6
<1>5. IsFiniteSet(N) /\ Cardinality(N) <= Cardinality(Later)
  BY <1>3, <1>4, FS_Injection
<1>6. Cardinality(N) \in Nat
  BY <1>5, FS_CardinalityType
<1>7. ~(Cardinality(N) < OutboxKeep)
  BY DEF Pruned
<1> HIDE DEF N, L, Later
<1>8. L - r.rowid >= OutboxKeep
  BY <1>0, <1>1, <1>4, <1>5, <1>6, <1>7
<1> QED
  BY <1>8 DEF L

\* The INSERT adds the latest row and the next reservation.
LEMMA SteadyInsert ==
  ASSUME TypeOK, OneSlot, SteadyInv, NEW c \in Cmds, pc[c] = "insert", ~OutboxKnown(outbox[c]),
         rows' = rows \cup {NewRow(outbox[c], now[c])},
         reservations' = Append(reservations, outbox[c]),
         Goto(c, "prune"), UNCHANGED <<wall, skew>>
  PROVE  SteadyInv'
<1> DEFINE L == Len(reservations)
           n == NewRow(outbox[c], now[c])
<1>0. /\ L \in Nat /\ OutboxKeep \in Nat /\ wall \in Int /\ rows \subseteq Row
      /\ outbox[c] \in Ids /\ now[c].wall \in Int
  <2>1. Running(c)
    BY DEF Running
  <2>2. now[c] \in Time
    BY DEF TypeOK
  <2>3. now[c].wall \in Int
    BY <2>2 DEF Time
  <2>4. outbox[c] \in Ids
    BY <2>1 DEF TypeOK
  <2> QED
    BY <2>3, <2>4, SendPathAssumption DEF TypeOK
<1>1. n.rowid = L + 1 /\ n.id = outbox[c] /\ n.created = now[c].wall
  BY DEF NewRow
<1>2. \A r \in rows : r.rowid \in 1..L /\ r.created \in Int /\ r.id = reservations[r.rowid]
  BY <1>0 DEF SteadyInv, RowInv, Row
<1>3. /\ Len(reservations') = L + 1
      /\ \A i \in 1..L : reservations'[i] = reservations[i]
      /\ reservations'[L + 1] = outbox[c]
  <2>1. ASSUME NEW S, NEW q \in Seq(S), NEW x \in S
        PROVE  /\ Len(Append(q, x)) = Len(q) + 1
               /\ \A i \in 1..Len(q) : Append(q, x)[i] = q[i]
               /\ Append(q, x)[Len(q) + 1] = x
    OBVIOUS
  <2> QED
    BY <1>0, <2>1 DEF TypeOK
<1>4. \A r \in rows' : r \in rows \/ r = n
  OBVIOUS
<1> HIDE DEF L, n
<1>5. RowInv'
  <2>1. ASSUME NEW r \in rows'
        PROVE  r.rowid \in 1..Len(reservations') /\ r.id = reservations'[r.rowid]
    <3>1. CASE r \in rows
      BY <1>0, <1>2, <1>3, <3>1
    <3>2. CASE r = n
      BY <1>0, <1>1, <1>3, <3>2
    <3> QED
      BY <1>4, <3>1, <3>2
  <2>2. \A r \in rows : r.rowid # n.rowid
    BY <1>0, <1>1, <1>2
  <2>3. \A r, s \in rows' : r.rowid = s.rowid => r = s
    BY <1>4, <2>2 DEF SteadyInv, RowInv
  <2> QED
    BY <2>1, <2>3 DEF RowInv
<1>6. ASSUME skew'.at = Null
      PROVE  /\ RowsInOrder' /\ InsertsLast' /\ RemembersLast'
             /\ \A i \in 1..Len(reservations') : Kept(i)'
  <2>0. /\ RowsInOrder /\ InsertsLast /\ RemembersLast
        /\ \A i \in 1..L : Kept(i)
    BY <1>6 DEF SteadyInv, L
  <2>1. now[c].wall <= wall /\ \A r \in rows : r.created <= n.created
    BY <1>1, <2>0 DEF InsertsLast
  <2>2. RowsInOrder'
    <3>1. \A r \in rows' : r.created <= wall'
      BY <1>1, <1>4, <2>0, <2>1 DEF RowsInOrder
    <3>2. \A r \in rows : ~(n.rowid < r.rowid)
      BY <1>0, <1>1, <1>2
    <3>3. ~(n.rowid < n.rowid)
      BY <1>0, <1>1
    <3>4. \A r, s \in rows' : r.rowid < s.rowid => r.created <= s.created
      BY <1>4, <2>0, <2>1, <3>2, <3>3 DEF RowsInOrder
    <3> QED
      BY <3>1, <3>4 DEF RowsInOrder
  <2>3. InsertsLast'
    <3>1. pc'[c] = "prune" /\ \A d \in Cmds : d # c => pc'[d] = pc[d]
      BY DEF TypeOK, Goto
    <3>2. \A d \in Cmds : pc'[d] # "insert"
      BY <3>1 DEF OneSlot, SlotSteps
    <3> QED
      BY <3>2 DEF InsertsLast
  <2>4. ASSUME NEW i \in 1..Len(reservations')
        PROVE  Kept(i)'
    <3>1. CASE i = L + 1
      BY <1>1, <3>1 DEF Kept, n
    <3>2. CASE i \in 1..L
      <4>1. Kept(i)
        BY <2>0, <3>2
      <4>2. CASE \E r \in rows : r.rowid = i
        BY <4>2 DEF Kept
      <4>3. CASE Len(reservations) - i >= OutboxKeep
        BY <1>0, <1>3, <3>2, <4>3 DEF Kept, L
      <4> QED
        BY <4>1, <4>2, <4>3 DEF Kept
    <3> QED
      BY <1>0, <1>3, <3>1, <3>2
  \* The id was not in the table, so whatever reserved it before is forgotten.
  <2>5. ASSUME NEW i \in 1..L, reservations[i] = outbox[c]
        PROVE  L - i >= OutboxKeep
    <3>1. ~ \E r \in rows : r.rowid = i
      BY <1>2, <2>5 DEF OutboxKnown
    <3> QED
      BY <2>0, <3>1 DEF Kept, L
  <2>6. ASSUME NEW i \in DOMAIN reservations', NEW j \in DOMAIN reservations', i < j,
               reservations'[i] = reservations'[j]
        PROVE  j - i > OutboxKeep
    <3>0. DOMAIN reservations' = 1..(L + 1) /\ DOMAIN reservations = 1..L
      <4>1. ASSUME NEW S, NEW q \in Seq(S)
            PROVE  DOMAIN q = 1..Len(q)
        OBVIOUS
      <4>2. reservations \in Seq(Ids) /\ reservations' \in Seq(Ids)
        BY <1>0 DEF TypeOK
      <4> QED
        BY <1>3, <4>1, <4>2 DEF L
    <3>1. i \in 1..L
      BY <1>0, <2>6, <3>0
    <3>2. CASE j \in 1..L
      BY <1>3, <2>0, <2>6, <3>0, <3>1, <3>2 DEF RemembersLast
    <3>3. CASE j = L + 1
      <4>1. reservations[i] = outbox[c]
        BY <1>3, <2>6, <3>1, <3>3
      <4>2. L - i >= OutboxKeep
        BY <2>5, <3>1, <4>1
      <4> QED
        BY <1>0, <3>1, <3>3, <4>2
    <3> QED
      BY <1>0, <3>0, <3>2, <3>3
  <2> QED
    BY <2>2, <2>3, <2>4, <2>6 DEF RemembersLast
<1> QED
  BY <1>5, <1>6 DEF SteadyInv

\* The DELETE leaves only old gaps.
LEMMA SteadyPrune ==
  ASSUME TypeOK, SteadyInv, NEW c \in Cmds, NEW step, step # "insert", Goto(c, step),
         rows' = Pruned(rows), UNCHANGED <<wall, skew, now, reservations>>
  PROVE  SteadyInv'
<1>1. rows' \subseteq rows
  BY DEF Pruned
<1>2. RowInv'
  BY <1>1 DEF SteadyInv, RowInv
<1>3. ASSUME skew'.at = Null
      PROVE  /\ RowsInOrder' /\ InsertsLast' /\ RemembersLast'
             /\ \A i \in 1..Len(reservations') : Kept(i)'
  <2>0. /\ RowInv /\ RowsInOrder /\ InsertsLast /\ RemembersLast
        /\ \A i \in 1..Len(reservations) : Kept(i)
    BY <1>3 DEF SteadyInv
  <2>1. RowsInOrder' /\ RemembersLast'
    BY <1>1, <2>0 DEF RowsInOrder, RemembersLast
  <2>2. InsertsLast'
    <3>1. \A d \in Cmds : pc'[d] = "insert" => pc[d] = "insert"
      BY DEF TypeOK, Goto
    <3> QED
      BY <1>1, <2>0, <3>1 DEF InsertsLast
  <2>3. ASSUME NEW i \in 1..Len(reservations)
        PROVE  Kept(i)'
    <3>1. CASE \E r \in rows' : r.rowid = i
      BY <3>1 DEF Kept
    <3>2. CASE \E r \in rows : r.rowid = i /\ r \notin rows'
      BY <2>0, <3>2, PrunedIsOld DEF Kept
    <3>3. CASE Len(reservations) - i >= OutboxKeep
      BY <3>3 DEF Kept
    <3> QED
      BY <2>0, <3>1, <3>2, <3>3 DEF Kept
  <2> QED
    BY <2>1, <2>2, <2>3
<1> QED
  BY <1>2, <1>3 DEF SteadyInv

\* Every step keeps SteadyInv.
LEMMA SteadyStep ==
  ASSUME TypeOK, TypeOK', OneSlot, SteadyInv, [Next]_vars
  PROVE  SteadyInv'
<1>0. /\ pc \in [Cmds -> Steps] /\ now \in [Cmds -> Time] /\ rows \subseteq Row /\ rows' \subseteq Row
      /\ wall \in Int
  BY DEF TypeOK
<1>1. skew'.at = Null => skew.at = Null /\ wall' >= wall /\ wall' \in Int
  BY SteadyClock
<1>u. \A r, s \in rows : r.rowid = s.rowid => r = s
  BY DEF SteadyInv, RowInv
<1>s. \A r \in rows : SameRow(r, r)
  BY DEF SameRow
\* Steps that leave the table alone and read no time for an INSERT.
<1>2. ASSUME UNCHANGED <<rows, reservations>>,
             \A c \in Cmds : pc'[c] = "insert" => pc[c] = "insert" /\ now'[c] = now[c]
      PROVE  SteadyInv'
  <2>1. skew'.at = Null => InsertsLast'
    <3> SUFFICES ASSUME skew'.at = Null, NEW c \in Cmds, pc'[c] = "insert"
                 PROVE  now'[c].wall <= wall' /\ \A r \in rows' : r.created <= now'[c].wall
      BY DEF InsertsLast
    <3>1. /\ pc[c] = "insert" /\ now'[c] = now[c]
          /\ now[c].wall <= wall /\ \A r \in rows : r.created <= now[c].wall
      BY <1>1, <1>2 DEF SteadyInv, InsertsLast
    <3>2. now[c].wall \in Int
      BY <1>0 DEF Time
    <3> QED
      BY <1>0, <1>1, <1>2, <3>1, <3>2
  <2> QED
    BY <1>0, <1>1, <1>2, <1>u, <1>s, <2>1, SteadyUntouched
\* The UPDATEs.
<1>3. ASSUME NEW c \in Cmds, NEW o, NEW at,
             rows' = MarkDispatched(rows, o, at) \/ rows' = SetOutboxMessage(rows, o),
             UNCHANGED reservations, \A d \in Cmds : pc'[d] # "insert" \/ (d # c /\ pc'[d] = pc[d]),
             pc[c] \in SlotSteps \/ \A d \in Cmds : pc'[d] = "insert" => pc[d] = "insert" /\ now'[d] = now[d]
      PROVE  SteadyInv'
  <2>1. /\ \A r \in rows : \E s \in rows' : SameRow(r, s)
        /\ \A s \in rows' : \E r \in rows : SameRow(r, s)
        /\ \A r, s \in rows' : r.rowid = s.rowid => r = s
    <3> DEFINE rs == rows
               new == rows'
    <3>1. rs \in SUBSET Row /\ \A r, s \in rs : r.rowid = s.rowid => r = s
      BY <1>0, <1>u
    <3>2. new = MarkDispatched(rs, o, at) \/ new = SetOutboxMessage(rs, o)
      BY <1>3
    <3> HIDE DEF rs, new
    <3>3. /\ \A r \in rs : \E s \in new : SameRow(r, s)
          /\ \A s \in new : \E r \in rs : SameRow(r, s)
          /\ \A r, s \in new : r.rowid = s.rowid => r = s
      BY <3>1, <3>2, UpdateKeepsRows
    <3> QED
      BY <3>3 DEF rs, new
  <2>2. ASSUME skew'.at = Null
        PROVE  InsertsLast'
    <3> SUFFICES ASSUME NEW d \in Cmds, pc'[d] = "insert"
                 PROVE  now'[d].wall <= wall' /\ \A r \in rows' : r.created <= now'[d].wall
      BY DEF InsertsLast
    <3>1. d # c /\ pc[d] = "insert"
      BY <1>3
    <3>2. pc[c] \notin SlotSteps
      BY <3>1 DEF OneSlot, SlotSteps
    <3>3. /\ now'[d] = now[d]
          /\ now[d].wall <= wall /\ \A r \in rows : r.created <= now[d].wall
      BY <1>1, <1>3, <2>2, <3>1, <3>2 DEF SteadyInv, InsertsLast
    <3>4. now[d].wall \in Int /\ wall' >= wall /\ wall' \in Int
      BY <1>0, <1>1, <2>2 DEF Time
    <3>5. \A r \in rows' : r.created <= now[d].wall
      BY <2>1, <3>3 DEF SameRow
    <3> QED
      BY <1>0, <3>3, <3>4, <3>5
  <2> QED
    BY <1>0, <1>1, <1>3, <2>1, <2>2, SteadyUntouched
<1>4. ASSUME NEW c \in Cmds, NEW k \in Kinds, NEW o \in Ids, Handle(c, k, o)
      PROVE  SteadyInv'
  <2>1. UNCHANGED <<rows, reservations, now>> /\ Goto(c, "begin")
    BY <1>4 DEF Handle, historyVars
  <2> QED
    BY <1>0, <1>2, <2>1 DEF Goto
<1>5. ASSUME NEW c \in Cmds, Begin(c) \/ CheckChat(c) \/ CheckKnown(c) \/ Prepare(c) \/ Upload(c)
             \/ HandOff(c) \/ Sent(c) \/ Panic(c)
      PROVE  SteadyInv'
  <2>1. UNCHANGED <<rows, reservations, now>>
    BY <1>5 DEF Begin, CheckChat, CheckKnown, Prepare, Upload, HandOff, Sent, Panic, historyVars, localVars
  <2>2. \E step \in Steps \ {"insert"} : Goto(c, step)
    BY <1>5 DEF Begin, CheckChat, CheckKnown, Prepare, Upload, HandOff, Sent, Panic, Refuse, Proceed,
                Steps, SlotSteps
  <2> QED
    BY <1>0, <1>2, <2>1, <2>2 DEF Goto
<1>6. ASSUME NEW c \in Cmds, CheckBackstop(c)
      PROVE  SteadyInv'
  <2>1. UNCHANGED <<rows, reservations, wall>> /\ now' = [now EXCEPT ![c] = Now]
    BY <1>6 DEF CheckBackstop, clockVars
  <2>2. \E step \in Steps : Goto(c, step)
    BY <1>6 DEF CheckBackstop, Refuse, Proceed, Steps, SlotSteps
  <2>3. now'[c].wall = wall /\ \A d \in Cmds : d # c => now'[d] = now[d] /\ pc'[d] = pc[d]
    BY <1>0, <2>1, <2>2 DEF Now, Goto
  <2>4. ASSUME skew'.at = Null
        PROVE  InsertsLast'
    BY <1>0, <1>1, <2>1, <2>3, <2>4 DEF InsertsLast, SteadyInv, RowsInOrder
  <2> QED
    BY <1>0, <1>1, <1>u, <1>s, <2>1, <2>4, SteadyUntouched
<1>7. ASSUME NEW c \in Cmds, Insert(c)
      PROVE  SteadyInv'
  <2>1. pc[c] = "insert" /\ UNCHANGED <<now, wall, skew>>
    BY <1>7 DEF Insert, clockVars
  <2>2. CASE UNCHANGED <<rows, reservations>> /\ Goto(c, "fail")
    BY <1>0, <1>2, <2>1, <2>2 DEF Goto
  <2>3. CASE /\ ~OutboxKnown(outbox[c]) /\ Goto(c, "prune")
             /\ rows' = rows \cup {NewRow(outbox[c], now[c])}
             /\ reservations' = Append(reservations, outbox[c])
    BY <2>1, <2>3, SteadyInsert
  <2> QED
    BY <1>7, <2>2, <2>3 DEF Insert, Refuse, Proceed
<1>8. ASSUME NEW c \in Cmds, Prune(c)
      PROVE  SteadyInv'
  <2>1. UNCHANGED <<now, wall, skew, reservations>> /\ \E step \in Steps \ {"insert"} : Goto(c, step)
    BY <1>8 DEF Prune, clockVars, historyVars, Refuse, Proceed, Steps, SlotSteps
  <2>2. CASE UNCHANGED rows
    BY <1>0, <1>2, <2>1, <2>2 DEF Goto
  <2>3. CASE rows' = Pruned(rows)
    BY <2>1, <2>3, SteadyPrune
  <2> QED
    BY <1>8, <2>2, <2>3 DEF Prune
<1>9. ASSUME NEW c \in Cmds, RecordSend(c)
      PROVE  SteadyInv'
  <2>1. /\ UNCHANGED <<rows, reservations>> /\ Goto(c, "mark")
        /\ now' = [now EXCEPT ![c] = Now]
    BY <1>9 DEF RecordSend, Proceed
  <2> QED
    BY <1>0, <1>2, <2>1 DEF Goto
<1>10. ASSUME NEW c \in Cmds, Mark(c)
       PROVE  SteadyInv'
  <2>1. UNCHANGED <<now, reservations>> /\ Goto(c, "handoff") /\ pc[c] = "mark"
    BY <1>10 DEF Mark, historyVars, Proceed
  <2>2. pc[c] \in SlotSteps /\ \A d \in Cmds : pc'[d] # "insert" \/ (d # c /\ pc'[d] = pc[d])
    BY <1>0, <2>1 DEF Goto, SlotSteps
  <2> QED
    BY <1>0, <1>2, <1>3, <1>10, <2>1, <2>2 DEF Mark, Goto
<1>11. ASSUME NEW c \in Cmds, Result(c) \/ Fail(c) \/ Discard(c) \/ Recovered(c)
       PROVE  SteadyInv'
  <2>1. UNCHANGED reservations /\ (Goto(c, "discard") \/ Goto(c, "done"))
    BY <1>11 DEF Result, Fail, Discard, Recovered, Reply, Return, historyVars
  <2>2. now' = now \/ now' = [now EXCEPT ![c] = NoClock]
    BY <1>11 DEF Result, Fail, Discard, Recovered, Reply, Return, localVars
  <2>3. \A d \in Cmds : (d # c => pc'[d] = pc[d] /\ now'[d] = now[d]) /\ pc'[c] # "insert"
    BY <1>0, <2>1, <2>2 DEF Goto
  <2>4. CASE UNCHANGED rows
    BY <1>2, <2>1, <2>3, <2>4
  <2>5. CASE rows' = SetOutboxMessage(rows, outbox[c])
    BY <1>3, <2>1, <2>3, <2>5
  <2> QED
    BY <1>11, <2>4, <2>5 DEF Result, Fail, Discard, Recovered
<1>12. CASE Crash
  <2>1. UNCHANGED <<rows, reservations>>
    BY <1>12 DEF Crash, historyVars
  <2>2. \A c \in Cmds : pc'[c] # "insert"
    BY <1>12 DEF Crash, Running
  <2> QED
    BY <1>2, <2>1, <2>2
<1>13. CASE Tick \/ (\E d \in JumpsBack : SetClockBack(d)) \/ (\E stale \in SUBSET files : DoInit(stale))
           \/ UNCHANGED vars
  <2>1. UNCHANGED <<rows, reservations, pc, now>>
    BY <1>13 DEF Tick, SetClockBack, DoInit, vars, localVars, historyVars
  <2> QED
    BY <1>2, <2>1
<1> QED
  BY <1>4, <1>5, <1>6, <1>7, <1>8, <1>9, <1>10, <1>11, <1>12, <1>13 DEF Next, CommandStep

\* The numbering and the order of the rows hold in every state.
LEMMA SteadyInvariant == Spec => []SteadyInv
<1>1. Init => SteadyInv
  BY DEF Init, SteadyInv, RowInv, RowsInOrder, InsertsLast, RemembersLast
<1>2. TypeOK /\ TypeOK' /\ OneSlot /\ SteadyInv /\ [Next]_vars => SteadyInv'
  BY SteadyStep
<1> QED
  BY <1>1, <1>2, TypeCorrect, SingleSlot, PTL DEF Spec

\* An outbox id is refused until OutboxKeep others were reserved after it, across
\* crashes and restarts, as long as the clock is never set back (ReserveOutbox).
THEOREM RemembersSteadily == Spec => []RemembersSteady
<1>1. SteadyInv => RemembersSteady
  BY DEF SteadyInv, RemembersSteady
<1> QED
  BY <1>1, SteadyInvariant, PTL

-----------------------------------------------------------------------------
(* A finite set listed in its order *)

\* A finite set numbered in a total order: each member has one place, in order.
LEMMA Ranks ==
  ASSUME NEW S, IsFiniteSet(S), NEW B,
         \A x \in S : <<x, x>> \notin B,
         \A x, y \in S : x # y => <<x, y>> \in B \/ <<y, x>> \in B,
         \A x, y, z \in S : <<x, y>> \in B /\ <<y, z>> \in B => <<x, z>> \in B,
         NEW e, e = Ordered(S, B)
  PROVE  /\ Cardinality(S) \in Nat /\ e = [i \in 1 .. Cardinality(S) |-> e[i]]
         /\ \A i \in 1 .. Cardinality(S) : e[i] \in S
         /\ \A x \in S : \E i \in 1 .. Cardinality(S) : e[i] = x
         /\ \A i, j \in 1 .. Cardinality(S) : i < j => <<e[i], e[j]>> \in B
<1> DEFINE n == Cardinality(S)
           P(x) == {y \in S : <<y, x>> \in B}
           Rk == [x \in S |-> Cardinality(P(x))]
<1>1. n \in Nat
  BY FS_CardinalityType
<1>2. ASSUME NEW x \in S
      PROVE  IsFiniteSet(P(x)) /\ Rk[x] \in 0 .. n - 1
  <2>1. P(x) \in SUBSET S /\ x \notin P(x)
    OBVIOUS
  <2>2. IsFiniteSet(P(x)) /\ Cardinality(P(x)) <= n /\ Cardinality(P(x)) # n
    BY <2>1, FS_Subset
  <2>3. Cardinality(P(x)) \in Nat
    BY <2>2, FS_CardinalityType
  <2>4. Cardinality(P(x)) \in 0 .. n - 1
    <3> DEFINE k == Cardinality(P(x))
    <3> HIDE DEF k, n
    <3> QED
      BY <1>1, <2>2, <2>3 DEF k
  <2> QED
    BY <2>2, <2>4
<1>r. \A x \in S : Rk[x] \in 0 .. n - 1 /\ Rk[x] \in Int
  <2>1. \A x \in S : Rk[x] \in 0 .. n - 1
    BY <1>2
  <2> HIDE DEF Rk, n
  <2> QED
    BY <1>1, <2>1
<1>3. ASSUME NEW x \in S, NEW y \in S, <<x, y>> \in B
      PROVE  Rk[x] < Rk[y]
  <2>1. P(x) \in SUBSET P(y) /\ P(x) # P(y)
    <3>1. x \in P(y) /\ x \notin P(x)
      BY <1>3
    <3>2. \A z \in P(x) : z \in P(y)
      BY <1>3
    <3> QED
      BY <3>1, <3>2
  <2>2. IsFiniteSet(P(y))
    BY <1>2
  <2> HIDE DEF P
  <2>3. Cardinality(P(x)) <= Cardinality(P(y)) /\ Cardinality(P(x)) # Cardinality(P(y))
    BY <2>1, <2>2, FS_Subset
  <2>4. Rk[x] = Cardinality(P(x)) /\ Rk[y] = Cardinality(P(y))
    OBVIOUS
  <2> HIDE DEF Rk, n
  <2>5. Rk[x] \in Int /\ Rk[y] \in Int
    BY <1>r
  <2> QED
    BY <2>3, <2>4, <2>5
<1>4. ASSUME NEW x \in S, NEW y \in S, Rk[x] = Rk[y]
      PROVE  x = y
  <2> HIDE DEF Rk, n
  <2>1. Rk[x] \in Int /\ Rk[y] \in Int
    BY <1>r
  <2>2. CASE <<x, y>> \in B
    BY <1>3, <1>4, <2>1, <2>2
  <2>3. CASE <<y, x>> \in B
    BY <1>3, <1>4, <2>1, <2>3
  <2> QED
    BY <2>2, <2>3
<1>5. ASSUME NEW i \in 1 .. n
      PROVE  \E x \in S : Rk[x] = i - 1
  <2> DEFINE T == 0 .. n - 1
  <2>1. IsFiniteSet(T) /\ Cardinality(T) = n
    <3> HIDE DEF n
    <3> QED
      BY <1>1, FS_Interval
  <2>2. Rk \in Injection(S, T)
    <3>1. Rk \in [S -> T]
      BY <1>2
    <3> HIDE DEF Rk, T
    <3> QED
      BY <1>4, <3>1 DEF Injection, IsInjective
  <2>3. i - 1 \in T
    <3> HIDE DEF n
    <3> QED
      BY <1>1
  <2> HIDE DEF Rk, T
  <2>4. Rk \in Surjection(S, T)
    BY <2>1, <2>2, FS_Injection
  <2> QED
    BY <2>3, <2>4 DEF Surjection
<1>6. ASSUME NEW i \in 1 .. n
      PROVE  e[i] \in S /\ Rk[e[i]] = i - 1
  <2>1. e[i] = CHOOSE x \in S : Cardinality(P(x)) = i - 1
    BY DEF Ordered
  <2>2. PICK x \in S : Cardinality(P(x)) = i - 1
    BY <1>5
  <2> HIDE DEF P
  <2>3. e[i] \in S /\ Cardinality(P(e[i])) = i - 1
    BY <2>1, <2>2
  <2> QED
    BY <2>3
<1>7. ASSUME NEW x \in S
      PROVE  \E i \in 1 .. n : e[i] = x
  <2> DEFINE i == Rk[x] + 1
  <2>1. Rk[x] \in 0 .. n - 1
    BY <1>2
  <2> HIDE DEF Rk, n
  <2>2. i \in 1 .. n /\ i - 1 = Rk[x]
    BY <1>1, <2>1
  <2>3. e[i] \in S /\ Rk[e[i]] = Rk[x]
    BY <1>6, <2>2
  <2> QED
    BY <1>4, <2>2, <2>3
<1>8. ASSUME NEW i \in 1 .. n, NEW j \in 1 .. n, i < j
      PROVE  <<e[i], e[j]>> \in B
  <2>1. e[i] \in S /\ e[j] \in S /\ Rk[e[i]] = i - 1 /\ Rk[e[j]] = j - 1
    BY <1>6
  <2> HIDE DEF Rk, n
  <2>2. e[i] # e[j]
    BY <1>1, <1>8, <2>1
  <2>3. ~(Rk[e[j]] < Rk[e[i]])
    BY <1>1, <1>8, <2>1
  <2> QED
    BY <1>3, <2>1, <2>2, <2>3
<1>9. e = [i \in 1 .. n |-> e[i]]
  <2> DEFINE F(i) == CHOOSE x \in S : Cardinality({y \in S : <<y, x>> \in B}) = i - 1
  <2>1. e = [i \in 1 .. n |-> F(i)]
    BY DEF Ordered
  <2> HIDE DEF F, n
  <2> QED
    BY <2>1
<1> QED
  BY <1>1, <1>6, <1>7, <1>8, <1>9

\* Ordered of numbers lists them in increasing order.
LEMMA OrderedNumbers ==
  ASSUME NEW n \in Nat, NEW S \in SUBSET (1 .. n), NEW k, k = Ordered(S, Increasing(S))
  PROVE  /\ Cardinality(S) \in Nat /\ k = [i \in 1 .. Cardinality(S) |-> k[i]]
         /\ \A i \in DOMAIN k : k[i] \in S
         /\ \A x \in S : \E i \in DOMAIN k : k[i] = x
         /\ \A i, j \in DOMAIN k : i < j => k[i] < k[j]
<1> DEFINE B == Increasing(S)
<1>1. IsFiniteSet(S)
  <2>1. IsFiniteSet(1 .. n)
    BY FS_Interval
  <2> QED
    BY <2>1, FS_Subset
<1>2. \A x, y \in S : <<x, y>> \in B <=> x < y
  BY DEF Increasing
<1>3. /\ \A x \in S : <<x, x>> \notin B
      /\ \A x, y \in S : x # y => <<x, y>> \in B \/ <<y, x>> \in B
      /\ \A x, y, z \in S : <<x, y>> \in B /\ <<y, z>> \in B => <<x, z>> \in B
  <2>1. \A x \in S : x \in Int
    OBVIOUS
  <2> HIDE DEF B
  <2> QED
    BY <1>2, <2>1
<1> HIDE DEF B
<1>4. /\ Cardinality(S) \in Nat /\ k = [i \in 1 .. Cardinality(S) |-> k[i]]
      /\ \A i \in 1 .. Cardinality(S) : k[i] \in S
      /\ \A x \in S : \E i \in 1 .. Cardinality(S) : k[i] = x
      /\ \A i, j \in 1 .. Cardinality(S) : i < j => <<k[i], k[j]>> \in B
  BY <1>1, <1>3, Ranks DEF B
<1>5. DOMAIN k = 1 .. Cardinality(S)
  BY <1>4
<1> QED
  BY <1>2, <1>4, <1>5

-----------------------------------------------------------------------------
(* The times of the sends: what clampSends makes of them *)

\* A set of numbers that is not empty has a least one.
LEMMA LeastOne ==
  ASSUME NEW T \in SUBSET Nat, T # {}
  PROVE  \E m \in T : \A n \in T : m <= n
<1> DEFINE TT == {1 .. n : n \in T}
           R  == StrictSubsetOrdering(Nat)
<1>1. IsWellFoundedOn(R, FiniteSubsetsOf(Nat))
  BY FS_StrictSubsetOrderingWellFounded
<1>2. TT # {} /\ TT \subseteq FiniteSubsetsOf(Nat)
  <2>1. ASSUME NEW n \in T PROVE 1 .. n \in FiniteSubsetsOf(Nat)
    BY FS_Interval DEF FiniteSubsetsOf
  <2> QED
    BY <2>1
<1>3. PICK x \in TT : \A y \in TT : ~(<<y, x>> \in R)
  <2> HIDE DEF TT, R
  <2> QED
    BY <1>1, <1>2, WFMin
<1>4. PICK m \in T : x = 1 .. m
  BY <1>3
<1>5. ASSUME NEW n \in T, n < m PROVE FALSE
  <2>1. 1 .. n \subseteq 1 .. m /\ 1 .. n # 1 .. m /\ 1 .. n \subseteq Nat /\ 1 .. m \subseteq Nat
    <3>1. m \in 1 .. m /\ m \notin 1 .. n
      BY <1>5
    <3> QED
      BY <1>5, <3>1
  <2>2. <<1 .. n, 1 .. m>> \in R
    BY <2>1 DEF StrictSubsetOrdering
  <2> QED
    BY <1>3, <1>4, <2>2
<1> QED
  BY <1>5

\* Induction over the first n numbers, without an operator parameter.
LEMMA Induction ==
  ASSUME NEW n \in Nat, NEW S, 0 \in S,
         \A i \in 0 .. n - 1 : i \in S => i + 1 \in S
  PROVE  0 .. n \subseteq S
<1> DEFINE T == {i \in 0 .. n : i \notin S}
<1>1. SUFFICES ASSUME T # {} PROVE FALSE
  OBVIOUS
<1>2. PICK m \in T : \A i \in T : m <= i
  <2>1. T \in SUBSET Nat
    OBVIOUS
  <2> HIDE DEF T
  <2> QED
    BY <1>1, <2>1, LeastOne
<1>3. m # 0 /\ m \in 0 .. n /\ m \notin S
  BY <1>2
<1>4. m - 1 \in 0 .. n - 1 /\ m - 1 \in 0 .. n
  BY <1>3
<1>5. m - 1 \in S
  BY <1>2, <1>4, m - 1 < m
<1> QED
  BY <1>3, <1>4, <1>5, (m - 1) + 1 = m

\* clampSends, its two loops: what one time becomes, and the result.
Moved(t, at) == IF After(t, at) THEN Add(at, -MinSendInterval) ELSE t
Raised(before, t) == IF After(before, t) THEN before ELSE t
IsClamped(c, ts, at, n) ==
  c = [i \in 1 .. n |-> IF i > 1 THEN Raised(c[i - 1], Moved(ts[i], at)) ELSE Moved(ts[i], at)]

\* There is such a result.
LEMMA ClampExists ==
  ASSUME NEW ts, NEW at, NEW n \in Nat
  PROVE  \E c : IsClamped(c, ts, at, n)
<1> DEFINE S == {i \in 0 .. n : \E c : IsClamped(c, ts, at, i)}
<1>1. 0 \in S
  <2> DEFINE c == [i \in 1 .. 0 |-> 0]
  <2>1. IsClamped(c, ts, at, 0)
    BY DEF IsClamped
  <2> QED
    BY <2>1
<1>2. ASSUME NEW i \in 0 .. n - 1, i \in S PROVE i + 1 \in S
  <2>1. PICK b : IsClamped(b, ts, at, i)
    BY <1>2
  <2>2. \A j \in 1 .. i : b[j] = IF j > 1 THEN Raised(b[j - 1], Moved(ts[j], at)) ELSE Moved(ts[j], at)
    BY <2>1 DEF IsClamped
  <2> DEFINE m == i + 1
             x == IF m > 1 THEN Raised(b[i], Moved(ts[m], at)) ELSE Moved(ts[m], at)
             c == [j \in 1 .. m |-> IF j <= i THEN b[j] ELSE x]
  <2>3. ASSUME NEW j \in 1 .. m
        PROVE  c[j] = IF j > 1 THEN Raised(c[j - 1], Moved(ts[j], at)) ELSE Moved(ts[j], at)
    <3>1. CASE j <= i
      <4>1. j \in 1 .. i /\ c[j] = b[j] /\ (j > 1 => c[j - 1] = b[j - 1])
        BY <3>1
      <4> HIDE DEF c
      <4> QED
        BY <2>2, <4>1
    <3>2. CASE j = m
      <4>1. c[j] = x /\ (j > 1 => c[j - 1] = b[i])
        BY <3>2
      <4> HIDE DEF c
      <4> QED
        BY <3>2, <4>1
    <3> QED
      BY <3>1, <3>2
  <2>4. c = [j \in 1 .. m |-> c[j]]
    OBVIOUS
  <2>5. IsClamped(c, ts, at, m)
    <3> HIDE DEF c
    <3> QED
      BY <2>3, <2>4 DEF IsClamped
  <2> QED
    BY <2>5
<1>3. 0 .. n \subseteq S
  <2> HIDE DEF S
  <2> QED
    BY <1>1, <1>2, Induction
<1> QED
  BY <1>3

\* clampSends changes nothing while no time is in the future, and is IsClamped then.
LEMMA ClampIs ==
  ASSUME NEW ts \in Seq(Time), NEW at
  PROVE  IF \E i \in DOMAIN ts : After(ts[i], at)
         THEN IsClamped(Clamp(ts, at), ts, at, Len(ts))
         ELSE Clamp(ts, at) = ts
<1>1. CASE ~ \E i \in DOMAIN ts : After(ts[i], at)
  BY <1>1 DEF Clamp
<1>2. CASE \E i \in DOMAIN ts : After(ts[i], at)
  <2> DEFINE moved == [i \in DOMAIN ts |-> IF After(ts[i], at) THEN Add(at, -MinSendInterval) ELSE ts[i]]
             raised == CHOOSE c : c = [i \in DOMAIN ts |-> IF i > 1 /\ After(c[i - 1], moved[i]) THEN c[i - 1] ELSE moved[i]]
  <2>1. PICK c : IsClamped(c, ts, at, Len(ts))
    <3>1. Len(ts) \in Nat
      OBVIOUS
    <3> QED
      BY <3>1, ClampExists
  <2>2. DOMAIN ts = 1 .. Len(ts) /\ \A i \in DOMAIN ts : moved[i] = Moved(ts[i], at)
    BY DEF Moved
  <2>3. Clamp(ts, at) = raised
    BY <1>2 DEF Clamp
  <2> HIDE DEF moved
  <2>4. ASSUME NEW b
        PROVE  IsClamped(b, ts, at, Len(ts)) <=>
                 b = [i \in DOMAIN ts |-> IF i > 1 /\ After(b[i - 1], moved[i]) THEN b[i - 1] ELSE moved[i]]
    BY <2>2 DEF IsClamped, Raised
  <2>5. raised = [i \in DOMAIN ts |-> IF i > 1 /\ After(raised[i - 1], moved[i]) THEN raised[i - 1] ELSE moved[i]]
    BY <2>1, <2>4
  <2> HIDE DEF raised
  <2> QED
    BY <1>2, <2>3, <2>4, <2>5
<1> QED
  BY <1>1, <1>2

\* How long ago a time was, when the two clocks read r and w.
Age(t, r, w) == IF t.hasMono THEN r - t.mono ELSE w - t.wall

Clock(r, w) == [wall |-> w, mono |-> r, hasMono |-> TRUE]

\* A time was taken in this process, when the wall clock was no less ahead than now.
Taken(t, r, w) == t.hasMono => t.mono <= r /\ w - r <= t.wall - t.mono

\* t may come before u: times of the store first, those in the order of the wall clock.
InOrder(t, u) == (t.hasMono => u.hasMono) /\ (~u.hasMono => t.wall <= u.wall)

\* Bridge.sends.
Good(ts, r, w) ==
  /\ ts \in Seq(Time)
  /\ \A i \in DOMAIN ts : Taken(ts[i], r, w)
  /\ \A i, j \in DOMAIN ts : i < j => InOrder(ts[i], ts[j])

\* The age of a time is what Sub and After go by.
LEMMA ClockIs ==
  ASSUME NEW r \in Int, NEW w \in Int
  PROVE  /\ Clock(r, w) \in Time
         /\ \A t \in Time : Sub(Clock(r, w), t) = Age(t, r, w) /\ (After(t, Clock(r, w)) <=> Age(t, r, w) < 0)
BY DEF Clock, Time, Sub, Age, After

\* What clampSends does to one time.
LEMMA MovedIs ==
  ASSUME NEW r \in Int, NEW w \in Int, NEW t \in Time, Taken(t, r, w)
  PROVE  LET u == Moved(t, Clock(r, w)) IN
         /\ u \in Time
         /\ Taken(u, r, w)
         /\ Age(u, r, w) = IF Age(t, r, w) < 0 THEN MinSendInterval ELSE Age(t, r, w)
         /\ Age(t, r, w) < 0 => u.hasMono /\ ~t.hasMono
         /\ ~(Age(t, r, w) < 0) => u = t
<1> DEFINE m == MinSendInterval
<1>1. m \in Nat
  BY SendPathAssumption DEF SendPathAssumption
<1>2. CASE Age(t, r, w) < 0
  <2>1. Moved(t, Clock(r, w)) = [wall |-> w - m, mono |-> r - m, hasMono |-> TRUE]
    BY <1>1, <1>2, ClockIs DEF Moved, Add, Clock
  <2>2. ~t.hasMono
    BY <1>2 DEF Time, Age, Taken
  <2> HIDE DEF m
  <2> QED
    BY <1>1, <1>2, <2>1, <2>2 DEF Time, Taken, Age, m
<1>3. CASE ~(Age(t, r, w) < 0)
  BY <1>3, ClockIs DEF Moved
<1> QED
  BY <1>2, <1>3

\* The order of two times survives the first loop.
LEMMA MovedInOrder ==
  ASSUME NEW r \in Int, NEW w \in Int, NEW t \in Time, NEW u \in Time, Taken(t, r, w), Taken(u, r, w),
         InOrder(t, u)
  PROVE  Moved(t, Clock(r, w)).hasMono => Moved(u, Clock(r, w)).hasMono
<1>1. CASE Age(t, r, w) < 0
  <2>1. ~t.hasMono /\ w - t.wall < 0
    BY <1>1, MovedIs DEF Age
  <2>2. u.hasMono \/ Age(u, r, w) < 0
    BY <2>1 DEF InOrder, Age, Time
  <2> QED
    BY <2>2, MovedIs
<1>2. CASE ~(Age(t, r, w) < 0)
  <2>1. Moved(t, Clock(r, w)) = t
    BY <1>2, MovedIs
  <2>2. t.hasMono => u.hasMono
    BY DEF InOrder
  <2> QED
    BY <2>1, <2>2, MovedIs
<1> QED
  BY <1>1, <1>2

\* A time that is raised to one before it that is later gets no older, and fits.
LEMMA RaisedIs ==
  ASSUME NEW r \in Int, NEW w \in Int, NEW b \in Time, NEW t \in Time, Taken(b, r, w), Taken(t, r, w),
         b.hasMono => t.hasMono
  PROVE  LET u == Raised(b, t) IN
         /\ u \in Time /\ Taken(u, r, w)
         /\ Age(u, r, w) <= Age(t, r, w)
         /\ u = b \/ u = t
         /\ InOrder(b, u)
BY DEF Raised, Time, Taken, Age, InOrder, After, Sub

\* The order of times is transitive.
LEMMA InOrderTransitive ==
  ASSUME NEW s \in Time, NEW t \in Time, NEW u \in Time, InOrder(s, t), InOrder(t, u)
  PROVE  InOrder(s, u)
BY DEF InOrder, Time

\* What clampSends makes of the send times: none is in the future any more, and none got
\* older, or not beyond one floor interval.
LEMMA ClampGood ==
  ASSUME NEW r \in Int, NEW w \in Int, NEW ts, Good(ts, r, w), NEW c, c = Clamp(ts, Clock(r, w))
  PROVE  /\ Good(c, r, w) /\ Len(c) = Len(ts)
         /\ \A i \in DOMAIN ts :
              /\ 0 <= Age(c[i], r, w)
              /\ Age(c[i], r, w) <= Age(ts[i], r, w) \/ Age(c[i], r, w) <= MinSendInterval
         /\ (\A i \in DOMAIN ts : 0 <= Age(ts[i], r, w)) => c = ts
<1> DEFINE at == Clock(r, w)
           n == Len(ts)
<1>1. /\ ts \in Seq(Time) /\ n \in Nat /\ DOMAIN ts = 1 .. n
      /\ \A i \in 1 .. n : ts[i] \in Time /\ Taken(ts[i], r, w)
      /\ \A i, j \in 1 .. n : i < j => InOrder(ts[i], ts[j])
  BY DEF Good
<1>a. \A t \in Time : Age(t, r, w) \in Int
  BY DEF Time, Age
<1>m. MinSendInterval \in Nat
  BY SendPathAssumption DEF SendPathAssumption
<1>f. \A t \in Time : After(t, at) <=> ~(0 <= Age(t, r, w))
  <2>1. \A t \in Time : (After(t, at) <=> Age(t, r, w) < 0) /\ Age(t, r, w) \in Int
    BY <1>a, ClockIs
  <2> HIDE DEF at
  <2> QED
    BY <2>1
<1>2. CASE ~ \E i \in DOMAIN ts : After(ts[i], at)
  <2>1. c = ts
    BY <1>1, <1>2, ClampIs
  <2>2. \A i \in 1 .. n : 0 <= Age(ts[i], r, w)
    BY <1>1, <1>2, <1>f
  <2> QED
    BY <1>1, <1>a, <2>1, <2>2
<1>3. CASE \E i \in DOMAIN ts : After(ts[i], at)
  <2>1. IsClamped(c, ts, at, n)
    BY <1>1, <1>3, ClampIs
  <2> DEFINE Mv(i) == Moved(ts[i], at)
             Holds(i) == /\ c[i] \in Time /\ Taken(c[i], r, w)
                         /\ Age(c[i], r, w) >= 0
                         /\ Age(c[i], r, w) <= Age(Mv(i), r, w)
                         /\ c[i].hasMono => Mv(i).hasMono
                         /\ \A j \in 1 .. i - 1 : InOrder(c[j], c[i])
  <2>2. \A i \in 1 .. n : c[i] = IF i > 1 THEN Raised(c[i - 1], Mv(i)) ELSE Mv(i)
    BY <2>1 DEF IsClamped
  <2>3. \A i \in 1 .. n : /\ Mv(i) \in Time /\ Taken(Mv(i), r, w)
                          /\ Age(Mv(i), r, w) = IF Age(ts[i], r, w) < 0 THEN MinSendInterval ELSE Age(ts[i], r, w)
    BY <1>1, MovedIs
  <2>4. \A i, j \in 1 .. n : i < j => (Mv(i).hasMono => Mv(j).hasMono)
    BY <1>1, MovedInOrder
  <2>5. \A i \in 1 .. n : Age(Mv(i), r, w) >= 0 /\ Age(Mv(i), r, w) \in Int
    BY <1>1, <1>a, <1>m, <2>3
  <2> HIDE DEF Mv, at
  <2> DEFINE S == {k \in 0 .. n : \A i \in 1 .. k : Holds(i)}
  <2>6. 0 \in S
    BY <1>1
  <2>7. ASSUME NEW k \in 0 .. n - 1, k \in S
        PROVE  k + 1 \in S
    <3> DEFINE i == k + 1
    <3>0. i \in 1 .. n /\ k \in 0 .. n /\ i \in 0 .. n /\ i - 1 = k
      BY <1>1
    <3>1. CASE k = 0
      <4>1. c[i] = Mv(i) /\ \A j \in 1 .. i - 1 : FALSE
        BY <2>2, <3>0, <3>1
      <4>2. /\ Mv(i) \in Time /\ Taken(Mv(i), r, w)
            /\ Age(Mv(i), r, w) >= 0 /\ Age(Mv(i), r, w) <= Age(Mv(i), r, w)
        BY <2>3, <2>5, <3>0
      <4>3. \A j \in 1 .. i - 1 : InOrder(c[j], c[i])
        BY <4>1
      <4>4. Holds(i)
        BY <4>1, <4>2, <4>3
      <4> QED
        BY <3>0, <3>1, <4>4
    <3>2. CASE k # 0
      <4>1. k \in 1 .. n /\ k < i /\ Holds(k)
        BY <2>7, <3>0, <3>2
      <4>2. c[i] = Raised(c[k], Mv(i))
        BY <2>2, <3>0, <3>2
      <4>3. c[k].hasMono => Mv(i).hasMono
        BY <2>4, <3>0, <4>1
      <4>4. /\ c[i] \in Time /\ Taken(c[i], r, w)
            /\ Age(c[i], r, w) <= Age(Mv(i), r, w)
            /\ c[i] = c[k] \/ c[i] = Mv(i)
            /\ InOrder(c[k], c[i])
        BY <2>3, <3>0, <4>1, <4>2, <4>3, RaisedIs
      <4>5. Age(c[i], r, w) >= 0 /\ (c[i].hasMono => Mv(i).hasMono)
        BY <2>5, <3>0, <4>1, <4>3, <4>4
      <4>6. ASSUME NEW j \in 1 .. i - 1
            PROVE  InOrder(c[j], c[i])
        <5>1. CASE j = k
          BY <4>4, <5>1
        <5>2. CASE j # k
          <6>1. j \in 1 .. k - 1 /\ j \in 1 .. k
            BY <3>0, <5>2
          <6>2. c[j] \in Time /\ InOrder(c[j], c[k])
            BY <2>7, <4>1, <6>1
          <6> QED
            BY <4>1, <4>4, <6>2, InOrderTransitive
        <5> QED
          BY <5>1, <5>2
      <4>7. Holds(i)
        BY <4>4, <4>5, <4>6
      <4>8. \A j \in 1 .. i : j \in 1 .. k \/ j = i
        BY <3>0
      <4> HIDE DEF Holds
      <4> QED
        BY <2>7, <3>0, <4>7, <4>8
    <3> QED
      BY <3>1, <3>2
  <2>8. \A i \in 1 .. n : Holds(i)
    <3>1. 0 .. n \subseteq S
      <4> HIDE DEF S
      <4> QED
        BY <1>1, <2>6, <2>7, Induction
    <3>2. n \in S
      BY <1>1, <3>1
    <3> QED
      BY <3>2
  <2>9. DOMAIN c = 1 .. n
    BY <2>1 DEF IsClamped
  <2>10. c \in Seq(Time) /\ Len(c) = n
    <3>1. c \in [1 .. n -> Time]
      <4>1. c = [i \in 1 .. n |-> c[i]]
        BY <2>1 DEF IsClamped
      <4> QED
        BY <2>8, <4>1
    <3> QED
      BY <1>1, <3>1
  <2>11. Good(c, r, w)
    <3>1. \A i, j \in 1 .. n : i < j => i \in 1 .. j - 1
      BY <1>1
    <3> QED
      BY <2>8, <2>9, <2>10, <3>1 DEF Good
  <2>12. ~ \A i \in DOMAIN ts : 0 <= Age(ts[i], r, w)
    BY <1>1, <1>3, <1>f
  <2>13. \A i \in 1 .. n : /\ 0 <= Age(c[i], r, w)
                           /\ Age(c[i], r, w) <= Age(ts[i], r, w) \/ Age(c[i], r, w) <= MinSendInterval
    BY <1>1, <1>a, <1>m, <2>3, <2>8
  <2> QED
    BY <1>1, <2>10, <2>11, <2>12, <2>13
<1> QED
  BY <1>2, <1>3

-----------------------------------------------------------------------------
(* backstopAllows and the hand-offs of the window *)

\* backstopAllows keeps those of clampSends that are in the window, in their order.
LEMMA RecentIs ==
  ASSUME NEW r \in Int, NEW w \in Int, NEW ts, Good(ts, r, w),
         NEW c, c = Clamp(ts, Clock(r, w)), NEW k, k = Recent(ts, Clock(r, w))
  PROVE  /\ Good(k, r, w)
         /\ \E g \in [DOMAIN k -> DOMAIN c] :
              /\ \A i \in DOMAIN k : k[i] = c[g[i]] /\ Age(c[g[i]], r, w) < SendWindow
              /\ \A i, j \in DOMAIN k : i < j => g[i] < g[j]
              /\ \A j \in DOMAIN c : Age(c[j], r, w) < SendWindow => \E i \in DOMAIN k : g[i] = j
<1> DEFINE at == Clock(r, w)
           keep == {i \in DOMAIN c : Sub(at, c[i]) < SendWindow}
           g == Ordered(keep, Increasing(keep))
           n == Len(c)
<1>1. /\ Good(c, r, w) /\ c \in Seq(Time) /\ n \in Nat /\ DOMAIN c = 1 .. n
      /\ \A i \in 1 .. n : c[i] \in Time /\ Taken(c[i], r, w)
      /\ \A i, j \in 1 .. n : i < j => InOrder(c[i], c[j])
  <2>1. Good(c, r, w)
    BY ClampGood
  <2> QED
    BY <2>1 DEF Good
<1>2. \A i \in 1 .. n : i \in keep <=> Age(c[i], r, w) < SendWindow
  BY <1>1, ClockIs
<1>3. k = [i \in DOMAIN g |-> c[g[i]]]
  BY DEF Recent
<1>4. keep \in SUBSET (1 .. n)
  BY <1>1
<1> HIDE DEF keep
<1>5. /\ Cardinality(keep) \in Nat /\ g = [i \in 1 .. Cardinality(keep) |-> g[i]]
      /\ \A i \in DOMAIN g : g[i] \in keep
      /\ \A x \in keep : \E i \in DOMAIN g : g[i] = x
      /\ \A i, j \in DOMAIN g : i < j => g[i] < g[j]
  <2> HIDE DEF n
  <2> QED
    BY <1>1, <1>4, OrderedNumbers
<1> HIDE DEF g, n
<1>g. DOMAIN g = 1 .. Cardinality(keep) /\ g = [i \in DOMAIN g |-> g[i]]
  BY <1>5
<1>6. DOMAIN k = DOMAIN g /\ \A i \in DOMAIN k : k[i] = c[g[i]] /\ g[i] \in 1 .. n /\ g[i] \in keep
  BY <1>3, <1>4, <1>5, <1>g
<1>7. k \in Seq(Time)
  <2>1. k \in [1 .. Cardinality(keep) -> Time]
    <3>1. \A i \in DOMAIN g : c[g[i]] \in Time
      BY <1>1, <1>6
    <3> QED
      BY <1>3, <1>g, <3>1
  <2> DEFINE q == Cardinality(keep)
  <2> HIDE DEF q
  <2>2. q \in Nat /\ k \in [1 .. q -> Time]
    BY <1>5, <2>1 DEF q
  <2> QED
    BY <2>2
<1>8. Good(k, r, w)
  <2>1. \A i, j \in DOMAIN k : i < j => InOrder(k[i], k[j])
    BY <1>1, <1>5, <1>6
  <2>2. \A i \in DOMAIN k : Taken(k[i], r, w)
    BY <1>1, <1>6
  <2> QED
    BY <1>7, <2>1, <2>2 DEF Good
<1>9. g \in [DOMAIN k -> DOMAIN c]
  BY <1>1, <1>6, <1>g
<1>10. \A i \in DOMAIN k : k[i] = c[g[i]] /\ Age(c[g[i]], r, w) < SendWindow
  BY <1>2, <1>6
<1>11. \A i, j \in DOMAIN k : i < j => g[i] < g[j]
  BY <1>5, <1>6
<1>12. \A j \in DOMAIN c : Age(c[j], r, w) < SendWindow => \E i \in DOMAIN k : g[i] = j
  BY <1>1, <1>2, <1>5, <1>6
<1> QED
  BY <1>8, <1>9, <1>10, <1>11, <1>12

\* The hand-offs of the last window, less z.
Latest(H, r, z) == {i \in DOMAIN H : r - H[i].at < SendWindow - z}

\* Each of them has a send time of its own, at most z older than it is.
Backs(f, H, ts, r, w, z) ==
  /\ f \in [Latest(H, r, z) -> DOMAIN ts]
  /\ \A i, j \in Latest(H, r, z) : f[i] = f[j] => i = j
  /\ \A i \in Latest(H, r, z) : Age(ts[f[i]], r, w) <= (r - H[i].at) + z

HandOffs == Seq([id : Ids, at : Int])

\* What a list of hand-offs holds.
LEMMA HandOffTimes ==
  ASSUME NEW H \in HandOffs
  PROVE  /\ Len(H) \in Nat /\ DOMAIN H = 1 .. Len(H)
         /\ \A i \in DOMAIN H : H[i].id \in Ids /\ H[i].at \in Int
<1> DEFINE R == [id : Ids, at : Int]
<1>1. H \in Seq(R)
  BY DEF HandOffs
<1>2. \A x \in R : x.id \in Ids /\ x.at \in Int
  OBVIOUS
<1> HIDE DEF R
<1> QED
  BY <1>1, <1>2

\* What clampSends leaves backs the hand-offs too.
LEMMA ClampBacks ==
  ASSUME NEW r \in Int, NEW w \in Int, NEW ts, Good(ts, r, w), NEW c, c = Clamp(ts, Clock(r, w)),
         NEW H \in HandOffs, \A i \in DOMAIN H : H[i].at <= r,
         NEW z \in Nat, z = MinSendInterval \/ \A i \in DOMAIN ts : 0 <= Age(ts[i], r, w),
         NEW f, Backs(f, H, ts, r, w, z)
  PROVE  Backs(f, H, c, r, w, z)
<1> DEFINE L == Latest(H, r, z)
<1>1. \A i \in DOMAIN H : H[i].at \in Int
  BY HandOffTimes
<1>2. \A t \in Time : Age(t, r, w) \in Int
  BY DEF Time, Age
<1>3. MinSendInterval \in Nat
  BY SendPathAssumption DEF SendPathAssumption
<1>4. /\ Good(c, r, w) /\ Len(c) = Len(ts)
      /\ \A i \in DOMAIN ts :
           /\ 0 <= Age(c[i], r, w)
           /\ Age(c[i], r, w) <= Age(ts[i], r, w) \/ Age(c[i], r, w) <= MinSendInterval
      /\ (\A i \in DOMAIN ts : 0 <= Age(ts[i], r, w)) => c = ts
  BY ClampGood
<1>5. DOMAIN c = DOMAIN ts /\ \A i \in DOMAIN ts : c[i] \in Time /\ ts[i] \in Time
  BY <1>4 DEF Good
<1>6. ASSUME NEW i \in L
      PROVE  Age(c[f[i]], r, w) <= (r - H[i].at) + z
  <2>1. f[i] \in DOMAIN ts /\ Age(ts[f[i]], r, w) <= (r - H[i].at) + z /\ i \in DOMAIN H
    BY DEF Backs, Latest
  <2>2. CASE \A j \in DOMAIN ts : 0 <= Age(ts[j], r, w)
    BY <1>4, <2>1, <2>2
  <2>3. CASE z = MinSendInterval
    <3> DEFINE a == Age(c[f[i]], r, w)
               b == Age(ts[f[i]], r, w)
               h == H[i].at
    <3>1. a \in Int /\ b \in Int /\ h \in Int /\ h <= r
      BY <1>1, <1>2, <1>5, <2>1
    <3>2. a <= b \/ a <= MinSendInterval
      BY <1>4, <2>1
    <3>3. b <= (r - h) + z
      BY <2>1
    <3> HIDE DEF a, b, h
    <3>4. a <= (r - h) + z
      BY <1>3, <2>3, <3>1, <3>2, <3>3
    <3> QED
      BY <3>4 DEF a, h
  <2> QED
    BY <2>2, <2>3
<1> QED
  BY <1>5, <1>6 DEF Backs

\* So does what backstopAllows leaves.
LEMMA RecentBacks ==
  ASSUME NEW r \in Int, NEW w \in Int, NEW ts, Good(ts, r, w), NEW k, k = Recent(ts, Clock(r, w)),
         NEW H \in HandOffs, \A i \in DOMAIN H : H[i].at <= r,
         NEW z \in Nat, z = MinSendInterval \/ \A i \in DOMAIN ts : 0 <= Age(ts[i], r, w),
         NEW f, Backs(f, H, ts, r, w, z)
  PROVE  \E e : Backs(e, H, k, r, w, z)
<1> DEFINE L == Latest(H, r, z)
           c == Clamp(ts, Clock(r, w))
<1>1. Backs(f, H, c, r, w, z)
  BY ClampBacks
<1>2. PICK g \in [DOMAIN k -> DOMAIN c] :
              /\ \A i \in DOMAIN k : k[i] = c[g[i]] /\ Age(c[g[i]], r, w) < SendWindow
              /\ \A i, j \in DOMAIN k : i < j => g[i] < g[j]
              /\ \A j \in DOMAIN c : Age(c[j], r, w) < SendWindow => \E i \in DOMAIN k : g[i] = j
  BY RecentIs
<1>3. \A i \in DOMAIN c : Age(c[i], r, w) \in Int
  <2>1. \A t \in Time : Age(t, r, w) \in Int
    BY DEF Time, Age
  <2>2. Good(c, r, w)
    BY ClampGood
  <2> QED
    BY <2>1, <2>2 DEF Good
<1> HIDE DEF c
<1> DEFINE e == [i \in L |-> CHOOSE q \in DOMAIN k : g[q] = f[i]]
<1>4. ASSUME NEW i \in L
      PROVE  e[i] \in DOMAIN k /\ g[e[i]] = f[i]
  <2>1. f[i] \in DOMAIN c /\ Age(c[f[i]], r, w) <= (r - H[i].at) + z /\ i \in DOMAIN H
        /\ r - H[i].at < SendWindow - z
    BY <1>1 DEF Backs, Latest
  <2>2. Age(c[f[i]], r, w) < SendWindow
    <3> DEFINE a == Age(c[f[i]], r, w)
               h == H[i].at
    <3>1. a \in Int /\ h \in Int /\ z \in Int /\ SendWindow \in Int
      BY <1>3, <2>1, HandOffTimes, SendPathAssumption DEF SendPathAssumption
    <3>2. a <= (r - h) + z /\ r - h < SendWindow - z
      BY <2>1
    <3> HIDE DEF a, h
    <3>3. a < SendWindow
      BY <3>1, <3>2
    <3> QED
      BY <3>3 DEF a
  <2>3. \E q \in DOMAIN k : g[q] = f[i]
    BY <1>2, <2>1, <2>2
  <2> QED
    BY <2>3
<1>5. e \in [L -> DOMAIN k]
  BY <1>4
<1> HIDE DEF e
<1>6. \A i, j \in L : e[i] = e[j] => i = j
  BY <1>1, <1>4 DEF Backs
<1>7. \A i \in L : Age(k[e[i]], r, w) <= (r - H[i].at) + z
  <2>1. ASSUME NEW i \in L
        PROVE  k[e[i]] = c[f[i]]
    BY <1>2, <1>4
  <2> QED
    BY <1>1, <2>1 DEF Backs
<1>8. Backs(e, H, k, r, w, z)
  BY <1>5, <1>6, <1>7 DEF Backs
<1> QED
  BY <1>8

\* f, for the hand-offs of a later window.
Carried(f, H, q, z) == [i \in Latest(H, q, z) |-> f[i]]

\* Time goes on, or the wall clock back: what backs the hand-offs goes on to.
LEMMA LaterBacks ==
  ASSUME NEW r \in Int, NEW w \in Int, NEW q \in Int, NEW v \in Int, r <= q, v - w <= q - r,
         NEW ts \in Seq(Time), NEW H \in HandOffs,
         NEW y \in Nat, NEW z \in Nat, y <= z,
         NEW f, Backs(f, H, ts, r, w, y)
  PROVE  /\ Latest(H, q, z) \subseteq Latest(H, r, y)
         /\ Backs(Carried(f, H, q, z), H, ts, q, v, z)
<1> DEFINE L == Latest(H, q, z)
           e == [i \in L |-> f[i]]
<1>1. SendWindow \in Int /\ \A i \in DOMAIN H : H[i].at \in Int
  BY HandOffTimes, SendPathAssumption DEF SendPathAssumption
<1>2. L \subseteq Latest(H, r, y)
  BY <1>1 DEF Latest
<1>3. \A i \in L : i \in DOMAIN H
  BY DEF Latest
<1> HIDE DEF L
<1>4. ASSUME NEW i \in L
      PROVE  Age(ts[e[i]], q, v) <= (q - H[i].at) + z
  <2> DEFINE t == ts[f[i]]
             h == H[i].at
  <2>1. e[i] = f[i] /\ f[i] \in DOMAIN ts /\ t \in Time /\ h \in Int
    BY <1>1, <1>2, <1>3 DEF Backs
  <2>2. Age(t, r, w) <= (r - h) + y
    BY <1>2 DEF Backs
  <2> HIDE DEF t, h
  <2>3. Age(t, q, v) <= (q - h) + z
    <3>1. t.hasMono \in BOOLEAN /\ t.mono \in Int /\ t.wall \in Int
      BY <2>1 DEF Time
    <3>2. CASE t.hasMono
      BY <2>1, <2>2, <3>1, <3>2 DEF Age
    <3>3. CASE ~t.hasMono
      BY <2>1, <2>2, <3>1, <3>3 DEF Age
    <3> QED
      BY <3>2, <3>3
  <2> QED
    BY <2>1, <2>3 DEF t, h
<1>5. e \in [L -> DOMAIN ts] /\ \A i, j \in L : e[i] = e[j] => i = j
  BY <1>2 DEF Backs
<1> HIDE DEF e
<1>6. Backs(e, H, ts, q, v, z)
  BY <1>4, <1>5 DEF Backs, L
<1> QED
  BY <1>2, <1>6 DEF L, e, Carried

-----------------------------------------------------------------------------
(* What init finds of them in the store *)

\* Ordered of rows lists them by the time of the send.
LEMMA OrderedRows ==
  ASSUME NEW S \in SUBSET Row, IsFiniteSet(S), \A r \in S : r.dispatched \in Int,
         \A r, s \in S : r.rowid = s.rowid => r = s, NEW k, k = Ordered(S, ByTime(S))
  PROVE  /\ Cardinality(S) \in Nat /\ DOMAIN k = 1 .. Cardinality(S)
         /\ \A i \in DOMAIN k : k[i] \in S
         /\ \A x \in S : \E i \in DOMAIN k : k[i] = x
         /\ \A i, j \in DOMAIN k : i < j => k[i].dispatched <= k[j].dispatched /\ k[i] # k[j]
<1> DEFINE B == ByTime(S)
           Earlier(r, s) == \/ r.dispatched < s.dispatched
                            \/ r.dispatched = s.dispatched /\ r.rowid < s.rowid
<1>1. \A r \in S : r.rowid \in Nat /\ r.dispatched \in Int
  BY DEF Row
<1>2. \A x, y \in S : <<x, y>> \in B <=> Earlier(x, y)
  BY DEF ByTime
<1>3. /\ \A x \in S : <<x, x>> \notin B
      /\ \A x, y \in S : x # y => <<x, y>> \in B \/ <<y, x>> \in B
      /\ \A x, y, z \in S : <<x, y>> \in B /\ <<y, z>> \in B => <<x, z>> \in B
  <2>1. \A x \in S : ~Earlier(x, x)
    BY <1>1
  <2>2. \A x, y \in S : x # y => Earlier(x, y) \/ Earlier(y, x)
    BY <1>1
  <2>3. \A x, y, z \in S : Earlier(x, y) /\ Earlier(y, z) => Earlier(x, z)
    BY <1>1
  <2> HIDE DEF B, Earlier
  <2> QED
    BY <1>2, <2>1, <2>2, <2>3
<1>4. /\ Cardinality(S) \in Nat /\ k = [i \in 1 .. Cardinality(S) |-> k[i]]
      /\ \A i \in 1 .. Cardinality(S) : k[i] \in S
      /\ \A x \in S : \E i \in 1 .. Cardinality(S) : k[i] = x
      /\ \A i, j \in 1 .. Cardinality(S) : i < j => <<k[i], k[j]>> \in B
  BY <1>3, Ranks
<1> HIDE DEF B
<1>5. DOMAIN k = 1 .. Cardinality(S)
  BY <1>4
<1>6. ASSUME NEW i \in DOMAIN k, NEW j \in DOMAIN k, i < j
      PROVE  k[i].dispatched <= k[j].dispatched /\ k[i] # k[j]
  <2>1. Earlier(k[i], k[j]) /\ k[i] \in S /\ k[j] \in S
    BY <1>2, <1>4, <1>5, <1>6
  <2> QED
    BY <1>1, <2>1
<1> QED
  BY <1>4, <1>5, <1>6

\* The rows RecentSends reads, and the result.
Found(since) == {r \in rows : r.dispatched # Null /\ r.dispatched > since}

\* RecentSends lists the times of these rows in order.
LEMMA RecentSendsIs ==
  ASSUME NEW since \in Int, rows \subseteq Row, IsFiniteSet(rows), \A r, s \in rows : r.rowid = s.rowid => r = s
  PROVE  \E k :
           /\ RecentSends(since) = [i \in DOMAIN k |-> FromStore(k[i].dispatched)]
           /\ Cardinality(Found(since)) \in Nat /\ DOMAIN k = 1 .. Cardinality(Found(since))
           /\ \A i \in DOMAIN k : k[i] \in Found(since) /\ k[i].dispatched \in Int
           /\ \A x \in Found(since) : \E i \in DOMAIN k : k[i] = x
           /\ \A i, j \in DOMAIN k : i < j => k[i].dispatched <= k[j].dispatched /\ k[i] # k[j]
<1> DEFINE S == Found(since)
           k == Ordered(S, ByTime(S))
<1>1. S \in SUBSET Row /\ S \in SUBSET rows
  BY DEF Found
<1>2. \A r \in S : r.dispatched \in Int
  BY <1>1 DEF Found, Row
<1>3. IsFiniteSet(S)
  BY <1>1, FS_Subset
<1>4. RecentSends(since) = [i \in DOMAIN k |-> FromStore(k[i].dispatched)]
  BY Zenon DEF RecentSends, Found
<1> HIDE DEF S
<1>5. /\ Cardinality(S) \in Nat /\ DOMAIN k = 1 .. Cardinality(S)
      /\ \A i \in DOMAIN k : k[i] \in S
      /\ \A x \in S : \E i \in DOMAIN k : k[i] = x
      /\ \A i, j \in DOMAIN k : i < j => k[i].dispatched <= k[j].dispatched /\ k[i] # k[j]
  BY <1>1, <1>2, <1>3, OrderedRows
<1> HIDE DEF k
<1> QED
  BY <1>2, <1>4, <1>5 DEF S

\* What init loads is in order.
LEMMA StoredGood ==
  ASSUME NEW since \in Int, rows \subseteq Row, IsFiniteSet(rows), \A r, s \in rows : r.rowid = s.rowid => r = s,
         NEW r \in Int, NEW w \in Int
  PROVE  /\ Good(RecentSends(since), r, w)
         /\ \A i \in DOMAIN RecentSends(since) :
              \E x \in rows : x.dispatched # Null /\ RecentSends(since)[i] = FromStore(x.dispatched)
<1> DEFINE ts == RecentSends(since)
           N == Cardinality(Found(since))
<1>1. PICK k :
           /\ ts = [i \in DOMAIN k |-> FromStore(k[i].dispatched)]
           /\ N \in Nat /\ DOMAIN k = 1 .. N
           /\ \A i \in DOMAIN k : k[i] \in Found(since) /\ k[i].dispatched \in Int
           /\ \A i, j \in DOMAIN k : i < j => k[i].dispatched <= k[j].dispatched
  BY RecentSendsIs
<1> HIDE DEF ts, N
<1>2. /\ DOMAIN ts = 1 .. N /\ DOMAIN k = 1 .. N
      /\ \A i \in 1 .. N : /\ ts[i] = [wall |-> k[i].dispatched, mono |-> 0, hasMono |-> FALSE]
                           /\ ts[i] = FromStore(k[i].dispatched)
  BY <1>1 DEF FromStore
<1>3. \A i \in 1 .. N : ts[i] \in Time
  <2>1. \A d \in Int : [wall |-> d, mono |-> 0, hasMono |-> FALSE] \in Time
    BY DEF Time
  <2>2. \A i \in 1 .. N : k[i].dispatched \in Int
    BY <1>1, <1>2
  <2> QED
    BY <1>2, <2>1, <2>2
<1>4. ts \in Seq(Time)
  <2>1. ts \in [1 .. N -> Time]
    BY <1>1, <1>2, <1>3
  <2> QED
    BY <1>1, <2>1
<1>5. \A i \in DOMAIN ts : Taken(ts[i], r, w)
  BY <1>2 DEF Taken
<1>6. \A i, j \in DOMAIN ts : i < j => InOrder(ts[i], ts[j])
  <2> SUFFICES ASSUME NEW i \in 1 .. N, NEW j \in 1 .. N, i < j
               PROVE  InOrder(ts[i], ts[j])
    BY <1>2
  <2>1. ~ts[i].hasMono /\ ~ts[j].hasMono /\ ts[i].wall = k[i].dispatched /\ ts[j].wall = k[j].dispatched
    BY <1>2
  <2>2. k[i].dispatched <= k[j].dispatched
    BY <1>1, <1>2
  <2> QED
    BY <2>1, <2>2 DEF InOrder
<1>7. \A i \in DOMAIN ts : \E x \in rows : x.dispatched # Null /\ ts[i] = FromStore(x.dispatched)
  BY <1>1, <1>2 DEF Found
<1> QED
  BY <1>4, <1>5, <1>6, <1>7 DEF Good, ts

\* What init loads backs every hand-off of the last window, if each left a row.
LEMMA StoredBacks ==
  ASSUME rows \subseteq Row, IsFiniteSet(rows), \A r, s \in rows : r.rowid = s.rowid => r = s,
         real \in Int, wall \in Int, handoffs \in HandOffs,
         \A i, j \in DOMAIN handoffs : handoffs[i].id = handoffs[j].id => i = j,
         \A i \in DOMAIN handoffs : \E x \in rows :
           x.id = handoffs[i].id /\ x.dispatched \in Int /\ wall - x.dispatched <= real - handoffs[i].at,
         NEW z \in Nat
  PROVE  \E f : Backs(f, handoffs, RecentSends(wall - SendWindow), real, wall, z)
<1> DEFINE since == wall - SendWindow
           ts == RecentSends(since)
           N == Cardinality(Found(since))
           L == Latest(handoffs, real, z)
<1>0. SendWindow \in Nat /\ since \in Int /\ Null \notin Int
  BY SendPathAssumption DEF SendPathAssumption
<1> HIDE DEF since
<1>1. PICK k :
           /\ ts = [i \in DOMAIN k |-> FromStore(k[i].dispatched)]
           /\ N \in Nat /\ DOMAIN k = 1 .. N
           /\ \A i \in DOMAIN k : k[i] \in Found(since) /\ k[i].dispatched \in Int
           /\ \A x \in Found(since) : \E i \in DOMAIN k : k[i] = x
           /\ \A i, j \in DOMAIN k : i < j => k[i].dispatched <= k[j].dispatched
  BY <1>0, RecentSendsIs
<1> HIDE DEF ts, N
<1> DEFINE Of(i) == {n \in DOMAIN ts : k[n].id = handoffs[i].id /\ wall - k[n].dispatched <= real - handoffs[i].at}
           f == [i \in L |-> CHOOSE n \in DOMAIN ts : n \in Of(i)]
<1>2. ASSUME NEW i \in L
      PROVE  f[i] \in Of(i)
  <2>1. i \in DOMAIN handoffs /\ real - handoffs[i].at < SendWindow - z
    BY DEF Latest
  <2>2. PICK x \in rows : x.id = handoffs[i].id /\ x.dispatched \in Int /\ wall - x.dispatched <= real - handoffs[i].at
    BY <2>1
  <2>3. handoffs[i].at \in Int
    BY <2>1, HandOffTimes
  <2>4. x.dispatched > since
    BY <1>0, <2>1, <2>2, <2>3 DEF since
  <2>5. x \in Found(since)
    BY <1>0, <2>2, <2>4 DEF Found
  <2>6. PICK n \in DOMAIN k : k[n] = x
    BY <1>1, <2>5
  <2>7. n \in Of(i)
    BY <1>1, <2>2, <2>6
  <2> QED
    BY <2>7
<1>3. f \in [L -> DOMAIN ts]
  BY <1>2
<1> HIDE DEF f
<1>4. \A i, j \in L : f[i] = f[j] => i = j
  BY <1>2 DEF Latest
<1>5. \A i \in L : Age(ts[f[i]], real, wall) <= (real - handoffs[i].at) + z
  <2> SUFFICES ASSUME NEW i \in L
               PROVE  Age(ts[f[i]], real, wall) <= (real - handoffs[i].at) + z
    OBVIOUS
  <2>1. f[i] \in DOMAIN k /\ wall - k[f[i]].dispatched <= real - handoffs[i].at /\ i \in DOMAIN handoffs
    BY <1>1, <1>2 DEF Latest
  <2>2. ts[f[i]] = FromStore(k[f[i]].dispatched) /\ k[f[i]].dispatched \in Int
    BY <1>1, <2>1
  <2>3. Age(ts[f[i]], real, wall) = wall - k[f[i]].dispatched
    BY <2>2 DEF FromStore, Age
  <2>4. handoffs[i].at \in Int
    BY <2>1, HandOffTimes
  <2> DEFINE a == k[f[i]].dispatched
             h == handoffs[i].at
  <2>5. a \in Int /\ h \in Int /\ wall - a <= real - h
    BY <2>1, <2>2, <2>4
  <2> HIDE DEF a, h
  <2>6. wall - a <= (real - h) + z
    BY <2>5
  <2> QED
    BY <2>3, <2>6 DEF a, h
<1>6. Backs(f, handoffs, ts, real, wall, z)
  BY <1>3, <1>4, <1>5 DEF Backs
<1> QED
  BY <1>6 DEF ts, since

-----------------------------------------------------------------------------
(* Why the rate holds *)

\* What clampSends may take off the window.
Slack == IF skew.at = Null THEN 0 ELSE MinSendInterval

\* The steps after backstopAllows has said yes, and those after recordSend.
Cleared == {"insert", "prune", "prepare", "upload", "record"}
Handing == {"mark", "handoff"}

\* Commands run while the process does; a clock set back is noted.
UpInv ==
  /\ \A c \in Cmds : Running(c) => up
  /\ skew.at = Null => skew.noticed

\* While the clock was not set back the send times are the older the earlier they come.
Aged(ts, r, w) ==
  /\ \A i \in DOMAIN ts : 0 <= Age(ts[i], r, w)
  /\ \A i, j \in DOMAIN ts : i < j => Age(ts[j], r, w) <= Age(ts[i], r, w)

SendsInv ==
  up => /\ Good(sends, real, wall)
        /\ skew.at = Null => Aged(sends, real, wall)

\* The hand-offs are in order; the time of the next is the last of the send times.
TimesInv ==
  /\ \A i \in DOMAIN handoffs : handoffs[i].at <= real
  /\ \A i, j \in DOMAIN handoffs : i < j => handoffs[i].at <= handoffs[j].at
  /\ \A c \in Cmds : pc[c] \in Handing =>
       /\ sends # <<>> /\ sends[Len(sends)] = now[c] /\ now[c].hasMono
       /\ \A i \in DOMAIN handoffs : handoffs[i].at <= now[c].mono
       /\ skew.at = Null => now[c].wall <= wall

\* What a restart finds of the hand-offs: their rows, no older than they are.
Dispatched(x, at) == x.dispatched \in Int /\ wall - x.dispatched <= real - at

StoredInv ==
  /\ \A i \in DOMAIN handoffs : \A x \in rows : x.id = handoffs[i].id => Dispatched(x, handoffs[i].at)
  /\ \A c \in Cmds : pc[c] = "handoff" => \A x \in rows : x.id = outbox[c] => Dispatched(x, now[c].mono)
  /\ skew.at = Null => \A x \in rows : x.dispatched # Null => x.dispatched <= wall

\* The hand-offs of the last window have their send times, which the next has not.
Backing(f) ==
  /\ Backs(f, handoffs, sends, real, wall, Slack)
  /\ (\E c \in Cmds : pc[c] \in Handing) => \A i \in Latest(handoffs, real, Slack) : f[i] # Len(sends)

BackInv == up => \E f : Backing(f)

\* A hand-off at t would keep the limits.
Spaced(t) ==
  /\ Len(handoffs) >= MaxSendsInWindow =>
       t - handoffs[Len(handoffs) - MaxSendsInWindow + 1].at >= SendWindow - Slack
  /\ skew.at = Null /\ Len(handoffs) > 0 => t - handoffs[Len(handoffs)].at >= MinSendInterval

SpaceInv ==
  \A c \in Cmds : /\ pc[c] \in Cleared => Spaced(real)
                  /\ pc[c] \in Handing => Spaced(now[c].mono)

PaceInv ==
  \A i, j \in DOMAIN handoffs :
    /\ j - i = MaxSendsInWindow => handoffs[j].at - handoffs[i].at >= SendWindow - Slack
    /\ skew.at = Null /\ j - i = 1 => handoffs[j].at - handoffs[i].at >= MinSendInterval

RateInv == SendsInv /\ TimesInv /\ StoredInv /\ BackInv /\ SpaceInv /\ PaceInv

\* What the rate lemmas use of the types.
LEMMA RateTypes ==
  ASSUME TypeOK
  PROVE  /\ real \in Nat /\ real \in Int /\ wall \in Int /\ Now = Clock(real, wall) /\ Now \in Time
         /\ rows \subseteq Row /\ pc \in [Cmds -> Steps] /\ outbox \in [Cmds -> Ids \cup {Null}]
         /\ now \in [Cmds -> Time] /\ handoffs \in HandOffs
         /\ Len(handoffs) \in Nat /\ DOMAIN handoffs = 1 .. Len(handoffs)
         /\ \A i \in DOMAIN handoffs : handoffs[i].id \in Ids /\ handoffs[i].at \in Int
         /\ skew \in [at : Nat \cup {Null}, noticed : BOOLEAN, started : Nat]
         /\ MinSendInterval \in Nat /\ SendWindow \in Nat /\ MinSendInterval <= SendWindow
         /\ MaxSendsInWindow \in Nat \ {0} /\ Null \notin Int /\ Slack \in Nat
<1>1. handoffs \in HandOffs
  BY DEF TypeOK, HandOffs
<1>2. /\ MinSendInterval \in Nat /\ SendWindow \in Nat /\ MinSendInterval <= SendWindow
      /\ MaxSendsInWindow \in Nat \ {0} /\ Null \notin Int
  BY SendPathAssumption DEF SendPathAssumption
<1>3. Slack \in Nat
  BY <1>2 DEF Slack
<1>4. Now = Clock(real, wall)
  BY DEF Now, Clock
<1> QED
  BY <1>1, <1>2, <1>3, <1>4, HandOffTimes, TimeType DEF TypeOK

\* Commands run only in a process.
LEMMA UpStep ==
  ASSUME TypeOK, UpInv, [Next]_vars
  PROVE  UpInv'
<1>0. /\ pc \in [Cmds -> Steps] /\ real # Null /\ real \in Nat
      /\ skew \in [at : Nat \cup {Null}, noticed : BOOLEAN, started : Nat]
  BY RateTypes
<1>1. \A c \in Cmds : Running(c)' => up'
  <2>1. ASSUME NEW c \in Cmds, CommandStep(c) \/ Panic(c)
        PROVE  up' = up /\ Running(c) /\ \A d \in Cmds : d # c => pc'[d] = pc[d]
    BY <1>0, <2>1
    DEF CommandStep, Begin, CheckChat, CheckKnown, CheckBackstop, Insert, Prune, Prepare, Upload,
        RecordSend, Mark, HandOff, Sent, Result, Fail, Discard, Recovered, Panic, PanicSteps, Running, SlotSteps,
        Goto, Proceed, Refuse, Reply, Return, processVars
  <2>2. ASSUME NEW c \in Cmds, CommandStep(c) \/ Panic(c)
        PROVE  \A d \in Cmds : Running(d)' => up'
    BY <2>1, <2>2 DEF UpInv, Running
  <2>3. ASSUME NEW c \in Cmds, NEW k \in Kinds, NEW o \in Ids, Handle(c, k, o)
        PROVE  \A d \in Cmds : Running(d)' => up'
    BY <2>3 DEF Handle, processVars
  <2>4. CASE Crash
    BY <1>0, <2>4 DEF Crash, Running
  <2>5. CASE up' \/ UNCHANGED <<up, pc>>
    BY <2>5 DEF UpInv, Running
  <2> QED
    BY <2>2, <2>3, <2>4, <2>5 DEF Next, Tick, SetClockBack, DoInit, vars, processVars
<1>2. skew'.at = Null => skew'.noticed
  <2>1. skew' = skew \/ skew' = Notice \/ skew' = [Notice EXCEPT !.started = real]
        \/ skew' = [skew EXCEPT !.at = real, !.noticed = FALSE]
    BY DEF Next, CommandStep, Begin, CheckChat, CheckKnown, CheckBackstop, Insert, Prune, Prepare, Upload,
        RecordSend, Mark, HandOff, Sent, Result, Fail, Discard, Recovered, Panic, Handle, Tick, SetClockBack,
        Crash, DoInit, vars, historyVars
  <2>2. Notice \in [at : Nat \cup {Null}, noticed : BOOLEAN, started : Nat] /\ Notice.noticed
    BY <1>0 DEF Notice
  <2>3. CASE skew' = skew
    BY <2>3 DEF UpInv
  <2>4. CASE skew' = Notice \/ skew' = [Notice EXCEPT !.started = real]
    <3> DEFINE s == Notice
    <3> HIDE DEF s
    <3>1. s \in [at : Nat \cup {Null}, noticed : BOOLEAN, started : Nat] /\ s.noticed
          /\ (skew' = s \/ skew' = [s EXCEPT !.started = real])
      BY <2>2, <2>4 DEF s
    <3> QED
      BY <3>1
  <2>5. CASE skew' = [skew EXCEPT !.at = real, !.noticed = FALSE]
    BY <1>0, <2>5
  <2> QED
    BY <2>1, <2>3, <2>4, <2>5
<1> QED
  BY <1>1, <1>2 DEF UpInv

\* Steps that change neither times nor hand-offs.
LEMMA RateQuiet ==
  ASSUME TypeOK, RateInv, UNCHANGED <<real, wall, up, sends, handoffs, skew>>,
         \A c \in Cmds : pc'[c] \in Handing => pc[c] \in Handing /\ now'[c] = now[c],
         \A c \in Cmds : pc'[c] \in Cleared => pc[c] \in Cleared,
         \A c \in Cmds : pc'[c] = "handoff" => pc[c] = "handoff" /\ outbox'[c] = outbox[c],
         \A x \in rows' :
           \/ \E y \in rows : y.id = x.id /\ y.dispatched = x.dispatched
           \/ /\ x.dispatched = Null /\ \A i \in DOMAIN handoffs : handoffs[i].id # x.id
              /\ \A c \in Cmds : pc[c] # "handoff"
  PROVE  RateInv'
<1>0. Slack' = Slack
  BY DEF Slack
<1>1. SendsInv'
  BY DEF RateInv, SendsInv
<1>2. TimesInv'
  BY DEF RateInv, TimesInv
<1>3. StoredInv'
  <2>1. \A i \in DOMAIN handoffs : \A x \in rows' : x.id = handoffs[i].id => Dispatched(x, handoffs[i].at)
    BY DEF RateInv, StoredInv, Dispatched
  <2>2. \A c \in Cmds : pc'[c] = "handoff" => \A x \in rows' : x.id = outbox[c] => Dispatched(x, now[c].mono)
    BY DEF RateInv, StoredInv, Dispatched
  <2>3. \A c \in Cmds : pc'[c] = "handoff" => now'[c] = now[c] /\ outbox'[c] = outbox[c]
    BY DEF Handing
  <2>4. skew.at = Null => \A x \in rows' : x.dispatched # Null => x.dispatched <= wall
    BY DEF RateInv, StoredInv
  <2> QED
    BY <2>1, <2>2, <2>3, <2>4 DEF StoredInv, Dispatched
<1>4. BackInv'
  <2> SUFFICES ASSUME up
               PROVE  BackInv'
    BY DEF BackInv
  <2>1. PICK f : Backing(f)
    BY DEF RateInv, BackInv
  <2>2. Backing(f)'
    BY <1>0, <2>1 DEF Backing
  <2> QED
    BY <2>2 DEF BackInv
<1>5. SpaceInv'
  BY <1>0 DEF RateInv, SpaceInv, Spaced
<1>6. PaceInv'
  BY <1>0 DEF RateInv, PaceInv
<1> QED
  BY <1>1, <1>2, <1>3, <1>4, <1>5, <1>6 DEF RateInv

\* Who holds the slot is alone in it.
LEMMA AloneInSlot ==
  ASSUME OneSlot, TypeOK, NEW c \in Cmds, pc[c] \in SlotSteps, NEW step, Goto(c, step)
  PROVE  /\ pc'[c] = step
         /\ \A d \in Cmds : d # c => /\ pc'[d] = pc[d] /\ pc'[d] \notin SlotSteps
                                     /\ pc'[d] \notin Cleared /\ pc'[d] \notin Handing
         /\ \A d \in Cmds : pc[d] \in Cleared \cup Handing => d = c
<1>1. \A d \in Cmds : d # c => pc[d] \notin SlotSteps
  BY DEF OneSlot
<1>2. Cleared \subseteq SlotSteps /\ Handing \subseteq SlotSteps
  BY DEF Cleared, Handing, SlotSteps
<1> QED
  BY <1>1, <1>2 DEF TypeOK, Goto

\* A time taken in this process stays one when time goes on.
LEMMA TakenLater ==
  ASSUME NEW r \in Int, NEW w \in Int, NEW q \in Int, NEW v \in Int, r <= q, v - w <= q - r,
         NEW t \in Time, Taken(t, r, w)
  PROVE  Taken(t, q, v)
BY DEF Taken, Time

\* Time goes on, and the wall clock with it or not, or back.
LEMMA RateLater ==
  ASSUME TypeOK, RateInv, UNCHANGED <<up, sends, rows, pc, outbox, now, handoffs>>,
         NEW q \in Nat, NEW v \in Int, q = real', v = wall', real <= q, v - wall <= q - real,
         skew'.at = Null => skew.at = Null /\ v - wall = q - real
  PROVE  RateInv'
<1>0. /\ real \in Nat /\ wall \in Int /\ handoffs \in HandOffs
      /\ Len(handoffs) \in Nat /\ DOMAIN handoffs = 1 .. Len(handoffs)
      /\ \A i \in DOMAIN handoffs : handoffs[i].id \in Ids /\ handoffs[i].at \in Int
      /\ MinSendInterval \in Nat /\ SendWindow \in Nat /\ MaxSendsInWindow \in Nat \ {0}
      /\ now \in [Cmds -> Time] /\ rows \subseteq Row
  BY RateTypes
<1>i. real \in Int /\ wall \in Int /\ q \in Int /\ v \in Int
  BY <1>0
<1>s. Slack \in Nat /\ Slack' \in Nat /\ Slack <= Slack'
  <2>1. CASE skew'.at = Null
    <3>1. Slack = 0 /\ Slack' = 0
      BY <2>1 DEF Slack
    <3> QED
      BY <3>1
  <2>2. CASE skew'.at # Null
    <3>1. Slack' = MinSendInterval /\ (Slack = 0 \/ Slack = MinSendInterval)
      BY <2>2 DEF Slack
    <3> QED
      BY <1>0, <3>1
  <2> QED
    BY <2>1, <2>2
<1>1. SendsInv'
  <2> SUFFICES ASSUME up
               PROVE  Good(sends, q, v) /\ (skew'.at = Null => Aged(sends, q, v))
    BY DEF SendsInv
  <2>1. Good(sends, real, wall) /\ (skew.at = Null => Aged(sends, real, wall))
    BY DEF RateInv, SendsInv
  <2>2. sends \in Seq(Time)
    BY <2>1 DEF Good
  <2>3. \A i \in DOMAIN sends : sends[i] \in Time
    BY <2>2
  <2>4. ASSUME NEW t \in Time, Taken(t, real, wall)
        PROVE  Taken(t, q, v)
    BY <1>i, <2>4, TakenLater
  <2>5. Good(sends, q, v)
    BY <2>1, <2>3, <2>4 DEF Good
  <2>6. ASSUME NEW t \in Time, v - wall = q - real
        PROVE  Age(t, q, v) = Age(t, real, wall) + (q - real) /\ Age(t, real, wall) \in Int
    <3>1. t.mono \in Int /\ t.wall \in Int
      BY DEF Time
    <3>2. CASE t.hasMono
      BY <1>0, <3>1, <3>2 DEF Age
    <3>3. CASE ~t.hasMono
      BY <1>0, <2>6, <3>1, <3>3 DEF Age
    <3> QED
      BY <3>2, <3>3
  <2>7. ASSUME skew'.at = Null
        PROVE  Aged(sends, q, v)
    <3>1. \A i \in DOMAIN sends : /\ Age(sends[i], q, v) = Age(sends[i], real, wall) + (q - real)
                                  /\ Age(sends[i], real, wall) \in Int
      BY <2>3, <2>6, <2>7
    <3>2. Aged(sends, real, wall)
      BY <2>1, <2>7
    <3>3. ASSUME NEW i \in DOMAIN sends
          PROVE  0 <= Age(sends[i], q, v)
      BY <1>0, <3>1, <3>2 DEF Aged
    <3>4. ASSUME NEW i \in DOMAIN sends, NEW j \in DOMAIN sends, i < j
          PROVE  Age(sends[j], q, v) <= Age(sends[i], q, v)
      <4>1. Age(sends[j], real, wall) <= Age(sends[i], real, wall)
        BY <3>2, <3>4 DEF Aged
      <4> QED
        BY <1>i, <3>1, <4>1
    <3> QED
      BY <3>3, <3>4 DEF Aged
  <2> QED
    BY <2>5, <2>7
<1>2. TimesInv'
  <2>1. \A i \in DOMAIN handoffs : handoffs[i].at <= q
    BY <1>0 DEF RateInv, TimesInv
  <2>2. \A c \in Cmds : now[c].wall \in Int
    BY <1>0 DEF Time
  <2>3. \A c \in Cmds : pc[c] \in Handing /\ skew'.at = Null => now[c].wall <= v
    BY <1>0, <2>2 DEF RateInv, TimesInv
  <2> QED
    BY <2>1, <2>3 DEF RateInv, TimesInv
<1>3. StoredInv'
  <2>1. ASSUME NEW x, NEW at \in Int, Dispatched(x, at)
        PROVE  Dispatched(x, at)'
    BY <1>i, <2>1 DEF Dispatched
  <2>2. \A c \in Cmds : now[c].mono \in Int
    BY <1>0 DEF Time
  <2>3. ASSUME NEW x \in rows, x.dispatched # Null, skew'.at = Null
        PROVE  x.dispatched <= v
    <3>1. x.dispatched \in Int /\ x.dispatched <= wall
      BY <1>0, <2>3 DEF Row, RateInv, StoredInv
    <3> QED
      BY <1>0, <2>3, <3>1
  <2>4. /\ \A i \in DOMAIN handoffs : \A x \in rows : x.id = handoffs[i].id => Dispatched(x, handoffs[i].at)
        /\ \A c \in Cmds : pc[c] = "handoff" => \A x \in rows : x.id = outbox[c] => Dispatched(x, now[c].mono)
    BY DEF RateInv, StoredInv
  <2>5. \A i \in DOMAIN handoffs : \A x \in rows : x.id = handoffs[i].id => Dispatched(x, handoffs[i].at)'
    BY <1>0, <2>1, <2>4
  <2>6. \A c \in Cmds : pc[c] = "handoff" => \A x \in rows : x.id = outbox[c] => Dispatched(x, now[c].mono)'
    BY <2>1, <2>2, <2>4
  <2>7. /\ \A i \in DOMAIN handoffs' : \A x \in rows' : x.id = handoffs[i].id' => Dispatched(x, handoffs[i].at)'
        /\ \A c \in Cmds : pc'[c] = "handoff" => \A x \in rows' : x.id = outbox'[c] => Dispatched(x, now[c].mono)'
    BY <2>5, <2>6
  <2> QED
    BY <2>3, <2>7 DEF StoredInv
<1>4. BackInv'
  <2> SUFFICES ASSUME up
               PROVE  \E e : Backing(e)'
    BY DEF BackInv
  <2>1. PICK f : Backing(f)
    BY DEF RateInv, BackInv
  <2> DEFINE L == Latest(handoffs, q, Slack')
  <2>2. sends \in Seq(Time)
    BY DEF RateInv, SendsInv, Good
  <2> DEFINE e == Carried(f, handoffs, q, Slack')
  <2>3. Backs(e, handoffs, sends, q, v, Slack') /\ L \subseteq Latest(handoffs, real, Slack)
    <3> DEFINE z == Slack'
               y == Slack
               r0 == real
               w0 == wall
               H == handoffs
               ts == sends
    <3>1. q \in Int /\ v \in Int /\ z \in Nat /\ y \in Nat /\ y <= z /\ r0 <= q /\ v - w0 <= q - r0
          /\ r0 \in Int /\ w0 \in Int /\ H \in HandOffs /\ ts \in Seq(Time)
      BY <1>0, <1>i, <1>s, <2>2
    <3>2. Backs(f, H, ts, r0, w0, y)
      BY <2>1 DEF Backing
    <3> HIDE DEF z, y, r0, w0, H, ts
    <3>3. Latest(H, q, z) \subseteq Latest(H, r0, y)
      BY <3>1, <3>2, LaterBacks
    <3>4. Backs(Carried(f, H, q, z), H, ts, q, v, z)
      BY <3>1, <3>2, LaterBacks
    <3> QED
      BY <3>3, <3>4 DEF z, y, r0, w0, H, ts
  <2>4. (\E c \in Cmds : pc[c] \in Handing) => \A i \in L : e[i] # Len(sends)
    BY <2>1, <2>3 DEF Backing, Carried
  <2> HIDE DEF e
  <2>5. PICK b : b = e
    OBVIOUS
  <2>6. Backing(b)'
    BY <2>3, <2>4, <2>5 DEF Backing
  <2> QED
    BY <2>6
<1>p. /\ \A t \in Int : Spaced(t) => Spaced(t)'
      /\ Spaced(real) => Spaced(q)'
  <2> DEFINE n == Len(handoffs)
             a == handoffs[n - MaxSendsInWindow + 1].at
             b == handoffs[n].at
  <2>1. n >= MaxSendsInWindow => a \in Int
    BY <1>0
  <2>2. n > 0 => b \in Int
    BY <1>0
  <2>3. ASSUME NEW t \in Int, NEW u \in Int, t <= u, Spaced(t)
        PROVE  Spaced(u)'
    <3>1. /\ n >= MaxSendsInWindow => t - a >= SendWindow - Slack
          /\ skew.at = Null /\ n > 0 => t - b >= MinSendInterval
      BY <2>3 DEF Spaced
    <3> HIDE DEF n, a, b
    <3>2. /\ n >= MaxSendsInWindow => u - a >= SendWindow - Slack'
          /\ skew'.at = Null /\ n > 0 => u - b >= MinSendInterval
      BY <1>0, <1>s, <2>1, <2>2, <2>3, <3>1
    <3> QED
      BY <3>2 DEF Spaced, n, a, b
  <2> QED
    BY <1>0, <2>3
<1>5. SpaceInv'
  <2>1. \A c \in Cmds : now[c].mono \in Int
    BY <1>0 DEF Time
  <2>2. \A c \in Cmds : pc[c] \in Cleared => Spaced(q)'
    BY <1>p DEF RateInv, SpaceInv
  <2>3. \A c \in Cmds : pc[c] \in Handing => Spaced(now[c].mono)'
    BY <1>p, <2>1 DEF RateInv, SpaceInv
  <2> QED
    BY <2>2, <2>3 DEF SpaceInv, Spaced
<1>6. PaceInv'
  <2>1. ASSUME NEW i \in DOMAIN handoffs, NEW j \in DOMAIN handoffs
        PROVE  /\ j - i = MaxSendsInWindow => handoffs[j].at - handoffs[i].at >= SendWindow - Slack'
               /\ skew'.at = Null /\ j - i = 1 => handoffs[j].at - handoffs[i].at >= MinSendInterval
    <3> DEFINE a == handoffs[j].at - handoffs[i].at
    <3>1. a \in Int
      BY <1>0
    <3>2. /\ j - i = MaxSendsInWindow => a >= SendWindow - Slack
          /\ skew.at = Null /\ j - i = 1 => a >= MinSendInterval
      BY DEF RateInv, PaceInv
    <3> DEFINE s == Slack
               u == Slack'
    <3>3. s \in Int /\ u \in Int /\ s <= u /\ SendWindow \in Int /\ (j - i = MaxSendsInWindow => a >= SendWindow - s)
      BY <1>0, <1>s, <3>2
    <3> HIDE DEF a, s, u
    <3>4. j - i = MaxSendsInWindow => a >= SendWindow - u
      BY <3>1, <3>3
    <3> QED
      BY <3>2, <3>4 DEF a, u
  <2> QED
    BY <2>1 DEF PaceInv
<1> QED
  BY <1>1, <1>2, <1>3, <1>4, <1>5, <1>6 DEF RateInv

\* A crash takes the send times with it.
LEMMA RateCrash ==
  ASSUME TypeOK, RateInv, Crash
  PROVE  RateInv'
<1>0. \A c \in Cmds : pc'[c] \notin Handing \cup Cleared /\ pc'[c] # "handoff"
  BY RateTypes DEF Crash, Handing, Cleared, Running
<1>1. /\ real' = real /\ wall' = wall /\ rows' = rows /\ handoffs' = handoffs /\ skew' = skew /\ ~up'
      /\ Slack' = Slack
  BY DEF Crash, clockVars, historyVars, Slack
<1>2. SendsInv' /\ BackInv'
  BY <1>1 DEF SendsInv, BackInv
<1>3. TimesInv'
  BY <1>0, <1>1 DEF RateInv, TimesInv
<1>4. StoredInv'
  BY <1>0, <1>1 DEF RateInv, StoredInv, Dispatched
<1>5. SpaceInv'
  BY <1>0 DEF SpaceInv
<1>6. PaceInv'
  BY <1>1 DEF RateInv, PaceInv
<1> QED
  BY <1>2, <1>3, <1>4, <1>5, <1>6 DEF RateInv

\* recordSend: the hand-off to come has its send time.
LEMMA RateRecord ==
  ASSUME TypeOK, OneSlot, UpInv, RateInv, NEW c \in Cmds, RecordSend(c)
  PROVE  RateInv'
<1>0. /\ real \in Nat /\ wall \in Int /\ Now = Clock(real, wall) /\ Now \in Time
      /\ now \in [Cmds -> Time] /\ handoffs \in HandOffs
      /\ DOMAIN handoffs = 1 .. Len(handoffs) /\ Len(handoffs) \in Nat
  BY RateTypes
<1>1. /\ real' = real /\ wall' = wall /\ rows' = rows /\ handoffs' = handoffs /\ skew' = skew
      /\ up' = up /\ outbox' = outbox /\ Slack' = Slack
      /\ pc[c] = "record" /\ Goto(c, "mark") /\ now' = [now EXCEPT ![c] = Now] /\ sends' = Append(sends, Now)
  BY DEF RecordSend, clockVars, processVars, cmdVars, Slack, Proceed
<1>2. up
  BY <1>1 DEF UpInv, Running
<1>3. /\ pc'[c] = "mark" /\ now'[c] = Now
      /\ \A d \in Cmds : d # c => pc'[d] \notin Cleared /\ pc'[d] \notin Handing
      /\ \A d \in Cmds : pc'[d] # "handoff"
  <2>1. pc[c] \in SlotSteps
    BY <1>1 DEF SlotSteps
  <2>2. pc'[c] = "mark" /\ \A d \in Cmds : d # c => pc'[d] \notin Cleared /\ pc'[d] \notin Handing
    BY <1>1, <2>1, AloneInSlot
  <2> QED
    BY <1>0, <1>1, <2>2 DEF Handing
<1>4. /\ sends \in Seq(Time) /\ Len(sends) \in Nat /\ DOMAIN sends = 1 .. Len(sends)
      /\ \A i \in DOMAIN sends : sends[i] \in Time
      /\ Good(sends, real, wall) /\ (skew.at = Null => Aged(sends, real, wall))
  BY <1>2 DEF RateInv, SendsInv, Good
<1> DEFINE n == Len(sends)
           ts == Append(sends, Now)
<1>5. /\ ts \in Seq(Time) /\ Len(ts) = n + 1 /\ DOMAIN ts = 1 .. n + 1
      /\ \A i \in 1 .. n : ts[i] = sends[i]
      /\ ts[n + 1] = Now
  BY <1>0, <1>4
<1> HIDE DEF ts, n
<1>n. n \in Nat /\ DOMAIN sends = 1 .. n /\ sends' = ts
  BY <1>1, <1>4 DEF ts, n
<1>6. Now.hasMono /\ Now.mono = real /\ Now.wall = wall
  BY DEF Now
<1>7. SendsInv'
  <2>1. Taken(Now, real, wall)
    BY <1>0, <1>6 DEF Taken
  <2>2. \A i \in DOMAIN ts : Taken(ts[i], real, wall)
    BY <1>4, <1>5, <1>n, <2>1 DEF Good
  <2>3. \A t \in Time : InOrder(t, Now)
    BY <1>6 DEF InOrder
  <2>4. ASSUME NEW i \in DOMAIN ts, NEW j \in DOMAIN ts, i < j
        PROVE  InOrder(ts[i], ts[j])
    <3>1. i \in 1 .. n /\ (j \in 1 .. n \/ j = n + 1)
      BY <1>5, <1>n, <2>4
    <3> QED
      BY <1>4, <1>5, <1>n, <2>3, <2>4, <3>1 DEF Good
  <2>5. Good(ts, real, wall)
    BY <1>5, <2>2, <2>4 DEF Good
  <2>6. Age(Now, real, wall) = 0
    BY <1>0, <1>6 DEF Age
  <2>7. ASSUME skew.at = Null
        PROVE  Aged(ts, real, wall)
    <3>1. Aged(sends, real, wall)
      BY <1>4, <2>7
    <3>2. \A i \in DOMAIN ts : 0 <= Age(ts[i], real, wall)
      BY <1>5, <1>n, <2>6, <3>1 DEF Aged
    <3>3. ASSUME NEW i \in DOMAIN ts, NEW j \in DOMAIN ts, i < j
          PROVE  Age(ts[j], real, wall) <= Age(ts[i], real, wall)
      <4>1. i \in 1 .. n /\ (j \in 1 .. n \/ j = n + 1)
        BY <1>5, <1>n, <3>3
      <4>2. CASE j \in 1 .. n
        BY <1>5, <1>n, <3>1, <3>3, <4>1, <4>2 DEF Aged
      <4>3. CASE j = n + 1
        BY <1>5, <2>6, <3>2, <4>3
      <4> QED
        BY <4>1, <4>2, <4>3
    <3> QED
      BY <3>2, <3>3 DEF Aged
  <2> QED
    BY <1>1, <1>n, <2>5, <2>7 DEF SendsInv
<1>8. TimesInv'
  <2>1. \A d \in Cmds : pc'[d] \in Handing => d = c
    BY <1>3
  <2>2. /\ sends' # <<>> /\ sends'[Len(sends')] = now'[c] /\ now'[c].hasMono
        /\ now'[c].mono = real /\ now'[c].wall = wall
    BY <1>3, <1>5, <1>6, <1>n
  <2>3. wall <= wall
    BY <1>0
  <2> QED
    BY <1>1, <2>1, <2>2, <2>3 DEF RateInv, TimesInv
<1>9. StoredInv'
  BY <1>1, <1>3 DEF RateInv, StoredInv, Dispatched
<1>10. BackInv'
  <2>1. PICK f : Backs(f, handoffs, sends, real, wall, Slack)
    BY <1>2 DEF RateInv, BackInv, Backing
  <2>2. \A i \in Latest(handoffs, real, Slack) : f[i] \in 1 .. n
    BY <1>n, <2>1 DEF Backs
  <2>3. \A i \in Latest(handoffs, real, Slack) : f[i] # n + 1 /\ f[i] \in DOMAIN ts /\ ts[f[i]] = sends[f[i]]
    BY <1>5, <1>n, <2>2
  <2>4. f \in [Latest(handoffs, real, Slack) -> DOMAIN ts]
    BY <2>1, <2>3 DEF Backs
  <2>5. Backs(f, handoffs, ts, real, wall, Slack)
    BY <2>1, <2>3, <2>4 DEF Backs
  <2>6. Backing(f)'
    BY <1>1, <1>5, <1>n, <2>3, <2>5 DEF Backing
  <2> QED
    BY <2>6 DEF BackInv
<1>11. SpaceInv'
  <2>1. Spaced(real)
    BY <1>1 DEF RateInv, SpaceInv, Cleared
  <2>2. Spaced(real)'
    BY <1>1, <2>1 DEF Spaced
  <2>3. now'[c].mono = real'
    BY <1>1, <1>3, <1>6
  <2> QED
    BY <1>3, <2>2, <2>3 DEF SpaceInv, Spaced
<1>12. PaceInv'
  BY <1>1 DEF RateInv, PaceInv
<1> QED
  BY <1>7, <1>8, <1>9, <1>10, <1>11, <1>12 DEF RateInv

\* MarkDispatched: a restart will find the hand-off to come.
LEMMA RateMark ==
  ASSUME TypeOK, OneSlot, OutboxInv, UpInv, RateInv, "mark_io" \notin Faults, NEW c \in Cmds, Mark(c)
  PROVE  RateInv'
<1>0. /\ real \in Nat /\ wall \in Int /\ now \in [Cmds -> Time] /\ rows \subseteq Row
      /\ handoffs \in HandOffs /\ Null \notin Int
  BY RateTypes
<1>1. /\ real' = real /\ wall' = wall /\ handoffs' = handoffs /\ skew' = skew /\ sends' = sends
      /\ up' = up /\ outbox' = outbox /\ now' = now /\ Slack' = Slack
      /\ pc[c] = "mark" /\ Goto(c, "handoff")
      /\ rows' = MarkDispatched(rows, outbox[c], now[c])
  BY DEF Mark, clockVars, processVars, cmdVars, historyVars, Slack, Proceed
<1>2. up
  BY <1>1 DEF UpInv, Running
<1>3. /\ pc'[c] = "handoff"
      /\ \A d \in Cmds : d # c => pc'[d] \notin Cleared /\ pc'[d] \notin Handing
  <2>1. pc[c] \in SlotSteps
    BY <1>1 DEF SlotSteps
  <2> QED
    BY <1>1, <2>1, AloneInSlot
<1>h. "mark" \in Handing /\ "handoff" \in Handing /\ "handoff" \notin Cleared /\ pc[c] \in Handing
  BY <1>1 DEF Handing, Cleared
<1>4. \A d \in Cmds : pc'[d] \in Handing => d = c
  BY <1>3
<1>5. SendsInv'
  BY <1>1 DEF RateInv, SendsInv
<1>6. TimesInv'
  BY <1>1, <1>4, <1>h DEF RateInv, TimesInv
<1>7. now[c].mono \in Int /\ now[c].wall \in Int /\ wall - now[c].wall <= real - now[c].mono
  <2>1. sends # <<>> /\ sends[Len(sends)] = now[c] /\ now[c].hasMono /\ Good(sends, real, wall)
    BY <1>2, <1>h DEF RateInv, TimesInv, SendsInv
  <2>2. Len(sends) \in DOMAIN sends
    BY <2>1 DEF Good
  <2>3. wall - real <= now[c].wall - now[c].mono
    BY <2>1, <2>2 DEF Good, Taken
  <2>4. now[c] \in Time
    BY <1>0
  <2>5. now[c].mono \in Int /\ now[c].wall \in Int
    BY <2>4 DEF Time
  <2> QED
    BY <1>0, <2>3, <2>5
<1>8. \A x \in rows' : \/ x \in rows /\ x.id # outbox[c]
                       \/ x.id = outbox[c] /\ x.dispatched = now[c].wall
  <2> SUFFICES ASSUME NEW r \in rows,
                      NEW x, x = IF r.id = outbox[c] THEN [r EXCEPT !.dispatched = now[c].wall] ELSE r
               PROVE  \/ x \in rows /\ x.id # outbox[c]
                      \/ x.id = outbox[c] /\ x.dispatched = now[c].wall
    BY <1>1 DEF MarkDispatched
  <2>1. r \in Row
    BY <1>0
  <2> QED
    BY <2>1 DEF Row
<1>9. StoredInv'
  <2>1. \A i \in DOMAIN handoffs : handoffs[i].id # outbox[c]
    BY <1>1 DEF OutboxInv, Reserved
  <2>2. \A i \in DOMAIN handoffs : \A x \in rows' : x.id = handoffs[i].id => Dispatched(x, handoffs[i].at)
    BY <1>8, <2>1 DEF RateInv, StoredInv
  <2>3. \A x \in rows' : x.id = outbox[c] => Dispatched(x, now[c].mono)
    BY <1>7, <1>8 DEF Dispatched
  <2>4. ASSUME skew.at = Null, NEW x \in rows', x.dispatched # Null
        PROVE  x.dispatched <= wall
    <3>1. CASE x \in rows
      BY <2>4, <3>1 DEF RateInv, StoredInv
    <3>2. CASE x.dispatched = now[c].wall
      BY <1>h, <2>4, <3>2 DEF RateInv, TimesInv
    <3> QED
      BY <1>8, <3>1, <3>2
  <2>5. \A d \in Cmds : pc'[d] = "handoff" => d = c
    BY <1>4, <1>h
  <2> QED
    BY <1>1, <2>2, <2>3, <2>4, <2>5 DEF StoredInv, Dispatched
<1>10. BackInv'
  <2>1. PICK f : Backing(f)
    BY <1>2 DEF RateInv, BackInv
  <2>2. Backing(f)'
    BY <1>1, <1>h, <2>1 DEF Backing
  <2> QED
    BY <2>2 DEF BackInv
<1>11. SpaceInv'
  <2>1. Spaced(now[c].mono)
    BY <1>h DEF RateInv, SpaceInv
  <2>2. Spaced(now[c].mono)'
    BY <1>1, <2>1 DEF Spaced
  <2> QED
    BY <1>1, <1>3, <1>h, <2>2 DEF SpaceInv, Spaced
<1>12. PaceInv'
  BY <1>1 DEF RateInv, PaceInv
<1> QED
  BY <1>5, <1>6, <1>9, <1>10, <1>11, <1>12 DEF RateInv

\* SendMessage is called: the hand-off is as far from the others as it has to be.
LEMMA RateHandOff ==
  ASSUME TypeOK, OneSlot, UpInv, RateInv, NEW c \in Cmds, HandOff(c)
  PROVE  RateInv'
<1>0. /\ real \in Nat /\ wall \in Int /\ now \in [Cmds -> Time] /\ handoffs \in HandOffs
      /\ Len(handoffs) \in Nat /\ DOMAIN handoffs = 1 .. Len(handoffs)
      /\ \A i \in DOMAIN handoffs : handoffs[i].id \in Ids /\ handoffs[i].at \in Int
      /\ MaxSendsInWindow \in Nat \ {0} /\ Slack \in Nat
  BY RateTypes
<1>1. /\ real' = real /\ wall' = wall /\ rows' = rows /\ skew' = skew /\ sends' = sends
      /\ up' = up /\ outbox' = outbox /\ now' = now /\ Slack' = Slack
      /\ pc[c] = "handoff" /\ Goto(c, "waiting")
      /\ handoffs' = Append(handoffs, [id |-> outbox[c], at |-> now[c].mono])
  BY DEF HandOff, clockVars, processVars, cmdVars, Slack, Proceed
<1>2. up
  BY <1>1 DEF UpInv, Running
<1>3. \A d \in Cmds : pc'[d] \notin Cleared /\ pc'[d] \notin Handing /\ pc'[d] # "handoff"
  <2>1. pc[c] \in SlotSteps
    BY <1>1 DEF SlotSteps
  <2>2. pc'[c] = "waiting" /\ \A d \in Cmds : d # c => pc'[d] \notin Cleared /\ pc'[d] \notin Handing
    BY <1>1, <2>1, AloneInSlot
  <2> QED
    BY <2>2 DEF Handing, Cleared
<1>h. pc[c] \in Handing
  BY <1>1 DEF Handing
<1> DEFINE n == Len(handoffs)
           t == now[c].mono
           H == Append(handoffs, [id |-> outbox[c], at |-> t])
<1>4. /\ n \in Nat /\ DOMAIN handoffs = 1 .. n /\ handoffs' = H
      /\ DOMAIN H = 1 .. n + 1 /\ Len(H) = n + 1
      /\ \A i \in 1 .. n : H[i] = handoffs[i]
      /\ H[n + 1].at = t /\ H[n + 1].id = outbox[c]
  BY <1>0, <1>1
<1>5. now[c] \in Time /\ t \in Int
  BY <1>0 DEF Time
<1>6. /\ Good(sends, real, wall)
      /\ sends # <<>> /\ sends[Len(sends)] = now[c] /\ now[c].hasMono
      /\ \A i \in DOMAIN handoffs : handoffs[i].at <= t
  BY <1>2, <1>h DEF RateInv, SendsInv, TimesInv
<1>7. Len(sends) \in DOMAIN sends
  BY <1>6 DEF Good
<1>8. t <= real
  BY <1>6, <1>7 DEF Good, Taken
<1>9. Spaced(t)
  BY <1>h DEF RateInv, SpaceInv
<1> HIDE DEF n, t, H
<1>10. SendsInv'
  BY <1>1 DEF RateInv, SendsInv
<1>11. TimesInv'
  <2>1. \A i \in 1 .. n + 1 : i \in 1 .. n \/ i = n + 1
    BY <1>4
  <2>2. \A i \in 1 .. n + 1 : H[i].at <= real
    BY <1>4, <1>8, <2>1 DEF RateInv, TimesInv
  <2>3. \A i, j \in 1 .. n + 1 : i < j => H[i].at <= H[j].at
    <3> SUFFICES ASSUME NEW i \in 1 .. n + 1, NEW j \in 1 .. n + 1, i < j
                 PROVE  H[i].at <= H[j].at
      OBVIOUS
    <3>1. i \in 1 .. n
      BY <1>4
    <3>2. CASE j \in 1 .. n
      BY <1>4, <3>1, <3>2 DEF RateInv, TimesInv
    <3>3. CASE j = n + 1
      BY <1>4, <1>6, <3>1, <3>3
    <3> QED
      BY <2>1, <3>2, <3>3
  <2> QED
    BY <1>1, <1>3, <1>4, <2>2, <2>3 DEF TimesInv
<1>12. StoredInv'
  <2>1. \A x \in rows : x.id = outbox[c] => Dispatched(x, t)
    BY <1>1 DEF RateInv, StoredInv, t
  <2>2. \A i \in 1 .. n : \A x \in rows : x.id = H[i].id => Dispatched(x, H[i].at)
    BY <1>4 DEF RateInv, StoredInv
  <2>3. \A i \in 1 .. n + 1 : \A x \in rows : x.id = H[i].id => Dispatched(x, H[i].at)
    BY <1>4, <2>1, <2>2
  <2>4. skew.at = Null => \A x \in rows : x.dispatched # Null => x.dispatched <= wall
    BY DEF RateInv, StoredInv
  <2> QED
    BY <1>1, <1>3, <1>4, <2>3, <2>4 DEF StoredInv, Dispatched
<1>13. BackInv'
  <2>1. PICK f : Backing(f)
    BY <1>2 DEF RateInv, BackInv
  <2> DEFINE L == Latest(handoffs, real, Slack)
             M == Latest(H, real, Slack)
             e == [i \in M |-> IF i = n + 1 THEN Len(sends) ELSE f[i]]
  <2>2. \A i \in M : i = n + 1 \/ i \in L
    BY <1>4 DEF Latest
  <2>3. \A i \in L : i # n + 1 /\ i \in 1 .. n
    BY <1>4 DEF Latest
  <2>4. /\ \A i \in L : f[i] \in DOMAIN sends /\ f[i] # Len(sends)
        /\ \A i, j \in L : f[i] = f[j] => i = j
        /\ \A i \in L : Age(sends[f[i]], real, wall) <= (real - handoffs[i].at) + Slack
    BY <1>h, <2>1 DEF Backing, Backs
  <2> HIDE DEF L, M
  <2>5. \A i \in M : e[i] = IF i = n + 1 THEN Len(sends) ELSE f[i]
    OBVIOUS
  <2>6. e \in [M -> DOMAIN sends]
    BY <1>7, <2>2, <2>4
  <2> HIDE DEF e
  <2>7. \A i, j \in M : e[i] = e[j] => i = j
    BY <2>2, <2>3, <2>4, <2>5
  <2>8. \A i \in M : Age(sends[e[i]], real, wall) <= (real - H[i].at) + Slack
    <3> SUFFICES ASSUME NEW i \in M
                 PROVE  Age(sends[e[i]], real, wall) <= (real - H[i].at) + Slack
      OBVIOUS
    <3>1. CASE i = n + 1
      <4>1. sends[e[i]] = now[c]
        BY <1>6, <2>5, <3>1
      <4>2. Age(now[c], real, wall) = real - t
        BY <1>6 DEF Age, t
      <4> QED
        BY <1>0, <1>4, <1>5, <3>1, <4>1, <4>2
    <3>2. CASE i # n + 1
      <4>1. i \in L /\ e[i] = f[i] /\ H[i] = handoffs[i]
        BY <1>4, <2>2, <2>3, <2>5, <3>2
      <4> QED
        BY <2>4, <4>1
    <3> QED
      BY <3>1, <3>2
  <2>9. Backs(e, H, sends, real, wall, Slack)
    BY <2>6, <2>7, <2>8 DEF Backs, M
  <2>10. PICK b : b = e
    OBVIOUS
  <2>11. Backing(b)'
    BY <1>1, <1>3, <1>4, <2>9, <2>10 DEF Backing
  <2> QED
    BY <2>11 DEF BackInv
<1>14. SpaceInv'
  BY <1>3 DEF SpaceInv
<1>15. PaceInv'
  <2> SUFFICES ASSUME NEW i \in 1 .. n + 1, NEW j \in 1 .. n + 1
               PROVE  /\ j - i = MaxSendsInWindow => H[j].at - H[i].at >= SendWindow - Slack
                      /\ skew.at = Null /\ j - i = 1 => H[j].at - H[i].at >= MinSendInterval
    BY <1>1, <1>4 DEF PaceInv
  <2>1. CASE j \in 1 .. n /\ i \in 1 .. n
    BY <1>4, <2>1 DEF RateInv, PaceInv
  <2>2. CASE j = n + 1 /\ i \in 1 .. n
    <3>1. /\ n >= MaxSendsInWindow => t - handoffs[n - MaxSendsInWindow + 1].at >= SendWindow - Slack
          /\ skew.at = Null /\ n > 0 => t - handoffs[n].at >= MinSendInterval
      BY <1>9 DEF Spaced, n
    <3>2. H[j].at = t /\ H[i] = handoffs[i]
      BY <1>4, <2>2
    <3>3. j - i = MaxSendsInWindow => n >= MaxSendsInWindow /\ i = n - MaxSendsInWindow + 1
      BY <1>0, <1>4, <2>2
    <3>4. j - i = 1 => n > 0 /\ i = n
      BY <1>4, <2>2
    <3> QED
      BY <3>1, <3>2, <3>3, <3>4
  <2>3. CASE i = n + 1
    <3>1. j - i # MaxSendsInWindow /\ j - i # 1
      BY <1>0, <1>4, <2>3
    <3> QED
      BY <3>1
  <2> QED
    BY <1>4, <2>1, <2>2, <2>3
<1> QED
  BY <1>10, <1>11, <1>12, <1>13, <1>14, <1>15 DEF RateInv

\* A notice of the clock set back changes no limit.
LEMMA NoticeIs ==
  ASSUME TypeOK, UpInv
  PROVE  /\ Notice \in [at : Nat \cup {Null}, noticed : BOOLEAN, started : Nat]
         /\ Notice.at = Null <=> skew.at = Null
<1>0. /\ real \in Nat /\ real # Null
      /\ skew \in [at : Nat \cup {Null}, noticed : BOOLEAN, started : Nat]
  BY RateTypes
<1>1. CASE skew.noticed
  BY <1>0, <1>1 DEF Notice
<1>2. CASE ~skew.noticed
  BY <1>0, <1>2 DEF Notice, UpInv
<1> QED
  BY <1>1, <1>2

\* What clampSends may take off is nothing, while no time is in the future.
LEMMA SlackIs ==
  ASSUME SendsInv, up
  PROVE  Slack = MinSendInterval \/ \A i \in DOMAIN sends : 0 <= Age(sends[i], real, wall)
BY DEF SendsInv, Slack, Aged

\* More hand-offs in the window than send times that back them: there are none.
LEMMA WindowSpaced ==
  ASSUME NEW n \in Nat, NEW K \in Nat \ {0}, n >= K, NEW L, n - K + 1 .. n \subseteq L,
         NEW m \in Nat, NEW f \in [L -> 1 .. m], \A i, j \in L : f[i] = f[j] => i = j
  PROVE  K <= m
<1> DEFINE S == n - K + 1 .. n
           T == 1 .. m
           g == [i \in S |-> f[i]]
<1>1. n - K + 1 \in Int /\ n \in Int /\ 1 \in Int /\ m \in Int
  OBVIOUS
<1>2. IsFiniteSet(S) /\ Cardinality(S) = K
  <2>1. n - K + 1 <= n
    OBVIOUS
  <2>2. IsFiniteSet(S) /\ Cardinality(S) = IF n - K + 1 > n THEN 0 ELSE n - (n - K + 1) + 1
    BY <1>1, FS_Interval
  <2> QED
    BY <2>1, <2>2
<1>3. IsFiniteSet(T) /\ Cardinality(T) = m
  <2>1. IsFiniteSet(T) /\ Cardinality(T) = IF 1 > m THEN 0 ELSE m - 1 + 1
    BY <1>1, FS_Interval
  <2> QED
    BY <2>1
<1>4. g \in [S -> T] /\ \A i, j \in S : g[i] = g[j] => i = j
  OBVIOUS
<1> HIDE DEF S, T, g
<1>5. ~(Cardinality(T) < Cardinality(S))
  BY <1>2, <1>3, <1>4, FS_PigeonHole
<1> QED
  BY <1>2, <1>3, <1>5

\* backstopAllows says yes: a hand-off now would keep the limits.
LEMMA AllowedIsSpaced ==
  ASSUME TypeOK, NEW k, Good(k, real, wall), skew.at = Null => Aged(k, real, wall),
         NEW f, Backs(f, handoffs, k, real, wall, Slack), Allows(k, Now), TimesInv
  PROVE  Spaced(real)
<1> DEFINE n == Len(handoffs)
           m == Len(k)
           L == Latest(handoffs, real, Slack)
           K == MaxSendsInWindow
<1>0. /\ real \in Nat /\ wall \in Int /\ Now = Clock(real, wall)
      /\ n \in Nat /\ DOMAIN handoffs = 1 .. n
      /\ \A i \in 1 .. n : handoffs[i].at \in Int
      /\ K \in Nat \ {0} /\ Slack \in Nat /\ SendWindow \in Nat
      /\ MinSendInterval \in Nat /\ MinSendInterval <= SendWindow
  BY RateTypes
<1>1. k \in Seq(Time) /\ m \in Nat /\ DOMAIN k = 1 .. m /\ \A i \in 1 .. m : k[i] \in Time
  BY DEF Good
<1>2. m < K /\ (m > 0 => Sub(Now, k[m]) >= MinSendInterval)
  BY DEF Allows
<1>3. \A i, j \in 1 .. n : i <= j => handoffs[i].at <= handoffs[j].at
  <2> SUFFICES ASSUME NEW i \in 1 .. n, NEW j \in 1 .. n, i <= j
               PROVE  handoffs[i].at <= handoffs[j].at
    OBVIOUS
  <2>1. i < j \/ i = j
    BY <1>0
  <2>2. i < j => handoffs[i].at <= handoffs[j].at
    BY <1>0 DEF TimesInv
  <2>3. handoffs[i].at \in Int
    BY <1>0
  <2> HIDE DEF n
  <2> QED
    BY <2>1, <2>2, <2>3
<1>4. \A i \in 1 .. n : i \in L <=> real - handoffs[i].at < SendWindow - Slack
  BY <1>0 DEF Latest
<1>5. /\ f \in [L -> 1 .. m] /\ \A i, j \in L : f[i] = f[j] => i = j
      /\ \A i \in L : Age(k[f[i]], real, wall) <= (real - handoffs[i].at) + Slack
  BY <1>1 DEF Backs
<1> HIDE DEF n, m, L, K
<1>6. ASSUME n >= K
      PROVE  real - handoffs[n - K + 1].at >= SendWindow - Slack
  <2> DEFINE s == n - K + 1
  <2>1. s \in 1 .. n
    BY <1>0, <1>6
  <2> SUFFICES ASSUME real - handoffs[s].at < SendWindow - Slack
               PROVE  FALSE
    BY <1>0, <2>1
  <2> HIDE DEF s
  <2>2. ASSUME NEW i \in s .. n
        PROVE  i \in L
    <3>1. i \in 1 .. n /\ s <= i
      BY <1>0, <2>1
    <3>2. handoffs[s].at <= handoffs[i].at /\ handoffs[s].at \in Int /\ handoffs[i].at \in Int
      BY <1>0, <1>3, <2>1, <3>1
    <3>3. real - handoffs[i].at < SendWindow - Slack
      BY <1>0, <3>2
    <3> QED
      BY <1>4, <3>1, <3>3
  <2>3. n - K + 1 .. n \subseteq L
    BY <2>2 DEF s
  <2>4. K <= m
    <3>1. /\ n \in Nat /\ K \in Nat \ {0} /\ n >= K /\ n - K + 1 .. n \subseteq L /\ m \in Nat
          /\ f \in [L -> 1 .. m] /\ \A i, j \in L : f[i] = f[j] => i = j
      BY <1>0, <1>1, <1>5, <1>6, <2>3
    <3> QED
      BY ONLY <3>1, WindowSpaced
  <2> QED
    BY <1>0, <1>1, <1>2, <2>4
<1>7. ASSUME skew.at = Null, n > 0
      PROVE  real - handoffs[n].at >= MinSendInterval
  <2> SUFFICES ASSUME real - handoffs[n].at < MinSendInterval
               PROVE  FALSE
    BY <1>0, <1>7
  <2>1. Slack = 0
    BY <1>7 DEF Slack
  <2>2. n \in L
    BY <1>0, <1>4, <1>7, <2>1
  <2> DEFINE p == f[n]
             a == Age(k[p], real, wall)
             b == Age(k[m], real, wall)
             h == handoffs[n].at
  <2>3. p \in 1 .. m /\ a <= (real - h) + Slack
    BY <1>5, <2>2
  <2>4. m \in 1 .. m /\ p <= m /\ m > 0
    BY <1>1, <2>3
  <2>5. a \in Int /\ b \in Int /\ h \in Int
    <3>1. \A t \in Time : Age(t, real, wall) \in Int
      BY <1>0 DEF Age, Time
    <3>2. k[p] \in Time /\ k[m] \in Time
      BY <1>1, <2>3, <2>4
    <3>3. n \in 1 .. n
      BY <1>0, <1>7
    <3> QED
      BY <1>0, <3>1, <3>2, <3>3
  <2>6. b <= a
    <3>1. CASE p = m
      BY <2>5, <3>1
    <3>2. CASE p < m
      BY <1>1, <1>7, <2>3, <2>4, <3>2 DEF Aged
    <3> QED
      BY <1>1, <2>3, <2>4, <3>1, <3>2
  <2>7. b >= MinSendInterval
    BY <1>0, <1>1, <1>2, <2>4, ClockIs
  <2> HIDE DEF a, b, h
  <2>8. real - h < MinSendInterval
    BY DEF h
  <2> QED
    BY <1>0, <2>1, <2>3, <2>5, <2>6, <2>7, <2>8
<1> QED
  BY <1>6, <1>7 DEF Spaced, n, K

\* backstopAllows: the send times that stay still back the hand-offs of the window,
\* and if it says yes they are few and old enough.
LEMMA RateBackstop ==
  ASSUME TypeOK, OneSlot, UpInv, RateInv, NEW c \in Cmds, CheckBackstop(c)
  PROVE  RateInv'
<1> DEFINE k == Recent(sends, Now)
<1>0. /\ real \in Nat /\ wall \in Int /\ Now = Clock(real, wall)
      /\ handoffs \in HandOffs /\ DOMAIN handoffs = 1 .. Len(handoffs)
      /\ now \in [Cmds -> Time] /\ Slack \in Nat
  BY RateTypes
<1>i. real \in Int
  BY <1>0
<1>1. /\ real' = real /\ wall' = wall /\ rows' = rows /\ handoffs' = handoffs /\ up' = up /\ outbox' = outbox
      /\ pc[c] = "backstop" /\ sends' = k /\ skew' = Notice
      /\ \/ Allows(k, Now) /\ Goto(c, "insert")
         \/ Goto(c, "fail")
  BY DEF CheckBackstop, clockVars, processVars, cmdVars, Proceed, Refuse
<1>2. up
  BY <1>1 DEF UpInv, Running
<1>3. (skew'.at = Null <=> skew.at = Null) /\ Slack' = Slack
  BY <1>1, NoticeIs DEF Slack
<1>4. /\ \A d \in Cmds : pc'[d] \notin Handing /\ pc'[d] # "handoff"
      /\ \A d \in Cmds : pc'[d] \in Cleared => d = c /\ Allows(k, Now)
  <2>1. pc[c] \in SlotSteps
    BY <1>1 DEF SlotSteps
  <2>2. CASE Allows(k, Now) /\ Goto(c, "insert")
    <3>1. pc'[c] = "insert" /\ \A d \in Cmds : d # c => pc'[d] \notin Cleared /\ pc'[d] \notin Handing
      BY <2>1, <2>2, AloneInSlot
    <3> QED
      BY <2>2, <3>1 DEF Handing
  <2>3. CASE Goto(c, "fail")
    <3>1. pc'[c] = "fail" /\ \A d \in Cmds : d # c => pc'[d] \notin Cleared /\ pc'[d] \notin Handing
      BY <2>1, <2>3, AloneInSlot
    <3> QED
      BY <3>1 DEF Handing, Cleared
  <2> QED
    BY <1>1, <2>2, <2>3
<1>5. Good(sends, real, wall) /\ (skew.at = Null => Aged(sends, real, wall))
  BY <1>2 DEF RateInv, SendsInv
<1>6. Good(k, real, wall)
  BY <1>0, <1>5, RecentIs
<1>7. ASSUME skew.at = Null
      PROVE  Aged(k, real, wall)
  <2> DEFINE b == Clamp(sends, Clock(real, wall))
  <2>1. PICK g \in [DOMAIN k -> DOMAIN b] :
          /\ \A i \in DOMAIN k : k[i] = b[g[i]] /\ Age(b[g[i]], real, wall) < SendWindow
          /\ \A i, j \in DOMAIN k : i < j => g[i] < g[j]
    BY <1>0, <1>5, RecentIs
  <2>2. Aged(sends, real, wall)
    BY <1>5, <1>7
  <2>3. b = sends
    BY <1>0, <1>5, <2>2, ClampGood DEF Aged
  <2> HIDE DEF k, b
  <2>4. \A i \in DOMAIN k : k[i] = sends[g[i]] /\ g[i] \in DOMAIN sends
    BY <2>1, <2>3
  <2>5. \A i \in DOMAIN k : 0 <= Age(k[i], real, wall)
    BY <2>2, <2>4 DEF Aged
  <2>6. \A i, j \in DOMAIN k : i < j => Age(k[j], real, wall) <= Age(k[i], real, wall)
    BY <2>1, <2>2, <2>4 DEF Aged
  <2> QED
    BY <2>5, <2>6 DEF Aged
<1>8. PICK f : Backs(f, handoffs, sends, real, wall, Slack)
  BY <1>2 DEF RateInv, BackInv, Backing
<1>9. PICK e : Backs(e, handoffs, k, real, wall, Slack)
  <2>1. \A i \in DOMAIN handoffs : handoffs[i].at <= real
    BY DEF RateInv, TimesInv
  <2>2. Slack = MinSendInterval \/ \A i \in DOMAIN sends : 0 <= Age(sends[i], real, wall)
    BY <1>2, SlackIs DEF RateInv
  <2> DEFINE z == Slack
             H == handoffs
             ts == sends
  <2>3. z \in Nat /\ (z = MinSendInterval \/ \A i \in DOMAIN ts : 0 <= Age(ts[i], real, wall))
        /\ H \in HandOffs /\ (\A i \in DOMAIN H : H[i].at <= real) /\ Good(ts, real, wall)
        /\ Backs(f, H, ts, real, wall, z) /\ k = Recent(ts, Clock(real, wall))
    BY <1>0, <1>5, <1>8, <2>1, <2>2
  <2> HIDE DEF z, H, ts, k
  <2>4. \E e : Backs(e, H, k, real, wall, z)
    BY <1>0, <1>i, <2>3, RecentBacks
  <2> QED
    BY <2>4 DEF z, H
<1> HIDE DEF k
<1>10. SendsInv'
  BY <1>1, <1>3, <1>6, <1>7 DEF SendsInv
<1>11. TimesInv'
  BY <1>1, <1>4 DEF RateInv, TimesInv
<1>12. StoredInv'
  BY <1>1, <1>3, <1>4 DEF RateInv, StoredInv, Dispatched
<1>13. BackInv'
  <2>1. Backing(e)'
    BY <1>1, <1>3, <1>4, <1>9 DEF Backing
  <2> QED
    BY <2>1 DEF BackInv
<1>14. SpaceInv'
  <2>1. ASSUME Allows(k, Now)
        PROVE  Spaced(real)
    BY <1>6, <1>7, <1>9, <2>1, AllowedIsSpaced DEF RateInv
  <2>2. ASSUME Allows(k, Now)
        PROVE  Spaced(real)'
    BY <1>1, <1>3, <2>1, <2>2 DEF Spaced
  <2> QED
    BY <1>4, <2>2 DEF SpaceInv
<1>15. PaceInv'
  BY <1>1, <1>3 DEF RateInv, PaceInv
<1> QED
  BY <1>10, <1>11, <1>12, <1>13, <1>14, <1>15 DEF RateInv

\* The rows come from finitely many ids.
LEMMA RowsFinite ==
  ASSUME NoEviction, TypeOK, OutboxInv
  PROVE  IsFiniteSet(rows)
<1> DEFINE f == [r \in rows |-> r.id]
<1>1. f \in Injection(rows, Ids)
  BY RateTypes DEF OutboxInv, Row, Injection, IsInjective
<1>2. IsFiniteSet(Ids)
  BY DEF NoEviction
<1> QED
  BY <1>1, <1>2, FS_Injection

\* init: the send times of the store back every hand-off of the window, for each left
\* its row, no older than it is.
LEMMA RateInit ==
  ASSUME NoEviction, "recent_io" \notin Faults,
         TypeOK, OutboxInv, RowInv, UpInv, RateInv, NEW stale \in SUBSET files, DoInit(stale)
  PROVE  RateInv'
<1> DEFINE since == wall - SendWindow
           ts == RecentSends(since)
           k == Clamp(ts, Clock(real, wall))
<1>0. /\ real \in Nat /\ wall \in Int /\ Now = Clock(real, wall)
      /\ handoffs \in HandOffs /\ DOMAIN handoffs = 1 .. Len(handoffs)
      /\ rows \subseteq Row /\ Slack \in Nat /\ SendWindow \in Nat /\ Null \notin Int
  BY RateTypes
<1>i. real \in Int /\ since \in Int
  BY <1>0
<1>1. /\ real' = real /\ wall' = wall /\ rows' = rows /\ handoffs' = handoffs /\ pc' = pc
      /\ sends' = k /\ skew' = [Notice EXCEPT !.started = real]
  BY <1>0 DEF DoInit, clockVars, localVars
<1>2. \A c \in Cmds : pc'[c] \notin Handing /\ pc'[c] \notin Cleared /\ pc'[c] # "handoff"
  BY <1>1 DEF DoInit, UpInv, Running, Handing, Cleared
<1>3. (skew'.at = Null <=> skew.at = Null) /\ Slack' = Slack
  <2> DEFINE s == Notice
  <2>1. s \in [at : Nat \cup {Null}, noticed : BOOLEAN, started : Nat] /\ (s.at = Null <=> skew.at = Null)
    BY NoticeIs
  <2>2. skew' = [s EXCEPT !.started = real]
    BY <1>1
  <2> HIDE DEF s
  <2>3. skew'.at = s.at
    BY <2>1, <2>2
  <2> QED
    BY <2>1, <2>3 DEF Slack
<1>4. IsFiniteSet(rows) /\ \A r, s \in rows : r.rowid = s.rowid => r = s
  BY RowsFinite DEF RowInv
<1> HIDE DEF since
<1>5. /\ Good(ts, real, wall)
      /\ \A i \in DOMAIN ts : \E x \in rows : x.dispatched # Null /\ ts[i] = FromStore(x.dispatched)
  BY <1>0, <1>i, <1>4, StoredGood
<1> HIDE DEF ts
<1>6. Good(k, real, wall)
  BY <1>i, <1>0, <1>5, ClampGood
<1>7. ASSUME skew.at = Null
      PROVE  Aged(ts, real, wall) /\ k = ts
  <2>1. \A i \in DOMAIN ts : /\ ~ts[i].hasMono /\ ts[i].wall \in Int /\ ts[i].wall <= wall
                             /\ Age(ts[i], real, wall) = wall - ts[i].wall
    <3> SUFFICES ASSUME NEW i \in DOMAIN ts
                 PROVE  /\ ~ts[i].hasMono /\ ts[i].wall \in Int /\ ts[i].wall <= wall
                        /\ Age(ts[i], real, wall) = wall - ts[i].wall
      OBVIOUS
    <3>1. PICK x \in rows : x.dispatched # Null /\ ts[i] = FromStore(x.dispatched)
      BY <1>5
    <3>2. x.dispatched \in Int
      BY <1>0, <3>1 DEF Row
    <3>3. x.dispatched <= wall
      BY <1>7, <3>1 DEF RateInv, StoredInv
    <3> QED
      BY <3>1, <3>2, <3>3 DEF FromStore, Age
  <2>2. \A i \in DOMAIN ts : 0 <= Age(ts[i], real, wall)
    BY <1>0, <2>1
  <2>3. \A i, j \in DOMAIN ts : i < j => ts[i].wall <= ts[j].wall
    BY <1>5, <2>1 DEF Good, InOrder
  <2>4. \A i, j \in DOMAIN ts : i < j => Age(ts[j], real, wall) <= Age(ts[i], real, wall)
    BY <1>0, <2>1, <2>3
  <2>5. k = ts
    BY <1>0, <1>i, <1>5, <2>2, ClampGood
  <2> QED
    BY <2>2, <2>4, <2>5 DEF Aged
<1>8. Slack = MinSendInterval \/ \A i \in DOMAIN ts : 0 <= Age(ts[i], real, wall)
  BY <1>7 DEF Slack, Aged
<1>9. \A i \in DOMAIN handoffs : \E x \in rows :
        x.id = handoffs[i].id /\ x.dispatched \in Int /\ wall - x.dispatched <= real - handoffs[i].at
  BY DEF OutboxInv, OutboxKnown, RateInv, StoredInv, Dispatched
<1>10. \A i, j \in DOMAIN handoffs : handoffs[i].id = handoffs[j].id => i = j
  BY DEF OutboxInv, AtMostOnce
<1>11. PICK f : Backs(f, handoffs, ts, real, wall, Slack)
  BY <1>0, <1>i, <1>4, <1>9, <1>10, StoredBacks DEF ts, since
<1>12. Backs(f, handoffs, k, real, wall, Slack)
  <2> DEFINE z == Slack
             H == handoffs
  <2>1. z \in Nat /\ (z = MinSendInterval \/ \A i \in DOMAIN ts : 0 <= Age(ts[i], real, wall))
        /\ H \in HandOffs /\ (\A i \in DOMAIN H : H[i].at <= real) /\ Backs(f, H, ts, real, wall, z)
    BY <1>0, <1>8, <1>11 DEF RateInv, TimesInv
  <2> HIDE DEF z, H
  <2>2. Backs(f, H, k, real, wall, z)
    BY <1>0, <1>i, <1>5, <2>1, ClampBacks
  <2> QED
    BY <2>2 DEF z, H
<1> HIDE DEF k
<1>13. SendsInv'
  BY <1>1, <1>3, <1>6, <1>7 DEF SendsInv
<1>14. TimesInv'
  BY <1>1, <1>2 DEF RateInv, TimesInv
<1>15. StoredInv'
  BY <1>1, <1>2, <1>3 DEF RateInv, StoredInv, Dispatched
<1>16. BackInv'
  <2>1. Backing(f)'
    BY <1>1, <1>2, <1>3, <1>12 DEF Backing
  <2> QED
    BY <2>1 DEF BackInv
<1>17. SpaceInv'
  BY <1>2 DEF SpaceInv
<1>18. PaceInv'
  BY <1>1, <1>3 DEF RateInv, PaceInv
<1> QED
  BY <1>13, <1>14, <1>15, <1>16, <1>17, <1>18 DEF RateInv

\* A step of one command that neither hands over nor asks the backstop.
LEMMA QuietCommand ==
  ASSUME TypeOK, RateInv, UNCHANGED <<real, wall, up, sends, handoffs, skew>>,
         NEW c \in Cmds,
         \A d \in Cmds : d # c => pc'[d] = pc[d] /\ now'[d] = now[d] /\ outbox'[d] = outbox[d],
         pc'[c] \notin Handing, pc'[c] \in Cleared => pc[c] \in Cleared,
         \A x \in rows' :
           \/ \E y \in rows : y.id = x.id /\ y.dispatched = x.dispatched
           \/ /\ x.dispatched = Null /\ \A i \in DOMAIN handoffs : handoffs[i].id # x.id
              /\ \A d \in Cmds : pc[d] # "handoff"
  PROVE  RateInv'
<1>1. \A d \in Cmds : pc'[d] \in Handing => pc[d] \in Handing /\ now'[d] = now[d]
  OBVIOUS
<1>2. \A d \in Cmds : pc'[d] \in Cleared => pc[d] \in Cleared
  OBVIOUS
<1>3. \A d \in Cmds : pc'[d] = "handoff" => pc[d] = "handoff" /\ outbox'[d] = outbox[d]
  BY DEF Handing
<1> QED
  BY <1>1, <1>2, <1>3, RateQuiet

\* The steps of one command, each to a step that is known.
LEMMA RateQuietSteps ==
  ASSUME TypeOK, OneSlot, OutboxInv, RateInv, NEW c \in Cmds,
         \/ \E k \in Kinds, o \in Ids : Handle(c, k, o)
         \/ Begin(c) \/ CheckChat(c) \/ CheckKnown(c) \/ Insert(c) \/ Prune(c) \/ Prepare(c) \/ Upload(c)
         \/ Sent(c) \/ Result(c) \/ Fail(c) \/ Discard(c) \/ Recovered(c) \/ Panic(c)
  PROVE  RateInv'
<1>0. /\ pc \in [Cmds -> Steps] /\ now \in [Cmds -> Time] /\ outbox \in [Cmds -> Ids \cup {Null}]
      /\ rows \subseteq Row
  BY RateTypes
<1> DEFINE Same == UNCHANGED <<real, wall, up, sends, handoffs, skew>>
           Rest == \A d \in Cmds : d # c => pc'[d] = pc[d] /\ now'[d] = now[d] /\ outbox'[d] = outbox[d]
           Quiet == pc'[c] \notin Handing /\ (pc'[c] \in Cleared => pc[c] \in Cleared)
           Old == \A x \in rows' : \E y \in rows : y.id = x.id /\ y.dispatched = x.dispatched
<1>1. SUFFICES Same /\ Rest /\ Quiet /\ (Old \/ Insert(c))
  <2> SUFFICES ASSUME Same, Rest, Quiet, Old \/ Insert(c)
               PROVE  RateInv'
    BY Zenon
  <2>1. CASE Old
    BY <2>1, QuietCommand
  <2>2. CASE Insert(c)
    <3>1. \A d \in Cmds : pc[d] # "handoff"
      BY <2>2 DEF Insert, OneSlot, SlotSteps
    <3>2. ASSUME NEW x \in rows', x \notin rows
          PROVE  x.dispatched = Null /\ \A i \in DOMAIN handoffs : handoffs[i].id # x.id
      <4>1. x = NewRow(outbox[c], now[c]) /\ ~OutboxKnown(outbox[c])
        BY <2>2, <3>2 DEF Insert
      <4>2. x.dispatched = Null /\ x.id = outbox[c]
        BY <4>1 DEF NewRow
      <4> QED
        BY <4>1, <4>2 DEF OutboxInv
    <3>3. \A x \in rows' :
            \/ \E y \in rows : y.id = x.id /\ y.dispatched = x.dispatched
            \/ /\ x.dispatched = Null /\ \A i \in DOMAIN handoffs : handoffs[i].id # x.id
               /\ \A d \in Cmds : pc[d] # "handoff"
      BY <3>1, <3>2
    <3> QED
      BY <3>3, QuietCommand
  <2> QED
    BY <2>1, <2>2
<1>2. ASSUME NEW k \in Kinds, NEW o \in Ids, Handle(c, k, o)
      PROVE  Same /\ Rest /\ Quiet /\ Old
  BY <1>0, <1>2 DEF Handle, Goto, clockVars, processVars, historyVars, Handing, Cleared
<1>3. CASE Begin(c)
  BY <1>0, <1>3 DEF Begin, Goto, clockVars, processVars, cmdVars, historyVars, Handing, Cleared
<1>4. CASE CheckChat(c)
  BY <1>0, <1>4 DEF CheckChat, Proceed, Refuse, Goto, clockVars, processVars, cmdVars, historyVars, Handing, Cleared
<1>5. CASE CheckKnown(c)
  BY <1>0, <1>5 DEF CheckKnown, Proceed, Refuse, Goto, clockVars, processVars, cmdVars, historyVars, Handing, Cleared
<1>6. CASE Insert(c)
  BY <1>0, <1>6 DEF Insert, Proceed, Refuse, Goto, clockVars, processVars, cmdVars, Handing, Cleared
<1>7. CASE Prune(c)
  <2>1. Same /\ Rest /\ Quiet
    BY <1>0, <1>7 DEF Prune, Proceed, Refuse, Goto, clockVars, processVars, cmdVars, historyVars, Handing, Cleared
  <2>2. Old
    BY <1>7 DEF Prune, Pruned
  <2> QED
    BY <2>1, <2>2
<1>8. CASE Prepare(c)
  BY <1>0, <1>8 DEF Prepare, Proceed, Refuse, Goto, clockVars, processVars, cmdVars, historyVars, Handing, Cleared
<1>9. CASE Upload(c)
  BY <1>0, <1>9 DEF Upload, Proceed, Refuse, Goto, clockVars, processVars, cmdVars, historyVars, Handing, Cleared
<1>10. CASE Sent(c)
  BY <1>0, <1>10 DEF Sent, Refuse, Goto, clockVars, processVars, cmdVars, historyVars, Handing, Cleared
<1>11. CASE Result(c)
  <2>1. Same /\ Rest /\ Quiet
    BY <1>0, <1>11 DEF Result, Reply, Return, Goto, clockVars, processVars, localVars, historyVars, Handing, Cleared
  <2>2. Old
    <3>1. CASE rows' = rows
      BY <3>1
    <3>2. CASE rows' = SetOutboxMessage(rows, outbox[c])
      <4>1. \A r \in rows : [r EXCEPT !.message = TRUE].id = r.id /\ [r EXCEPT !.message = TRUE].dispatched = r.dispatched
        BY <1>0 DEF Row
      <4> QED
        BY <3>2, <4>1 DEF SetOutboxMessage
    <3> QED
      BY <1>11, <3>1, <3>2 DEF Result
  <2> QED
    BY <2>1, <2>2
<1>12. CASE Fail(c)
  BY <1>0, <1>12 DEF Fail, Reply, Return, Goto, clockVars, processVars, localVars, historyVars, Handing, Cleared
<1>13. CASE Discard(c)
  BY <1>0, <1>13 DEF Discard, Return, Goto, clockVars, processVars, historyVars, Handing, Cleared
<1>14. CASE Recovered(c)
  BY <1>0, <1>14 DEF Recovered, Return, Goto, clockVars, processVars, historyVars, Handing, Cleared
<1>15. CASE Panic(c)
  BY <1>0, <1>15 DEF Panic, Goto, clockVars, processVars, localVars, historyVars, Handing, Cleared
<1> QED
  BY <1>2, <1>3, <1>4, <1>5, <1>6, <1>7, <1>8, <1>9, <1>10, <1>11, <1>12, <1>13, <1>14, <1>15

\* Every step keeps the rate.
LEMMA RateStep ==
  ASSUME NoEviction, "mark_io" \notin Faults, "recent_io" \notin Faults,
         TypeOK, OneSlot, OutboxInv, RowInv, UpInv, RateInv, [Next]_vars
  PROVE  RateInv'
<1>0. real \in Nat /\ wall \in Int /\ JumpsBack \subseteq Nat
  BY RateTypes, SendPathAssumption DEF SendPathAssumption
<1>1. ASSUME NEW c \in Cmds,
             \/ \E k \in Kinds, o \in Ids : Handle(c, k, o)
             \/ CommandStep(c)
             \/ Panic(c)
      PROVE  RateInv'
  <2>1. CASE CheckBackstop(c)
    BY <2>1, RateBackstop
  <2>2. CASE RecordSend(c)
    BY <2>2, RateRecord
  <2>3. CASE Mark(c)
    BY <2>3, RateMark
  <2>4. CASE HandOff(c)
    BY <2>4, RateHandOff
  <2> QED
    BY <1>1, <2>1, <2>2, <2>3, <2>4, RateQuietSteps DEF CommandStep
<1>2. CASE Tick
  <2>1. /\ UNCHANGED <<up, sends, rows, pc, outbox, now, handoffs, skew>>
        /\ real' = real + 1 /\ wall' = wall + 1
    BY <1>2 DEF Tick, processVars, localVars, historyVars
  <2> DEFINE q == real + 1
             v == wall + 1
  <2>2. /\ q \in Nat /\ v \in Int /\ q = real' /\ v = wall' /\ real <= q /\ v - wall <= q - real
        /\ (skew'.at = Null => skew.at = Null /\ v - wall = q - real)
    BY <1>0, <2>1
  <2> HIDE DEF q, v
  <2> QED
    BY <2>1, <2>2, RateLater
<1>3. ASSUME NEW d \in JumpsBack, SetClockBack(d)
      PROVE  RateInv'
  <2>1. /\ UNCHANGED <<up, sends, rows, pc, outbox, now, handoffs>>
        /\ real' = real /\ wall' = wall - d /\ skew' = [skew EXCEPT !.at = real, !.noticed = FALSE]
    BY <1>3 DEF SetClockBack, processVars, localVars
  <2>2. skew'.at = real
    BY <2>1, RateTypes
  <2> DEFINE q == real
             v == wall - d
  <2>3. /\ q \in Nat /\ v \in Int /\ q = real' /\ v = wall' /\ real <= q /\ v - wall <= q - real
        /\ skew'.at # Null
    BY <1>0, <2>1, <2>2, RateTypes
  <2> HIDE DEF q, v
  <2> QED
    BY <2>1, <2>3, RateLater
<1>4. CASE Crash
  BY <1>4, RateCrash
<1>5. ASSUME NEW stale \in SUBSET files, DoInit(stale)
      PROVE  RateInv'
  BY <1>5, RateInit
<1>6. CASE UNCHANGED vars
  <2>1. UNCHANGED <<real, wall, up, sends, handoffs, skew, pc, now, outbox, rows>>
    BY <1>6 DEF vars
  <2> QED
    BY <2>1, RateQuiet
<1> QED
  BY <1>1, <1>2, <1>3, <1>4, <1>5, <1>6 DEF Next

\* Commands run only in a process, and a clock set back is noted, in every state.
LEMMA UpInvariant == Spec => []UpInv
<1>1. Init => UpInv
  BY DEF Init, UpInv, Running
<1>2. TypeOK /\ UpInv /\ [Next]_vars => UpInv'
  BY UpStep
<1> QED
  BY <1>1, <1>2, TypeCorrect, PTL DEF Spec

\* The first state has no send.
LEMMA RateStart ==
  ASSUME Init
  PROVE  RateInv
<1>1. /\ sends = <<>> /\ handoffs = <<>> /\ rows = {} /\ \A c \in Cmds : pc[c] = "idle"
  BY DEF Init
<1>2. \A c \in Cmds : pc[c] \notin Handing /\ pc[c] \notin Cleared /\ pc[c] # "handoff"
  BY <1>1 DEF Handing, Cleared
<1>3. sends \in Seq(Time) /\ DOMAIN sends = {} /\ DOMAIN handoffs = {}
  BY <1>1
<1>4. SendsInv
  BY <1>3 DEF SendsInv, Good, Aged
<1>5. TimesInv /\ StoredInv /\ SpaceInv /\ PaceInv
  BY <1>1, <1>2, <1>3 DEF TimesInv, StoredInv, SpaceInv, PaceInv
<1>6. BackInv
  <2> DEFINE f == [i \in {} |-> i]
  <2>1. Latest(handoffs, real, Slack) = {}
    BY <1>3 DEF Latest
  <2>2. f \in [{} -> DOMAIN sends]
    OBVIOUS
  <2>3. Backing(f)
    BY <1>2, <2>1, <2>2 DEF Backing, Backs
  <2> QED
    BY <2>3 DEF BackInv
<1> QED
  BY <1>4, <1>5, <1>6 DEF RateInv

\* In any window at most MaxSendsInWindow sends are handed over, two never closer than
\* the floor interval, across crashes, restarts and clock changes: clampSends, the
\* filter of backstopAllows and init's RecentSends lose none that still counts, while
\* the store forgets no row and its MarkDispatched and RecentSends do not fail.  There is
\* then no exception for forgotten sends.
THEOREM RateHolds ==
  ASSUME NoEviction, "mark_io" \notin Faults, "recent_io" \notin Faults
  PROVE  Spec => [](RateWindow /\ \A i, j \in DOMAIN handoffs : WithinRate(i, j))
<1>1. Init => RateInv
  BY RateStart
<1>2. TypeOK /\ OneSlot /\ OutboxInv /\ SteadyInv /\ UpInv /\ RateInv /\ [Next]_vars => RateInv'
  BY RateStep DEF SteadyInv
<1>3. TypeOK /\ RateInv => RateWindow /\ \A i, j \in DOMAIN handoffs : WithinRate(i, j)
  <2> SUFFICES ASSUME TypeOK, PaceInv, NEW i \in DOMAIN handoffs, NEW j \in DOMAIN handoffs
               PROVE  /\ j - i = MaxSendsInWindow => handoffs[j].at - handoffs[i].at >= SendWindow - MinSendInterval
                      /\ skew.at = Null =>
                           /\ j - i = MaxSendsInWindow => handoffs[j].at - handoffs[i].at >= SendWindow
                           /\ j - i = 1 => handoffs[j].at - handoffs[i].at >= MinSendInterval
    BY DEF RateInv, RateWindow, WithinRate
  <2> DEFINE a == handoffs[j].at - handoffs[i].at
  <2>1. a \in Int /\ SendWindow \in Nat /\ MinSendInterval \in Nat
    BY RateTypes
  <2>2. /\ j - i = MaxSendsInWindow => a >= SendWindow - Slack
        /\ skew.at = Null /\ j - i = 1 => a >= MinSendInterval
    BY DEF PaceInv
  <2>3. CASE skew.at = Null
    <3>1. Slack = 0
      BY <2>3 DEF Slack
    <3> HIDE DEF a
    <3>2. j - i = MaxSendsInWindow => a >= SendWindow - 0
      BY <2>2, <3>1
    <3>3. j - i = MaxSendsInWindow => a >= SendWindow /\ a >= SendWindow - MinSendInterval
      BY <2>1, <3>2
    <3> QED
      BY <2>2, <2>3, <3>3 DEF a
  <2>4. CASE skew.at # Null
    <3>1. Slack = MinSendInterval
      BY <2>4 DEF Slack
    <3> QED
      BY <2>2, <2>4, <3>1
  <2> QED
    BY <2>3, <2>4
<1> QED
  BY <1>1, <1>2, <1>3, TypeCorrect, SingleSlot, OutboxInvariant, SteadyInvariant, UpInvariant, PTL DEF Spec

-----------------------------------------------------------------------------
(* Why the backstop refuses only with cause *)

\* The table has one row per id.
IdInv == \A r, s \in rows : r.id = s.id => r = s

\* The send times are in order.
GoodInv == up => Good(sends, real, wall)

\* While the clock was not set back every row with a time has a counted send of its own,
\* and the send about to be marked is the last counted.
SentIds == {r.id : r \in {x \in rows : x.dispatched # Null}}

Tracked(h) ==
  /\ h \in [SentIds -> DOMAIN counted]
  /\ \A o, p \in SentIds : h[o] = h[p] => o = p
  /\ \A r \in rows : r.dispatched # Null => counted[h[r.id]] = r.dispatched
  /\ (\E c \in Cmds : pc[c] = "mark") => \A o \in SentIds : h[o] # Len(counted)

TrackInv ==
  /\ \A i \in DOMAIN counted : counted[i] <= real
  /\ skew.at = Null =>
       /\ wall = real
       /\ \A c \in Cmds : pc[c] = "mark" => counted # <<>> /\ counted[Len(counted)] = now[c].wall
       /\ \E h : Tracked(h)

\* The send times of the window that are younger than the last clock change and the last
\* start: each is a counted send, that is no older.
Fresh ==
  {i \in DOMAIN sends :
     /\ Age(sends[i], real, wall) < SendWindow
     /\ \/ skew.at = Null
        \/ /\ Age(sends[i], real, wall) < real - skew.at
           /\ Age(sends[i], real, wall) < real - skew.started}

Causing(g) ==
  /\ g \in [Fresh -> DOMAIN counted]
  /\ \A i, j \in Fresh : g[i] = g[j] => i = j
  /\ \A i \in Fresh : real - counted[g[i]] <= Age(sends[i], real, wall)

FreshInv ==
  up /\ skew.noticed =>
    /\ \A i \in DOMAIN sends : 0 <= Age(sends[i], real, wall)
    /\ \E g : Causing(g)

CauseInv == GoodInv /\ TrackInv /\ FreshInv

\* The values of f on S.
Only(f, S) == [x \in S |-> f[x]]

\* What the lemmas below use of the types.
LEMMA CauseTypes ==
  ASSUME TypeOK
  PROVE  /\ counted \in Seq(Nat) /\ Len(counted) \in Nat /\ DOMAIN counted = 1 .. Len(counted)
         /\ \A i \in DOMAIN counted : counted[i] \in Int
         /\ \A t \in Time : Age(t, real, wall) \in Int
<1>1. counted \in Seq(Nat)
  BY DEF TypeOK
<1>2. real \in Int /\ wall \in Int
  BY RateTypes
<1>3. \A t \in Time : Age(t, real, wall) \in Int
  BY <1>2 DEF Age, Time
<1> QED
  BY <1>1, <1>3

\* A table with one row per id goes on to one: INSERT adds no id that is there, the
\* DELETE and the UPDATEs none at all.
LEMMA IdStep ==
  ASSUME TypeOK, IdInv, [Next]_vars
  PROVE  IdInv'
<1>0. rows \subseteq Row
  BY RateTypes
<1>1. ASSUME NEW c \in Cmds, Insert(c)
      PROVE  IdInv'
  <2>1. rows' = rows \/ (~OutboxKnown(outbox[c]) /\ rows' = rows \cup {NewRow(outbox[c], now[c])})
    BY <1>1 DEF Insert
  <2>2. NewRow(outbox[c], now[c]).id = outbox[c]
    BY DEF NewRow
  <2> QED
    BY <2>1, <2>2 DEF IdInv, OutboxKnown
<1>2. ASSUME NEW c \in Cmds, Prune(c)
      PROVE  IdInv'
  BY <1>2 DEF Prune, Pruned, IdInv
<1>3. ASSUME NEW o, NEW at, rows' = MarkDispatched(rows, o, at)
      PROVE  IdInv'
  <2> DEFINE F(r) == IF r.id = o THEN [r EXCEPT !.dispatched = at.wall] ELSE r
  <2>1. rows' = {F(r) : r \in rows}
    BY <1>3 DEF MarkDispatched
  <2>2. \A r \in rows : F(r).id = r.id
    BY <1>0 DEF Row
  <2> HIDE DEF F
  <2> QED
    BY <2>1, <2>2 DEF IdInv
<1>4. ASSUME NEW o, rows' = SetOutboxMessage(rows, o)
      PROVE  IdInv'
  <2> DEFINE F(r) == IF r.id = o THEN [r EXCEPT !.message = TRUE] ELSE r
  <2>1. rows' = {F(r) : r \in rows}
    BY <1>4 DEF SetOutboxMessage
  <2>2. \A r \in rows : F(r).id = r.id
    BY <1>0 DEF Row
  <2> HIDE DEF F
  <2> QED
    BY <2>1, <2>2 DEF IdInv
<1>5. ASSUME NEW c \in Cmds, Mark(c) \/ Result(c)
      PROVE  IdInv'
  BY <1>3, <1>4, <1>5 DEF Mark, Result, IdInv
<1>6. CASE rows' = rows
  BY <1>6 DEF IdInv
<1>7. ASSUME NEW c \in Cmds, CommandStep(c), ~Insert(c), ~Prune(c), ~Mark(c), ~Result(c)
      PROVE  rows' = rows
  BY <1>7
  DEF CommandStep, Begin, CheckChat, CheckKnown, CheckBackstop, Prepare, Upload,
      RecordSend, HandOff, Sent, Fail, Discard, Recovered
<1>8. ASSUME NEW c \in Cmds,
             (\E k \in Kinds, o \in Ids : Handle(c, k, o)) \/ CommandStep(c) \/ Panic(c)
      PROVE  IdInv'
  <2>1. CASE CommandStep(c)
    BY <1>1, <1>2, <1>5, <1>6, <1>7, <2>1
  <2>2. CASE (\E k \in Kinds, o \in Ids : Handle(c, k, o)) \/ Panic(c)
    BY <1>6, <2>2 DEF Handle, Panic
  <2> QED
    BY <1>8, <2>1, <2>2
<1>9. CASE ~\E c \in Cmds : (\E k \in Kinds, o \in Ids : Handle(c, k, o)) \/ CommandStep(c) \/ Panic(c)
  BY <1>6, <1>9 DEF Next, Tick, SetClockBack, Crash, DoInit, vars
<1> QED
  BY <1>8, <1>9

\* Steps that neither count a send nor touch the times.
LEMMA CauseQuiet ==
  ASSUME TypeOK, CauseInv, UNCHANGED <<real, wall, up, sends, counted, skew>>,
         \A c \in Cmds : pc'[c] = "mark" => pc[c] = "mark" /\ now'[c] = now[c],
         \A x \in rows' : x.dispatched # Null => \E y \in rows : y.id = x.id /\ y.dispatched = x.dispatched
  PROVE  CauseInv'
<1>1. GoodInv'
  BY DEF CauseInv, GoodInv
<1>2. TrackInv'
  <2> SUFFICES ASSUME skew.at = Null
               PROVE  \E h : Tracked(h)'
    BY DEF CauseInv, TrackInv
  <2>1. PICK h : Tracked(h)
    BY DEF CauseInv, TrackInv
  <2>2. SentIds' \subseteq SentIds
    BY DEF SentIds
  <2> DEFINE T == SentIds'
             e == Only(h, T)
  <2>3. T \subseteq SentIds /\ e = [o \in T |-> h[o]]
    BY <2>2 DEF Only
  <2> HIDE DEF T
  <2>4. /\ e \in [T -> DOMAIN counted] /\ (\A o, p \in T : e[o] = e[p] => o = p)
        /\ \A o \in T : e[o] = h[o]
    BY <2>1, <2>3 DEF Tracked
  <2>5. \A x \in rows' : x.dispatched # Null => counted[e[x.id]] = x.dispatched
    <3> SUFFICES ASSUME NEW x \in rows', x.dispatched # Null
                 PROVE  counted[e[x.id]] = x.dispatched
      OBVIOUS
    <3>1. PICK y \in rows : y.id = x.id /\ y.dispatched = x.dispatched
      OBVIOUS
    <3>2. x.id \in T
      BY DEF T, SentIds
    <3> QED
      BY <2>1, <2>4, <3>1, <3>2 DEF Tracked
  <2>6. (\E c \in Cmds : pc'[c] = "mark") => \A o \in T : e[o] # Len(counted)
    BY <2>1, <2>3, <2>4 DEF Tracked
  <2> HIDE DEF e
  <2>7. PICK b : b = e
    OBVIOUS
  <2>8. Tracked(b)'
    BY <2>4, <2>5, <2>6, <2>7 DEF Tracked, T
  <2> QED
    BY <2>8
<1>3. FreshInv'
  <2> SUFFICES ASSUME up, skew.noticed
               PROVE  FreshInv'
    BY DEF FreshInv
  <2>1. Fresh' = Fresh
    BY DEF Fresh
  <2>2. PICK g : Causing(g)
    BY DEF CauseInv, FreshInv
  <2>3. Causing(g)'
    BY <2>1, <2>2 DEF Causing
  <2>4. \A i \in DOMAIN sends : 0 <= Age(sends[i], real, wall)
    BY DEF CauseInv, FreshInv
  <2> QED
    BY <2>3, <2>4 DEF FreshInv
<1> QED
  BY <1>1, <1>2, <1>3 DEF CauseInv

\* What is Tracked goes on for fewer rows, when no command is about to mark.
LEMMA TrackedStill ==
  ASSUME NEW h, Tracked(h), UNCHANGED <<rows, counted>>, \A c \in Cmds : pc'[c] # "mark"
  PROVE  Tracked(h)'
<1>1. SentIds' = SentIds
  BY DEF SentIds
<1> QED
  BY <1>1 DEF Tracked

\* A crash takes the send times with it.
LEMMA CauseCrash ==
  ASSUME TypeOK, CauseInv, Crash
  PROVE  CauseInv'
<1>1. /\ real' = real /\ wall' = wall /\ rows' = rows /\ counted' = counted /\ skew' = skew /\ ~up'
      /\ \A c \in Cmds : pc'[c] # "mark"
  BY RateTypes DEF Crash, clockVars, historyVars, Running
<1>2. GoodInv' /\ FreshInv'
  BY <1>1 DEF GoodInv, FreshInv
<1>3. TrackInv'
  <2>1. \A h : Tracked(h) => Tracked(h)'
    BY <1>1, TrackedStill
  <2> QED
    BY <1>1, <2>1 DEF CauseInv, TrackInv
<1> QED
  BY <1>2, <1>3 DEF CauseInv

\* Time goes on.
LEMMA CauseLater ==
  ASSUME TypeOK, CauseInv, UNCHANGED <<up, sends, rows, pc, now, counted, skew>>,
         NEW q \in Nat, NEW v \in Int, q = real', v = wall', q = real + 1, v = wall + 1
  PROVE  CauseInv'
<1>0. /\ real \in Int /\ wall \in Int /\ real \in Nat
      /\ skew \in [at : Nat \cup {Null}, noticed : BOOLEAN, started : Nat]
      /\ SendWindow \in Nat /\ Null \notin Int
  BY RateTypes
<1>1. GoodInv'
  <2> SUFFICES ASSUME up
               PROVE  Good(sends, q, v)
    BY DEF GoodInv
  <2>1. Good(sends, real, wall)
    BY DEF CauseInv, GoodInv
  <2>2. \A i \in DOMAIN sends : sends[i] \in Time
    BY <2>1 DEF Good
  <2>3. q \in Int /\ v \in Int /\ real <= q /\ v - wall <= q - real
    BY <1>0
  <2>4. \A t \in Time : Taken(t, real, wall) => Taken(t, q, v)
    BY <1>0, <2>3, TakenLater
  <2> QED
    BY <2>1, <2>2, <2>4 DEF Good
<1>2. TrackInv'
  <2>1. \A i \in DOMAIN counted : counted[i] <= q
    BY <1>0, CauseTypes DEF CauseInv, TrackInv
  <2>2. \A h : Tracked(h) => Tracked(h)'
    <3>1. SentIds' = SentIds
      BY DEF SentIds
    <3> QED
      BY <3>1 DEF Tracked
  <2> QED
    BY <2>1, <2>2 DEF CauseInv, TrackInv
<1>3. FreshInv'
  <2> SUFFICES ASSUME up, skew.noticed
               PROVE  FreshInv'
    BY DEF FreshInv
  <2>1. /\ \A i \in DOMAIN sends : 0 <= Age(sends[i], real, wall)
        /\ \E g : Causing(g)
    BY DEF CauseInv, FreshInv
  <2>2. PICK g : Causing(g)
    BY <2>1
  <2>3. \A i \in DOMAIN sends : sends[i] \in Time
    BY DEF CauseInv, GoodInv, Good
  <2>4. \A t \in Time : Age(t, q, v) = Age(t, real, wall) + 1 /\ Age(t, real, wall) \in Int
    BY <1>0 DEF Age, Time
  <2>5. \A i \in DOMAIN sends : /\ Age(sends[i], q, v) = Age(sends[i], real, wall) + 1
                                /\ Age(sends[i], real, wall) \in Int
    BY <2>3, <2>4
  <2> DEFINE F == Fresh'
             e == Only(g, F)
  <2>6. \A i \in F : i \in Fresh
    <3> SUFFICES ASSUME NEW i \in F
                 PROVE  i \in Fresh
      OBVIOUS
    <3>1. /\ i \in DOMAIN sends /\ Age(sends[i], q, v) < SendWindow
          /\ \/ skew.at = Null
             \/ Age(sends[i], q, v) < q - skew.at /\ Age(sends[i], q, v) < q - skew.started
      BY DEF Fresh
    <3> DEFINE a == Age(sends[i], real, wall)
               b == Age(sends[i], q, v)
    <3>2. b = a + 1 /\ a \in Int
      BY <2>5, <3>1
    <3> HIDE DEF a, b
    <3>3. a < SendWindow
      BY <1>0, <3>1, <3>2 DEF b
    <3>4. skew.at = Null \/ (a < real - skew.at /\ a < real - skew.started)
      BY <1>0, <3>1, <3>2 DEF b
    <3> QED
      BY <3>1, <3>3, <3>4 DEF Fresh, a
  <2>7. e = [i \in F |-> g[i]]
    BY DEF Only
  <2> HIDE DEF F
  <2>8. /\ e \in [F -> DOMAIN counted] /\ \A i, j \in F : e[i] = e[j] => i = j
        /\ \A i \in F : e[i] = g[i]
    BY <2>2, <2>6, <2>7 DEF Causing
  <2>9. \A i \in F : q - counted[e[i]] <= Age(sends[i], q, v)
    <3> SUFFICES ASSUME NEW i \in F
                 PROVE  q - counted[e[i]] <= Age(sends[i], q, v)
      OBVIOUS
    <3>1. real - counted[g[i]] <= Age(sends[i], real, wall) /\ g[i] \in DOMAIN counted /\ i \in DOMAIN sends
      BY <2>2, <2>6 DEF Causing, Fresh
    <3>2. counted[g[i]] \in Int /\ e[i] = g[i]
      BY <2>8, <3>1, CauseTypes
    <3> QED
      BY <1>0, <2>5, <3>1, <3>2
  <2> HIDE DEF e
  <2>10. PICK b : b = e
    OBVIOUS
  <2>11. Causing(b)'
    BY <2>8, <2>9, <2>10 DEF Causing, F
  <2>12. \A i \in DOMAIN sends : 0 <= Age(sends[i], q, v)
    BY <2>1, <2>5
  <2> QED
    BY <2>11, <2>12 DEF FreshInv
<1> QED
  BY <1>1, <1>2, <1>3 DEF CauseInv

\* The clock is set back: from now on the bridge has not noticed.
LEMMA CauseJump ==
  ASSUME TypeOK, CauseInv, NEW d \in JumpsBack, SetClockBack(d)
  PROVE  CauseInv'
<1>0. /\ real \in Int /\ wall \in Int /\ real # Null
      /\ skew \in [at : Nat \cup {Null}, noticed : BOOLEAN, started : Nat] /\ d \in Nat
  BY RateTypes, SendPathAssumption DEF SendPathAssumption
<1>1. /\ real' = real /\ wall' = wall - d /\ up' = up /\ sends' = sends /\ counted' = counted
      /\ skew'.at # Null /\ ~skew'.noticed
  BY <1>0 DEF SetClockBack, processVars
<1>2. GoodInv'
  <2> DEFINE v == wall - d
  <2>1. ASSUME up
        PROVE  Good(sends, real, v)
    <3>1. Good(sends, real, wall)
      BY <2>1 DEF CauseInv, GoodInv
    <3>2. \A i \in DOMAIN sends : sends[i] \in Time
      BY <3>1 DEF Good
    <3>3. v \in Int /\ real <= real /\ v - wall <= real - real
      BY <1>0
    <3> HIDE DEF v
    <3>4. \A t \in Time : Taken(t, real, wall) => Taken(t, real, v)
      BY <1>0, <3>3, TakenLater
    <3> QED
      BY <3>1, <3>2, <3>4 DEF Good
  <2> QED
    BY <1>1, <2>1 DEF GoodInv
<1>3. TrackInv' /\ FreshInv'
  BY <1>1 DEF CauseInv, TrackInv, FreshInv
<1> QED
  BY <1>2, <1>3 DEF CauseInv

\* recordSend: the time that is added is counted with it.
LEMMA CauseRecord ==
  ASSUME TypeOK, OneSlot, UpInv, CauseInv, NEW c \in Cmds, RecordSend(c)
  PROVE  CauseInv'
<1>0. /\ real \in Nat /\ wall \in Int /\ Now \in Time /\ now \in [Cmds -> Time]
  BY RateTypes
<1>1. /\ real' = real /\ wall' = wall /\ rows' = rows /\ skew' = skew /\ up' = up
      /\ pc[c] = "record" /\ Goto(c, "mark") /\ now' = [now EXCEPT ![c] = Now]
      /\ sends' = Append(sends, Now) /\ counted' = Append(counted, real)
  BY DEF RecordSend, clockVars, processVars, cmdVars, Proceed
<1>2. up
  BY <1>1 DEF UpInv, Running
<1>3. now'[c] = Now /\ \A d \in Cmds : pc'[d] = "mark" => d = c
  <2>1. pc[c] \in SlotSteps
    BY <1>1 DEF SlotSteps
  <2>2. \A d \in Cmds : d # c => pc'[d] \notin Handing
    BY <1>1, <2>1, AloneInSlot
  <2> QED
    BY <1>0, <1>1, <2>2 DEF Handing
<1>4. /\ sends \in Seq(Time) /\ Len(sends) \in Nat /\ DOMAIN sends = 1 .. Len(sends)
      /\ \A i \in DOMAIN sends : sends[i] \in Time
      /\ Good(sends, real, wall)
  BY <1>2 DEF CauseInv, GoodInv, Good
<1> DEFINE n == Len(sends)
           m == Len(counted)
           ts == Append(sends, Now)
           cs == Append(counted, real)
<1>5. /\ ts \in Seq(Time) /\ Len(ts) = n + 1 /\ DOMAIN ts = 1 .. n + 1
      /\ \A i \in 1 .. n : ts[i] = sends[i]
      /\ ts[n + 1] = Now
  BY <1>0, <1>4
<1>6. /\ m \in Nat /\ DOMAIN counted = 1 .. m /\ DOMAIN cs = 1 .. m + 1 /\ Len(cs) = m + 1
      /\ \A i \in 1 .. m : cs[i] = counted[i] /\ counted[i] \in Int
      /\ cs[m + 1] = real /\ cs # <<>>
  <2>1. counted \in Seq(Nat) /\ m \in Nat /\ DOMAIN counted = 1 .. m /\ \A i \in DOMAIN counted : counted[i] \in Int
    BY CauseTypes
  <2>2. Len(cs) = m + 1 /\ DOMAIN cs = 1 .. m + 1 /\ cs[m + 1] = real /\ \A i \in 1 .. m : cs[i] = counted[i]
    BY <1>0, <2>1
  <2>3. cs # <<>>
    BY <2>1, <2>2
  <2> HIDE DEF cs, m
  <2> QED
    BY <2>1, <2>2, <2>3
<1> HIDE DEF ts, n, cs, m
<1>n. n \in Nat /\ DOMAIN sends = 1 .. n /\ sends' = ts /\ counted' = cs
  BY <1>1, <1>4 DEF ts, n, cs
<1>7. Now.hasMono /\ Now.mono = real /\ Now.wall = wall
  BY DEF Now
<1>8. GoodInv'
  <2>1. Taken(Now, real, wall)
    BY <1>0, <1>7 DEF Taken
  <2>2. \A i \in DOMAIN ts : Taken(ts[i], real, wall)
    BY <1>4, <1>5, <1>n, <2>1 DEF Good
  <2>3. \A t \in Time : InOrder(t, Now)
    BY <1>7 DEF InOrder
  <2>4. ASSUME NEW i \in DOMAIN ts, NEW j \in DOMAIN ts, i < j
        PROVE  InOrder(ts[i], ts[j])
    <3>1. i \in 1 .. n /\ (j \in 1 .. n \/ j = n + 1)
      BY <1>5, <1>n, <2>4
    <3> QED
      BY <1>4, <1>5, <1>n, <2>3, <2>4, <3>1 DEF Good
  <2>5. Good(ts, real, wall)
    BY <1>5, <2>2, <2>4 DEF Good
  <2> QED
    BY <1>1, <1>n, <2>5 DEF GoodInv
<1>9. TrackInv'
  <2>1. \A i \in 1 .. m + 1 : i \in 1 .. m \/ i = m + 1
    BY <1>6
  <2>2. \A i \in 1 .. m + 1 : cs[i] <= real
    BY <1>0, <1>6, <2>1 DEF CauseInv, TrackInv
  <2>3. ASSUME skew.at = Null
        PROVE  /\ wall = real /\ now'[c].wall = cs[Len(cs)]
               /\ \E h : Tracked(h)'
    <3>1. PICK h : Tracked(h)
      BY <2>3 DEF CauseInv, TrackInv
    <3>2. SentIds' = SentIds
      BY <1>1 DEF SentIds
    <3>3. \A o \in SentIds : h[o] \in 1 .. m /\ h[o] # m + 1 /\ h[o] \in 1 .. m + 1
      BY <1>6, <3>1 DEF Tracked
    <3>4. h \in [SentIds -> 1 .. m + 1]
      BY <3>1, <3>3 DEF Tracked
    <3>5. \A r \in rows : r.dispatched # Null => cs[h[r.id]] = r.dispatched
      <4>1. \A r \in rows : r.dispatched # Null => r.id \in SentIds
        BY DEF SentIds
      <4> QED
        BY <1>6, <3>1, <3>3, <4>1 DEF Tracked
    <3>6. Tracked(h)'
      BY <1>1, <1>6, <1>n, <3>1, <3>2, <3>3, <3>4, <3>5 DEF Tracked
    <3>7. wall = real
      BY <2>3 DEF CauseInv, TrackInv
    <3> QED
      BY <1>3, <1>6, <1>7, <3>6, <3>7
  <2> QED
    BY <1>1, <1>3, <1>6, <1>n, <2>2, <2>3 DEF TrackInv
<1>10. FreshInv'
  <2> SUFFICES ASSUME skew.noticed
               PROVE  FreshInv'
    BY <1>1 DEF FreshInv
  <2>1. PICK g : Causing(g)
    BY <1>2 DEF CauseInv, FreshInv
  <2>2. Age(Now, real, wall) = 0
    BY <1>0, <1>7 DEF Age
  <2>3. \A i \in DOMAIN ts : 0 <= Age(ts[i], real, wall)
    BY <1>2, <1>5, <1>n, <2>2 DEF CauseInv, FreshInv
  <2> DEFINE F == Fresh'
             e == [i \in F |-> IF i = n + 1 THEN m + 1 ELSE g[i]]
  <2>4. \A i \in F : i \in 1 .. n + 1 /\ (i = n + 1 \/ i \in Fresh)
    BY <1>1, <1>5, <1>n DEF Fresh
  <2>5. \A i \in Fresh : i \in 1 .. n /\ i # n + 1
    BY <1>n DEF Fresh
  <2>6. \A i \in F : e[i] = IF i = n + 1 THEN m + 1 ELSE g[i]
    OBVIOUS
  <2>7. /\ \A i \in Fresh : g[i] \in 1 .. m /\ g[i] # m + 1 /\ g[i] \in 1 .. m + 1
        /\ \A i, j \in Fresh : g[i] = g[j] => i = j
        /\ \A i \in Fresh : real - counted[g[i]] <= Age(sends[i], real, wall)
    BY <1>6, <2>1 DEF Causing
  <2>x. m + 1 \in 1 .. m + 1
    BY <1>6
  <2> HIDE DEF F
  <2>8. e \in [F -> 1 .. m + 1]
    BY <2>4, <2>7, <2>x
  <2> HIDE DEF e
  <2>9. \A i, j \in F : e[i] = e[j] => i = j
    BY <2>4, <2>5, <2>6, <2>7
  <2>10. ASSUME NEW i \in F
         PROVE  real - cs[e[i]] <= Age(ts[i], real, wall)
    <3>1. CASE i = n + 1
      BY <1>0, <1>5, <1>6, <2>2, <2>6, <3>1
    <3>2. CASE i # n + 1
      <4>1. i \in Fresh /\ e[i] = g[i] /\ cs[e[i]] = counted[g[i]] /\ ts[i] = sends[i]
        BY <1>5, <1>6, <2>4, <2>5, <2>6, <2>7, <3>2
      <4> QED
        BY <2>7, <4>1
    <3> QED
      BY <3>1, <3>2
  <2>11. PICK b : b = e
    OBVIOUS
  <2>12. Causing(b)'
    BY <1>1, <1>6, <1>n, <2>8, <2>9, <2>10, <2>11 DEF Causing, F
  <2> QED
    BY <1>1, <1>n, <2>3, <2>12 DEF FreshInv
<1> QED
  BY <1>8, <1>9, <1>10 DEF CauseInv

\* MarkDispatched: the row's time is the one counted last.
LEMMA CauseMark ==
  ASSUME TypeOK, OneSlot, IdInv, CauseInv, NEW c \in Cmds, Mark(c)
  PROVE  CauseInv'
<1>0. rows \subseteq Row /\ now \in [Cmds -> Time] /\ Null \notin Int
  BY RateTypes
<1>1. /\ UNCHANGED <<real, wall, up, sends, counted, skew, now>>
      /\ pc[c] = "mark" /\ Goto(c, "handoff")
  BY DEF Mark, clockVars, processVars, cmdVars, historyVars, Proceed
<1>2. \A d \in Cmds : pc'[d] # "mark"
  <2>1. pc[c] \in SlotSteps
    BY <1>1 DEF SlotSteps
  <2>2. pc'[c] = "handoff" /\ \A d \in Cmds : d # c => pc'[d] \notin Handing
    BY <1>1, <2>1, AloneInSlot
  <2> QED
    BY <2>2 DEF Handing
<1>3. CASE rows' = rows
  BY <1>1, <1>2, <1>3, CauseQuiet
<1>4. CASE rows' = MarkDispatched(rows, outbox[c], now[c])
  <2> DEFINE o1 == outbox[c]
             w1 == now[c].wall
             m == Len(counted)
             F(r) == IF r.id = o1 THEN [r EXCEPT !.dispatched = w1] ELSE r
  <2>1. w1 # Null
    BY <1>0 DEF Time
  <2>2. rows' = {F(r) : r \in rows}
    BY <1>4 DEF MarkDispatched
  <2>3. \A r \in rows : /\ F(r).id = r.id
                        /\ F(r).dispatched = IF r.id = o1 THEN w1 ELSE r.dispatched
    BY <1>0 DEF Row
  <2> HIDE DEF F, o1, w1, m
  <2>4. GoodInv' /\ FreshInv'
    <3>1. GoodInv'
      BY <1>1 DEF CauseInv, GoodInv
    <3> SUFFICES ASSUME up, skew.noticed
                 PROVE  FreshInv'
      BY <1>1, <3>1 DEF FreshInv
    <3>2. Fresh' = Fresh
      BY <1>1 DEF Fresh
    <3>3. PICK g : Causing(g)
      BY DEF CauseInv, FreshInv
    <3>4. Causing(g)'
      BY <1>1, <3>2, <3>3 DEF Causing
    <3>5. \A i \in DOMAIN sends : 0 <= Age(sends[i], real, wall)
      BY DEF CauseInv, FreshInv
    <3> QED
      BY <1>1, <3>1, <3>4, <3>5 DEF FreshInv
  <2>5. ASSUME skew.at = Null
        PROVE  \E h : Tracked(h)'
    <3>1. PICK h : Tracked(h)
      BY <2>5 DEF CauseInv, TrackInv
    <3>2. counted # <<>> /\ counted[m] = w1
      BY <1>1, <2>5 DEF CauseInv, TrackInv, m, w1
    <3>3. m \in DOMAIN counted
      BY <3>2, CauseTypes DEF m
    <3> DEFINE T == SentIds'
               e == [o \in T |-> IF o = o1 THEN m ELSE h[o]]
    <3>4. \A o \in T : o = o1 \/ o \in SentIds
      BY <2>2, <2>3 DEF SentIds
    <3>5. \A o \in T : e[o] = IF o = o1 THEN m ELSE h[o]
      OBVIOUS
    <3>6. \A r \in rows' : r.dispatched # Null => r.id \in T
      BY DEF SentIds
    <3>7. /\ \A o \in SentIds : h[o] \in DOMAIN counted /\ h[o] # m
          /\ \A o, p \in SentIds : h[o] = h[p] => o = p
          /\ \A r \in rows : r.dispatched # Null => counted[h[r.id]] = r.dispatched
      BY <1>1, <3>1 DEF Tracked, m
    <3> HIDE DEF T
    <3>8. e \in [T -> DOMAIN counted]
      BY <3>3, <3>4, <3>7
    <3> HIDE DEF e
    <3>9. \A o, p \in T : e[o] = e[p] => o = p
      BY <3>4, <3>5, <3>7
    <3>10. \A x \in rows' : x.dispatched # Null => counted[e[x.id]] = x.dispatched
      <4> SUFFICES ASSUME NEW r \in rows, F(r).dispatched # Null
                   PROVE  counted[e[F(r).id]] = F(r).dispatched
        BY <2>2
      <4>1. F(r) \in rows'
        BY <2>2
      <4>2. F(r).id \in T
        BY <3>6, <4>1
      <4>3. CASE r.id = o1
        BY <2>3, <3>2, <3>5, <4>2, <4>3
      <4>4. CASE r.id # o1
        <5>1. F(r).id = r.id /\ F(r).dispatched = r.dispatched /\ e[r.id] = h[r.id]
          BY <2>3, <3>5, <4>2, <4>4
        <5> QED
          BY <3>7, <5>1
      <4> QED
        BY <4>3, <4>4
    <3>11. PICK b : b = e
      OBVIOUS
    <3>12. Tracked(b)'
      BY <1>1, <1>2, <3>8, <3>9, <3>10, <3>11 DEF Tracked, T
    <3> QED
      BY <3>12
  <2>6. TrackInv'
    BY <1>1, <1>2, <2>5 DEF CauseInv, TrackInv
  <2> QED
    BY <2>4, <2>6 DEF CauseInv
<1> QED
  BY <1>3, <1>4 DEF Mark

\* The rows are finitely many: each has its number.
LEMMA RowsNumbered ==
  ASSUME TypeOK, RowInv
  PROVE  IsFiniteSet(rows)
<1> DEFINE n == Len(reservations)
           f == [r \in rows |-> r.rowid]
<1>1. n \in Nat
  BY DEF TypeOK
<1>2. f \in Injection(rows, 1 .. n)
  BY DEF RowInv, Injection, IsInjective
<1>3. IsFiniteSet(1 .. n)
  BY <1>1, FS_Interval
<1> QED
  BY <1>2, <1>3, FS_Injection

\* While no time is in the future backstopAllows only drops what left the window: what
\* stays is part of Bridge.sends.
LEMMA RecentKeeps ==
  ASSUME TypeOK, Good(sends, real, wall), \A i \in DOMAIN sends : 0 <= Age(sends[i], real, wall),
         NEW k, k = Recent(sends, Now)
  PROVE  \E g \in [DOMAIN k -> DOMAIN sends] :
           /\ \A i \in DOMAIN k : k[i] = sends[g[i]] /\ Age(k[i], real, wall) < SendWindow
           /\ \A i, j \in DOMAIN k : g[i] = g[j] => i = j
<1>0. real \in Int /\ wall \in Int /\ Now = Clock(real, wall)
  BY RateTypes
<1> DEFINE b == Clamp(sends, Clock(real, wall))
<1>1. PICK g \in [DOMAIN k -> DOMAIN b] :
        /\ \A i \in DOMAIN k : k[i] = b[g[i]] /\ Age(b[g[i]], real, wall) < SendWindow
        /\ \A i, j \in DOMAIN k : i < j => g[i] < g[j]
  BY <1>0, RecentIs
<1>2. b = sends
  BY <1>0, ClampGood
<1>3. Good(k, real, wall)
  BY <1>0, RecentIs
<1>4. DOMAIN k = 1 .. Len(k) /\ Len(k) \in Nat
  BY <1>3 DEF Good
<1> HIDE DEF b
<1>5. ASSUME NEW i \in DOMAIN k, NEW j \in DOMAIN k, g[i] = g[j]
      PROVE  i = j
  <2>1. DOMAIN sends = 1 .. Len(sends) /\ Len(sends) \in Nat
    BY DEF Good
  <2>2. g[i] \in Int /\ g[j] \in Int
    BY <1>1, <1>2, <2>1
  <2>3. ~(i < j) /\ ~(j < i)
    BY <1>1, <1>5, <2>2
  <2> QED
    BY <1>4, <2>3
<1> QED
  BY <1>1, <1>2, <1>5

\* clampSends leaves no time in the future.
LEMMA RecentPast ==
  ASSUME TypeOK, Good(sends, real, wall), NEW k, k = Recent(sends, Now)
  PROVE  Good(k, real, wall) /\ \A i \in DOMAIN k : 0 <= Age(k[i], real, wall)
<1>0. real \in Int /\ wall \in Int /\ Now = Clock(real, wall)
  BY RateTypes
<1> DEFINE b == Clamp(sends, Clock(real, wall))
<1>1. PICK g \in [DOMAIN k -> DOMAIN b] : \A i \in DOMAIN k : k[i] = b[g[i]]
  BY <1>0, RecentIs
<1>2. Good(k, real, wall)
  BY <1>0, RecentIs
<1>3. Good(b, real, wall) /\ Len(b) = Len(sends) /\ \A i \in DOMAIN sends : 0 <= Age(b[i], real, wall)
  BY <1>0, ClampGood
<1> HIDE DEF b
<1>4. DOMAIN b = DOMAIN sends
  BY <1>3 DEF Good
<1>5. \A i \in DOMAIN k : 0 <= Age(k[i], real, wall)
  BY <1>1, <1>3, <1>4
<1> QED
  BY <1>2, <1>5

\* backstopAllows asks for cause: the times that stay are counted sends of the window, as
\* many as they are, unless the clock was set back less than a window ago, or the process
\* started since.
LEMMA CauseBackstop ==
  ASSUME TypeOK, OneSlot, UpInv, CauseInv, NEW c \in Cmds, CheckBackstop(c)
  PROVE  CauseInv'
<1> DEFINE k == Recent(sends, Now)
<1>0. /\ real \in Nat /\ wall \in Int /\ real # Null
      /\ skew \in [at : Nat \cup {Null}, noticed : BOOLEAN, started : Nat]
  BY RateTypes
<1>1. /\ real' = real /\ wall' = wall /\ rows' = rows /\ counted' = counted /\ up' = up
      /\ pc[c] = "backstop" /\ sends' = k /\ skew' = Notice
      /\ Goto(c, "insert") \/ Goto(c, "fail")
  BY DEF CheckBackstop, clockVars, processVars, cmdVars, Proceed, Refuse
<1>2. up
  BY <1>1 DEF UpInv, Running
<1>3. \A d \in Cmds : pc'[d] # "mark"
  <2>1. pc[c] \in SlotSteps
    BY <1>1 DEF SlotSteps
  <2>2. (pc'[c] = "insert" \/ pc'[c] = "fail") /\ \A d \in Cmds : d # c => pc'[d] \notin Handing
    BY <1>1, <2>1, AloneInSlot
  <2> QED
    BY <2>2 DEF Handing
<1>4. Good(sends, real, wall)
  BY <1>2 DEF CauseInv, GoodInv
<1>5. Good(k, real, wall) /\ \A i \in DOMAIN k : 0 <= Age(k[i], real, wall)
  BY <1>4, RecentPast
<1>6. skew'.at = Null <=> skew.at = Null
  BY <1>1, NoticeIs
<1> HIDE DEF k
<1>7. GoodInv'
  BY <1>1, <1>5 DEF GoodInv
<1>8. TrackInv'
  <2>1. \A h : Tracked(h) => Tracked(h)'
    BY <1>1, <1>3, TrackedStill
  <2> QED
    BY <1>1, <1>3, <1>6, <2>1 DEF CauseInv, TrackInv
<1>9. FreshInv'
  <2>1. CASE ~skew.noticed
    <3>1. skew'.at = real
      BY <1>0, <1>1, <2>1 DEF Notice
    <3>2. Fresh' = {}
      <4>1. \A t \in Time : Age(t, real, wall) \in Int
        BY CauseTypes
      <4>2. \A i \in DOMAIN k : k[i] \in Time
        BY <1>5 DEF Good
      <4>3. \A i \in DOMAIN k : ~(Age(k[i], real, wall) < real - real)
        BY <1>0, <1>5, <4>1, <4>2
      <4> QED
        BY <1>0, <1>1, <3>1, <4>3 DEF Fresh
    <3> DEFINE e == [i \in {} |-> i]
    <3>3. Causing(e)'
      <4>1. e \in [{} -> DOMAIN counted]
        OBVIOUS
      <4> QED
        BY <1>1, <3>2, <4>1 DEF Causing
    <3> QED
      BY <1>1, <1>5, <3>3 DEF FreshInv
  <2>2. CASE skew.noticed
    <3>1. skew' = skew
      BY <1>1, <2>2 DEF Notice
    <3>2. PICK f : Causing(f)
      BY <1>2, <2>2 DEF CauseInv, FreshInv
    <3>3. PICK g \in [DOMAIN k -> DOMAIN sends] :
            /\ \A i \in DOMAIN k : k[i] = sends[g[i]] /\ Age(k[i], real, wall) < SendWindow
            /\ \A i, j \in DOMAIN k : g[i] = g[j] => i = j
      BY <1>2, <1>4, <2>2, RecentKeeps DEF CauseInv, FreshInv, k
    <3> DEFINE F == Fresh'
               e == [i \in F |-> f[g[i]]]
    <3>4. \A i \in F : i \in DOMAIN k /\ g[i] \in Fresh /\ k[i] = sends[g[i]]
      BY <1>1, <3>1, <3>3 DEF Fresh
    <3> HIDE DEF F
    <3>5. e \in [F -> DOMAIN counted] /\ \A i \in F : e[i] = f[g[i]]
      BY <3>2, <3>4 DEF Causing
    <3> HIDE DEF e
    <3>6. \A i, j \in F : e[i] = e[j] => i = j
      BY <3>2, <3>3, <3>4, <3>5 DEF Causing
    <3>7. \A i \in F : real - counted[e[i]] <= Age(k[i], real, wall)
      BY <3>2, <3>4, <3>5 DEF Causing
    <3>8. PICK b : b = e
      OBVIOUS
    <3>9. Causing(b)'
      BY <1>1, <3>5, <3>6, <3>7, <3>8 DEF Causing, F
    <3> QED
      BY <1>1, <1>5, <3>9 DEF FreshInv
  <2> QED
    BY <2>1, <2>2
<1> QED
  BY <1>7, <1>8, <1>9 DEF CauseInv

\* init: the rows of a table written by a clock that was never set back are counted sends.
LEMMA CauseInit ==
  ASSUME TypeOK, IdInv, RowInv, UpInv, CauseInv, NEW stale \in SUBSET files, DoInit(stale)
  PROVE  CauseInv'
<1> DEFINE since == wall - SendWindow
           ts == RecentSends(since)
           k == Clamp(ts, Clock(real, wall))
<1>0. /\ real \in Nat /\ wall \in Int /\ Now = Clock(real, wall) /\ real # Null
      /\ skew \in [at : Nat \cup {Null}, noticed : BOOLEAN, started : Nat]
      /\ rows \subseteq Row /\ SendWindow \in Nat /\ Null \notin Int
  BY RateTypes
<1>i. real \in Int /\ since \in Int
  BY <1>0
<1>1. /\ real' = real /\ wall' = wall /\ rows' = rows /\ counted' = counted /\ pc' = pc
      /\ up' /\ (sends' = k \/ sends' = <<>>) /\ skew' = [Notice EXCEPT !.started = real]
  BY <1>0 DEF DoInit, clockVars, localVars
<1>2. \A c \in Cmds : pc'[c] # "mark"
  BY <1>1 DEF DoInit, UpInv, Running
<1>3. (skew'.at = Null <=> skew.at = Null) /\ skew'.started = real
  <2> DEFINE s == Notice
  <2>1. s \in [at : Nat \cup {Null}, noticed : BOOLEAN, started : Nat] /\ (s.at = Null <=> skew.at = Null)
    BY NoticeIs
  <2>2. skew' = [s EXCEPT !.started = real]
    BY <1>1
  <2> HIDE DEF s
  <2> QED
    BY <2>1, <2>2
<1>4. IsFiniteSet(rows) /\ \A r, s \in rows : r.rowid = s.rowid => r = s
  BY RowsNumbered DEF RowInv
<1> HIDE DEF since
<1>5. Good(ts, real, wall)
  BY <1>0, <1>i, <1>4, StoredGood
<1> HIDE DEF ts
<1>6. Good(k, real, wall) /\ \A i \in DOMAIN k : 0 <= Age(k[i], real, wall)
  <2>1. Good(k, real, wall) /\ Len(k) = Len(ts) /\ \A i \in DOMAIN ts : 0 <= Age(k[i], real, wall)
    BY <1>i, <1>0, <1>5, ClampGood
  <2> HIDE DEF k
  <2>2. DOMAIN k = DOMAIN ts
    BY <1>5, <2>1 DEF Good
  <2> QED
    BY <2>1, <2>2
<1>7. Good(sends', real, wall) /\ \A i \in DOMAIN sends' : 0 <= Age(sends'[i], real, wall)
  <2>1. <<>> \in Seq(Time) /\ DOMAIN <<>> = {}
    OBVIOUS
  <2>2. Good(<<>>, real, wall)
    BY <2>1 DEF Good
  <2> HIDE DEF k
  <2> QED
    BY <1>1, <1>6, <2>1, <2>2
<1>8. GoodInv'
  BY <1>1, <1>7 DEF GoodInv
<1>9. TrackInv'
  <2>1. \A h : Tracked(h) => Tracked(h)'
    BY <1>1, <1>2, TrackedStill
  <2> QED
    BY <1>1, <1>2, <1>3, <2>1 DEF CauseInv, TrackInv
<1>10. \E g : Causing(g)'
  <2>1. ASSUME Fresh' = {}
        PROVE  \E g : Causing(g)'
    <3> DEFINE e == [i \in {} |-> i]
    <3>1. e \in [{} -> DOMAIN counted]
      OBVIOUS
    <3>2. Causing(e)'
      BY <1>1, <2>1, <3>1 DEF Causing
    <3> QED
      BY <3>2
  <2>2. CASE skew.at # Null
    <3>1. \A i \in DOMAIN sends' : ~(Age(sends'[i], real, wall) < real - real)
      <4>1. \A t \in Time : Age(t, real, wall) \in Int
        BY CauseTypes
      <4>2. \A i \in DOMAIN sends' : sends'[i] \in Time
        BY <1>7 DEF Good
      <4> QED
        BY <1>0, <1>7, <4>1, <4>2
    <3>2. Fresh' = {}
      BY <1>1, <1>3, <2>2, <3>1 DEF Fresh
    <3> QED
      BY <2>1, <3>2
  <2>3. CASE sends' = <<>>
    <3>1. Fresh' = {}
      BY <2>3 DEF Fresh
    <3> QED
      BY <2>1, <3>1
  <2>4. CASE skew.at = Null /\ sends' = k
    <3>1. PICK h : Tracked(h)
      BY <2>4 DEF CauseInv, TrackInv
    <3>2. wall = real /\ \A i \in DOMAIN counted : counted[i] <= real
      BY <2>4 DEF CauseInv, TrackInv
    <3> DEFINE N == Cardinality(Found(since))
    <3>3. PICK r :
            /\ ts = [i \in DOMAIN r |-> FromStore(r[i].dispatched)]
            /\ N \in Nat /\ DOMAIN r = 1 .. N
            /\ \A i \in DOMAIN r : r[i] \in Found(since) /\ r[i].dispatched \in Int
            /\ \A i, j \in DOMAIN r : i < j => r[i].dispatched <= r[j].dispatched /\ r[i] # r[j]
      BY <1>i, <1>0, <1>4, RecentSendsIs DEF ts
    <3> HIDE DEF N
    <3>4. \A i \in 1 .. N : /\ r[i] \in rows /\ r[i].dispatched # Null /\ r[i].id \in SentIds
                            /\ h[r[i].id] \in DOMAIN counted
                            /\ counted[h[r[i].id]] = r[i].dispatched
                            /\ r[i].dispatched \in Int
      <4> SUFFICES ASSUME NEW i \in 1 .. N
                   PROVE  /\ r[i] \in rows /\ r[i].dispatched # Null /\ r[i].id \in SentIds
                          /\ h[r[i].id] \in DOMAIN counted
                          /\ counted[h[r[i].id]] = r[i].dispatched
                          /\ r[i].dispatched \in Int
        OBVIOUS
      <4>1. r[i] \in rows /\ r[i].dispatched # Null /\ r[i].dispatched \in Int
        BY <3>3 DEF Found
      <4>2. r[i].id \in SentIds
        BY <4>1 DEF SentIds
      <4> QED
        BY <3>1, <4>1, <4>2 DEF Tracked
    <3>5. DOMAIN ts = 1 .. N /\ \A i \in 1 .. N : Age(ts[i], real, wall) = wall - r[i].dispatched
      BY <3>3 DEF FromStore, Age
    <3>6. \A i \in DOMAIN ts : 0 <= Age(ts[i], real, wall)
      BY <1>0, <3>2, <3>4, <3>5
    <3>7. k = ts
      BY <1>0, <1>i, <1>5, <3>6, ClampGood
    <3> DEFINE F == Fresh'
               e == [i \in F |-> h[r[i].id]]
    <3>8. \A i \in F : i \in 1 .. N
      BY <2>4, <3>5, <3>7 DEF Fresh
    <3> HIDE DEF F
    <3>9. e \in [F -> DOMAIN counted] /\ \A i \in F : e[i] = h[r[i].id]
      BY <3>4, <3>8
    <3> HIDE DEF e
    <3>10. ASSUME NEW i \in F, NEW j \in F, e[i] = e[j]
           PROVE  i = j
      <4>1. r[i].id = r[j].id
        BY <3>1, <3>4, <3>8, <3>9, <3>10 DEF Tracked
      <4>2. r[i] = r[j]
        BY <3>4, <3>8, <4>1 DEF IdInv
      <4>3. i \in 1 .. N /\ j \in 1 .. N
        BY <3>8
      <4>4. ~(i < j) /\ ~(j < i)
        BY <3>3, <4>2, <4>3
      <4> QED
        BY <3>3, <4>3, <4>4
    <3>11. \A i \in F : real - counted[e[i]] <= Age(sends'[i], real, wall)
      <4> SUFFICES ASSUME NEW i \in F
                   PROVE  real - counted[e[i]] <= Age(sends'[i], real, wall)
        OBVIOUS
      <4>1. counted[e[i]] = r[i].dispatched /\ r[i].dispatched \in Int
        BY <3>4, <3>8, <3>9
      <4>2. sends' = ts
        BY <2>4, <3>7
      <4>3. Age(sends'[i], real, wall) = wall - r[i].dispatched
        BY <3>5, <3>8, <4>2
      <4> QED
        BY <1>0, <3>2, <4>1, <4>3
    <3>12. PICK b : b = e
      OBVIOUS
    <3>13. Causing(b)'
      BY <1>1, <3>9, <3>10, <3>11, <3>12 DEF Causing, F
    <3> QED
      BY <3>13
  <2> QED
    BY <1>1, <2>2, <2>3, <2>4
<1>11. FreshInv'
  BY <1>1, <1>7, <1>10 DEF FreshInv
<1> QED
  BY <1>8, <1>9, <1>11 DEF CauseInv

\* The other steps of a command neither count a send nor touch the times.
LEMMA CauseQuietSteps ==
  ASSUME TypeOK, CauseInv, NEW c \in Cmds,
         \/ \E k \in Kinds, o \in Ids : Handle(c, k, o)
         \/ Begin(c) \/ CheckChat(c) \/ CheckKnown(c) \/ Insert(c) \/ Prune(c) \/ Prepare(c) \/ Upload(c)
         \/ HandOff(c) \/ Sent(c) \/ Result(c) \/ Fail(c) \/ Discard(c) \/ Recovered(c) \/ Panic(c)
  PROVE  CauseInv'
<1>0. pc \in [Cmds -> Steps] /\ now \in [Cmds -> Time] /\ rows \subseteq Row
  BY RateTypes
<1> DEFINE Same == UNCHANGED <<real, wall, up, sends, counted, skew>>
           Quiet == \A d \in Cmds : pc'[d] = "mark" => pc[d] = "mark" /\ now'[d] = now[d]
           Old == \A x \in rows' : x.dispatched # Null => \E y \in rows : y.id = x.id /\ y.dispatched = x.dispatched
<1>1. SUFFICES Same /\ Quiet /\ Old
  BY CauseQuiet
<1>2. ASSUME NEW k \in Kinds, NEW o \in Ids, Handle(c, k, o)
      PROVE  Same /\ Quiet /\ Old
  BY <1>0, <1>2 DEF Handle, Goto, clockVars, processVars, historyVars
<1>3. CASE Begin(c)
  BY <1>0, <1>3 DEF Begin, Goto, clockVars, processVars, cmdVars, historyVars
<1>4. CASE CheckChat(c)
  BY <1>0, <1>4 DEF CheckChat, Proceed, Refuse, Goto, clockVars, processVars, cmdVars, historyVars
<1>5. CASE CheckKnown(c)
  BY <1>0, <1>5 DEF CheckKnown, Proceed, Refuse, Goto, clockVars, processVars, cmdVars, historyVars
<1>6. CASE Insert(c)
  <2>1. Same /\ Quiet
    BY <1>0, <1>6 DEF Insert, Proceed, Refuse, Goto, clockVars, processVars, cmdVars
  <2>2. rows' = rows \/ rows' = rows \cup {NewRow(outbox[c], now[c])}
    BY <1>6 DEF Insert
  <2>3. NewRow(outbox[c], now[c]).dispatched = Null
    BY DEF NewRow
  <2> QED
    BY <2>1, <2>2, <2>3
<1>7. CASE Prune(c)
  <2>1. Same /\ Quiet
    BY <1>0, <1>7 DEF Prune, Proceed, Refuse, Goto, clockVars, processVars, cmdVars, historyVars
  <2>2. Old
    BY <1>7 DEF Prune, Pruned
  <2> QED
    BY <2>1, <2>2
<1>8. CASE Prepare(c)
  BY <1>0, <1>8 DEF Prepare, Proceed, Refuse, Goto, clockVars, processVars, cmdVars, historyVars
<1>9. CASE Upload(c)
  BY <1>0, <1>9 DEF Upload, Proceed, Refuse, Goto, clockVars, processVars, cmdVars, historyVars
<1>10. CASE HandOff(c)
  BY <1>0, <1>10 DEF HandOff, Proceed, Goto, clockVars, processVars, cmdVars
<1>11. CASE Sent(c)
  BY <1>0, <1>11 DEF Sent, Refuse, Goto, clockVars, processVars, cmdVars, historyVars
<1>12. CASE Result(c)
  <2>1. Same /\ Quiet
    BY <1>0, <1>12 DEF Result, Reply, Return, Goto, clockVars, processVars, localVars, historyVars
  <2>2. CASE rows' = rows
    BY <2>1, <2>2
  <2>3. CASE rows' = SetOutboxMessage(rows, outbox[c])
    <3>1. \A r \in rows : [r EXCEPT !.message = TRUE].id = r.id /\ [r EXCEPT !.message = TRUE].dispatched = r.dispatched
      BY <1>0 DEF Row
    <3>2. Old
      BY <2>3, <3>1 DEF SetOutboxMessage
    <3> QED
      BY <2>1, <3>2
  <2> QED
    BY <1>12, <2>2, <2>3 DEF Result
<1>13. CASE Fail(c)
  BY <1>0, <1>13 DEF Fail, Reply, Return, Goto, clockVars, processVars, localVars, historyVars
<1>14. CASE Discard(c)
  BY <1>0, <1>14 DEF Discard, Return, Goto, clockVars, processVars, historyVars
<1>15. CASE Recovered(c)
  BY <1>0, <1>15 DEF Recovered, Return, Goto, clockVars, processVars, historyVars
<1>16. CASE Panic(c)
  BY <1>0, <1>16 DEF Panic, Goto, clockVars, processVars, localVars, historyVars
<1> QED
  BY <1>2, <1>3, <1>4, <1>5, <1>6, <1>7, <1>8, <1>9, <1>10, <1>11, <1>12, <1>13, <1>14, <1>15, <1>16

\* Every step keeps the cause.
LEMMA CauseStep ==
  ASSUME TypeOK, OneSlot, IdInv, RowInv, UpInv, CauseInv, [Next]_vars
  PROVE  CauseInv'
<1>1. ASSUME NEW c \in Cmds,
             \/ \E k \in Kinds, o \in Ids : Handle(c, k, o)
             \/ CommandStep(c)
             \/ Panic(c)
      PROVE  CauseInv'
  <2>1. CASE CheckBackstop(c)
    BY <2>1, CauseBackstop
  <2>2. CASE RecordSend(c)
    BY <2>2, CauseRecord
  <2>3. CASE Mark(c)
    BY <2>3, CauseMark
  <2> QED
    BY <1>1, <2>1, <2>2, <2>3, CauseQuietSteps DEF CommandStep
<1>2. CASE Tick
  <2>1. /\ UNCHANGED <<up, sends, rows, pc, now, counted, skew>>
        /\ real' = real + 1 /\ wall' = wall + 1
    BY <1>2 DEF Tick, processVars, localVars, historyVars
  <2> DEFINE q == real + 1
             v == wall + 1
  <2>2. q \in Nat /\ v \in Int /\ q = real' /\ v = wall'
    BY <2>1, RateTypes
  <2>3. q = real + 1 /\ v = wall + 1
    OBVIOUS
  <2> HIDE DEF q, v
  <2> QED
    BY <2>1, <2>2, <2>3, CauseLater
<1>3. ASSUME NEW d \in JumpsBack, SetClockBack(d)
      PROVE  CauseInv'
  BY <1>3, CauseJump
<1>4. CASE Crash
  BY <1>4, CauseCrash
<1>5. ASSUME NEW stale \in SUBSET files, DoInit(stale)
      PROVE  CauseInv'
  BY <1>5, CauseInit
<1>6. CASE UNCHANGED vars
  BY <1>6, CauseQuiet DEF vars
<1> QED
  BY <1>1, <1>2, <1>3, <1>4, <1>5, <1>6 DEF Next

\* The first state has no send.
LEMMA CauseStart ==
  ASSUME Init
  PROVE  CauseInv
<1> DEFINE e == [i \in {} |-> i]
<1>1. /\ real = 0 /\ wall = 0 /\ sends = <<>> /\ counted = <<>> /\ rows = {} /\ skew.at = Null
      /\ \A c \in Cmds : pc[c] = "idle"
  BY DEF Init
<1>2. sends \in Seq(Time) /\ DOMAIN sends = {} /\ DOMAIN counted = {}
  BY <1>1
<1>3. GoodInv
  BY <1>2 DEF GoodInv, Good
<1>4. SentIds = {} /\ Fresh = {}
  BY <1>1, <1>2 DEF SentIds, Fresh
<1>5. e \in [{} -> DOMAIN counted]
  OBVIOUS
<1>6. Tracked(e)
  BY <1>1, <1>4, <1>5 DEF Tracked
<1>7. Causing(e)
  BY <1>4, <1>5 DEF Causing
<1>8. TrackInv
  BY <1>1, <1>2, <1>6 DEF TrackInv
<1>9. FreshInv
  BY <1>2, <1>7 DEF FreshInv
<1> QED
  BY <1>3, <1>8, <1>9 DEF CauseInv

\* The times that backstopAllows looks at are counted sends of the window, one each, if
\* the last clock change it noticed and the last start are a window away.
LEMMA KeptAreCounted ==
  ASSUME TypeOK, up, skew.noticed, CauseInv, NEW k, k = Recent(sends, Now),
         skew.at = Null \/ (real - skew.at >= SendWindow /\ real - skew.started >= SendWindow)
  PROVE  \E f \in [DOMAIN k -> CountedNow] :
           /\ \A i, j \in DOMAIN k : f[i] = f[j] => i = j
           /\ \A i \in DOMAIN k : real - counted[f[i]] <= Age(k[i], real, wall)
<1>0. /\ real \in Int /\ wall \in Int /\ SendWindow \in Int /\ Null \notin Int
      /\ skew \in [at : Nat \cup {Null}, noticed : BOOLEAN, started : Nat]
  BY RateTypes
<1>1. Good(sends, real, wall) /\ \A i \in DOMAIN sends : 0 <= Age(sends[i], real, wall)
  BY DEF CauseInv, GoodInv, FreshInv
<1>2. PICK h : Causing(h)
  BY DEF CauseInv, FreshInv
<1>3. PICK g \in [DOMAIN k -> DOMAIN sends] :
        /\ \A i \in DOMAIN k : k[i] = sends[g[i]] /\ Age(k[i], real, wall) < SendWindow
        /\ \A i, j \in DOMAIN k : g[i] = g[j] => i = j
  BY <1>1, RecentKeeps
<1>4. \A i \in DOMAIN k : g[i] \in DOMAIN sends /\ k[i] = sends[g[i]] /\ Age(k[i], real, wall) \in Int
  <2>1. \A i \in DOMAIN k : k[i] \in Time
    BY <1>1, <1>3 DEF Good
  <2> QED
    BY <1>3, <2>1, CauseTypes
<1>5. \A i \in DOMAIN k : g[i] \in Fresh
  <2> SUFFICES ASSUME NEW i \in DOMAIN k
               PROVE  g[i] \in Fresh
    OBVIOUS
  <2> DEFINE a == Age(k[i], real, wall)
  <2>1. a \in Int /\ a < SendWindow /\ a = Age(sends[g[i]], real, wall) /\ g[i] \in DOMAIN sends
    BY <1>3, <1>4
  <2> HIDE DEF a
  <2>2. skew.at = Null \/ (a < real - skew.at /\ a < real - skew.started)
    BY <1>0, <2>1
  <2> QED
    BY <2>1, <2>2 DEF Fresh
<1> DEFINE f == [i \in DOMAIN k |-> h[g[i]]]
<1>6. \A i \in DOMAIN k : /\ h[g[i]] \in DOMAIN counted
                          /\ real - counted[h[g[i]]] <= Age(k[i], real, wall)
                          /\ Age(k[i], real, wall) < SendWindow
                          /\ Age(k[i], real, wall) \in Int
                          /\ counted[h[g[i]]] \in Int
  BY <1>2, <1>3, <1>4, <1>5, CauseTypes DEF Causing
<1>7. \A i \in DOMAIN k : h[g[i]] \in CountedNow
  BY <1>0, <1>6 DEF CountedNow
<1>8. \A i, j \in DOMAIN k : h[g[i]] = h[g[j]] => i = j
  BY <1>2, <1>3, <1>5 DEF Causing
<1>9. f \in [DOMAIN k -> CountedNow] /\ \A i \in DOMAIN k : f[i] = h[g[i]]
  BY <1>7
<1> HIDE DEF f
<1> QED
  BY <1>6, <1>8, <1>9

\* A refusal without a clock change has its cause in the sends.
LEMMA RefusalHasCause ==
  ASSUME TypeOK, UpInv, CauseInv, NEW c \in Cmds, Refused(c), [Next]_vars
  PROVE  \/ SendsCause
         \/ skew.at # Null /\ (~skew.noticed \/ real - skew.at < SendWindow \/ real - skew.started < SendWindow)
<1>0. /\ real \in Int /\ wall \in Int /\ SendWindow \in Int /\ Null \notin Int
      /\ skew \in [at : Nat \cup {Null}, noticed : BOOLEAN, started : Nat]
      /\ MinSendInterval \in Int /\ MaxSendsInWindow \in Nat \ {0} /\ Now = Clock(real, wall)
      /\ pc \in [Cmds -> Steps]
  BY RateTypes
<1> DEFINE k == Recent(sends, Now)
<1>1. ~Allows(k, Now)
  <2>1. pc[c] = "backstop" /\ pc'[c] = "fail"
    BY DEF Refused
  <2>2. CheckBackstop(c)
    <3>1. ~(Crash \/ Tick \/ (\E d \in JumpsBack : SetClockBack(d)) \/ (\E s \in SUBSET files : DoInit(s)) \/ UNCHANGED vars)
      BY <1>0, <2>1 DEF Crash, Running, Tick, SetClockBack, DoInit, vars
    <3>2. PICK d \in Cmds : (\E kk \in Kinds, o \in Ids : Handle(d, kk, o)) \/ CommandStep(d) \/ Panic(d)
      BY <3>1 DEF Next
    <3>3. d = c
      <4>1. \E s : pc' = [pc EXCEPT ![d] = s]
        BY <3>2
        DEF CommandStep, Handle, Panic, Begin, CheckChat, CheckKnown, CheckBackstop, Insert, Prune,
            Prepare, Upload, RecordSend, Mark, HandOff, Sent, Result, Fail, Discard, Recovered,
            Goto, Proceed, Refuse, Reply, Return
      <4> QED
        BY <1>0, <2>1, <4>1
    <3> QED
      BY <1>0, <2>1, <3>2, <3>3
      DEF CommandStep, Handle, Panic, Begin, CheckChat, CheckKnown, Insert, Prune,
          Prepare, Upload, RecordSend, Mark, HandOff, Sent, Result, Fail, Discard, Recovered, Goto
  <2> QED
    BY <1>0, <2>1, <2>2 DEF CheckBackstop, Proceed, Goto
<1>2. SUFFICES ASSUME skew.noticed,
                      skew.at = Null \/ (real - skew.at >= SendWindow /\ real - skew.started >= SendWindow)
               PROVE  SendsCause
  <2>1. CASE skew.at = Null
    BY <1>2, <2>1 DEF UpInv
  <2>2. CASE skew.at # Null
    BY <1>0, <1>2, <2>2
  <2> QED
    BY <2>1, <2>2
<1>3. up
  BY DEF Refused, UpInv, Running
<1>4. Good(k, real, wall)
  BY <1>3, RecentPast DEF CauseInv, GoodInv
<1>5. PICK f \in [DOMAIN k -> CountedNow] :
        /\ \A i, j \in DOMAIN k : f[i] = f[j] => i = j
        /\ \A i \in DOMAIN k : real - counted[f[i]] <= Age(k[i], real, wall)
  BY <1>2, <1>3, KeptAreCounted
<1>6. /\ Len(k) < MaxSendsInWindow
      /\ Len(k) > 0 => Sub(Now, k[Len(k)]) >= MinSendInterval
      => Allows(k, Now)
  BY DEF Allows
<1> HIDE DEF k
<1>7. /\ Len(k) \in Nat /\ DOMAIN k = 1 .. Len(k)
      /\ \A i \in DOMAIN k : k[i] \in Time /\ Age(k[i], real, wall) \in Int /\ Sub(Now, k[i]) = Age(k[i], real, wall)
  <2>1. Len(k) \in Nat /\ DOMAIN k = 1 .. Len(k) /\ \A i \in DOMAIN k : k[i] \in Time
    BY <1>4 DEF Good
  <2>2. \A t \in Time : Age(t, real, wall) \in Int
    BY CauseTypes
  <2>3. \A t \in Time : Sub(Clock(real, wall), t) = Age(t, real, wall)
    BY <1>0, ClockIs
  <2> QED
    BY <1>0, <2>1, <2>2, <2>3
<1>8. CASE Len(k) >= MaxSendsInWindow
  <2> DEFINE m == Len(k)
  <2>0. m \in Nat /\ m \in Int /\ 1 \in Int
    BY <1>7
  <2>1. IsFiniteSet(1 .. Len(counted)) /\ CountedNow \subseteq 1 .. Len(counted)
    BY CauseTypes, FS_Interval DEF CountedNow
  <2>2. IsFiniteSet(CountedNow)
    BY <2>1, FS_Subset
  <2>3. f \in Injection(1 .. Len(k), CountedNow)
    BY <1>5, <1>7 DEF Injection, IsInjective
  <2>4. Cardinality(1 .. Len(k)) <= Cardinality(CountedNow)
    BY <2>2, <2>3, FS_Injection
  <2>5. Cardinality(1 .. Len(k)) = Len(k)
    <3> HIDE DEF m
    <3>1. Cardinality(1 .. m) = m
      BY <2>0, FS_Interval
    <3> QED
      BY <3>1 DEF m
  <2>6. Cardinality(CountedNow) \in Nat
    BY <2>2, FS_CardinalityType
  <2> DEFINE n == Cardinality(CountedNow)
  <2>7. n \in Nat /\ Len(k) <= n
    BY <2>4, <2>5, <2>6
  <2> HIDE DEF n
  <2>8. n >= MaxSendsInWindow
    BY <1>0, <1>7, <1>8, <2>7
  <2> QED
    BY <2>8 DEF SendsCause, n
<1>9. CASE Len(k) < MaxSendsInWindow
  <2>1. Len(k) > 0 /\ ~(Sub(Now, k[Len(k)]) >= MinSendInterval)
    BY <1>1, <1>6, <1>9
  <2> DEFINE n == Len(k)
  <2>2. n \in DOMAIN k
    BY <1>7, <2>1
  <2>3. f[n] \in DOMAIN counted /\ real - counted[f[n]] <= Age(k[n], real, wall) /\ counted[f[n]] \in Int
    BY <1>5, <2>2, CauseTypes DEF CountedNow
  <2>4. Age(k[n], real, wall) < MinSendInterval /\ Age(k[n], real, wall) \in Int
    BY <1>0, <1>7, <2>1, <2>2
  <2>5. real - counted[f[n]] < MinSendInterval
    BY <1>0, <2>3, <2>4
  <2> QED
    BY <2>3, <2>5 DEF SendsCause
<1> QED
  BY <1>0, <1>7, <1>8, <1>9

\* The table has one row per id, in every state.
LEMMA IdInvariant == Spec => []IdInv
<1>1. Init => IdInv
  BY DEF Init, IdInv
<1>2. TypeOK /\ IdInv /\ [Next]_vars => IdInv'
  BY IdStep
<1> QED
  BY <1>1, <1>2, TypeCorrect, PTL DEF Spec

\* What makes a send time of the window a counted send holds in every state.
LEMMA CauseInvariant == Spec => []CauseInv
<1>1. Init => CauseInv
  BY CauseStart
<1>2. TypeOK /\ OneSlot /\ IdInv /\ SteadyInv /\ UpInv /\ CauseInv /\ [Next]_vars => CauseInv'
  BY CauseStep DEF SteadyInv
<1> QED
  BY <1>1, <1>2, TypeCorrect, SingleSlot, IdInvariant, SteadyInvariant, UpInvariant, PTL DEF Spec

\* backstopAllows refuses only with cause: a full window of counted sends, one within the
\* floor interval, or a clock set back, and then for one window after the bridge noticed
\* or last started; whatever store calls fail, and however often the process dies.
THEOREM BackstopCaused == Spec => BackstopHasCause
<1>1. TypeOK /\ UpInv /\ CauseInv /\ [Next]_vars =>
        [\A c \in Cmds : Refused(c) =>
           \/ SendsCause
           \/ skew.at # Null /\ (~skew.noticed \/ real - skew.at < SendWindow \/ real - skew.started < SendWindow)]_vars
  BY RefusalHasCause
<1> QED
  BY <1>1, TypeCorrect, UpInvariant, CauseInvariant, PTL DEF Spec, BackstopHasCause
=============================================================================
