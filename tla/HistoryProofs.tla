--------------------------- MODULE HistoryProofs ---------------------------
(***************************************************************************)
(* Proofs about History: its types and the window of unacknowledged        *)
(* batches, for every number of parts, conversations, acks and cancels,    *)
(* every window, cap and batch size.                                       *)
(***************************************************************************)
EXTENDS History, FiniteSetTheorems, TLAPS

Places == {"top", "pop", "arm", "select", "gone", "done", "download", "convs", "batches",
           "blocked", "emit", "progress", "last"}
Batches == [chat : Chats, n : 1 .. MaxBatchMessages]

\* What the worker's place says of its own variables, and what the counters say of
\* each other.
PlaceInv ==
  /\ pc \in {"emit", "blocked"} => batches # <<>>
  /\ pc = "emit" => next > 1
  /\ pc = "download" => part \in Parts
  /\ dones = 1 => hdone
  /\ signalling <= received

TypeInv == TypeOK /\ PlaceInv

\* As long as the client acknowledges what was handed out, Window.outstanding is the
\* run of seqs after the last one an ack has covered, and Acquire never lets it grow
\* past WindowSize.
WindowInv ==
  ~invented => /\ outstanding = ackedTo + 1 .. next - 1
               /\ next - 1 - ackedTo <= WindowSize

\* A seq is written before the next one is handed out; only a cancelled session
\* loses one.
SeqInv ==
  /\ \A i \in DOMAIN sent : sent[i].seq = i
  /\ Len(sent) <= next - 1
  /\ ~cancelled => Len(sent) = (IF pc = "emit" THEN next - 2 ELSE next - 1)

-----------------------------------------------------------------------------
(* The caps and the batches *)

\* The larger of two numbers.
LEMMA PairMax ==
  ASSUME NEW a \in Int, NEW b \in Int
  PROVE  Max({a, b}) = IF a >= b THEN a ELSE b
BY DEF Max

\* Caps.Filter never lets a chat go beyond the cap.
LEMMA KeptFits ==
  ASSUME TypeOK, NEW c \in Chats, NEW n \in Nat
  PROVE  Kept(c, n) \in Nat /\ Kept(c, n) <= n /\ counts[c] + Kept(c, n) \in 0 .. MaxPerChat
<1>1. counts[c] \in 0 .. MaxPerChat /\ MaxPerChat \in Nat
  BY HistoryAssumption DEF HistoryAssumption, TypeOK
<1> QED
  BY <1>1 DEF Kept

\* What Ends gives: places in 1..n, in order, at most MaxBatchMessages apart.
LEMMA EndsType ==
  ASSUME NEW n \in Nat, NEW e \in Ends(n)
  PROVE  /\ e \in Seq(1 .. n) /\ DOMAIN e = 1 .. Len(e) /\ Len(e) \in Nat
         /\ \A i, j \in DOMAIN e : i < j => e[i] < e[j]
         /\ n > 0 => \E i \in DOMAIN e : e[i] = n
         /\ \A i \in DOMAIN e : /\ e[i] \in 1 .. n /\ Start(e, i) \in 0 .. n
                                 /\ e[i] - Start(e, i) \in 1 .. MaxBatchMessages
<1>0. MaxBatchMessages \in Nat
  BY HistoryAssumption DEF HistoryAssumption
<1>1. PICK l \in 0 .. n : e \in [1 .. l -> 1 .. n]
  BY DEF Ends
<1>2. e \in Seq(1 .. n) /\ DOMAIN e = 1 .. Len(e) /\ Len(e) \in Nat
  BY <1>1
<1>3. /\ \A i, j \in DOMAIN e : i < j => e[i] < e[j]
      /\ \A i \in DOMAIN e : e[i] - Start(e, i) <= MaxBatchMessages
      /\ n > 0 => \E i \in DOMAIN e : e[i] = n
  BY DEF Ends
<1>4. ASSUME NEW i \in DOMAIN e
      PROVE  /\ e[i] \in 1 .. n /\ Start(e, i) \in 0 .. n
             /\ e[i] - Start(e, i) \in 1 .. MaxBatchMessages
  <2>1. e[i] \in 1 .. n /\ i \in Nat \ {0}
    BY <1>2
  <2>2. CASE i = 1
    <3>1. Start(e, i) = 0
      BY <2>2 DEF Start
    <3> QED
      BY <1>0, <1>3, <2>1, <3>1
  <2>3. CASE i # 1
    <3>1. i - 1 \in DOMAIN e /\ i - 1 < i /\ Start(e, i) = e[i - 1]
      BY <1>2, <2>1, <2>3 DEF Start
    <3>2. e[i - 1] \in 1 .. n /\ e[i - 1] < e[i]
      BY <1>2, <1>3, <3>1
    <3> QED
      BY <1>0, <1>3, <2>1, <3>1, <3>2
  <2> QED
    BY <2>2, <2>3
<1> QED
  BY <1>2, <1>3, <1>4

\* The batches of a cut.
LEMMA CutType ==
  ASSUME NEW c \in Chats, NEW n \in Nat, NEW e \in Ends(n)
  PROVE  /\ Cut(c, e) \in Seq(Batches) /\ DOMAIN Cut(c, e) = 1 .. Len(e)
         /\ \A i \in 1 .. Len(e) : Cut(c, e)[i] = [chat |-> c, n |-> e[i] - Start(e, i)]
<1>1. Cut(c, e) = [i \in 1 .. Len(e) |-> [chat |-> c, n |-> e[i] - Start(e, i)]]
  BY EndsType DEF Cut
<1>2. \A i \in 1 .. Len(e) : [chat |-> c, n |-> e[i] - Start(e, i)] \in Batches
  BY EndsType DEF Batches
<1>3. Len(e) \in Nat
  BY EndsType
<1>4. Cut(c, e) \in [1 .. Len(e) -> Batches]
  BY <1>1, <1>2
<1>5. /\ DOMAIN Cut(c, e) = 1 .. Len(e)
      /\ \A i \in 1 .. Len(e) : Cut(c, e)[i] = [chat |-> c, n |-> e[i] - Start(e, i)]
  BY <1>1, Zenon
<1>6. Cut(c, e) \in Seq(Batches)
  BY <1>3, <1>4
<1> QED
  BY <1>5, <1>6

\* Split makes batches of 1 to MaxBatchMessages messages.
LEMMA SplitType ==
  ASSUME NEW c \in Chats, NEW n \in Nat, NEW s \in Split(c, n)
  PROVE  s \in Seq(Batches)
BY CutType DEF Split

\* The parts of a sequence that is not empty.
LEMMA HeadTail ==
  ASSUME NEW S, NEW s \in Seq(S), s # <<>>
  PROVE  Head(s) \in S /\ Tail(s) \in Seq(S)
OBVIOUS

-----------------------------------------------------------------------------
(* Types *)

\* The worker's steps keep the types.
LEMMA WorkerType ==
  ASSUME TypeInv, Worker
  PROVE  TypeInv'
<1> USE HistoryAssumption DEF TypeInv, TypeOK, PlaceInv, Goes, queueVars, workVars, windowVars, resultVars
<1>1. CASE Top
  BY <1>1 DEF Top
<1>2. CASE Pop
  <2>1. CASE hq = <<>>
    BY <1>2, <2>1 DEF Pop
  <2>2. CASE hq # <<>>
    <3>1. Head(hq) \in Parts /\ Tail(hq) \in Seq(Parts)
      BY <2>2, HeadTail
    <3>2. hq' = Tail(hq) /\ part' = Head(hq) /\ pc' = "download"
      BY <1>2, <2>2 DEF Pop
    <3> QED
      BY <1>2, <3>1, <3>2 DEF Pop
  <2> QED
    BY <2>1, <2>2
<1>3. CASE Arm
  BY <1>3 DEF Arm
<1>4. CASE Select
  BY <1>4 DEF Select, SelectDone, SelectSignal, SelectIdle
<1>5. CASE HistoryDone
  <2>1. hdone' \in BOOLEAN
    BY <1>5, Zenon DEF HistoryDone
  <2>2. dones' \in 0 .. 1 /\ (dones' = 1 => hdone')
    <3>1. CASE cancelled \/ hdone
      BY <1>5, <3>1 DEF HistoryDone
    <3>2. CASE ~(cancelled \/ hdone)
      <4>1. hdone'
        BY <1>5, <3>2, Zenon DEF HistoryDone
      <4>2. dones' = dones + 1 /\ dones # 1
        BY <1>5, <3>2 DEF HistoryDone
      <4> QED
        BY <4>1, <4>2
    <3> QED
      BY <3>1, <3>2
  <2> QED
    BY <1>5, <2>1, <2>2 DEF HistoryDone
<1>6. CASE DownloadFails \/ Panic
  BY <1>6 DEF DownloadFails, Panic
<1>7. CASE Download
  BY <1>7 DEF Download, HistoryAssumption
<1>8. CASE ConvsEnd
  BY <1>8 DEF ConvsEnd
<1>9. CASE Conversation
  <2> DEFINE c == Head(convs)
             k == Kept(c.chat, c.n)
  <2>1. c \in [chat : Chats, n : Nat] /\ Tail(convs) \in Seq([chat : Chats, n : Nat])
    BY <1>9, HeadTail DEF Conversation
  <2>2. k \in Nat /\ counts[c.chat] + k \in 0 .. MaxPerChat /\ (\A s \in Split(c.chat, k) : s \in Seq(Batches))
    BY <2>1, KeptFits, SplitType
  <2>3. /\ counts' = [counts EXCEPT ![c.chat] = @ + k] /\ batches' \in Split(c.chat, k)
        /\ convs' = Tail(convs) /\ pc' = "batches"
        /\ UNCHANGED <<cancelled, queueVars, part, idle, dropped, windowVars, sent, dones, hdone>>
    BY <1>9 DEF Conversation
  <2> HIDE DEF c, k
  <2>4. counts' \in [Chats -> 0 .. MaxPerChat]
    BY <2>1, <2>2, <2>3
  <2> QED
    BY <2>1, <2>2, <2>3, <2>4 DEF Batches
<1>10. CASE BatchesEnd \/ AcquireFails
  BY <1>10 DEF BatchesEnd, AcquireFails
<1>11. CASE Acquire
  BY <1>11 DEF Acquire
<1>12. CASE Block
  BY <1>12 DEF Block
<1>13. CASE Unblock
  BY <1>13 DEF Unblock
<1>14. CASE EmitBatch
  <2>1. Head(batches) \in Batches /\ Tail(batches) \in Seq(Batches)
    BY <1>14, HeadTail DEF EmitBatch, Batches
  <2> DEFINE e == [seq |-> next - 1, chat |-> Head(batches).chat, n |-> Head(batches).n]
  <2>2. e \in [seq : Nat \ {0}, chat : Chats, n : 1 .. MaxBatchMessages]
    <3>1. Head(batches).chat \in Chats /\ Head(batches).n \in 1 .. MaxBatchMessages
      BY <2>1 DEF Batches
    <3>2. next - 1 \in Nat \ {0}
      BY <1>14 DEF EmitBatch, Goes
    <3> QED
      BY <3>1, <3>2
  <2>3. sent' = Append(sent, e) /\ batches' = Tail(batches) /\ pc' = "batches"
    BY <1>14 DEF EmitBatch
  <2> HIDE DEF e
  <2>4. sent' \in Seq([seq : Nat \ {0}, chat : Chats, n : 1 .. MaxBatchMessages])
    BY <2>2, <2>3
  <2>5. UNCHANGED <<cancelled, queueVars, part, convs, idle, dropped, windowVars, counts, dones, hdone>>
    BY <1>14 DEF EmitBatch
  <2> QED
    BY <2>1, <2>3, <2>4, <2>5 DEF Batches
<1>15. CASE EmitCancelled
  BY <1>15 DEF EmitCancelled
<1>16. CASE Progress \/ Last
  BY <1>16 DEF Progress, Last
<1> QED
  BY <1>1, <1>2, <1>3, <1>4, <1>5, <1>6, <1>7, <1>8, <1>9, <1>10, <1>11, <1>12, <1>13, <1>14, <1>15,
     <1>16 DEF Worker

\* What an ack covers: nothing new, or the seqs up to its own.
LEMMA CoveredIs ==
  ASSUME next \in Nat \ {0}, ackedTo \in 0 .. next - 1, NEW q \in 1 .. next
  PROVE  /\ Covered(q) \in 0 .. next - 1
         /\ q < next => Covered(q) = IF ackedTo >= q THEN ackedTo ELSE q
         /\ q >= next => Covered(q) = ackedTo
<1>1. Max({ackedTo, q}) = IF ackedTo >= q THEN ackedTo ELSE q
  BY PairMax
<1> QED
  BY <1>1 DEF Covered

\* Every step keeps the types.
LEMMA NextType ==
  ASSUME TypeInv, [Next]_vars
  PROVE  TypeInv'
<1> USE HistoryAssumption DEF TypeInv, TypeOK, PlaceInv, queueVars, workVars, windowVars, resultVars
<1>1. CASE Worker
  BY <1>1, WorkerType
<1>2. ASSUME NEW p \in Parts, Enqueue(p)
      PROVE  TypeInv'
  <2>1. hq' \in Seq(Parts) /\ hseen' \in BOOLEAN
    BY <1>2 DEF Enqueue
  <2>2. signalling' \in 0 .. MaxParts /\ received' \in 0 .. MaxParts /\ signalling' <= received'
    BY <1>2 DEF Enqueue, HistoryAssumption
  <2> QED
    BY <1>2, <2>1, <2>2 DEF Enqueue
<1>3. CASE Signal
  BY <1>3 DEF Signal
<1>4. ASSUME NEW q \in AckSeqs, Ack(q)
      PROVE  TypeInv'
  <2>1. ackedTo' \in 0 .. next - 1
    <3>1. q \in 1 .. next
      BY DEF AckSeqs
    <3> QED
      BY <1>4, <3>1, CoveredIs DEF Ack
  <2>2. woken' \in BOOLEAN /\ invented' \in BOOLEAN
    BY <1>4, Zenon DEF Ack
  <2> QED
    <3>1. UNCHANGED <<hq, hsig, hseen, signalling, received, cancelled, pc, part, convs, idle, batches,
                      dropped, counts, sent, dones, hdone, next>>
      BY <1>4 DEF Ack
    <3>2. outstanding' \subseteq 1 .. next - 1
      BY <1>4 DEF Ack
    <3> QED
      BY <2>1, <2>2, <3>1, <3>2
<1>5. CASE Cancel
  BY <1>5 DEF Cancel
<1>6. CASE UNCHANGED vars
  BY <1>6 DEF vars
<1> QED
  BY <1>1, <1>2, <1>3, <1>4, <1>5, <1>6 DEF Next

\* Types hold, and the worker's variables fit its place.
LEMMA TypeInvariant == Spec => []TypeInv
<1>1. Init => TypeInv
  <2> SUFFICES ASSUME Init PROVE TypeInv
    OBVIOUS
  <2>1. /\ hsig \in BOOLEAN /\ hseen \in BOOLEAN /\ hdone \in BOOLEAN /\ idle \in BOOLEAN
        /\ cancelled \in BOOLEAN /\ woken \in BOOLEAN /\ invented \in BOOLEAN /\ dropped \in BOOLEAN
    BY Zenon DEF Init
  <2>2. /\ hq \in Seq(Parts) /\ convs \in Seq([chat : Chats, n : Nat])
        /\ batches \in Seq([chat : Chats, n : 1 .. MaxBatchMessages])
        /\ sent \in Seq([seq : Nat \ {0}, chat : Chats, n : 1 .. MaxBatchMessages])
    BY DEF Init
  <2> QED
    BY <2>1, <2>2, HistoryAssumption DEF Init, TypeInv, TypeOK, PlaceInv, HistoryAssumption
<1>2. TypeInv /\ [Next]_vars => TypeInv'
  BY NextType
<1> QED
  BY <1>1, <1>2, PTL DEF Spec

-----------------------------------------------------------------------------
(* The window *)

\* Every step keeps the window.
LEMMA NextWindow ==
  ASSUME TypeInv, WindowInv, [Next]_vars
  PROVE  WindowInv'
<1>0. next \in Nat \ {0} /\ ackedTo \in 0 .. next - 1 /\ WindowSize \in Nat \ {0}
  BY HistoryAssumption DEF TypeInv, TypeOK, HistoryAssumption
<1>1. CASE Acquire
  <2> SUFFICES ASSUME ~invented'
               PROVE  /\ outstanding' = ackedTo' + 1 .. next' - 1
                      /\ next' - 1 - ackedTo' <= WindowSize
    BY DEF WindowInv
  <2>1. /\ next' = next + 1 /\ outstanding' = outstanding \cup {next} /\ ackedTo' = ackedTo
        /\ ~invented
    BY <1>1 DEF Acquire
  <2>2. Cardinality(outstanding) = next - 1 - ackedTo
    BY <1>0, <2>1, FS_Interval DEF WindowInv
  <2>3. next - 1 - ackedTo < WindowSize
    BY <1>1, <2>2 DEF Acquire, HasRoom
  <2> QED
    BY <1>0, <2>1, <2>3 DEF WindowInv
<1>2. ASSUME NEW q \in AckSeqs, Ack(q)
      PROVE  WindowInv'
  <2> SUFFICES ASSUME ~invented'
               PROVE  /\ outstanding' = ackedTo' + 1 .. next' - 1
                      /\ next' - 1 - ackedTo' <= WindowSize
    BY DEF WindowInv
  <2>1. next' = next /\ q \in 1 .. next /\ outstanding' = {s \in outstanding : s > q}
    BY <1>2 DEF Ack, AckSeqs
  <2>2. ackedTo' = Covered(q) /\ ~invented /\ ~(q >= next)
    BY <1>2, Zenon DEF Ack
  <2>3. ackedTo' = IF ackedTo >= q THEN ackedTo ELSE q
    BY <1>0, <2>1, <2>2, CoveredIs
  <2> QED
    BY <1>0, <2>1, <2>2, <2>3 DEF WindowInv
<1>3. CASE UNCHANGED <<next, outstanding, ackedTo, invented>>
  BY <1>3 DEF WindowInv
<1>4. CASE Worker /\ ~Acquire
  BY <1>3, <1>4
  DEF Worker, Top, Pop, Arm, Select, SelectDone, SelectSignal, SelectIdle, HistoryDone,
      DownloadFails, Download, ConvsEnd, Conversation, Panic, BatchesEnd, AcquireFails, Block,
      Unblock, EmitBatch, EmitCancelled, Progress, Last, windowVars
<1> QED
  BY <1>1, <1>2, <1>3, <1>4 DEF Next, Enqueue, Signal, Cancel, vars, windowVars

\* Every step keeps the sequence numbers.
LEMMA NextSeq ==
  ASSUME TypeInv, SeqInv, [Next]_vars
  PROVE  SeqInv'
<1>0. /\ next \in Nat \ {0} /\ cancelled \in BOOLEAN
      /\ sent \in Seq([seq : Nat \ {0}, chat : Chats, n : 1 .. MaxBatchMessages])
  BY DEF TypeInv, TypeOK
<1>1. CASE Acquire
  BY <1>0, <1>1 DEF Acquire, Goes, SeqInv, resultVars
<1>2. CASE EmitBatch
  <2> DEFINE e == [seq |-> next - 1, chat |-> Head(batches).chat, n |-> Head(batches).n]
  <2>1. /\ pc = "emit" /\ pc' = "batches" /\ ~cancelled /\ cancelled' = cancelled /\ next' = next
        /\ sent' = Append(sent, e)
    BY <1>2 DEF EmitBatch, Goes, windowVars
  <2>2. e.seq = next - 1
    OBVIOUS
  <2> HIDE DEF e
  <2>3. Len(sent) = next - 2
    BY <2>1 DEF SeqInv
  <2>4. Len(sent') = next - 1 /\ \A i \in DOMAIN sent' : sent'[i].seq = i
    BY <1>0, <2>1, <2>2, <2>3 DEF SeqInv
  <2> QED
    BY <1>0, <2>1, <2>4 DEF SeqInv
<1>3. CASE EmitCancelled
  BY <1>0, <1>3 DEF EmitCancelled, Goes, SeqInv, windowVars, resultVars
<1>4. CASE Worker /\ ~Acquire /\ ~EmitBatch /\ ~EmitCancelled
  <2>1. UNCHANGED <<next, sent, cancelled>> /\ pc # "emit" /\ pc' # "emit"
    BY <1>4
    DEF Worker, Top, Pop, Arm, Select, SelectDone, SelectSignal, SelectIdle, HistoryDone,
        DownloadFails, Download, ConvsEnd, Conversation, Panic, BatchesEnd, AcquireFails, Block,
        Unblock, Progress, Last, Goes, windowVars, resultVars
  <2> QED
    BY <2>1 DEF SeqInv
<1>5. CASE Cancel
  BY <1>5 DEF Cancel, SeqInv, windowVars, resultVars
<1>6. CASE UNCHANGED <<next, sent, cancelled, pc>>
  BY <1>6 DEF SeqInv
<1> QED
  BY <1>1, <1>2, <1>3, <1>4, <1>5, <1>6
  DEF Next, Enqueue, Signal, Ack, vars, windowVars, resultVars

-----------------------------------------------------------------------------
(* What is counted and what is sent *)

\* What was counted is sent or in the batches still to send; these are only left
\* behind where the part is dropped.
SumInv ==
  /\ \A c \in Chats : Of(c, sent) + Of(c, batches) <= counts[c]
  /\ ~dropped =>
       /\ \A c \in Chats : Of(c, sent) + Of(c, batches) = counts[c]
       /\ pc \in {"batches", "blocked", "emit"} \/ (pc = "convs" /\ cancelled) \/ batches = <<>>

\* A sequence of batches, whatever else they hold.
IsBatches(s) ==
  \E S : s \in Seq(S) /\ \A x \in S : x.n \in 1 .. MaxBatchMessages

\* Sequences over a set of sized things are sequences of batches; so are sent and batches.
LEMMA SeqIsBatches ==
  ASSUME NEW S, NEW s \in Seq(S), \A x \in S : x.n \in 1 .. MaxBatchMessages
  PROVE  IsBatches(s)
BY DEF IsBatches

Sent == [seq : Nat \ {0}, chat : Chats, n : 1 .. MaxBatchMessages]

LEMMA Sized ==
  /\ \A x \in Batches : x.n \in 1 .. MaxBatchMessages
  /\ \A x \in Sent : x.n \in 1 .. MaxBatchMessages
BY DEF Batches, Sent

\* The members of MessagesOf.
LEMMA MessageIs ==
  ASSUME NEW c, NEW s, NEW m
  PROVE  m \in MessagesOf(c, s) <=>
           \E i \in DOMAIN s : s[i].chat = c /\ \E k \in 1 .. s[i].n : m = <<i, k>>
BY DEF MessagesOf

\* The messages of a sequence can be counted.
LEMMA MessagesFinite ==
  ASSUME NEW c, NEW s, IsBatches(s)
  PROVE  IsFiniteSet(MessagesOf(c, s)) /\ Of(c, s) \in Nat
<1>0. PICK S : s \in Seq(S) /\ \A x \in S : x.n \in 1 .. MaxBatchMessages
  BY DEF IsBatches
<1>1. DOMAIN s = 1 .. Len(s) /\ Len(s) \in Nat /\ \A i \in DOMAIN s : s[i] \in S
  BY <1>0
<1>2. MaxBatchMessages \in Nat
  BY HistoryAssumption DEF HistoryAssumption
<1>3. IsFiniteSet((1 .. Len(s)) \X (1 .. MaxBatchMessages))
  <2>1. 1 \in Int /\ Len(s) \in Int /\ MaxBatchMessages \in Int
    BY <1>1, <1>2
  <2>2. IsFiniteSet(1 .. Len(s)) /\ IsFiniteSet(1 .. MaxBatchMessages)
    BY <2>1, FS_Interval
  <2> QED
    BY <2>2, FS_Product
<1>4. ASSUME NEW m \in MessagesOf(c, s)
      PROVE  m \in (1 .. Len(s)) \X (1 .. MaxBatchMessages)
  <2>1. PICK i \in DOMAIN s, k \in Int : k \in 1 .. s[i].n /\ m = <<i, k>>
    BY MessageIs
  <2>2. s[i].n \in 1 .. MaxBatchMessages
    BY <1>0, <1>1
  <2>3. k \in 1 .. MaxBatchMessages /\ i \in 1 .. Len(s)
    BY <1>1, <1>2, <2>1, <2>2
  <2> QED
    BY <2>1, <2>3
<1>5. IsFiniteSet(MessagesOf(c, s))
  BY <1>3, <1>4, FS_Subset
<1> QED
  BY <1>5, FS_CardinalityType DEF Of

\* n messages of one batch.
LEMMA OneBatch ==
  ASSUME NEW i, NEW n \in Nat
  PROVE  IsFiniteSet({<<i, k>> : k \in 1 .. n}) /\ Cardinality({<<i, k>> : k \in 1 .. n}) = n
<1> DEFINE T == {<<i, k>> : k \in 1 .. n}
           f == [k \in 1 .. n |-> <<i, k>>]
<1>1. f \in Bijection(1 .. n, T)
  BY DEF Bijection, Injection, Surjection, IsInjective
<1>2. ExistsBijection(1 .. n, T)
  BY <1>1 DEF ExistsBijection
<1>3. IsFiniteSet(1 .. n) /\ Cardinality(1 .. n) = n
  BY FS_Interval
<1> HIDE DEF T
<1>4. IsFiniteSet(T) /\ Cardinality(T) = n
  BY <1>2, <1>3, FS_Bijection
<1> QED
  BY <1>4 DEF T

\* No batches, no messages.
LEMMA OfNone ==
  ASSUME NEW c
  PROVE  Of(c, <<>>) = 0
<1>1. MessagesOf(c, <<>>) = {}
  BY DEF MessagesOf
<1> QED
  BY <1>1, FS_EmptySet DEF Of

\* A batch more at the end.
LEMMA OfAppend ==
  ASSUME NEW c, NEW S, NEW s \in Seq(S), NEW x \in S, \A y \in S : y.n \in 1 .. MaxBatchMessages
  PROVE  Of(c, Append(s, x)) = Of(c, s) + (IF x.chat = c THEN x.n ELSE 0)
<1> DEFINE L == Len(s) + 1
           t == Append(s, x)
           New == {<<L, k>> : k \in 1 .. x.n}
<1>1. /\ DOMAIN t = DOMAIN s \cup {L} /\ L \notin DOMAIN s /\ t[L] = x
      /\ \A i \in DOMAIN s : t[i] = s[i]
  OBVIOUS
<1>2. IsFiniteSet(MessagesOf(c, s)) /\ Of(c, s) \in Nat
  BY MessagesFinite DEF IsBatches
<1>3. x.n \in Nat
  OBVIOUS
<1>4. IsFiniteSet(New) /\ Cardinality(New) = x.n
  BY <1>3, OneBatch
<1> HIDE DEF t, L
<1>5. CASE x.chat = c
  <2>1. MessagesOf(c, t) = MessagesOf(c, s) \cup New
    <3>1. ASSUME NEW m
          PROVE  m \in MessagesOf(c, t) <=> m \in MessagesOf(c, s) \cup New
      <4>1. m \in MessagesOf(c, t) <=>
              \/ \E i \in DOMAIN s : s[i].chat = c /\ \E k \in 1 .. s[i].n : m = <<i, k>>
              \/ \E k \in 1 .. x.n : m = <<L, k>>
        BY <1>1, <1>5, MessageIs
      <4> QED
        BY <4>1, MessageIs
    <3> QED
      BY <3>1
  <2>2. MessagesOf(c, s) \cap New = {}
    BY <1>1, MessageIs
  <2> HIDE DEF New
  <2>3. Cardinality({}) = 0
    BY FS_EmptySet
  <2>4. Cardinality(MessagesOf(c, s) \cup New) = Cardinality(MessagesOf(c, s)) + Cardinality(New)
    <3>1. Cardinality(MessagesOf(c, s)) \in Nat /\ Cardinality(New) \in Nat
      BY <1>2, <1>3, <1>4 DEF Of
    <3>2. Cardinality(MessagesOf(c, s) \cup New) = Cardinality(MessagesOf(c, s)) + Cardinality(New) - 0
      BY <1>2, <1>4, <2>2, <2>3, FS_Union
    <3> QED
      BY <3>1, <3>2
  <2> QED
    BY <1>4, <1>5, <2>1, <2>4 DEF Of, t
<1>6. CASE x.chat # c
  <2>1. MessagesOf(c, t) = MessagesOf(c, s)
    <3>1. ASSUME NEW m
          PROVE  m \in MessagesOf(c, t) <=> m \in MessagesOf(c, s)
      BY <1>1, <1>6, MessageIs
    <3> QED
      BY <3>1
  <2> QED
    BY <1>2, <1>6, <2>1 DEF Of, t
<1> QED
  BY <1>5, <1>6

\* The first batch less.
LEMMA OfTail ==
  ASSUME NEW c, NEW S, NEW s \in Seq(S), s # <<>>, \A y \in S : y.n \in 1 .. MaxBatchMessages
  PROVE  Of(c, s) = Of(c, Tail(s)) + (IF Head(s).chat = c THEN Head(s).n ELSE 0)
<1> DEFINE t == Tail(s)
           First == IF s[1].chat = c THEN {<<1, k>> : k \in 1 .. s[1].n} ELSE {}
           Rest == {m \in MessagesOf(c, s) : m \notin First}
           f == [m \in MessagesOf(c, t) |-> <<m[1] + 1, m[2]>>]
<1>1. /\ Head(s) = s[1] /\ t \in Seq(S) /\ 1 \in DOMAIN s /\ s[1] \in S
      /\ DOMAIN s = 1 .. Len(s) /\ DOMAIN t = 1 .. Len(s) - 1 /\ Len(s) \in Nat
      /\ \A i \in DOMAIN t : t[i] = s[i + 1]
  OBVIOUS
<1>2. s[1].n \in Nat
  BY <1>1
<1> HIDE DEF t
<1>3. IsFiniteSet(MessagesOf(c, s)) /\ Of(c, s) \in Nat /\ IsFiniteSet(MessagesOf(c, t)) /\ Of(c, t) \in Nat
  BY <1>1, MessagesFinite DEF IsBatches
<1>4. First \subseteq MessagesOf(c, s)
  BY <1>1, MessageIs
<1>5. IsFiniteSet(First) /\ Cardinality(First) = IF s[1].chat = c THEN s[1].n ELSE 0
  <2>1. CASE s[1].chat = c
    BY <1>2, <2>1, OneBatch
  <2>2. CASE s[1].chat # c
    BY <2>2, FS_EmptySet
  <2> QED
    BY <2>1, <2>2
<1>6. ASSUME NEW m
      PROVE  m \in Rest <=> \E i \in DOMAIN t : t[i].chat = c /\ \E k \in 1 .. t[i].n : m = <<i + 1, k>>
  <2>1. m \in Rest <=> \E i \in DOMAIN s : i # 1 /\ s[i].chat = c /\ \E k \in 1 .. s[i].n : m = <<i, k>>
    BY <1>1, MessageIs
  <2>2. \A i \in DOMAIN t : i + 1 \in DOMAIN s /\ i + 1 # 1
    BY <1>1
  <2>3. \A i \in DOMAIN s : i # 1 => i - 1 \in DOMAIN t /\ s[i] = t[i - 1] /\ (i - 1) + 1 = i
    BY <1>1
  <2> QED
    BY <1>1, <2>1, <2>2, <2>3
<1>7. f \in Bijection(MessagesOf(c, t), Rest)
  <2> HIDE DEF Rest
  <2>1. ASSUME NEW m \in MessagesOf(c, t)
        PROVE  f[m] \in Rest /\ m[1] \in Nat /\ m = <<m[1], m[2]>>
    <3>1. PICK i \in DOMAIN t, k \in Int : k \in 1 .. t[i].n /\ t[i].chat = c /\ m = <<i, k>>
      BY MessageIs
    <3>2. f[m] = <<i + 1, k>>
      BY <3>1
    <3>3. i \in Nat
      BY <1>1
    <3> QED
      BY <1>6, <3>1, <3>2, <3>3
  <2>2. ASSUME NEW m \in MessagesOf(c, t), NEW q \in MessagesOf(c, t), f[m] = f[q]
        PROVE  m = q
    <3>1. m[1] + 1 = q[1] + 1 /\ m[2] = q[2]
      BY <2>2
    <3>2. m[1] = q[1]
      <4>1. \A x, y \in Nat : x + 1 = y + 1 => x = y
        OBVIOUS
      <4>2. m[1] \in Nat /\ q[1] \in Nat
        BY <2>1
      <4> QED
        BY <3>1, <4>1, <4>2
    <3> QED
      BY <2>1, <3>1, <3>2
  <2>3. ASSUME NEW r \in Rest
        PROVE  \E m \in MessagesOf(c, t) : f[m] = r
    <3>1. PICK i \in DOMAIN t, k \in Int : k \in 1 .. t[i].n /\ t[i].chat = c /\ r = <<i + 1, k>>
      BY <1>6
    <3>2. <<i, k>> \in MessagesOf(c, t)
      BY <3>1, MessageIs
    <3>3. f[<<i, k>>] = <<i + 1, k>>
      BY <3>2
    <3> QED
      BY <3>1, <3>2, <3>3
  <2>4. f \in [MessagesOf(c, t) -> Rest]
    BY <2>1
  <2> HIDE DEF f
  <2> QED
    BY <2>2, <2>3, <2>4 DEF Bijection, Injection, Surjection, IsInjective
<1>8. IsFiniteSet(Rest) /\ Cardinality(Rest) = Of(c, t)
  <2>1. ExistsBijection(MessagesOf(c, t), Rest)
    BY <1>7 DEF ExistsBijection
  <2> HIDE DEF Rest
  <2> QED
    BY <1>3, <2>1, FS_Bijection DEF Of
<1>9. MessagesOf(c, s) = First \cup Rest /\ First \cap Rest = {}
  BY <1>4
<1>10. Of(c, s) = Cardinality(First) + Cardinality(Rest)
  <2> HIDE DEF First, Rest
  <2>1. Cardinality({}) = 0
    BY FS_EmptySet
  <2>2. Cardinality(First) \in Nat /\ Cardinality(Rest) \in Nat
    BY <1>5, <1>8, FS_CardinalityType
  <2>3. Cardinality(First \cup Rest) = Cardinality(First) + Cardinality(Rest) - 0
    BY <1>5, <1>8, <1>9, <2>1, FS_Union
  <2> QED
    BY <1>9, <2>2, <2>3 DEF Of
<1> HIDE DEF First, Rest
<1> QED
  BY <1>1, <1>2, <1>3, <1>5, <1>8, <1>10 DEF t

\* Every set of numbers has a least one.
LEMMA LeastOne ==
  ASSUME NEW T \in SUBSET Nat, T # {}
  PROVE  \E m \in T : \A n \in T : m <= n
<1> DEFINE TT == {1 .. n : n \in T}
           R  == StrictSubsetOrdering(Nat)
<1>1. IsWellFoundedOn(R, FiniteSubsetsOf(Nat))
  BY FS_StrictSubsetOrderingWellFounded
<1>2. TT # {} /\ TT \subseteq FiniteSubsetsOf(Nat)
  <2>1. ASSUME NEW n \in T PROVE 1 .. n \in FiniteSubsetsOf(Nat)
    BY FS_Interval DEF FiniteSubsetsOf
  <2> QED
    BY <2>1
<1>3. PICK x \in TT : \A y \in TT : ~(<<y, x>> \in R)
  <2> HIDE DEF TT, R
  <2> QED
    BY <1>1, <1>2, WFMin
<1>4. PICK m \in T : x = 1 .. m
  BY <1>3
<1>5. ASSUME NEW n \in T, n < m PROVE FALSE
  <2>1. 1 .. n \subseteq 1 .. m /\ 1 .. n # 1 .. m /\ 1 .. n \subseteq Nat /\ 1 .. m \subseteq Nat
    <3>1. m \in 1 .. m /\ m \notin 1 .. n
      BY <1>5
    <3> QED
      BY <1>5, <3>1
  <2>2. <<1 .. n, 1 .. m>> \in R
    BY <2>1 DEF StrictSubsetOrdering
  <2> QED
    BY <1>3, <1>4, <2>2
<1> QED
  BY <1>5

\* Each of the n messages is in exactly one of the batches of a cut: the k-th of the
\* i-th batch is the message at Start(e, i) + k.
LEMMA CutCovers ==
  ASSUME NEW n \in Nat, NEW e \in Ends(n), NEW j \in 1 .. n
  PROVE  \E i \in DOMAIN e : Start(e, i) < j /\ j <= e[i]
<1> DEFINE T == {i \in DOMAIN e : j <= e[i]}
<1>1. DOMAIN e = 1 .. Len(e) /\ Len(e) \in Nat
  BY EndsType
<1>2. T \in SUBSET Nat /\ T # {}
  <2>1. PICK i \in DOMAIN e : e[i] = n
    BY EndsType
  <2> QED
    BY <1>1, <2>1
<1>3. PICK m \in T : \A i \in T : m <= i
  <2> HIDE DEF T
  <2> QED
    BY <1>2, LeastOne
<1>4. Start(e, m) < j
  <2>1. CASE m = 1
    BY <2>1 DEF Start
  <2>2. CASE m # 1
    <3>1. m - 1 \in DOMAIN e /\ ~(m <= m - 1) /\ Start(e, m) = e[m - 1]
      BY <1>1, <2>2 DEF Start
    <3>2. ~(j <= e[m - 1]) /\ e[m - 1] \in Nat
      BY <1>3, <3>1, EndsType
    <3> QED
      BY <3>1, <3>2
  <2> QED
    BY <2>1, <2>2
<1> QED
  BY <1>4

LEMMA CutOrder ==
  ASSUME NEW n \in Nat, NEW e \in Ends(n), NEW i \in DOMAIN e, NEW j \in DOMAIN e, i < j
  PROVE  e[i] <= Start(e, j)
<1>1. DOMAIN e = 1 .. Len(e) /\ Len(e) \in Nat
  BY EndsType
<1>2. j - 1 \in DOMAIN e /\ j # 1 /\ Start(e, j) = e[j - 1]
  BY <1>1 DEF Start
<1>3. e[i] \in Nat /\ e[j - 1] \in Nat
  BY <1>2, EndsType
<1>4. CASE i = j - 1
  BY <1>2, <1>3, <1>4
<1>5. CASE i # j - 1
  <2>1. i < j - 1
    BY <1>1, <1>5
  <2>2. e[i] < e[j - 1]
    BY <1>2, <2>1, EndsType
  <2> QED
    BY <1>2, <1>3, <2>2
<1> QED
  BY <1>4, <1>5

\* Split loses no message and makes none.
LEMMA OfSplit ==
  ASSUME NEW c \in Chats, NEW d \in Chats, NEW n \in Nat, NEW s \in Split(c, n)
  PROVE  Of(d, s) = IF d = c THEN n ELSE 0
<1>1. PICK e \in Ends(n) : s = Cut(c, e)
  BY DEF Split
<1>2. DOMAIN s = DOMAIN e /\ DOMAIN e = 1 .. Len(e) /\ Len(e) \in Nat
  BY <1>1, CutType, EndsType
<1>3. \A i \in DOMAIN e : s[i].chat = c /\ s[i].n = e[i] - Start(e, i)
  <2>1. ASSUME NEW i \in DOMAIN e
        PROVE  s[i].chat = c /\ s[i].n = e[i] - Start(e, i)
    <3> DEFINE z == e[i] - Start(e, i)
    <3>1. s[i] = [chat |-> c, n |-> z]
      BY <1>1, <1>2, CutType, Zenon
    <3> HIDE DEF z
    <3>2. s[i].chat = c /\ s[i].n = z
      BY <3>1
    <3> QED
      BY <3>2 DEF z
  <2> QED
    BY <2>1, Zenon
<1>4. \A i \in DOMAIN e : e[i] \in 1 .. n /\ Start(e, i) \in 0 .. n /\ Start(e, i) < e[i]
  BY EndsType
<1>5. CASE d = c
  <2> DEFINE D == MessagesOf(d, s)
             f == [m \in D |-> Start(e, m[1]) + m[2]]
  <2>1. ASSUME NEW m
        PROVE  m \in D <=> \E i \in DOMAIN e : \E k \in 1 .. (e[i] - Start(e, i)) : m = <<i, k>>
    BY <1>2, <1>3, <1>5, MessageIs
  <2> HIDE DEF D
  <2>2. ASSUME NEW m \in D
        PROVE  /\ m[1] \in DOMAIN e /\ m[1] \in Nat /\ m[2] \in Nat \ {0} /\ m = <<m[1], m[2]>>
               /\ f[m] = Start(e, m[1]) + m[2] /\ f[m] \in 1 .. n /\ f[m] <= e[m[1]]
               /\ Start(e, m[1]) < f[m]
    <3>1. PICK i \in DOMAIN e : \E k \in 1 .. (e[i] - Start(e, i)) : m = <<i, k>>
      BY <2>1
    <3>2. PICK k \in 1 .. (e[i] - Start(e, i)) : m = <<i, k>>
      BY <3>1
    <3>3. f[m] = Start(e, i) + k
      BY <3>2
    <3> HIDE DEF f
    <3>4. i \in Nat /\ e[i] \in 1 .. n /\ Start(e, i) \in 0 .. n
      BY <1>2, <1>4
    <3>5. m[1] = i /\ m[2] = k
      BY <3>2
    <3> QED
      BY <3>2, <3>3, <3>4, <3>5
  <2>3. f \in [D -> 1 .. n]
    BY <2>2
  <2>4. ASSUME NEW x \in D, NEW y \in D, f[x] = f[y]
        PROVE  x = y
    <3> DEFINE i == x[1]
               j == y[1]
    <3>1. /\ i \in DOMAIN e /\ i \in Nat /\ x = <<i, x[2]>> /\ x[2] \in Nat /\ f[x] \in Nat
          /\ f[x] = Start(e, i) + x[2] /\ Start(e, i) < f[x] /\ f[x] <= e[i]
      BY <2>2
    <3>2. /\ j \in DOMAIN e /\ j \in Nat /\ y = <<j, y[2]>> /\ y[2] \in Nat
          /\ f[x] = Start(e, j) + y[2] /\ Start(e, j) < f[x] /\ f[x] <= e[j]
      BY <2>2, <2>4
    <3>3. Start(e, i) \in Nat /\ Start(e, j) \in Nat /\ e[i] \in Nat /\ e[j] \in Nat
      BY <1>4, <3>1, <3>2
    <3> HIDE DEF i, j, f
    <3>4. ~(i < j)
      <4> SUFFICES ASSUME i < j PROVE FALSE
        OBVIOUS
      <4>1. e[i] <= Start(e, j)
        BY <3>1, <3>2, CutOrder
      <4> QED
        BY <3>1, <3>2, <3>3, <4>1
    <3>5. ~(j < i)
      <4> SUFFICES ASSUME j < i PROVE FALSE
        OBVIOUS
      <4>1. e[j] <= Start(e, i)
        BY <3>1, <3>2, CutOrder
      <4> QED
        BY <3>1, <3>2, <3>3, <4>1
    <3>6. i = j
      BY <3>1, <3>2, <3>4, <3>5
    <3>7. x[2] = y[2]
      BY <3>1, <3>2, <3>3, <3>6
    <3> QED
      BY <3>1, <3>2, <3>6, <3>7
  <2>5. ASSUME NEW j \in 1 .. n
        PROVE  \E m \in D : f[m] = j
    <3>1. PICK i \in DOMAIN e : Start(e, i) < j /\ j <= e[i]
      BY CutCovers
    <3>2. j - Start(e, i) \in 1 .. (e[i] - Start(e, i)) /\ Start(e, i) + (j - Start(e, i)) = j
      BY <1>4, <3>1
    <3>3. <<i, j - Start(e, i)>> \in D
      BY <2>1, <3>2
    <3>4. f[<<i, j - Start(e, i)>>] = j
      BY <3>2, <3>3
    <3> QED
      BY <3>3, <3>4
  <2> HIDE DEF f
  <2>6. f \in Bijection(D, 1 .. n)
    BY <2>3, <2>4, <2>5 DEF Bijection, Injection, Surjection, IsInjective
  <2>7. ExistsBijection(D, 1 .. n)
    BY <2>6 DEF ExistsBijection
  <2>8. IsFiniteSet(D)
    <3>1. s \in Seq(Batches)
      BY SplitType
    <3> QED
      BY <3>1, Sized, SeqIsBatches, MessagesFinite DEF D
  <2>9. Cardinality(1 .. n) = n
    BY FS_Interval
  <2>10. Cardinality(D) = n
    BY <2>7, <2>8, <2>9, FS_Bijection
  <2> QED
    BY <1>5, <2>10 DEF Of, D
<1>6. CASE d # c
  <2>1. MessagesOf(d, s) = {}
    <3>1. ASSUME NEW m PROVE m \notin MessagesOf(d, s)
      BY <1>2, <1>3, <1>6, MessageIs
    <3> QED
      BY <3>1
  <2> QED
    BY <1>6, <2>1, FS_EmptySet DEF Of
<1> QED
  BY <1>5, <1>6

\* Every step keeps the sums.
LEMMA NextSum ==
  ASSUME TypeInv, SumInv, [Next]_vars
  PROVE  SumInv'
<1>0. /\ counts \in [Chats -> 0 .. MaxPerChat] /\ MaxPerChat \in Nat
      /\ sent \in Seq(Sent)
      /\ batches \in Seq(Batches)
      /\ cancelled \in BOOLEAN /\ dropped \in BOOLEAN
  BY HistoryAssumption DEF TypeInv, TypeOK, Batches, HistoryAssumption, Sent
<1>n. \A c \in Chats : Of(c, sent) \in Nat /\ Of(c, batches) \in Nat /\ counts[c] \in Nat
  <2>1. IsBatches(sent)
    BY <1>0, Sized, SeqIsBatches
  <2>2. IsBatches(batches)
    BY <1>0, Sized, SeqIsBatches
  <2> QED
    BY <1>0, <2>1, <2>2, MessagesFinite
\* Steps that move no batch.
<1>1. ASSUME UNCHANGED <<counts, sent, batches>>,
             ~dropped' => /\ ~dropped
                          /\ \/ pc' \in {"batches", "blocked", "emit"} \/ (pc' = "convs" /\ cancelled')
                             \/ batches = <<>>
      PROVE  SumInv'
  BY <1>1 DEF SumInv
<1>2. CASE Conversation
  <2> DEFINE x == Head(convs)
             k == Kept(x.chat, x.n)
  <2>1. x \in [chat : Chats, n : Nat]
    BY <1>2, HeadTail DEF Conversation, TypeInv, TypeOK
  <2>2. k \in Nat
    BY <2>1, KeptFits DEF TypeInv
  <2>3. /\ counts' = [counts EXCEPT ![x.chat] = @ + k] /\ batches' \in Split(x.chat, k)
        /\ pc = "convs" /\ ~cancelled /\ pc' = "batches" /\ UNCHANGED <<sent, dropped>>
    BY <1>2 DEF Conversation, Goes
  <2> HIDE DEF x, k
  <2>4. ASSUME NEW c \in Chats
        PROVE  counts'[c] = counts[c] + Of(c, batches')
    <3>1. Of(c, batches') = IF c = x.chat THEN k ELSE 0
      BY <2>1, <2>2, <2>3, OfSplit
    <3> QED
      BY <1>0, <1>n, <2>1, <2>2, <2>3, <3>1
  <2>5. ASSUME NEW c \in Chats
        PROVE  Of(c, batches') \in Nat
    BY <2>1, <2>2, <2>3, OfSplit
  <2>6. ~dropped => \A c \in Chats : Of(c, batches) = 0
    BY <2>3, OfNone DEF SumInv
  <2>7. \A c \in Chats : Of(c, sent) <= counts[c] /\ (~dropped => Of(c, sent) = counts[c])
    BY <1>n, <2>6 DEF SumInv
  <2>8. \A c \in Chats : /\ Of(c, sent') + Of(c, batches') <= counts'[c]
                         /\ ~dropped' => Of(c, sent') + Of(c, batches') = counts'[c]
    BY <1>n, <2>3, <2>4, <2>5, <2>7
  <2> QED
    BY <2>3, <2>8 DEF SumInv
<1>3. CASE EmitBatch
  <2> DEFINE e == [seq |-> next - 1, chat |-> Head(batches).chat, n |-> Head(batches).n]
  <2>1. /\ pc = "emit" /\ pc' = "batches" /\ sent' = Append(sent, e) /\ batches' = Tail(batches)
        /\ UNCHANGED <<counts, dropped>>
    BY <1>3 DEF EmitBatch, Goes
  <2>2. batches # <<>> /\ next - 1 \in Nat \ {0}
    BY <2>1 DEF TypeInv, TypeOK, PlaceInv
  <2>3. Head(batches) \in Batches
    BY <1>0, <2>2, HeadTail
  <2>4. e \in Sent /\ e.chat = Head(batches).chat /\ e.n = Head(batches).n
    BY <2>2, <2>3 DEF Batches, Sent
  <2> HIDE DEF e
  <2>6. ASSUME NEW c \in Chats
        PROVE  Of(c, sent') + Of(c, batches') = Of(c, sent) + Of(c, batches)
    <3> DEFINE z == IF e.chat = c THEN e.n ELSE 0
    <3>1. Of(c, sent') = Of(c, sent) + z
      BY <1>0, <2>1, <2>4, Sized, OfAppend
    <3>2. Of(c, batches) = Of(c, batches') + z
      BY <1>0, <2>1, <2>2, <2>4, Sized, OfTail
    <3>3. z \in Nat
      <4>1. e.n \in 1 .. MaxBatchMessages
        BY <2>4, Sized
      <4> QED
        BY <4>1
    <3>4. Of(c, batches') \in Nat
      <4>1. batches' \in Seq(Batches)
        BY <1>0, <2>1, <2>2, HeadTail
      <4>2. IsBatches(batches')
        BY <4>1, Sized, SeqIsBatches
      <4> QED
        BY <4>2, MessagesFinite
    <3> HIDE DEF z
    <3> QED
      BY <1>n, <3>1, <3>2, <3>3, <3>4
  <2> QED
    BY <2>1, <2>6 DEF SumInv
<1>4. CASE Worker /\ ~Conversation /\ ~EmitBatch
  <2>1. UNCHANGED <<counts, sent, batches>>
    BY <1>4
    DEF Worker, Top, Pop, Arm, Select, SelectDone, SelectSignal, SelectIdle, HistoryDone,
        DownloadFails, Download, ConvsEnd, Panic, BatchesEnd, AcquireFails, Acquire, Block,
        Unblock, EmitCancelled, Progress, Last, Goes, windowVars, resultVars, workVars
  <2>2. CASE ConvsEnd \/ Panic \/ DownloadFails
    <3>1. ~dropped' => ~dropped /\ pc = "convs" /\ ~cancelled
      BY <1>0, <2>2 DEF ConvsEnd, Panic, DownloadFails, Goes
    <3> QED
      BY <1>1, <2>1, <3>1 DEF SumInv
  <2>3. CASE BatchesEnd
    BY <1>1, <2>1, <2>3 DEF BatchesEnd, Goes, SumInv, workVars
  <2>4. CASE AcquireFails \/ Acquire \/ Block \/ Unblock \/ EmitCancelled
    <3>1. /\ dropped' = dropped /\ cancelled' = cancelled
          /\ pc' \in {"batches", "blocked", "emit"} \/ (pc' = "convs" /\ cancelled)
      BY <2>4 DEF AcquireFails, Acquire, Block, Unblock, EmitCancelled, Goes, workVars
    <3> QED
      BY <1>1, <2>1, <3>1
  <2>5. CASE Top \/ Pop \/ Arm \/ Select \/ HistoryDone \/ Download \/ Progress \/ Last
    <3>1. dropped' = dropped /\ pc \notin {"batches", "blocked", "emit", "convs"}
      BY <2>5 DEF Top, Pop, Arm, Select, SelectDone, SelectSignal, SelectIdle, HistoryDone, Download,
                  Progress, Last, Goes, workVars
    <3> QED
      BY <1>1, <2>1, <3>1 DEF SumInv
  <2> QED
    BY <1>4, <2>2, <2>3, <2>4, <2>5 DEF Worker
<1>5. CASE UNCHANGED <<counts, sent, batches, dropped, pc>> /\ (cancelled => cancelled')
  BY <1>1, <1>5 DEF SumInv
<1> QED
  BY <1>2, <1>3, <1>4, <1>5
  DEF Next, Enqueue, Signal, Ack, Cancel, vars, windowVars, resultVars, workVars, queueVars

-----------------------------------------------------------------------------
(* Theorems *)

\* The variables of the history sync keep their types; in particular Caps.Filter
\* never counts a chat beyond limits.historyMaxPerChat, and Split makes no empty batch.
THEOREM TypeCorrect == Spec => []TypeOK
<1>1. TypeInv => TypeOK
  BY DEF TypeInv
<1> QED
  BY <1>1, TypeInvariant, PTL

\* The batches on stdout are numbered without a gap, and at most WindowSize of them
\* are beyond the last one that an ack has covered, for a client that acknowledges
\* seqs it was given, in any order and any number of times.
THEOREM WindowHoldsAlways == Spec => []WindowHolds
<1>1. Init => WindowInv /\ SeqInv
  BY HistoryAssumption DEF Init, WindowInv, SeqInv, HistoryAssumption
<1>2. TypeInv /\ WindowInv /\ [Next]_vars => WindowInv'
  BY NextWindow
<1>3. TypeInv /\ SeqInv /\ [Next]_vars => SeqInv'
  BY NextSeq
<1>4. TypeInv /\ WindowInv /\ SeqInv => WindowHolds
  <2> SUFFICES ASSUME TypeInv, WindowInv, SeqInv
               PROVE  WindowHolds
    OBVIOUS
  <2>1. /\ next \in Nat \ {0} /\ ackedTo \in 0 .. next - 1 /\ Len(sent) \in Nat /\ WindowSize \in Nat
        /\ TypeOK
    BY HistoryAssumption DEF TypeInv, TypeOK, HistoryAssumption
  <2>2. ~invented => Len(sent) - ackedTo <= WindowSize
    BY <2>1 DEF WindowInv, SeqInv
  <2> QED
    BY <2>1, <2>2 DEF WindowHolds, SeqInv
<1> QED
  BY <1>1, <1>2, <1>3, <1>4, TypeInvariant, PTL DEF Spec

\* No chat gets more than its cap, and what Caps counted was sent whenever the worker
\* rests, unless a part was dropped: Split, the window and the loop lose no message
\* (Caps.Filter, Split, historyConversation).
THEOREM CountsAreSentAlways == Spec => []CountsAreSent
<1>1. Init => SumInv
  <2> SUFFICES ASSUME Init
               PROVE  SumInv
    OBVIOUS
  <2>1. sent = <<>> /\ batches = <<>> /\ counts = [c \in Chats |-> 0]
    BY DEF Init
  <2>2. \A c \in Chats : Of(c, sent) = 0 /\ Of(c, batches) = 0 /\ counts[c] = 0
    BY <2>1, OfNone
  <2> QED
    BY <2>1, <2>2 DEF SumInv
<1>2. TypeInv /\ SumInv /\ [Next]_vars => SumInv'
  BY NextSum
<1>3. TypeInv /\ SumInv => CountsAreSent
  <2> SUFFICES ASSUME TypeInv, SumInv, NEW c \in Chats
               PROVE  /\ Of(c, sent) <= counts[c] /\ counts[c] <= MaxPerChat
                      /\ pc = "select" /\ ~dropped => Of(c, sent) = counts[c]
    BY DEF CountsAreSent
  <2>1. counts[c] \in 0 .. MaxPerChat /\ MaxPerChat \in Nat
    BY HistoryAssumption DEF TypeInv, TypeOK, HistoryAssumption
  <2>2. Of(c, sent) \in Nat /\ Of(c, batches) \in Nat
    <3>1. sent \in Seq(Sent) /\ batches \in Seq(Batches)
      BY DEF TypeInv, TypeOK, Sent, Batches
    <3> QED
      BY <3>1, Sized, SeqIsBatches, MessagesFinite
  <2> QED
    BY <2>1, <2>2, OfNone DEF SumInv
<1> QED
  BY <1>1, <1>2, <1>3, TypeInvariant, PTL DEF Spec
=============================================================================
