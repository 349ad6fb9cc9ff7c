---------------------------- MODULE ChatsProofs ----------------------------
(***************************************************************************)
(* Proofs about Chats: its types, the one merge of a linked id in a run,   *)
(* and the chats a client has been told of, for every number of goroutines,*)
(* chats, events, faults and restarts.                                     *)
(***************************************************************************)
EXTENDS Chats, TLAPS

Steps == {"idle", "alias", "resolve", "aliasline", "sweep", "mark", "add", "chatline",
          "line", "group", "groupline", "fetch", "load", "each"}
Works == [kind : Kinds \cup {Null}, jid : Jids \cup {Null}, lid : Lids \cup {Null},
          todo : SUBSET Jids, step : Steps]

IsTable(f) == DOMAIN f \subseteq Jids /\ f \in [DOMAIN f -> BOOLEAN]

\* The steps of alias, and those after a linked id was taken.
AliasSteps == {"alias", "resolve", "aliasline"}
MergeSteps == {"resolve", "aliasline"}

\* What a job's step says of the chat it is about and of what is left of it.
Fits(r) ==
  /\ r.step \in AliasSteps => r.lid \in Lids /\ r.jid = PhoneOf[r.lid]
  /\ r.step \in {"mark", "add", "chatline", "line"} => r.jid \in Jids /\ r.kind # "connected"
  /\ r.step = "fetch" => r.kind = "refresh"
  /\ r.step \in {"group", "groupline", "fetch"} => r.jid \in Groups
  /\ r.step \in {"sweep", "load", "each"} => r.kind = "connected"
  /\ r.kind = "connected" /\ r.step \in AliasSteps \cup {"sweep"} => r.todo \subseteq Lids
  /\ r.kind = "connected" /\ r.step \in {"group", "groupline", "each"} => r.todo \subseteq Groups

\* Only a linked id waits for its number, in the store too.
StoredOK == \A j \in DOMAIN stored : stored[j] => j \in Lids

TypeInv == TypeOK /\ StoredOK /\ \A w \in Workers : Fits(work[w])

\* A linked id that was taken no longer waits; only the one worker that took it is
\* between that and its aliasOf line.
MergeInv ==
  /\ \A l \in Lids : aliases[l] = 0 \/ (aliases[l] = 1 /\ l \in DOMAIN chats /\ ~chats[l])
  /\ \A w \in Workers : work[w].step \in MergeSteps =>
       aliases[work[w].lid] = 0 /\ work[w].lid \in DOMAIN chats /\ ~chats[work[w].lid]
  /\ \A v, w \in Workers :
       work[v].step \in MergeSteps /\ work[w].step \in MergeSteps /\ work[v].lid = work[w].lid => v = w

\* The chat a job is about is reported once the job is past alias and markReported.
Reported(r) ==
  r.step \in {"resolve", "aliasline", "add", "chatline", "line"}
    \/ (r.kind = "message" /\ r.step \in {"group", "groupline"}) => r.jid \in DOMAIN chats

\* A job about to write chat j to the store.
Stores(r, j) == r.step \in {"add", "resolve"} /\ r.jid = j

\* A reported chat is stored, about to be, or known to be lost; so is every chat the
\* client has been told of, also in an earlier run.
RememberInv ==
  /\ \A w \in Workers : Reported(work[w])
  /\ \A j \in told : j \in DOMAIN chats \cup unsaved
  /\ \A j \in DOMAIN chats : j \in DOMAIN stored \cup unsaved \/ \E w \in Workers : Stores(work[w], j)

-----------------------------------------------------------------------------
(* Tables and jobs *)

\* Put adds or replaces one entry.
LEMMA PutValue ==
  ASSUME NEW f, NEW j, NEW v
  PROVE  /\ DOMAIN Put(f, j, v) = DOMAIN f \cup {j}
         /\ Put(f, j, v)[j] = v
         /\ \A i \in DOMAIN f : i # j => Put(f, j, v)[i] = f[i]
BY DEF Put

\* A chat that is put as not waiting leaves the others as they wait.
LEMMA PutFalse ==
  ASSUME NEW f, NEW j
  PROVE  \A i \in DOMAIN Put(f, j, FALSE) : Put(f, j, FALSE)[i] => i \in DOMAIN f /\ f[i]
BY DEF Put

\* A table stays one when a chat is put in it.
LEMMA PutType ==
  ASSUME NEW f, IsTable(f), NEW j \in Jids, NEW v \in BOOLEAN
  PROVE  IsTable(Put(f, j, v)) /\ IsTable(Insert(f, j, v))
<1>1. Put(f, j, v) \in [DOMAIN f \cup {j} -> BOOLEAN]
  <2>1. \A i \in DOMAIN f \cup {j} : (IF i = j THEN v ELSE f[i]) \in BOOLEAN
    BY Zenon DEF IsTable
  <2> QED
    BY <2>1, Zenon DEF Put
<1>2. IsTable(Put(f, j, v))
  BY <1>1 DEF IsTable
<1> QED
  BY <1>2 DEF Insert

\* A table is a function on some of the chats.
LEMMA TableIs ==
  ASSUME NEW f
  PROVE  IsTable(f) <=> \E D \in SUBSET Jids : f \in [D -> BOOLEAN]
BY DEF IsTable

\* Insert never takes an entry away, nor does ResolveLIDChat.
LEMMA InsertKeeps ==
  ASSUME NEW f, NEW j, NEW v
  PROVE  DOMAIN Insert(f, j, v) = DOMAIN f \cup {j}
BY PutValue DEF Insert

\* A chat that is inserted waits for its number only if it is said to.
LEMMA InsertWaits ==
  ASSUME NEW f, \A i \in DOMAIN f : f[i] => i \in Lids, NEW j
  PROVE  /\ \A i \in DOMAIN Insert(f, j, FALSE) : Insert(f, j, FALSE)[i] => i \in Lids
         /\ \A i \in DOMAIN Insert(f, j, IsLid(j)) : Insert(f, j, IsLid(j))[i] => i \in Lids
BY DEF Insert, Put, IsLid

\* The table that ResolveLIDChat leaves: a table, with linked ids waiting only, and the phone number in it.
LEMMA ResolvedType ==
  ASSUME TypeOK, NEW l \in Lids, NEW p \in Jids
  PROVE  /\ IsTable(Resolved(l, p))
         /\ StoredOK => \A j \in DOMAIN Resolved(l, p) : Resolved(l, p)[j] => j \in Lids
         /\ DOMAIN Resolved(l, p) = DOMAIN stored \cup {p}
<1>1. IsTable(stored) /\ l \in Jids
  BY TableIs DEF TypeOK, Jids
<1>2. ASSUME NEW s, IsTable(s), DOMAIN s = DOMAIN stored, Resolved(l, p) = Insert(s, p, FALSE),
             StoredOK => \A i \in DOMAIN s : s[i] => i \in Lids
      PROVE  /\ IsTable(Resolved(l, p)) /\ DOMAIN Resolved(l, p) = DOMAIN stored \cup {p}
             /\ StoredOK => \A j \in DOMAIN Resolved(l, p) : Resolved(l, p)[j] => j \in Lids
  <2>1. IsTable(Insert(s, p, FALSE))
    BY <1>2, PutType
  <2>2. DOMAIN Insert(s, p, FALSE) = DOMAIN s \cup {p}
    BY InsertKeeps
  <2>3. StoredOK => \A j \in DOMAIN Insert(s, p, FALSE) : Insert(s, p, FALSE)[j] => j \in Lids
    BY <1>2, InsertWaits
  <2> QED
    BY <1>2, <2>1, <2>2, <2>3
<1>3. CASE l \in DOMAIN stored
  <2>1. IsTable(Put(stored, l, FALSE))
    BY <1>1, PutType
  <2>2. DOMAIN Put(stored, l, FALSE) = DOMAIN stored
    <3>1. DOMAIN Put(stored, l, FALSE) = DOMAIN stored \cup {l}
      BY PutValue
    <3> QED
      BY <1>3, <3>1
  <2>3. Resolved(l, p) = Insert(Put(stored, l, FALSE), p, FALSE)
    BY <1>3 DEF Resolved
  <2>4. StoredOK => \A i \in DOMAIN Put(stored, l, FALSE) : Put(stored, l, FALSE)[i] => i \in Lids
    BY PutFalse DEF StoredOK
  <2> QED
    BY <1>2, <2>1, <2>2, <2>3, <2>4
<1>4. CASE l \notin DOMAIN stored
  <2>1. Resolved(l, p) = Insert(stored, p, FALSE)
    BY <1>4 DEF Resolved
  <2> QED
    BY <1>1, <1>2, <2>1 DEF StoredOK
<1> QED
  BY <1>3, <1>4

\* Goes moves one worker.
LEMMA GoesWork ==
  ASSUME TypeOK, NEW w \in Workers, NEW s \in Steps, Goes(w, s)
  PROVE  /\ work' \in [Workers -> Works]
         /\ \A v \in Workers : v # w => work'[v] = work[v]
         /\ s = "idle" => work'[w] = Idle
         /\ s # "idle" => /\ work'[w].step = s
                          /\ work'[w].kind = work[w].kind
                          /\ work'[w].jid = work[w].jid
                          /\ work'[w].lid = work[w].lid
                          /\ work'[w].todo = work[w].todo
<1>1. Idle \in Works
  BY DEF Idle, Works, Steps
<1>2. work \in [Workers -> Works]
  BY DEF TypeOK, Works, Steps
<1>3. [work[w] EXCEPT !.step = s] \in Works
  BY <1>2 DEF Works
<1> QED
  BY <1>1, <1>2, <1>3 DEF Goes, Works

\* TypeOK without its quantifiers over functions.
TablesOK ==
  /\ IsTable(chats) /\ IsTable(stored)
  /\ \A j \in DOMAIN chats : chats[j] => j \in Lids

RestOK ==
  /\ mapped \subseteq Lids /\ merged \subseteq Lids
  /\ groupCache \subseteq Groups /\ groupsSent \subseteq Groups /\ asked \subseteq Groups
  /\ described \subseteq Groups /\ missed \subseteq Groups
  /\ groupsLoaded \in BOOLEAN /\ groupsOnce \in BOOLEAN
  /\ told \subseteq Jids /\ unsaved \subseteq Jids
  /\ aliases \in [Lids -> Nat]
  /\ jobs \in 0 .. MaxJobs /\ crashes \in 0 .. MaxCrashes

\* TypeOK in parts, now and after a step.
LEMMA TypeSplits ==
  /\ TypeOK <=> TablesOK /\ RestOK /\ work \in [Workers -> Works]
  /\ TypeOK' <=> TablesOK' /\ RestOK' /\ work' \in [Workers -> Works]
<1>1. /\ IsTable(chats) <=> \E D \in SUBSET Jids : chats \in [D -> BOOLEAN]
      /\ IsTable(stored) <=> \E D \in SUBSET Jids : stored \in [D -> BOOLEAN]
  BY TableIs
<1>2. /\ IsTable(chats') <=> \E D \in SUBSET Jids : chats' \in [D -> BOOLEAN]
      /\ IsTable(stored') <=> \E D \in SUBSET Jids : stored' \in [D -> BOOLEAN]
  BY TableIs
<1>3. TypeOK <=> TablesOK /\ RestOK /\ work \in [Workers -> Works]
  BY <1>1, Zenon DEF TypeOK, TablesOK, RestOK, Works, Steps
<1>4. TypeOK' <=> TablesOK' /\ RestOK' /\ work' \in [Workers -> Works]
  BY <1>2, Zenon DEF TypeOK, TablesOK, RestOK, Works, Steps, IsTable
<1> QED
  BY <1>3, <1>4

\* The number of a linked id is a chat, and no linked id.
LEMMA Numbers ==
  ASSUME NEW l \in Lids
  PROVE  l \in Jids /\ PhoneOf[l] \in Jids /\ PhoneOf[l] \notin Lids
BY ChatsAssumption DEF ChatsAssumption, Jids, Phones

-----------------------------------------------------------------------------
(* Types *)

\* A step of one worker keeps the types when what it does to that worker fits.
LEMMA WorkerType ==
  ASSUME TypeInv, NEW w \in Workers, TablesOK', StoredOK', RestOK', work' \in [Workers -> Works],
         \A v \in Workers : v # w => work'[v] = work[v],
         Fits(work'[w])
  PROVE  TypeInv'
BY TypeSplits DEF TypeInv

\* A goroutine's step keeps the types.
LEMMA StepType ==
  ASSUME TypeInv, NEW w \in Workers, Step(w)
  PROVE  TypeInv'
<1> DEFINE r == work[w]
<1>0. TablesOK /\ StoredOK /\ RestOK /\ work \in [Workers -> Works] /\ Fits(work[w]) /\ work[w] \in Works /\ TypeOK
  BY TypeSplits DEF TypeInv
<1>1. CASE Alias(w)
  <2>1. r.step = "alias" /\ r.lid \in Lids /\ r.jid = PhoneOf[r.lid] /\ RestOK'
    BY <1>0, <1>1 DEF Alias, Fits, AliasSteps, RestOK, groupVars, lineVars, bounds
  <2>2. TablesOK' /\ StoredOK'
    <3>1. CASE chats' = chats
      BY <1>0, <1>1, <3>1 DEF Alias, TablesOK, StoredOK
    <3>2. CASE chats' = Put(Put(chats, r.lid, FALSE), r.jid, FALSE)
      <4>1. IsTable(Put(chats, r.lid, FALSE))
        BY <1>0, <2>1, PutType, Numbers DEF TablesOK, StoredOK
      <4>2. IsTable(chats')
        BY <2>1, <3>2, <4>1, PutType, Numbers
      <4>3. \A j \in DOMAIN chats' : chats'[j] => j \in DOMAIN chats /\ chats[j]
        <5>1. \A j \in DOMAIN chats' : chats'[j] => j \in DOMAIN Put(chats, r.lid, FALSE) /\ Put(chats, r.lid, FALSE)[j]
          BY <3>2, PutFalse
        <5>2. \A j \in DOMAIN Put(chats, r.lid, FALSE) : Put(chats, r.lid, FALSE)[j] => j \in DOMAIN chats /\ chats[j]
          BY PutFalse
        <5> QED
          BY <5>1, <5>2
      <4> QED
        BY <1>0, <1>1, <4>2, <4>3 DEF Alias, TablesOK, StoredOK
    <3> QED
      BY <1>1, <3>1, <3>2 DEF Alias
  <2>3. \E s \in Steps : Goes(w, s) /\ s \in {"resolve", AfterAlias(r)}
    BY <1>1 DEF Alias, AfterAlias, Steps
  <2>4. work' \in [Workers -> Works] /\ (\A v \in Workers : v # w => work'[v] = work[v]) /\ Fits(work'[w])
    BY <1>0, <2>1, <2>3, GoesWork, Numbers DEF Fits, AfterAlias, AliasSteps, Idle
  <2> QED
    BY <2>1, <2>2, <2>4, WorkerType
<1>2. CASE ResolveLIDChat(w)
  <2>1. r.step = "resolve" /\ r.lid \in Lids /\ r.jid = PhoneOf[r.lid] /\ Goes(w, "aliasline")
    BY <1>0, <1>2 DEF ResolveLIDChat, Fits, AliasSteps
  <2>2. TablesOK' /\ StoredOK'
    <3>1. stored' = stored \/ stored' = Resolved(r.lid, r.jid)
      BY <1>2 DEF ResolveLIDChat
    <3>2. IsTable(stored')
      <4>1. IsTable(stored) /\ IsTable(Resolved(r.lid, r.jid))
        BY <1>0, <2>1, ResolvedType, Numbers DEF TablesOK
      <4> QED
        BY <3>1, <4>1, Zenon
    <3>3. StoredOK'
      <4>1. \A j \in DOMAIN Resolved(r.lid, r.jid) : Resolved(r.lid, r.jid)[j] => j \in Lids
        BY <1>0, <2>1, ResolvedType, Numbers
      <4> QED
        BY <1>0, <3>1, <4>1 DEF StoredOK
    <3> QED
      BY <1>0, <1>2, <3>2, <3>3 DEF ResolveLIDChat, TablesOK
  <2>3. RestOK'
    BY <1>0, <1>2, <2>1, Numbers DEF ResolveLIDChat, RestOK, groupVars, lineVars, bounds
  <2>4. work' \in [Workers -> Works] /\ (\A v \in Workers : v # w => work'[v] = work[v]) /\ Fits(work'[w])
    BY <1>0, <2>1, GoesWork DEF Fits, AliasSteps, Steps
  <2> QED
    BY <2>2, <2>3, <2>4, WorkerType
<1>3. CASE AliasLine(w)
  <2>1. r.step = "aliasline" /\ r.lid \in Lids /\ r.jid = PhoneOf[r.lid] /\ Goes(w, AfterAlias(r))
        /\ AfterAlias(r) \in Steps
    BY <1>0, <1>3 DEF AliasLine, Fits, AliasSteps, AfterAlias, Steps
  <2>2. TablesOK' /\ StoredOK'
    BY <1>0, <1>3 DEF AliasLine, TablesOK, StoredOK
  <2>3. RestOK'
    BY <1>0, <1>3, <2>1, Numbers DEF AliasLine, RestOK, groupVars, bounds
  <2>4. work' \in [Workers -> Works] /\ (\A v \in Workers : v # w => work'[v] = work[v]) /\ Fits(work'[w])
    BY <1>0, <2>1, GoesWork, Numbers DEF Fits, AliasSteps, AfterAlias, Idle
  <2> QED
    BY <2>2, <2>3, <2>4, WorkerType
<1>4. CASE Sweep(w)
  <2>1. r.step = "sweep" /\ r.kind = "connected" /\ r.todo \subseteq Lids
    BY <1>0, <1>4 DEF Sweep, Fits
  <2>2. TablesOK' /\ StoredOK' /\ RestOK'
    BY <1>0, <1>4 DEF Sweep, TablesOK, StoredOK, RestOK, lineVars, bounds
  <2>3. CASE Goes(w, IF groupsOnce THEN "idle" ELSE "load")
    <3>1. \E s \in {"idle", "load"} : Goes(w, s)
      BY <2>3
    <3> QED
      BY <1>0, <2>1, <2>2, <3>1, GoesWork, WorkerType DEF Fits, AliasSteps, Steps, Idle
  <2>4. ASSUME NEW l \in r.todo,
               work' = [work EXCEPT ![w].todo = @ \ {l}, ![w].lid = l, ![w].jid = PhoneOf[l],
                                    ![w].step = IF l \in mapped THEN "alias" ELSE "sweep"]
        PROVE  TypeInv'
    <3>1. l \in Lids /\ PhoneOf[l] \in Jids
      BY <2>1, <2>4, Numbers
    <3>2. PICK s \in {"alias", "sweep"} : work' = [work EXCEPT ![w].todo = @ \ {l}, ![w].lid = l,
                                                     ![w].jid = PhoneOf[l], ![w].step = s]
      BY <2>4
    <3>3. work' \in [Workers -> Works] /\ (\A v \in Workers : v # w => work'[v] = work[v])
          /\ work'[w] = [r EXCEPT !.todo = @ \ {l}, !.lid = l, !.jid = PhoneOf[l], !.step = s]
      BY <1>0, <3>1, <3>2 DEF Works, Steps
    <3>4. Fits(work'[w])
      BY <1>0, <2>1, <3>1, <3>3 DEF Fits, AliasSteps, Works
    <3> QED
      BY <2>2, <3>3, <3>4, WorkerType
  <2> QED
    BY <1>4, <2>3, <2>4 DEF Sweep
<1>5. CASE MarkReported(w)
  <2>1. r.step = "mark" /\ r.jid \in Jids /\ RestOK'
    BY <1>0, <1>5 DEF MarkReported, Fits, RestOK, groupVars, lineVars, bounds
  <2>2. TablesOK' /\ StoredOK'
    <3>1. CASE chats' = chats
      BY <1>0, <1>5, <3>1 DEF MarkReported, TablesOK, StoredOK
    <3>2. CASE chats' = Put(chats, r.jid, IsLid(r.jid))
      <4>1. IsTable(chats')
        <5>1. IsLid(r.jid) \in BOOLEAN
          BY DEF IsLid
        <5> QED
          BY <1>0, <2>1, <3>2, <5>1, PutType DEF TablesOK, StoredOK
      <4>2. \A j \in DOMAIN chats' : chats'[j] => j \in Lids
        <5> SUFFICES ASSUME NEW j \in DOMAIN chats', chats'[j]
                     PROVE  j \in Lids
          OBVIOUS
        <5>1. CASE j = r.jid
          BY <3>2, <5>1 DEF Put, IsLid
        <5>2. CASE j # r.jid
          BY <1>0, <3>2, <5>2 DEF TablesOK, StoredOK, Put
        <5> QED
          BY <5>1, <5>2
      <4> QED
        BY <1>0, <1>5, <4>1, <4>2 DEF MarkReported, TablesOK, StoredOK
    <3> QED
      BY <1>5, <3>1, <3>2 DEF MarkReported
  <2>3. \E s \in {"add", "line", "group"} : Goes(w, s) /\ (s = "group" => r.jid \in Groups)
    BY <1>5 DEF MarkReported, AfterMark, AfterChat
  <2>4. work' \in [Workers -> Works] /\ (\A v \in Workers : v # w => work'[v] = work[v]) /\ Fits(work'[w])
    BY <1>0, <2>1, <2>3, GoesWork DEF Fits, AliasSteps, Steps
  <2> QED
    BY <2>1, <2>2, <2>4, WorkerType
<1>6. CASE AddChats(w)
  <2>1. r.step = "add" /\ r.jid \in Jids /\ r.kind # "connected"
    BY <1>0, <1>6 DEF AddChats, Fits
  <2>2. TablesOK' /\ StoredOK'
    <3>1. IsLid(r.jid) \in BOOLEAN
      BY DEF IsLid
    <3>2. stored' = stored \/ stored' = Insert(stored, r.jid, IsLid(r.jid))
      BY <1>6 DEF AddChats
    <3>3. IsTable(stored')
      BY <1>0, <2>1, <3>1, <3>2, PutType DEF TablesOK
    <3>4. StoredOK'
      BY <1>0, <3>2, InsertWaits DEF StoredOK
    <3> QED
      BY <1>0, <1>6, <3>3, <3>4 DEF AddChats, TablesOK
  <2>3. RestOK'
    BY <1>0, <1>6, <2>1 DEF AddChats, RestOK, groupVars, lineVars, bounds
  <2>4. \E s \in {"line", "chatline"} : Goes(w, s)
    BY <1>6 DEF AddChats
  <2>5. work' \in [Workers -> Works] /\ (\A v \in Workers : v # w => work'[v] = work[v]) /\ Fits(work'[w])
    BY <1>0, <2>1, <2>4, GoesWork DEF Fits, AliasSteps, Steps
  <2> QED
    BY <2>2, <2>3, <2>5, WorkerType
<1>7. CASE ChatLine(w) \/ MessageLine(w)
  <2>1. r.step \in {"chatline", "line"} /\ r.jid \in Jids /\ r.kind # "connected"
    BY <1>0, <1>7 DEF ChatLine, MessageLine, Fits
  <2>2. TablesOK' /\ StoredOK'
    BY <1>0, <1>7 DEF ChatLine, MessageLine, TablesOK, StoredOK
  <2>3. RestOK'
    BY <1>0, <1>7, <2>1 DEF ChatLine, MessageLine, RestOK, groupVars, bounds
  <2>4. \E s \in {"line", "group", "idle"} : Goes(w, s) /\ (s = "group" => r.jid \in Groups)
    BY <1>7 DEF ChatLine, MessageLine, AfterChat, AfterLine
  <2>5. work' \in [Workers -> Works] /\ (\A v \in Workers : v # w => work'[v] = work[v]) /\ Fits(work'[w])
    BY <1>0, <2>1, <2>4, GoesWork DEF Fits, AliasSteps, Steps, Idle
  <2> QED
    BY <2>2, <2>3, <2>5, WorkerType
<1>8. CASE EnsureGroup(w) \/ GroupLine(w)
  <2>1. r.step \in {"group", "groupline"} /\ r.jid \in Groups /\ r.jid \in Jids
    BY <1>0, <1>8 DEF EnsureGroup, GroupLine, Fits, Jids
  <2>2. TablesOK' /\ StoredOK'
    BY <1>0, <1>8 DEF EnsureGroup, GroupLine, TablesOK, StoredOK
  <2>3. RestOK'
    BY <1>0, <1>8, <2>1 DEF EnsureGroup, GroupLine, RestOK, lineVars, bounds
  <2>4. \E s \in {"groupline", "line", "each", "idle"} :
          /\ Goes(w, s)
          /\ s = "line" => r.kind = "message"
          /\ s = "each" => r.kind = "connected"
    BY <1>8 DEF EnsureGroup, GroupLine, AfterGroup
  <2>5. PICK s \in {"groupline", "line", "each", "idle"} :
          /\ Goes(w, s)
          /\ s = "line" => r.kind = "message"
          /\ s = "each" => r.kind = "connected"
    BY <2>4
  <2>6. work' \in [Workers -> Works] /\ (\A v \in Workers : v # w => work'[v] = work[v])
    BY <1>0, <2>5, GoesWork DEF Steps
  <2>7. Fits(work'[w])
    <3>1. CASE s = "idle"
      BY <1>0, <2>5, <3>1, GoesWork DEF Fits, AliasSteps, Steps, Idle
    <3>2. CASE s # "idle"
      <4>1. work'[w].step = s /\ work'[w].kind = r.kind /\ work'[w].jid = r.jid /\ work'[w].todo = r.todo
        BY <1>0, <2>5, <3>2, GoesWork DEF Steps
      <4> QED
        BY <1>0, <2>1, <2>5, <3>2, <4>1 DEF Fits, AliasSteps
    <3> QED
      BY <3>1, <3>2
  <2> QED
    BY <2>2, <2>3, <2>6, <2>7, WorkerType
<1>9. CASE Fetch(w)
  <2>1. r.step = "fetch" /\ r.jid \in Groups /\ r.jid \in Jids /\ r.kind = "refresh"
    BY <1>0, <1>9 DEF Fetch, Fits, Jids
  <2>2. TablesOK' /\ StoredOK'
    BY <1>0, <1>9 DEF Fetch, TablesOK, StoredOK
  <2>3. RestOK'
    BY <1>0, <1>9, <2>1 DEF Fetch, RestOK, lineVars, bounds
  <2>4. \E s \in {"groupline", "idle"} : Goes(w, s)
    BY <1>9 DEF Fetch
  <2>5. work' \in [Workers -> Works] /\ (\A v \in Workers : v # w => work'[v] = work[v]) /\ Fits(work'[w])
    BY <1>0, <2>1, <2>4, GoesWork DEF Fits, AliasSteps, Steps, Idle
  <2> QED
    BY <2>2, <2>3, <2>5, WorkerType
<1>10. CASE LoadGroups(w)
  <2>1. r.step = "load" /\ r.kind = "connected"
    BY <1>0, <1>10 DEF LoadGroups, Fits
  <2>2. TablesOK' /\ StoredOK' /\ RestOK'
    BY <1>0, <1>10 DEF LoadGroups, TablesOK, StoredOK, RestOK, lineVars, bounds
  <2>3. PICK t \in SUBSET Groups : work' = [work EXCEPT ![w].step = "each", ![w].todo = t]
    BY <1>10 DEF LoadGroups, Pending
  <2>4. t \in SUBSET Jids
    BY DEF Jids
  <2>5. work' \in [Workers -> Works] /\ (\A v \in Workers : v # w => work'[v] = work[v])
        /\ work'[w] = [r EXCEPT !.step = "each", !.todo = t]
    BY <1>0, <2>3, <2>4 DEF Works, Steps
  <2>6. Fits(work'[w])
    BY <1>0, <2>1, <2>5 DEF Fits, AliasSteps, Works
  <2> QED
    BY <2>2, <2>5, <2>6, WorkerType
<1>11. CASE EachGroup(w)
  <2>1. r.step = "each" /\ r.kind = "connected" /\ r.todo \subseteq Groups
    BY <1>0, <1>11 DEF EachGroup, Fits
  <2>2. TablesOK' /\ StoredOK' /\ RestOK'
    BY <1>0, <1>11 DEF EachGroup, TablesOK, StoredOK, RestOK, groupVars, lineVars, bounds
  <2>3. CASE Goes(w, "idle")
    BY <1>0, <2>2, <2>3, GoesWork, WorkerType DEF Fits, AliasSteps, Steps, Idle
  <2>4. ASSUME NEW g \in r.todo,
               work' = [work EXCEPT ![w].todo = @ \ {g}, ![w].jid = g, ![w].step = "group"]
        PROVE  TypeInv'
    <3>1. g \in Groups /\ g \in Jids
      BY <2>1, <2>4 DEF Jids
    <3>2. work' \in [Workers -> Works] /\ (\A v \in Workers : v # w => work'[v] = work[v])
          /\ work'[w] = [r EXCEPT !.todo = @ \ {g}, !.jid = g, !.step = "group"]
      BY <1>0, <2>4, <3>1 DEF Works, Steps
    <3>3. Fits(work'[w])
      BY <1>0, <2>1, <3>1, <3>2 DEF Fits, AliasSteps, Works
    <3> QED
      BY <2>2, <3>2, <3>3, WorkerType
  <2> QED
    BY <1>11, <2>3, <2>4 DEF EachGroup
<1> QED
  BY <1>1, <1>2, <1>3, <1>4, <1>5, <1>6, <1>7, <1>8, <1>9, <1>10, <1>11 DEF Step

\* Every step keeps the types.
LEMMA NextType ==
  ASSUME TypeInv, [Next]_vars
  PROVE  TypeInv'
<1>0. TablesOK /\ StoredOK /\ RestOK /\ work \in [Workers -> Works] /\ \A w \in Workers : Fits(work[w])
  BY TypeSplits DEF TypeInv
<1>1. ASSUME NEW w \in Workers, Starts(w),
             groupCache' \subseteq Groups, UNCHANGED <<groupsSent, groupsLoaded, groupsOnce, asked, described, missed>>,
             NEW r \in Works, Fits(r), work' = [work EXCEPT ![w] = r]
      PROVE  TypeInv'
  <2>1. TablesOK' /\ StoredOK' /\ RestOK'
    BY <1>0, <1>1, ChatsAssumption DEF Starts, TablesOK, StoredOK, RestOK, lineVars, ChatsAssumption
  <2> QED
    BY <1>0, <1>1, <2>1, WorkerType
<1>2. ASSUME NEW w \in Workers, NEW k \in {"message", "history", "update"}, NEW j \in Jids,
             NEW alt \in BOOLEAN, ChatJID(w, k, j, alt)
      PROVE  TypeInv'
  <2> DEFINE r == IF j \in Lids /\ (alt \/ j \in mapped)
                    THEN Job(k, "alias", PhoneOf[j], j)
                    ELSE IF AfterAlias(Job(k, "mark", j, Null)) = "idle" THEN Idle ELSE Job(k, "mark", j, Null)
  <2>1. work' = [work EXCEPT ![w] = r] /\ Starts(w) /\ UNCHANGED groupVars
    BY <1>2 DEF ChatJID
  <2>2. r \in Works /\ Fits(r)
    <3>1. CASE j \in Lids /\ (alt \/ j \in mapped)
      BY <3>1, Numbers DEF Works, Steps, Kinds, Fits, Job, AliasSteps
    <3>2. CASE ~(j \in Lids /\ (alt \/ j \in mapped))
      BY <3>2 DEF Works, Steps, Kinds, Fits, Job, AliasSteps, Idle
    <3> QED
      BY <3>1, <3>2
  <2> HIDE DEF r
  <2> QED
    BY <1>0, <1>1, <2>1, <2>2 DEF groupVars, RestOK
<1>3. ASSUME NEW w \in Workers, NEW g \in Groups, JoinedGroup(w, g)
      PROVE  TypeInv'
  <2>1. Job("joined", "mark", g, Null) \in Works /\ Fits(Job("joined", "mark", g, Null))
    BY DEF Works, Steps, Kinds, Fits, Job, AliasSteps, Jids
  <2> QED
    BY <1>0, <1>1, <1>3, <2>1 DEF JoinedGroup, RestOK
<1>4. ASSUME NEW w \in Workers, NEW g \in Groups, GroupInfo(w, g)
      PROVE  TypeInv'
  <2>1. Job("refresh", "fetch", g, Null) \in Works /\ Fits(Job("refresh", "fetch", g, Null))
    BY DEF Works, Steps, Kinds, Fits, Job, AliasSteps, Jids
  <2> QED
    BY <1>0, <1>1, <1>4, <2>1 DEF GroupInfo, RestOK, groupVars
<1>5. ASSUME NEW w \in Workers, Connected(w)
      PROVE  TypeInv'
  <2> DEFINE t == {l \in DOMAIN chats : chats[l]}
             r == [Job("connected", "sweep", Null, Null) EXCEPT !.todo = t]
  <2>1. t \subseteq Lids /\ t \subseteq Jids
    BY <1>0 DEF TablesOK, StoredOK, Jids
  <2>2. r \in Works /\ Fits(r)
    BY <2>1 DEF Works, Steps, Kinds, Fits, Job, AliasSteps
  <2>3. work' = [work EXCEPT ![w] = r] /\ Starts(w) /\ UNCHANGED groupVars
    BY <1>5 DEF Connected
  <2> HIDE DEF r
  <2> QED
    BY <1>0, <1>1, <2>2, <2>3 DEF RestOK, groupVars
<1>6. ASSUME NEW w \in Workers, NEW g \in Groups, RefreshGroup(w, g)
      PROVE  TypeInv'
  <2>1. PICK r \in {Job("refresh", "fetch", g, Null), Idle} : work' = [work EXCEPT ![w] = r]
    BY <1>6 DEF RefreshGroup
  <2>2. r \in Works /\ Fits(r)
    BY DEF Works, Steps, Kinds, Fits, Job, AliasSteps, Jids, Idle
  <2>3. TablesOK' /\ StoredOK' /\ RestOK'
    BY <1>0, <1>6 DEF RefreshGroup, TablesOK, StoredOK, RestOK, lineVars, bounds
  <2> QED
    BY <1>0, <2>1, <2>2, <2>3, WorkerType
<1>7. ASSUME NEW w \in Workers, Step(w)
      PROVE  TypeInv'
  BY <1>7, StepType
<1>8. ASSUME NEW l \in Lids, LearnNumber(l)
      PROVE  TypeInv'
  <2>1. TablesOK' /\ StoredOK' /\ RestOK' /\ work' = work
    BY <1>0, <1>8 DEF LearnNumber, TablesOK, StoredOK, RestOK, groupVars, lineVars, bounds
  <2> QED
    BY <1>0, <2>1, TypeSplits DEF TypeInv
<1>9. CASE Restart
  <2>1. TablesOK' /\ StoredOK'
    BY <1>0, <1>9 DEF Restart, TablesOK, StoredOK
  <2>2. BeingStored \subseteq Jids
    BY <1>0 DEF BeingStored, Fits, AliasSteps, Jids, Phones
  <2>3. RestOK'
    <3>1. groupsLoaded' \in BOOLEAN /\ groupsOnce' \in BOOLEAN
      BY <1>9, Zenon DEF Restart
    <3>2. jobs' \in 0 .. MaxJobs /\ crashes' \in 0 .. MaxCrashes /\ aliases' \in [Lids -> Nat]
      BY <1>0, <1>9, ChatsAssumption DEF Restart, RestOK, ChatsAssumption
    <3> QED
      BY <1>0, <1>9, <2>2, <3>1, <3>2 DEF Restart, RestOK
  <2>4. work' \in [Workers -> Works] /\ \A w \in Workers : Fits(work'[w])
    BY <1>9 DEF Restart, Works, Steps, Fits, AliasSteps, Idle
  <2> QED
    BY <2>1, <2>3, <2>4, TypeSplits DEF TypeInv
<1>10. CASE UNCHANGED vars
  <2>1. TablesOK' /\ StoredOK' /\ RestOK' /\ work' = work
    BY <1>0, <1>10 DEF vars, TablesOK, StoredOK, RestOK, groupVars, lineVars, bounds
  <2> QED
    BY <1>0, <2>1, TypeSplits DEF TypeInv
<1>11. ASSUME NEW w \in Workers, Begin(w)
       PROVE  TypeInv'
  <2>1. ASSUME NEW j \in Jids, NEW alt \in BOOLEAN, Message(w, j, alt) \/ HistoryConversation(w, j, alt)
        PROVE  TypeInv'
    BY <1>2, <2>1 DEF Message, HistoryConversation
  <2>2. ASSUME NEW l \in Lids, NEW alt \in BOOLEAN, Update(w, l, alt)
        PROVE  TypeInv'
    BY <1>2, <2>2, Numbers DEF Update
  <2> QED
    BY <1>3, <1>4, <1>5, <1>11, <2>1, <2>2, Zenon DEF Begin
<1> QED
  BY <1>6, <1>7, <1>8, <1>9, <1>10, <1>11, Zenon DEF Next, Refresh

\* Types hold, and every job's step fits the chat it is about.
LEMMA TypeInvariant == Spec => []TypeInv
<1>1. Init => TypeInv
  <2> SUFFICES ASSUME Init PROVE TypeInv
    OBVIOUS
  <2>1. IsTable(NoChats) /\ DOMAIN NoChats = {}
    BY DEF NoChats, IsTable
  <2>2. TablesOK /\ StoredOK
    BY <2>1 DEF Init, TablesOK, StoredOK
  <2>3. groupsLoaded \in BOOLEAN /\ groupsOnce \in BOOLEAN
    BY Zenon DEF Init
  <2>4. RestOK
    BY <2>3, ChatsAssumption DEF Init, RestOK, ChatsAssumption
  <2>5. work \in [Workers -> Works] /\ \A w \in Workers : Fits(work[w])
    BY DEF Init, Works, Steps, Fits, AliasSteps, Idle
  <2> QED
    BY <2>2, <2>4, <2>5, TypeSplits DEF TypeInv
<1>2. TypeInv /\ [Next]_vars => TypeInv'
  BY NextType
<1> QED
  BY <1>1, <1>2, PTL DEF Spec

-----------------------------------------------------------------------------
(* One merge in a run *)

\* A job begins with a worker that is idle, and touches neither Bridge.chats nor
\* what the client was told.
LEMMA BeginWork ==
  ASSUME TypeInv, NEW w \in Workers, Begin(w) \/ \E g \in Groups : RefreshGroup(w, g)
  PROVE  /\ UNCHANGED <<chats, stored, unsaved, told, aliases>>
         /\ work[w] = Idle
         /\ \A v \in Workers : v # w => work'[v] = work[v]
         /\ work'[w].step \in {"idle", "alias", "mark", "sweep", "fetch"}
<1>0. work \in [Workers -> Works]
  BY TypeSplits DEF TypeInv
<1>1. ASSUME NEW k, NEW j \in Jids, NEW alt \in BOOLEAN, ChatJID(w, k, j, alt)
      PROVE  Starts(w) /\ \E r : work' = [work EXCEPT ![w] = r] /\ r.step \in {"idle", "alias", "mark"}
  <2>1. Job(k, "alias", PhoneOf[j], j).step = "alias" /\ Job(k, "mark", j, Null).step = "mark" /\ Idle.step = "idle"
    BY DEF Job, Idle
  <2> QED
    BY <1>1, <2>1, Zenon DEF ChatJID
<1>2. CASE Begin(w)
  <2>1. /\ Starts(w)
        /\ \E r : work' = [work EXCEPT ![w] = r] /\ r.step \in {"idle", "alias", "mark", "sweep", "fetch"}
    <3>1. ASSUME NEW j \in Jids, NEW alt \in BOOLEAN, Message(w, j, alt) \/ HistoryConversation(w, j, alt)
          PROVE  Starts(w) /\ \E r : work' = [work EXCEPT ![w] = r] /\ r.step \in {"idle", "alias", "mark"}
      BY <1>1, <3>1, Zenon DEF Message, HistoryConversation
    <3>2. ASSUME NEW l \in Lids, NEW alt \in BOOLEAN, Update(w, l, alt)
          PROVE  Starts(w) /\ \E r : work' = [work EXCEPT ![w] = r] /\ r.step \in {"idle", "alias", "mark"}
      BY <1>1, <3>2, Numbers, Zenon DEF Update
    <3>3. ASSUME NEW g \in Groups, JoinedGroup(w, g) \/ GroupInfo(w, g)
          PROVE  Starts(w) /\ \E r : work' = [work EXCEPT ![w] = r] /\ r.step \in {"mark", "fetch"}
      <4>1. Job("joined", "mark", g, Null).step = "mark" /\ Job("refresh", "fetch", g, Null).step = "fetch"
        BY DEF Job
      <4> QED
        BY <3>3, <4>1, Zenon DEF JoinedGroup, GroupInfo
    <3>4. CASE Connected(w)
      <4> DEFINE r == [Job("connected", "sweep", Null, Null) EXCEPT !.todo = {l \in DOMAIN chats : chats[l]}]
      <4>1. r.step = "sweep"
        BY DEF Job
      <4>2. work' = [work EXCEPT ![w] = r] /\ Starts(w)
        BY <3>4 DEF Connected
      <4> HIDE DEF r
      <4> QED
        BY <4>1, <4>2
    <3> QED
      BY <1>2, <3>1, <3>2, <3>3, <3>4 DEF Begin
  <2> QED
    BY <1>0, <2>1 DEF Starts, lineVars
<1>3. ASSUME NEW g \in Groups, RefreshGroup(w, g)
      PROVE  /\ UNCHANGED <<chats, stored, unsaved, told, aliases>> /\ work[w] = Idle
             /\ \E r : work' = [work EXCEPT ![w] = r] /\ r.step \in {"idle", "fetch"}
  <2>1. Job("refresh", "fetch", g, Null).step = "fetch" /\ Idle.step = "idle"
    BY DEF Job, Idle
  <2>2. UNCHANGED <<chats, stored, unsaved, told, aliases>> /\ work[w] = Idle
    BY <1>3 DEF RefreshGroup, lineVars
  <2>3. work' = [work EXCEPT ![w] = Job("refresh", "fetch", g, Null)] \/ work' = [work EXCEPT ![w] = Idle]
    BY <1>3, Zenon DEF RefreshGroup
  <2> QED
    BY <2>1, <2>2, <2>3
<1> QED
  BY <1>0, <1>2, <1>3

\* Anything else keeps the merges.
LEMMA MergeKept ==
  ASSUME TypeInv, MergeInv, NEW w \in Workers,
         \A v \in Workers : v # w => work'[v] = work[v],
         aliases' = aliases,
         \A l \in DOMAIN chats : ~chats[l] => l \in DOMAIN chats' /\ ~chats'[l],
         work'[w].step \in MergeSteps => work[w].step \in MergeSteps /\ work'[w].lid = work[w].lid
  PROVE  MergeInv'
<1>1. \A v \in Workers : work'[v].step \in MergeSteps => work[v].step \in MergeSteps /\ work'[v].lid = work[v].lid
  OBVIOUS
<1> QED
  BY <1>1 DEF MergeInv

\* Every step keeps the merges in order.
LEMMA NextMerge ==
  ASSUME TypeInv, MergeInv, [Next]_vars
  PROVE  MergeInv'
<1>0. /\ TypeOK /\ TablesOK /\ RestOK /\ work \in [Workers -> Works] /\ \A w \in Workers : Fits(work[w])
  BY TypeSplits DEF TypeInv
<1>1. ASSUME NEW w \in Workers, Begin(w) \/ \E g \in Groups : RefreshGroup(w, g)
      PROVE  MergeInv'
  BY <1>1, BeginWork, MergeKept DEF MergeSteps
<1>2. ASSUME NEW w \in Workers, Alias(w)
      PROVE  MergeInv'
  <2> DEFINE r == work[w]
  <2>1. r.step = "alias" /\ r.lid \in Lids /\ r.jid \notin Lids /\ aliases' = aliases
    BY <1>0, <1>2, Numbers DEF Alias, Fits, AliasSteps, lineVars
  <2>2. CASE r.lid \in DOMAIN chats /\ chats[r.lid]
    <3>1. chats' = Put(Put(chats, r.lid, FALSE), r.jid, FALSE) /\ Goes(w, "resolve")
      BY <1>2, <2>2 DEF Alias
    <3>2. /\ work'[w].step = "resolve" /\ work'[w].lid = r.lid
          /\ \A v \in Workers : v # w => work'[v] = work[v]
      BY <1>0, <3>1, GoesWork DEF Steps
    <3>3. /\ \A l \in DOMAIN chats : ~chats[l] => l \in DOMAIN chats' /\ ~chats'[l]
          /\ r.lid \in DOMAIN chats' /\ ~chats'[r.lid]
      BY <2>1, <3>1 DEF Put
    <3>4. aliases[r.lid] = 0
      BY <2>1, <2>2 DEF MergeInv
    <3>5. \A v \in Workers : v # w /\ work[v].step \in MergeSteps => work[v].lid # r.lid
      BY <2>2 DEF MergeInv
    <3> QED
      BY <2>1, <3>2, <3>3, <3>4, <3>5 DEF MergeInv
  <2>3. CASE ~(r.lid \in DOMAIN chats /\ chats[r.lid])
    <3>1. chats' = chats /\ Goes(w, AfterAlias(r)) /\ AfterAlias(r) \in {"mark", "sweep", "idle"}
      BY <1>2, <2>3 DEF Alias, AfterAlias
    <3>2. /\ work'[w].step \notin MergeSteps
          /\ \A v \in Workers : v # w => work'[v] = work[v]
      BY <1>0, <3>1, GoesWork DEF Steps, MergeSteps, Idle
    <3> QED
      BY <2>1, <3>1, <3>2, MergeKept
  <2> QED
    BY <2>2, <2>3
<1>3. ASSUME NEW w \in Workers, ResolveLIDChat(w)
      PROVE  MergeInv'
  <2>1. work[w].step = "resolve" /\ chats' = chats /\ aliases' = aliases /\ Goes(w, "aliasline")
    BY <1>3 DEF ResolveLIDChat, lineVars
  <2>2. work'[w].lid = work[w].lid /\ \A v \in Workers : v # w => work'[v] = work[v]
    BY <1>0, <2>1, GoesWork DEF Steps
  <2> QED
    BY <2>1, <2>2, MergeKept DEF MergeSteps
<1>4. ASSUME NEW w \in Workers, AliasLine(w)
      PROVE  MergeInv'
  <2> DEFINE r == work[w]
  <2>1. /\ r.step = "aliasline" /\ r.lid \in Lids /\ chats' = chats
        /\ aliases' = [aliases EXCEPT ![r.lid] = @ + 1]
        /\ Goes(w, AfterAlias(r)) /\ AfterAlias(r) \in {"mark", "sweep", "idle"}
    BY <1>0, <1>4 DEF AliasLine, Fits, AliasSteps, AfterAlias
  <2>2. /\ work'[w].step \notin MergeSteps
        /\ \A v \in Workers : v # w => work'[v] = work[v]
    BY <1>0, <2>1, GoesWork DEF Steps, MergeSteps, Idle
  <2>3. aliases[r.lid] = 0 /\ r.lid \in DOMAIN chats /\ ~chats[r.lid]
    BY <2>1 DEF MergeInv, MergeSteps
  <2>4. \A v \in Workers : v # w /\ work[v].step \in MergeSteps => work[v].lid # r.lid
    BY <2>1 DEF MergeInv, MergeSteps
  <2>5. aliases'[r.lid] = 1 /\ \A l \in Lids : l # r.lid => aliases'[l] = aliases[l]
    BY <1>0, <2>1, <2>3 DEF RestOK
  <2>6. \A v \in Workers : v # w /\ work[v].step \in MergeSteps => work[v].lid \in Lids
    BY <1>0 DEF Fits, MergeSteps, AliasSteps
  <2> QED
    BY <2>1, <2>2, <2>3, <2>4, <2>5, <2>6 DEF MergeInv
<1>5. ASSUME NEW w \in Workers,
             Sweep(w) \/ MarkReported(w) \/ AddChats(w) \/ ChatLine(w) \/ MessageLine(w)
               \/ EnsureGroup(w) \/ GroupLine(w) \/ Fetch(w) \/ LoadGroups(w) \/ EachGroup(w)
      PROVE  MergeInv'
  <2>1. /\ aliases' = aliases
        /\ \A l \in DOMAIN chats : ~chats[l] => l \in DOMAIN chats' /\ ~chats'[l]
    <3>1. CASE MarkReported(w)
      BY <3>1 DEF MarkReported, Put, lineVars
    <3>2. CASE ~MarkReported(w)
      BY <1>5, <3>2 DEF Sweep, AddChats, ChatLine, MessageLine, EnsureGroup, GroupLine, Fetch,
                        LoadGroups, EachGroup, lineVars
    <3> QED
      BY <3>1, <3>2
  <2>2. /\ work'[w].step \notin MergeSteps
        /\ \A v \in Workers : v # w => work'[v] = work[v]
    <3>1. CASE \E s \in Steps : Goes(w, s) /\ s \notin MergeSteps
      BY <1>0, <3>1, GoesWork DEF MergeSteps, Idle
    <3>2. CASE Sweep(w)
      <4>1. CASE Goes(w, IF groupsOnce THEN "idle" ELSE "load")
        BY <3>1, <4>1 DEF Steps, MergeSteps
      <4>2. ASSUME NEW l \in work[w].todo,
                   work' = [work EXCEPT ![w].todo = @ \ {l}, ![w].lid = l, ![w].jid = PhoneOf[l],
                                        ![w].step = IF l \in mapped THEN "alias" ELSE "sweep"]
            PROVE  work'[w].step \notin MergeSteps /\ \A v \in Workers : v # w => work'[v] = work[v]
        BY <1>0, <4>2 DEF Works, MergeSteps
      <4> QED
        BY <3>2, <4>1, <4>2 DEF Sweep
    <3>3. CASE LoadGroups(w)
      BY <1>0, <3>3 DEF LoadGroups, Works, MergeSteps
    <3>4. CASE EachGroup(w)
      <4>1. CASE Goes(w, "idle")
        BY <3>1, <4>1 DEF Steps, MergeSteps
      <4>2. CASE \E g \in work[w].todo :
                   work' = [work EXCEPT ![w].todo = @ \ {g}, ![w].jid = g, ![w].step = "group"]
        BY <1>0, <4>2 DEF Works, MergeSteps
      <4> QED
        BY <3>4, <4>1, <4>2 DEF EachGroup
    <3>5. CASE MarkReported(w) \/ AddChats(w) \/ ChatLine(w) \/ MessageLine(w) \/ EnsureGroup(w)
                 \/ GroupLine(w) \/ Fetch(w)
      <4>1. \E s \in Steps : Goes(w, s) /\ s \notin MergeSteps
        BY <3>5 DEF MarkReported, AddChats, ChatLine, MessageLine, EnsureGroup, GroupLine, Fetch,
                    AfterMark, AfterChat, AfterLine, AfterGroup, Steps, MergeSteps
      <4> QED
        BY <3>1, <4>1
    <3> QED
      BY <1>5, <3>2, <3>3, <3>4, <3>5
  <2> QED
    BY <2>1, <2>2, MergeKept
<1>6. CASE Restart
  BY <1>6 DEF Restart, MergeInv, MergeSteps, Idle
<1>7. CASE UNCHANGED <<chats, work, aliases>>
  BY <1>7 DEF MergeInv
<1>8. ASSUME NEW l \in Lids, LearnNumber(l)
      PROVE  MergeInv'
  BY <1>7, <1>8 DEF LearnNumber, lineVars
<1> QED
  BY <1>1, <1>2, <1>3, <1>4, <1>5, <1>6, <1>7, <1>8, Zenon DEF Next, Step, Refresh, vars, lineVars

-----------------------------------------------------------------------------
(* The chats a client was told of *)

\* A step of one worker that takes no chat away, tells only of reported ones, and
\* leaves a new chat to be stored by that worker.
LEMMA RememberKept ==
  ASSUME RememberInv, NEW w \in Workers,
         \A v \in Workers : v # w => work'[v] = work[v],
         DOMAIN chats \subseteq DOMAIN chats', DOMAIN stored \subseteq DOMAIN stored',
         unsaved \subseteq unsaved', told' \subseteq told \cup DOMAIN chats,
         \A j \in DOMAIN chats' : j \in DOMAIN chats \/ Stores(work'[w], j),
         \A j \in DOMAIN chats : Stores(work[w], j) => j \in DOMAIN stored' \cup unsaved',
         Reported(work[w])'
  PROVE  RememberInv'
<1>1. \A v \in Workers : Reported(work[v])'
  <2> SUFFICES ASSUME NEW v \in Workers, v # w
               PROVE  Reported(work[v])'
    OBVIOUS
  <2>1. Reported(work[v]) /\ work'[v] = work[v]
    BY DEF RememberInv
  <2> QED
    BY <2>1 DEF Reported
<1>2. \A j \in told' : j \in DOMAIN chats' \cup unsaved'
  BY DEF RememberInv
<1>3. ASSUME NEW j \in DOMAIN chats'
      PROVE  j \in DOMAIN stored' \cup unsaved' \/ \E v \in Workers : Stores(work'[v], j)
  <2>1. CASE Stores(work'[w], j)
    BY <2>1
  <2>2. CASE j \in DOMAIN chats
    BY <2>2 DEF RememberInv
  <2> QED
    BY <2>1, <2>2
<1> QED
  BY <1>1, <1>2, <1>3 DEF RememberInv

\* Every step keeps what the client knows in the store, or on the way there.
LEMMA NextRemember ==
  ASSUME TypeInv, RememberInv, [Next]_vars
  PROVE  RememberInv'
<1>0. /\ TypeOK /\ TablesOK /\ RestOK /\ work \in [Workers -> Works] /\ \A w \in Workers : Fits(work[w])
  BY TypeSplits DEF TypeInv
<1>1. ASSUME NEW w \in Workers, Begin(w) \/ \E g \in Groups : RefreshGroup(w, g)
      PROVE  RememberInv'
  <2>1. Reported(work[w])'
    BY <1>1, BeginWork DEF Reported
  <2> QED
    BY <1>1, <2>1, BeginWork, RememberKept DEF Stores, Idle
<1>2. ASSUME NEW w \in Workers, Alias(w)
      PROVE  RememberInv'
  <2> DEFINE r == work[w]
  <2>1. r.step = "alias" /\ stored' = stored /\ unsaved' = unsaved /\ told' = told
    BY <1>2 DEF Alias, lineVars
  <2>2. CASE r.lid \in DOMAIN chats /\ chats[r.lid]
    <3>1. chats' = Put(Put(chats, r.lid, FALSE), r.jid, FALSE) /\ Goes(w, "resolve")
      BY <1>2, <2>2 DEF Alias
    <3>2. /\ work'[w].step = "resolve" /\ work'[w].jid = r.jid
          /\ \A v \in Workers : v # w => work'[v] = work[v]
      BY <1>0, <3>1, GoesWork DEF Steps
    <3>3. DOMAIN chats' = DOMAIN chats \cup {r.jid}
      BY <2>2, <3>1 DEF Put
    <3>4. Reported(work[w])'
      BY <3>2, <3>3 DEF Reported
    <3> QED
      BY <2>1, <3>2, <3>3, <3>4, RememberKept DEF Stores
  <2>3. CASE ~(r.lid \in DOMAIN chats /\ chats[r.lid])
    <3>1. chats' = chats /\ Goes(w, AfterAlias(r)) /\ AfterAlias(r) \in {"mark", "sweep", "idle"}
      BY <1>2, <2>3 DEF Alias, AfterAlias
    <3>2. /\ work'[w].step \in {"mark", "sweep", "idle"}
          /\ \A v \in Workers : v # w => work'[v] = work[v]
      BY <1>0, <3>1, GoesWork DEF Steps, Idle
    <3>3. Reported(work[w])'
      BY <3>2 DEF Reported
    <3> QED
      BY <2>1, <3>1, <3>2, <3>3, RememberKept DEF Stores
  <2> QED
    BY <2>2, <2>3
<1>3. ASSUME NEW w \in Workers, ResolveLIDChat(w)
      PROVE  RememberInv'
  <2> DEFINE r == work[w]
  <2>1. /\ r.step = "resolve" /\ chats' = chats /\ told' = told /\ Goes(w, "aliasline")
        /\ r.lid \in Lids /\ r.jid \in Jids
    BY <1>0, <1>3, Numbers DEF ResolveLIDChat, lineVars, Fits, AliasSteps
  <2>2. /\ work'[w].step = "aliasline" /\ work'[w].jid = r.jid
        /\ \A v \in Workers : v # w => work'[v] = work[v]
    BY <1>0, <2>1, GoesWork DEF Steps
  <2>3. /\ DOMAIN stored \subseteq DOMAIN stored' /\ unsaved \subseteq unsaved'
        /\ r.jid \in DOMAIN stored' \cup unsaved'
    <3>1. DOMAIN Resolved(r.lid, r.jid) = DOMAIN stored \cup {r.jid}
      BY <1>0, <2>1, ResolvedType
    <3> QED
      BY <1>3, <3>1 DEF ResolveLIDChat
  <2>4. Reported(work[w])'
    BY <2>1, <2>2 DEF Reported, RememberInv
  <2> QED
    BY <2>1, <2>2, <2>3, <2>4, RememberKept DEF Stores
<1>4. ASSUME NEW w \in Workers, AliasLine(w) \/ ChatLine(w) \/ MessageLine(w)
      PROVE  RememberInv'
  <2> DEFINE r == work[w]
  <2>1. /\ r.step \in {"aliasline", "chatline", "line"} /\ UNCHANGED <<chats, stored, unsaved>>
        /\ told' = told \cup {r.jid}
    BY <1>4 DEF AliasLine, ChatLine, MessageLine
  <2>2. r.jid \in DOMAIN chats
    BY <2>1 DEF RememberInv, Reported
  <2>3. \E s \in {"mark", "sweep", "idle", "line", "group"} : Goes(w, s)
    BY <1>4 DEF AliasLine, ChatLine, MessageLine, AfterAlias, AfterChat, AfterLine
  <2>4. /\ work'[w].step = "idle" \/ work'[w].jid = r.jid
        /\ work'[w].step \in {"mark", "sweep", "idle", "line", "group"}
        /\ \A v \in Workers : v # w => work'[v] = work[v]
    BY <1>0, <2>3, GoesWork DEF Steps, Idle
  <2>5. Reported(work[w])'
    BY <2>1, <2>2, <2>4 DEF Reported
  <2> QED
    BY <2>1, <2>2, <2>4, <2>5, RememberKept DEF Stores
<1>5. ASSUME NEW w \in Workers, MarkReported(w)
      PROVE  RememberInv'
  <2> DEFINE r == work[w]
  <2>1. r.step = "mark" /\ stored' = stored /\ unsaved' = unsaved /\ told' = told
    BY <1>5 DEF MarkReported, lineVars
  <2>2. DOMAIN chats' = DOMAIN chats \cup {r.jid}
    BY <1>5 DEF MarkReported, Put
  <2>3. \E s \in {"add", "line", "group"} : Goes(w, s) /\ (s = "add" \/ chats' = chats)
    BY <1>5 DEF MarkReported, AfterMark, AfterChat
  <2>4. /\ work'[w].step \in {"add", "line", "group"} /\ work'[w].jid = r.jid
        /\ work'[w].step = "add" \/ chats' = chats
        /\ \A v \in Workers : v # w => work'[v] = work[v]
    BY <1>0, <2>3, GoesWork DEF Steps
  <2>5. Reported(work[w])'
    BY <2>2, <2>4 DEF Reported
  <2> QED
    BY <2>1, <2>2, <2>4, <2>5, RememberKept DEF Stores
<1>6. ASSUME NEW w \in Workers, AddChats(w)
      PROVE  RememberInv'
  <2> DEFINE r == work[w]
  <2>1. r.step = "add" /\ chats' = chats /\ told' = told
    BY <1>6 DEF AddChats, lineVars
  <2>2. r.jid \in DOMAIN chats
    BY <2>1 DEF RememberInv, Reported
  <2>3. /\ DOMAIN stored \subseteq DOMAIN stored' /\ unsaved \subseteq unsaved'
        /\ r.jid \in DOMAIN stored' \cup unsaved'
    <3>1. DOMAIN Insert(stored, r.jid, IsLid(r.jid)) = DOMAIN stored \cup {r.jid}
      BY InsertKeeps
    <3>2. \/ stored' = Insert(stored, r.jid, IsLid(r.jid)) /\ unsaved' = unsaved
          \/ stored' = stored /\ unsaved' = unsaved \cup {r.jid}
      BY <1>6 DEF AddChats
    <3> QED
      BY <3>1, <3>2
  <2>4. \E s \in {"line", "chatline"} : Goes(w, s)
    BY <1>6 DEF AddChats
  <2>5. /\ work'[w].step \in {"line", "chatline"} /\ work'[w].jid = r.jid
        /\ \A v \in Workers : v # w => work'[v] = work[v]
    BY <1>0, <2>4, GoesWork DEF Steps
  <2>6. Reported(work[w])'
    BY <2>1, <2>2, <2>5 DEF Reported
  <2> QED
    BY <2>1, <2>3, <2>5, <2>6, RememberKept DEF Stores
<1>7. ASSUME NEW w \in Workers, EnsureGroup(w) \/ GroupLine(w)
      PROVE  RememberInv'
  <2> DEFINE r == work[w]
  <2>1. r.step \in {"group", "groupline"} /\ UNCHANGED <<chats, stored, unsaved, told>>
    BY <1>7 DEF EnsureGroup, GroupLine, lineVars
  <2>2. \E s \in {"groupline", "line", "each", "idle"} : Goes(w, s) /\ (s = "line" => r.kind = "message")
    BY <1>7 DEF EnsureGroup, GroupLine, AfterGroup
  <2>3. PICK s \in {"groupline", "line", "each", "idle"} : Goes(w, s) /\ (s = "line" => r.kind = "message")
    BY <2>2
  <2>4. /\ work'[w].step = s
        /\ s = "idle" \/ (work'[w].jid = r.jid /\ work'[w].kind = r.kind)
        /\ \A v \in Workers : v # w => work'[v] = work[v]
    BY <1>0, <2>3, GoesWork DEF Steps, Idle
  <2>5. r.kind = "message" => r.jid \in DOMAIN chats
    BY <2>1 DEF RememberInv, Reported
  <2>6. Reported(work[w])'
    BY <2>1, <2>3, <2>4, <2>5 DEF Reported
  <2> QED
    BY <2>1, <2>3, <2>4, <2>6, RememberKept DEF Stores
<1>8. ASSUME NEW w \in Workers, Sweep(w) \/ Fetch(w) \/ LoadGroups(w) \/ EachGroup(w)
      PROVE  RememberInv'
  <2> DEFINE r == work[w]
  <2>0. r \in Works /\ Fits(r)
    BY <1>0
  <2>1. r.step \in {"sweep", "fetch", "load", "each"} /\ UNCHANGED <<chats, stored, unsaved, told>>
    BY <1>8 DEF Sweep, Fetch, LoadGroups, EachGroup, lineVars
  <2>2. /\ work'[w].step \in {"alias", "sweep", "idle", "load", "each"}
             \/ (work'[w].step \in {"group", "groupline"} /\ work'[w].kind = r.kind)
        /\ \A v \in Workers : v # w => work'[v] = work[v]
    <3>1. CASE \E s \in {"idle", "load", "groupline"} : Goes(w, s)
      BY <1>0, <3>1, GoesWork DEF Steps, Idle
    <3>2. CASE Sweep(w)
      <4>1. CASE Goes(w, IF groupsOnce THEN "idle" ELSE "load")
        BY <3>1, <4>1
      <4>2. CASE \E l \in r.todo :
                   work' = [work EXCEPT ![w].todo = @ \ {l}, ![w].lid = l, ![w].jid = PhoneOf[l],
                                        ![w].step = IF l \in mapped THEN "alias" ELSE "sweep"]
        BY <1>0, <4>2 DEF Works
      <4> QED
        BY <3>2, <4>1, <4>2 DEF Sweep
    <3>3. CASE LoadGroups(w)
      BY <1>0, <3>3 DEF LoadGroups, Works
    <3>4. CASE EachGroup(w)
      <4>1. CASE Goes(w, "idle")
        BY <3>1, <4>1
      <4>2. CASE \E g \in r.todo : work' = [work EXCEPT ![w].todo = @ \ {g}, ![w].jid = g, ![w].step = "group"]
        <5>1. work'[w].step = "group" /\ work'[w].kind = r.kind /\ \A v \in Workers : v # w => work'[v] = work[v]
          BY <1>0, <4>2 DEF Works
        <5> QED
          BY <5>1
      <4> QED
        BY <3>4, <4>1, <4>2 DEF EachGroup
    <3>5. CASE Fetch(w)
      BY <3>1, <3>5 DEF Fetch
    <3> QED
      BY <1>8, <3>2, <3>3, <3>4, <3>5
  <2>3. r.kind # "message"
    BY <2>0, <2>1 DEF Fits
  <2>4. Reported(work[w])'
    BY <2>2, <2>3 DEF Reported
  <2> QED
    BY <2>1, <2>2, <2>4, RememberKept DEF Stores
<1>9. CASE Restart
  <2>1. \A w \in Workers : Reported(work[w])'
    BY <1>9 DEF Restart, Reported, Idle
  <2>2. \A j \in DOMAIN chats : j \in DOMAIN stored \cup unsaved'
    BY <1>9 DEF Restart, RememberInv, BeingStored, Stores
  <2>3. chats' = stored /\ stored' = stored /\ told' = told /\ unsaved \subseteq unsaved'
    BY <1>9 DEF Restart
  <2> QED
    BY <2>1, <2>2, <2>3 DEF RememberInv
<1>10. CASE UNCHANGED <<chats, stored, work, told, unsaved>>
  BY <1>10 DEF RememberInv, Reported
<1>11. ASSUME NEW l \in Lids, LearnNumber(l)
       PROVE  RememberInv'
  BY <1>10, <1>11 DEF LearnNumber, lineVars
<1> QED
  BY <1>1, <1>2, <1>3, <1>4, <1>5, <1>6, <1>7, <1>8, <1>9, <1>10, <1>11, Zenon
  DEF Next, Step, Refresh, vars, lineVars

-----------------------------------------------------------------------------
(* Theorems *)

\* The variables of the registry keep their types, and only a linked id waits for
\* its number, whoever reports a chat, fails to store it or restarts.
THEOREM TypeCorrect == Spec => []TypeOK
<1>1. TypeInv => TypeOK
  BY DEF TypeInv
<1> QED
  BY <1>1, TypeInvariant, PTL

\* alias takes a linked id out of those that wait in the same critical section in
\* which it finds it there: no two goroutines of a run merge it.
THEOREM OneAliasPerRun == Spec => []AliasOncePerRun
<1>1. Init => MergeInv
  BY DEF Init, MergeInv, MergeSteps, Idle
<1>2. TypeInv /\ MergeInv /\ [Next]_vars => MergeInv'
  BY NextMerge
<1>3. TypeInv /\ MergeInv => AliasOncePerRun
  BY DEF TypeInv, MergeInv, AliasOncePerRun
<1> QED
  BY <1>1, <1>2, <1>3, TypeInvariant, PTL DEF Spec

\* The store is written between Bridge.chats and stdout, so a client never knows of
\* a chat the bridge forgets by a restart alone.
THEOREM RememberedAlways == Spec => []Remembered
<1>1. Init => RememberInv
  BY DEF Init, RememberInv, Reported, Idle, NoChats
<1>2. TypeInv /\ RememberInv /\ [Next]_vars => RememberInv'
  BY NextRemember
<1>3. RememberInv => Remembered
  BY DEF RememberInv, Remembered, Known
<1> QED
  BY <1>1, <1>2, <1>3, TypeInvariant, PTL DEF Spec
=============================================================================
