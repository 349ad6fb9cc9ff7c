------------------------------- MODULE Chats -------------------------------
(***************************************************************************)
(* The chats the bridge has reported.  Bridge.chats, under Bridge.mu, is   *)
(* the set of them and says which wait for their phone number; the table   *)
(* voolo_chats keeps it across restarts.  whatsmeow's handlers, the        *)
(* history worker and goroutines of their own all report chats, and each   *)
(* leaves the lock before it writes the store and then stdout.  A chat of  *)
(* a linked id is merged into the one of its phone number with one         *)
(* chat_update {aliasOf}; a group chat is described by one group line,     *)
(* from the joined groups of the first connection or a query of its own.   *)
(***************************************************************************)
EXTENDS Integers, FiniteSets

CONSTANTS
  Lids,       \* chats named by a linked id
  Groups,     \* group chats
  PhoneOf,    \* the phone-number chat of each linked id
  Workers,    \* goroutines: handlers, the history worker, async
  Faults,     \* which store writes may fail: a subset of {"chats", "alias"}
  MaxJobs,    \* bound: events and history conversations
  MaxCrashes, \* bound: restarts
  Null

Phones == {PhoneOf[l] : l \in Lids}
Jids   == Lids \cup Phones \cup Groups
Kinds  == {"message", "update", "history", "joined", "connected", "refresh"}

ASSUME ChatsAssumption ==
  /\ PhoneOf \in [Lids -> Phones]
  /\ Lids \cap Phones = {} /\ Lids \cap Groups = {} /\ Phones \cap Groups = {}
  /\ Faults \subseteq {"chats", "alias"}
  /\ MaxJobs \in Nat /\ MaxCrashes \in Nat
  /\ Null \notin Jids

VARIABLES
  chats,        \* Bridge.chats: reported chat -> it waits for its phone number
  stored,       \* voolo_chats
  mapped,       \* linked ids whose number whatsmeow's store knows
  groupCache,   \* Bridge.groupCache
  groupsSent,   \* Bridge.groupsSent
  groupsLoaded, \* Bridge.groupsLoaded
  groupsOnce,   \* session.groupsOnce
  asked,        \* refreshGroup goroutines started by ensureGroup
  work,         \* what each worker is doing
  told,         \* chats the client has read of, in any run
  merged,       \* linked ids merged by an earlier run's line
  aliases,      \* aliasOf lines of this run, by linked id
  described,    \* groups with a group line in this run
  missed,       \* groups whose query failed in this run
  unsaved,      \* chats whose store write failed or was cut off by a crash
  jobs, crashes

lineVars  == <<told, merged, aliases>>
groupVars == <<groupCache, groupsSent, groupsLoaded, groupsOnce, asked, described, missed>>
bounds    == <<jobs, crashes>>
vars      == <<chats, stored, mapped, groupVars, work, lineVars, unsaved, bounds>>

-----------------------------------------------------------------------------
(* Workers *)

\* A job, its next step, the chat it is about, the linked id of an alias and,
\* for a sweep, what is left of it.
Idle == [kind |-> Null, step |-> "idle", jid |-> Null, lid |-> Null, todo |-> {}]

Job(k, s, j, l) == [kind |-> k, step |-> s, jid |-> j, lid |-> l, todo |-> {}]

Goes(w, s) == work' = [work EXCEPT ![w] = IF s = "idle" THEN Idle ELSE [@ EXCEPT !.step = s]]

Known(j) == j \in DOMAIN chats \/ j \in groupCache

Put(f, j, v) == [i \in DOMAIN f \cup {j} |-> IF i = j THEN v ELSE f[i]]

\* INSERT ... ON CONFLICT DO NOTHING
Insert(f, j, v) == IF j \in DOMAIN f THEN f ELSE Put(f, j, v)

\* What a job does after each of its parts.  ensureChat comes before the message's
\* line, the history batch before ensureGroup.
AfterAlias(r) ==
  CASE r.kind \in {"message", "history"} -> "mark"
    [] r.kind = "connected" -> "sweep"
    [] OTHER -> "idle"

AfterChat(r)  == IF r.jid \in Groups THEN "group" ELSE "line"
AfterMark(r)  == IF r.kind = "history" THEN "line" ELSE AfterChat(r)
AfterGroup(r) ==
  CASE r.kind = "message" -> "line"
    [] r.kind = "connected" -> "each"
    [] OTHER -> "idle"
AfterLine(r)  == IF r.kind = "history" /\ r.jid \in Groups THEN "group" ELSE "idle"

-----------------------------------------------------------------------------
(* Jobs begin *)

Starts(w) ==
  /\ work[w] = Idle
  /\ jobs < MaxJobs
  /\ jobs' = jobs + 1
  /\ UNCHANGED <<chats, stored, mapped, lineVars, unsaved, crashes>>

\* chatJID: the chat a message, another event of a chat or a history conversation
\* is about.  The number of a linked id comes with the event (alt) or from the
\* store, or is not known.
ChatJID(w, k, j, alt) ==
  /\ Starts(w)
  /\ alt => j \in Lids
  /\ work' = [work EXCEPT ![w] =
                IF j \in Lids /\ (alt \/ j \in mapped)
                  THEN Job(k, "alias", PhoneOf[j], j)
                  ELSE LET r == Job(k, "mark", j, Null)
                       IN  IF AfterAlias(r) = "idle" THEN Idle ELSE r]
  /\ UNCHANGED groupVars

\* onMessage and onUndecryptable: the chat is reported before the message.
Message(w, j, alt) == ChatJID(w, "message", j, alt)

\* historyConversation with messages the caps kept: the batch reports the chat.
HistoryConversation(w, j, alt) == ChatJID(w, "history", j, alt)

\* chatUpdate, onReceipt, and the reactions, edits and revokes of onMessage report
\* no chat; they only may merge a linked id.
Update(w, l, alt) == ChatJID(w, "update", l, alt)

\* JoinedGroup: joinedGroup caches the group and reports its chat.
JoinedGroup(w, g) ==
  /\ Starts(w)
  /\ groupCache' = groupCache \cup {g}
  /\ work' = [work EXCEPT ![w] = Job("joined", "mark", g, Null)]
  /\ UNCHANGED <<groupsSent, groupsLoaded, groupsOnce, asked, described, missed>>

\* Connected: sweepLIDs takes the chats that wait for their number.
Connected(w) ==
  /\ Starts(w)
  /\ work' = [work EXCEPT ![w] =
                [Job("connected", "sweep", Null, Null) EXCEPT !.todo = {l \in DOMAIN chats : chats[l]}]]
  /\ UNCHANGED groupVars

\* GroupInfo: refreshGroup of a reported group.
GroupInfo(w, g) ==
  /\ Starts(w)
  /\ g \in DOMAIN chats
  /\ work' = [work EXCEPT ![w] = Job("refresh", "fetch", g, Null)]
  /\ UNCHANGED groupVars

\* The goroutine ensureGroup started runs.
RefreshGroup(w, g) ==
  /\ work[w] = Idle
  /\ g \in asked
  /\ asked' = asked \ {g}
  /\ work' = [work EXCEPT ![w] = IF g \in DOMAIN chats THEN Job("refresh", "fetch", g, Null) ELSE Idle]
  /\ UNCHANGED <<chats, stored, mapped, groupCache, groupsSent, groupsLoaded, groupsOnce, described, missed,
                 lineVars, unsaved, bounds>>

\* whatsmeow learns the number of a linked id.
LearnNumber(l) ==
  /\ l \notin mapped
  /\ mapped' = mapped \cup {l}
  /\ UNCHANGED <<chats, stored, groupVars, work, lineVars, unsaved, bounds>>

-----------------------------------------------------------------------------
(* alias *)

\* Mutant of Alias: the mark is left as it is.
AliasKeepsPending(w) ==
  LET r == work[w] IN
  /\ r.step = "alias"
  /\ IF r.lid \in DOMAIN chats /\ chats[r.lid]
       THEN chats' = Put(chats, r.jid, FALSE) /\ Goes(w, "resolve")
       ELSE UNCHANGED chats /\ Goes(w, AfterAlias(r))
  /\ UNCHANGED <<stored, mapped, groupVars, lineVars, unsaved, bounds>>

\* Under the lock: the first to find the linked id waiting merges it.
Alias(w) ==
  LET r == work[w] IN
  /\ r.step = "alias"
  /\ IF r.lid \in DOMAIN chats /\ chats[r.lid]
       THEN chats' = Put(Put(chats, r.lid, FALSE), r.jid, FALSE) /\ Goes(w, "resolve")
       ELSE UNCHANGED chats /\ Goes(w, AfterAlias(r))
  /\ UNCHANGED <<stored, mapped, groupVars, lineVars, unsaved, bounds>>

\* Mutant of Resolved: only the linked id's row is written.
ResolvedOnly(l, p) == IF l \in DOMAIN stored THEN Put(stored, l, FALSE) ELSE stored

\* ResolveLIDChat: UPDATE of the linked id's row, if there is one, and INSERT of the number's.
Resolved(l, p) == Insert(IF l \in DOMAIN stored THEN Put(stored, l, FALSE) ELSE stored, p, FALSE)

\* The write may fail; that is logged and nothing else.
ResolveLIDChat(w) ==
  LET r == work[w] IN
  /\ r.step = "resolve"
  /\ \/ stored' = Resolved(r.lid, r.jid) /\ UNCHANGED unsaved
     \/ "alias" \in Faults /\ unsaved' = unsaved \cup {r.jid, r.lid} /\ UNCHANGED stored
  /\ Goes(w, "aliasline")
  /\ UNCHANGED <<chats, mapped, groupVars, lineVars, bounds>>

AliasLine(w) ==
  LET r == work[w] IN
  /\ r.step = "aliasline"
  /\ aliases' = [aliases EXCEPT ![r.lid] = @ + 1]
  /\ told' = told \cup {r.jid}
  /\ Goes(w, AfterAlias(r))
  /\ UNCHANGED <<chats, stored, mapped, groupVars, merged, unsaved, bounds>>

\* The sweep's next linked id, or its end; the first one then loads the groups.
Sweep(w) ==
  LET r == work[w] IN
  /\ r.step = "sweep"
  /\ \/ \E l \in r.todo :
          /\ work' = [work EXCEPT ![w].todo = @ \ {l}, ![w].lid = l, ![w].jid = PhoneOf[l],
                                  ![w].step = IF l \in mapped THEN "alias" ELSE "sweep"]
          /\ UNCHANGED groupsOnce
     \/ /\ r.todo = {}
        /\ Goes(w, IF groupsOnce THEN "idle" ELSE "load")
        /\ groupsOnce' = TRUE
  /\ UNCHANGED <<chats, stored, mapped, groupCache, groupsSent, groupsLoaded, asked, described, missed,
                 lineVars, unsaved, bounds>>

-----------------------------------------------------------------------------
(* markReported, ensureChat *)

IsLid(j) == j \in Lids

MarkReported(w) ==
  LET r == work[w] IN
  /\ r.step = "mark"
  /\ IF r.jid \in DOMAIN chats
       THEN UNCHANGED chats /\ Goes(w, AfterMark(r))
       ELSE chats' = Put(chats, r.jid, IsLid(r.jid)) /\ Goes(w, "add")
  /\ UNCHANGED <<stored, mapped, groupVars, lineVars, unsaved, bounds>>

\* The write may fail; that is logged and nothing else.
AddChats(w) ==
  LET r == work[w] IN
  /\ r.step = "add"
  /\ \/ stored' = Insert(stored, r.jid, IsLid(r.jid)) /\ UNCHANGED unsaved
     \/ "chats" \in Faults /\ unsaved' = unsaved \cup {r.jid} /\ UNCHANGED stored
  /\ Goes(w, IF r.kind = "history" THEN "line" ELSE "chatline")
  /\ UNCHANGED <<chats, mapped, groupVars, lineVars, bounds>>

\* ensureChat's chat line
ChatLine(w) ==
  LET r == work[w] IN
  /\ r.step = "chatline"
  /\ told' = told \cup {r.jid}
  /\ Goes(w, AfterChat(r))
  /\ UNCHANGED <<chats, stored, mapped, groupVars, merged, aliases, unsaved, bounds>>

\* The message or history_batch line
MessageLine(w) ==
  LET r == work[w] IN
  /\ r.step = "line"
  /\ told' = told \cup {r.jid}
  /\ Goes(w, AfterLine(r))
  /\ UNCHANGED <<chats, stored, mapped, groupVars, merged, aliases, unsaved, bounds>>

-----------------------------------------------------------------------------
(* Groups *)

\* ensureGroup: from the cache, or asked for once the joined groups are known.
EnsureGroup(w) ==
  LET r == work[w]
      new == r.jid \notin groupsSent
  IN
  /\ r.step = "group"
  /\ groupsSent' = IF new /\ (r.jid \in groupCache \/ groupsLoaded) THEN groupsSent \cup {r.jid} ELSE groupsSent
  /\ asked' = IF new /\ r.jid \notin groupCache /\ groupsLoaded THEN asked \cup {r.jid} ELSE asked
  /\ Goes(w, IF new /\ r.jid \in groupCache THEN "groupline" ELSE AfterGroup(r))
  /\ UNCHANGED <<chats, stored, mapped, groupCache, groupsLoaded, groupsOnce, described, missed,
                 lineVars, unsaved, bounds>>

GroupLine(w) ==
  LET r == work[w] IN
  /\ r.step = "groupline"
  /\ described' = described \cup {r.jid}
  /\ Goes(w, AfterGroup(r))
  /\ UNCHANGED <<chats, stored, mapped, groupCache, groupsSent, groupsLoaded, groupsOnce, asked, missed,
                 lineVars, unsaved, bounds>>

\* refreshGroup, one at a time: GetGroupInfo answers or fails.
Fetch(w) ==
  LET r == work[w] IN
  /\ r.step = "fetch"
  /\ \A v \in Workers : ~(work[v].kind = "refresh" /\ work[v].step = "groupline")
  /\ \/ /\ groupCache' = groupCache \cup {r.jid}
        /\ groupsSent' = groupsSent \cup {r.jid}
        /\ Goes(w, "groupline")
        /\ UNCHANGED missed
     \/ missed' = missed \cup {r.jid} /\ Goes(w, "idle") /\ UNCHANGED <<groupCache, groupsSent>>
  /\ UNCHANGED <<chats, stored, mapped, groupsLoaded, groupsOnce, asked, described, lineVars, unsaved, bounds>>

\* Mutant of Pending: groups the answer did not name are left out.
PendingNamed(infos) == {g \in Groups : g \in infos /\ g \notin groupsSent}

\* The reported groups loadGroups takes up, named by WhatsApp's answer or not.
Pending(infos) == {g \in Groups : g \in DOMAIN chats /\ g \notin groupsSent}

\* loadGroups: GetJoinedGroups answers with some groups, or fails and names none.
LoadGroups(w) ==
  /\ work[w].step = "load"
  /\ \E infos \in SUBSET Groups :
       /\ groupCache' = groupCache \cup infos
       /\ work' = [work EXCEPT ![w].step = "each", ![w].todo = Pending(infos)]
  /\ groupsLoaded' = TRUE
  /\ UNCHANGED <<chats, stored, mapped, groupsSent, groupsOnce, asked, described, missed, lineVars, unsaved, bounds>>

\* The next group of loadGroups.
EachGroup(w) ==
  LET r == work[w] IN
  /\ r.step = "each"
  /\ \/ \E g \in r.todo :
          work' = [work EXCEPT ![w].todo = @ \ {g}, ![w].jid = g, ![w].step = "group"]
     \/ r.todo = {} /\ Goes(w, "idle")
  /\ UNCHANGED <<chats, stored, mapped, groupVars, lineVars, unsaved, bounds>>

-----------------------------------------------------------------------------
\* The chats a worker has put into Bridge.chats and not yet into the store.
BeingStored ==
  {work[w].jid : w \in {v \in Workers : work[v].step \in {"add", "resolve"}}}

\* The process dies and a new one reads voolo_chats (install).
Restart ==
  /\ crashes < MaxCrashes
  /\ crashes' = crashes + 1
  /\ chats' = stored
  /\ unsaved' = unsaved \cup BeingStored
  /\ merged' = merged \cup {l \in Lids : aliases[l] > 0}
  /\ aliases' = [l \in Lids |-> 0]
  /\ groupCache' = {} /\ groupsSent' = {} /\ groupsLoaded' = FALSE /\ groupsOnce' = FALSE
  /\ asked' = {} /\ described' = {} /\ missed' = {}
  /\ work' = [w \in Workers |-> Idle]
  /\ UNCHANGED <<stored, mapped, told, jobs>>

NoChats == [j \in {} |-> FALSE]

Init ==
  /\ chats = NoChats /\ stored = NoChats
  /\ mapped = {}
  /\ groupCache = {} /\ groupsSent = {} /\ groupsLoaded = FALSE /\ groupsOnce = FALSE
  /\ asked = {} /\ described = {} /\ missed = {}
  /\ work = [w \in Workers |-> Idle]
  /\ told = {} /\ merged = {} /\ aliases = [l \in Lids |-> 0]
  /\ unsaved = {}
  /\ jobs = 0 /\ crashes = 0

Begin(w) ==
  \/ \E j \in Jids, alt \in BOOLEAN : Message(w, j, alt) \/ HistoryConversation(w, j, alt)
  \/ \E l \in Lids, alt \in BOOLEAN : Update(w, l, alt)
  \/ \E g \in Groups : JoinedGroup(w, g) \/ GroupInfo(w, g)
  \/ Connected(w)

Step(w) ==
  \/ Alias(w) \/ ResolveLIDChat(w) \/ AliasLine(w) \/ Sweep(w)
  \/ MarkReported(w) \/ AddChats(w) \/ ChatLine(w) \/ MessageLine(w)
  \/ EnsureGroup(w) \/ GroupLine(w) \/ Fetch(w) \/ LoadGroups(w) \/ EachGroup(w)

Refresh == \E w \in Workers, g \in Groups : RefreshGroup(w, g)

Next ==
  \/ \E w \in Workers : Begin(w) \/ Step(w)
  \/ \E l \in Lids : LearnNumber(l)
  \/ Refresh
  \/ Restart

Spec == Init /\ [][Next]_vars

\* Goroutines run and queries end (GetGroupInfo and GetJoinedGroups have timeouts);
\* WhatsApp owes no event.
FairSpec ==
  /\ Spec
  /\ \A w \in Workers : WF_vars(Step(w))
  /\ WF_vars(Refresh)

-----------------------------------------------------------------------------
(* Properties *)

\* The types of the variables; only a linked id waits for a number.
TypeOK ==
  /\ \E D \in SUBSET Jids : chats \in [D -> BOOLEAN]
  /\ \E D \in SUBSET Jids : stored \in [D -> BOOLEAN]
  /\ \A j \in DOMAIN chats : chats[j] => j \in Lids
  /\ mapped \subseteq Lids /\ merged \subseteq Lids
  /\ groupCache \subseteq Groups /\ groupsSent \subseteq Groups /\ asked \subseteq Groups
  /\ described \subseteq Groups /\ missed \subseteq Groups
  /\ groupsLoaded \in BOOLEAN /\ groupsOnce \in BOOLEAN
  /\ work \in [Workers -> [kind : Kinds \cup {Null}, jid : Jids \cup {Null}, lid : Lids \cup {Null},
                           todo : SUBSET Jids,
                           step : {"idle", "alias", "resolve", "aliasline", "sweep", "mark", "add", "chatline",
                                   "line", "group", "groupline", "fetch", "load", "each"}]]
  /\ told \subseteq Jids /\ unsaved \subseteq Jids
  /\ aliases \in [Lids -> Nat]
  /\ jobs \in 0 .. MaxJobs /\ crashes \in 0 .. MaxCrashes

\* The variables keep their types, and in one run a linked id is merged by at most
\* one aliasOf line, although every handler, the history worker and the sweep may
\* find it waiting (alias).
AliasOncePerRun == TypeOK /\ \A l \in Lids : aliases[l] <= 1

\* A chat the client has been told of can be written to, also after a restart
\* (knownChat), unless its store write failed or the process died before it.
Remembered == \A j \in told : Known(j) \/ j \in unsaved

\* "It is sent once per @lid chat, also across restarts" (PROTOCOL.md 5.12).
AliasOnce == \A l \in Lids : aliases[l] <= (IF l \in merged THEN 0 ELSE 1)

\* A reported group is described once the joined groups are known: none is
\* missed between ensureGroup, which leaves it to loadGroups, and loadGroups,
\* which takes up the chats reported so far.  Its query may fail.
GroupComes ==
  \A g \in Groups :
    (groupsLoaded /\ g \in DOMAIN chats) ~> (g \in described \cup missed \/ ~groupsLoaded)
=============================================================================
