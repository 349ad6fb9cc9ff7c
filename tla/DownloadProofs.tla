--------------------------- MODULE DownloadProofs ---------------------------
(***************************************************************************)
(* Proofs about Download, for every job, limit, server, resolver, redirect *)
(* and file: where the client connects, how much of a body is in memory,   *)
(* what media_too_large is said of, and the duration of a voice note.      *)
(***************************************************************************)
EXTENDS Download, OggProofs

-----------------------------------------------------------------------------
(* Operators *)

\* The first two of two.
LEMMA FirstTwo ==
  ASSUME NEW a, NEW b
  PROVE  SubSeq(<<a, b>>, 1, 2)[1] = a /\ SubSeq(<<a, b>>, 1, 2)[2] = b
  OBVIOUS

\* A name of an allowed host, without the dot at its end, ends in whatsapp.net or
\* whatsapp.com and has a label before them.
LEMMA WhatsAppHost ==
  ASSUME NEW Label, NEW name \in Seq(Label), HostAllowed(name)
  PROVE  LET h == Trimmed(name) IN
         Len(h) > 2 /\ h[Len(h) - 1] = "whatsapp" /\ h[Len(h)] \in {"net", "com"}
<1> DEFINE h == Trimmed(name)
<1>1. h \in Seq(Label)
  <2>1. \/ Trimmed(name) = name
        \/ Len(name) > 0 /\ Trimmed(name) = SubSeq(name, 1, Len(name) - 1)
    BY Zenon DEF Trimmed, Front
  <2>2. ASSUME Len(name) > 0 PROVE SubSeq(name, 1, Len(name) - 1) \in Seq(Label)
    BY <2>2
  <2> QED
    BY <2>1, <2>2
<1>2. \/ h \in ExactHosts
      \/ \E s \in SuffixHosts : IsSuffix(s, h) /\ Len(h) > Len(s)
  BY DEF HostAllowed
<1> HIDE DEF h
<1>3. CASE h \in ExactHosts
  <2>1. h = <<"web", "whatsapp", "com">>
    BY <1>3 DEF ExactHosts
  <2>2. Len(h) = 3 /\ h[2] = "whatsapp" /\ h[3] = "com"
    BY <2>1
  <2> QED
    BY <2>2 DEF h
<1>4. ASSUME NEW last \in {"net", "com"}, IsSuffix(<<"whatsapp", last>>, h), Len(h) > 2
      PROVE  h[Len(h) - 1] = "whatsapp" /\ h[Len(h)] = last
  <2> DEFINE s == <<"whatsapp", last>>
             r == Reverse(s)
             t == Reverse(h)
  <2>1. SubSeq(r, 1, 2) = SubSeq(t, 1, 2)
    <3>1. Len(s) = 2 /\ Len(r) = 2
      BY DEF Reverse
    <3>2. SubSeq(r, 1, Len(r)) = SubSeq(t, 1, Len(r))
      BY <1>4 DEF IsSuffix, IsPrefix
    <3> QED
      BY <3>1, <3>2
  <2>2. r[1] = last /\ r[2] = "whatsapp"
    BY DEF Reverse
  <2>3. t[1] = h[Len(h)] /\ t[2] = h[Len(h) - 1]
    BY <1>1, <1>4 DEF Reverse
  <2>4. t \in Seq(Label) /\ Len(t) > 2
    <3>1. Len(h) \in Nat /\ \A i \in 1 .. Len(h) : h[(Len(h) - i) + 1] \in Label
      BY <1>1
    <3> QED
      BY <1>4, <3>1 DEF Reverse
  <2>5. SubSeq(r, 1, 2)[1] = r[1] /\ SubSeq(r, 1, 2)[2] = r[2]
    <3>1. r = <<last, "whatsapp">>
      BY DEF Reverse
    <3> HIDE DEF r
    <3> QED
      BY <3>1, FirstTwo
  <2>6. SubSeq(t, 1, 2)[1] = t[1] /\ SubSeq(t, 1, 2)[2] = t[2]
    <3> HIDE DEF r, t
    <3> QED
      BY <2>4
  <2> HIDE DEF r, t
  <2> QED
    BY <2>1, <2>2, <2>3, <2>5, <2>6
<1>5. CASE \E s \in SuffixHosts : IsSuffix(s, h) /\ Len(h) > Len(s)
  <2>1. PICK s \in SuffixHosts : IsSuffix(s, h) /\ Len(h) > Len(s)
    BY <1>5
  <2>2. PICK last \in {"net", "com"} : s = <<"whatsapp", last>>
    BY <2>1 DEF SuffixHosts
  <2>3. Len(s) = 2
    BY <2>2
  <2>4. h[Len(h) - 1] = "whatsapp" /\ h[Len(h)] = last /\ Len(h) > 2
    BY <1>4, <2>1, <2>2, <2>3
  <2> QED
    BY <2>4 DEF h
<1> QED
  BY <1>2, <1>3, <1>5 DEF h

\* A public address is in none of the tables.
LEMMA PublicRange ==
  ASSUME NEW a \in AnyAddress, PublicIP(a)
  PROVE  a.range \in {"public4", "global6"}
  BY DEF AnyAddress, PublicIP, HoldsV4

\* The caps are numbers.
LEMMA CapTypes ==
  /\ \A kind : MaxFetchBytes(kind) \in Nat
  /\ Limits.voiceSeconds \in Nat
<1>1. /\ Limits.image \in Nat /\ Limits.voice \in Nat /\ Limits.voiceSeconds \in Nat
      /\ Limits.video \in Nat /\ Limits.file \in Nat
  BY DownloadAssumption
<1>2. ASSUME NEW kind PROVE MaxFetchBytes(kind) \in Nat
  BY <1>1 DEF MaxFetchBytes
<1> QED
  BY <1>1, <1>2

-----------------------------------------------------------------------------
(* The invariant *)

Pcs    == {"start", "request", "dial", "response", "read", "measure", "failed", "done"}
Errors == {Null, "network", "timeout", "offline", "gone", "status", "too_large", "hash"}
AnyJob == [kind : STRING, size : Int, dur : Int, real : Nat, url : AnyUrl]

\* TypeOK in parts, with what it does not say of the request.
JobType     == job \in Jobs /\ pc \in Pcs
RequestType == url \in AnyUrl /\ addrs \in Seq(AnyAddress) /\ via \in 0 .. MaxRedirects - 1 /\ tries \in 0 .. MaxTries
BodyType    == body \in 0 .. MaxBody /\ left \in Int /\ held \in Nat
FlagType    == honest \in BOOLEAN /\ over \in BOOLEAN
ErrorType   == error \in Errors
ResultType  == result.code \in Codes /\ result.size \in Nat /\ result.dur \in Int
FileType    == file # Null => file \in OggFiles /\ job.kind = "voice" /\ pc = "done"

TypeInv ==
  JobType /\ RequestType /\ BodyType /\ FlagType /\ ErrorType /\ ResultType /\ FileType

\* What was asked for is looked at before the first request, and there is no answer
\* before the end.
CheckInv ==
  /\ pc \notin {"start", "done"} =>
       job.kind = "picture" \/ CheckFetch(job.kind, job.size, job.dur)
  /\ pc # "done" => result.code = "none"

\* The name to dial is the one Guard let pass, and so is the one dialed.
DialInv ==
  /\ pc = "dial" => host \in Seq(STRING) /\ AddrAllowed(host, Port(url))
  /\ dialed # Null =>
       /\ dialed.host \in Seq(STRING) /\ AddrAllowed(dialed.host, dialed.port)
       /\ dialed.ip \in AnyAddress /\ PublicIP(dialed.ip)

\* What is in memory and what may still come make up the limit, and, when the server
\* sends the file, what is in memory and what still comes make up the file.
BodyInv ==
  /\ held <= BodyLimit
  /\ pc = "read" => left = BodyLimit - held
  /\ pc = "read" /\ honest => held + body = Encoded
  /\ pc = "measure" => body = 0

\* A body known to be over the limit is an error that is not tried again, and no file
\* within its cap.
OverInv ==
  /\ over => pc = "done" \/ (pc = "failed" /\ error = "too_large")
  /\ pc = "failed" /\ error = "too_large" => over
  /\ over => job.kind = "picture" \/ ~honest \/ job.real > MaxFetchBytes(job.kind)

Cap == IF job.kind = "picture" THEN MaxAvatarBytes ELSE MaxFetchBytes(job.kind)

\* What is delivered came whole and is within its cap; a voice note's duration is
\* between its own and the cap.
OkInv ==
  result.code = "ok" =>
    /\ body = 0 /\ result.size <= Cap
    /\ file # Null =>
         /\ result.dur \in job.dur - Margin .. Limits.voiceSeconds
         /\ result.dur >= OggDurationSeconds(file)

IInv ==
  TypeInv /\ CheckInv /\ DialInv /\ BodyInv /\ OverInv /\ OkInv /\ TooLargeIsTrue

-----------------------------------------------------------------------------
(* The first state *)

\* The invariant holds at first.
LEMMA InitInv ==
  ASSUME Init
  PROVE  IInv
<1>1. job \in AnyJob /\ job.url \in AnyUrl
  BY DownloadAssumption DEF Init, AnyJob
<1>2. TypeInv
  <2>1. JobType /\ FlagType /\ ErrorType /\ FileType
    BY DEF Init, JobType, FlagType, ErrorType, FileType, Pcs, Errors
  <2>3. RequestType
    BY <1>1, DownloadAssumption DEF Init, RequestType, MaxRedirects
  <2>4. BodyType
    BY DownloadAssumption DEF Init, BodyType
  <2>2. ResultType
    BY DEF Init, ResultType, Codes
  <2> QED
    BY <2>1, <2>2, <2>3, <2>4 DEF TypeInv
<1>3. CheckInv /\ DialInv
  BY DEF Init, CheckInv, DialInv
<1>4. BodyLimit \in Nat
  BY CapTypes, DownloadAssumption DEF BodyLimit, DownloadOverhead
<1>5. BodyInv /\ OverInv /\ OkInv /\ TooLargeIsTrue
  BY <1>4 DEF Init, BodyInv, OverInv, OkInv, TooLargeIsTrue
<1> QED
  BY <1>2, <1>3, <1>5 DEF IInv

-----------------------------------------------------------------------------
(* The steps *)

\* No step leaves the end, and none changes what was asked for.
LEMMA JobStays ==
  ASSUME Next
  PROVE  job' = job /\ pc # "done"
<1>1. CASE Refused
  BY <1>1 DEF Refused, Refuses
<1>2. CASE Start
  BY <1>2 DEF Start, Refuses
<1>3. CASE Failed
  BY <1>3 DEF Failed, Ends
<1>4. CASE Timeout
  BY <1>4 DEF Timeout, Refuses
<1>5. CASE Offline
  BY <1>5 DEF Offline, Refuses
<1>6. CASE Guard
  BY <1>6 DEF Guard, Refuses
<1>7. CASE Resolve
  BY <1>7 DEF Resolve, Refuses
<1>8. CASE Redirect
  BY <1>8 DEF Redirect, Refuses
<1>9. CASE Status
  BY <1>9 DEF Status, Refuses
<1>10. CASE Response
  BY <1>10 DEF Response, Refuses
<1>11. CASE Read
  BY <1>11 DEF Read, Refuses
<1>12. CASE ReadOver
  BY <1>12 DEF ReadOver, Refuses
<1>13. CASE ReadFails
  BY <1>13 DEF ReadFails, Refuses
<1>14. CASE ReadEnds
  BY <1>14 DEF ReadEnds, Refuses
<1>15. CASE Measure
  BY <1>15 DEF Measure, Refuses
<1> QED
  BY <1>1, <1>2, <1>3, <1>4, <1>5, <1>6, <1>7, <1>8, <1>9, <1>10, <1>11, <1>12, <1>13, <1>14, <1>15 DEF Next, Network

\* What the caps make of the job.
LEMMA JobTypes ==
  ASSUME JobType
  PROVE  /\ job.size \in Int /\ job.dur \in Int /\ job.real \in Nat /\ job.url \in AnyUrl
         /\ MaxFetchBytes(job.kind) \in Nat /\ Cap \in Nat /\ BodyLimit \in Nat /\ Encoded \in Nat
<1>1. job \in AnyJob
  BY DownloadAssumption DEF JobType, AnyJob
<1>2. job.size \in Int /\ job.dur \in Int /\ job.real \in Nat /\ job.url \in AnyUrl
  BY <1>1 DEF AnyJob
<1>3. MaxFetchBytes(job.kind) \in Nat
  BY CapTypes
<1>4. Cap \in Nat /\ BodyLimit \in Nat
  BY <1>3, DownloadAssumption DEF Cap, BodyLimit, DownloadOverhead
<1>5. ASSUME NEW x \in Nat PROVE x \div Block \in Nat /\ (x + 1) * Block \in Nat
  <2>1. Block \in Nat \ {0}
    BY DownloadAssumption
  <2> QED
    BY <2>1
<1>6. (job.real \div Block + 1) * Block \in Nat
  BY <1>2, <1>5
<1>7. Encoded \in Nat
  BY <1>2, <1>6, DownloadAssumption DEF Encoded
<1> QED
  BY <1>2, <1>3, <1>4, <1>7

\* Types of the place, the flags and the error.
LEMMA StepPlace ==
  ASSUME JobType, FlagType, ErrorType, Next
  PROVE  (JobType /\ FlagType /\ ErrorType)'
<1>1. CASE Refused
  BY <1>1 DEF Refused, Refuses, Ends, JobType, FlagType, ErrorType, Pcs, Errors, vars, requestVars, bodyVars
<1>2. CASE Start
  BY <1>2 DEF Start, Fails, JobType, FlagType, ErrorType, Pcs, Errors, vars, requestVars, bodyVars
<1>3. CASE Failed
  BY <1>3 DEF Failed, Ends, NewRequest, JobType, FlagType, ErrorType, Pcs, Errors, vars, requestVars, bodyVars
<1>4. CASE Timeout
  BY <1>4 DEF Timeout, Fails, JobType, FlagType, ErrorType, Pcs, Errors, vars, requestVars, bodyVars
<1>5. CASE Offline
  BY <1>5 DEF Offline, Fails, JobType, FlagType, ErrorType, Pcs, Errors, vars, requestVars, bodyVars
<1>6. CASE Guard
  BY <1>6 DEF Guard, Fails, JobType, FlagType, ErrorType, Pcs, Errors, vars, requestVars, bodyVars
<1>7. CASE Resolve
  BY <1>7 DEF Resolve, Fails, JobType, FlagType, ErrorType, Pcs, Errors, vars, requestVars, bodyVars
<1>8. CASE Redirect
  BY <1>8 DEF Redirect, Fails, JobType, FlagType, ErrorType, Pcs, Errors, vars, requestVars, bodyVars
<1>9. CASE Status
  BY <1>9 DEF Status, Fails, JobType, FlagType, ErrorType, Pcs, Errors, vars, requestVars, bodyVars
<1>10. CASE Response
  BY <1>10 DEF Response, Limited, Fails, NewRequest, JobType, FlagType, ErrorType, Pcs, Errors, vars, requestVars, bodyVars
<1>11. CASE Read
  BY <1>11 DEF Read, Fails, JobType, FlagType, ErrorType, Pcs, Errors, vars, requestVars, bodyVars
<1>12. CASE ReadOver
  BY <1>12 DEF ReadOver, Fails, JobType, FlagType, ErrorType, Pcs, Errors, vars, requestVars, bodyVars
<1>13. CASE ReadFails
  BY <1>13 DEF ReadFails, Fails, JobType, FlagType, ErrorType, Pcs, Errors, vars, requestVars, bodyVars
<1>14. CASE ReadEnds
  BY <1>14 DEF ReadEnds, Fails, JobType, FlagType, ErrorType, Pcs, Errors, vars, requestVars, bodyVars
<1>15. CASE Measure
  BY <1>15 DEF Measure, Ends, Delivers, JobType, FlagType, ErrorType, Pcs, Errors, vars, requestVars, bodyVars
<1> QED
  BY <1>1, <1>2, <1>3, <1>4, <1>5, <1>6, <1>7, <1>8, <1>9, <1>10, <1>11, <1>12, <1>13, <1>14, <1>15 DEF Next, Network

\* Types of the request.
LEMMA StepRequest ==
  ASSUME JobType, RequestType, Next
  PROVE  RequestType'
<1>1. CASE Refused
  BY <1>1 DEF Refused, Refuses, Ends, RequestType, requestVars
<1>2. CASE Start
  BY <1>2 DEF Start, Fails, RequestType, requestVars
<1>3. CASE Failed
  <2>1. CASE tries < MaxTries /\ tries' = tries + 1 /\ NewRequest
    <3>1. tries' \in 0 .. MaxTries
      BY <2>1, DownloadAssumption DEF RequestType
    <3> QED
      BY <2>1, <3>1, JobTypes DEF NewRequest, RequestType, MaxRedirects
  <2>2. CASE UNCHANGED requestVars
    BY <2>2 DEF requestVars, RequestType
  <2> QED
    BY <1>3, <2>1, <2>2, Zenon DEF Failed
<1>4. CASE Timeout
  BY <1>4 DEF Timeout, Fails, RequestType, requestVars
<1>5. CASE Offline
  BY <1>5 DEF Offline, Fails, RequestType, requestVars
<1>6. CASE Guard
  BY <1>6, DownloadAssumption DEF Guard, Fails, RequestType
<1>7. CASE Resolve
  BY <1>7 DEF Resolve, Fails, RequestType, requestVars
<1>8. CASE Redirect
  <2>1. PICK u \in Urls :
          \/ CheckRedirect(u, via + 1) /\ url' = u /\ via' = via + 1
          \/ UNCHANGED <<url, via>>
    BY <1>8 DEF Redirect
  <2>2. tries' = tries /\ addrs' = addrs /\ u \in AnyUrl
    BY <1>8, DownloadAssumption DEF Redirect
  <2>3. CheckRedirect(u, via + 1) => via + 1 < MaxRedirects
    BY DEF CheckRedirect
  <2> QED
    BY <2>1, <2>2, <2>3 DEF RequestType, MaxRedirects
<1>9. CASE Status
  BY <1>9 DEF Status, Fails, RequestType, requestVars
<1>10. CASE Response
  BY <1>10, JobTypes DEF Response, NewRequest, RequestType, MaxRedirects
<1>11. CASE Read
  BY <1>11 DEF Read, Fails, RequestType, requestVars
<1>12. CASE ReadOver
  BY <1>12 DEF ReadOver, Fails, RequestType, requestVars
<1>13. CASE ReadFails
  BY <1>13 DEF ReadFails, Fails, RequestType, requestVars
<1>14. CASE ReadEnds
  BY <1>14 DEF ReadEnds, Fails, RequestType, requestVars
<1>15. CASE Measure
  BY <1>15 DEF Measure, Ends, Delivers, RequestType, requestVars
<1> QED
  BY <1>1, <1>2, <1>3, <1>4, <1>5, <1>6, <1>7, <1>8, <1>9, <1>10, <1>11, <1>12, <1>13, <1>14, <1>15 DEF Next, Network

\* Types of the body.
LEMMA StepBody ==
  ASSUME JobType, BodyType, Next
  PROVE  BodyType'
<1>1. CASE Refused
  BY <1>1 DEF Refused, Refuses, Ends, BodyType, bodyVars
<1>2. CASE Start
  BY <1>2 DEF Start, Fails, BodyType, bodyVars
<1>3. CASE Failed
  BY <1>3, DownloadAssumption DEF Failed, Ends, BodyType, bodyVars
<1>4. CASE Timeout
  BY <1>4 DEF Timeout, Fails, BodyType, bodyVars
<1>5. CASE Offline
  BY <1>5 DEF Offline, Fails, BodyType, bodyVars
<1>6. CASE Guard
  BY <1>6 DEF Guard, Fails, BodyType, bodyVars
<1>7. CASE Resolve
  BY <1>7 DEF Resolve, Fails, BodyType, bodyVars
<1>8. CASE Redirect
  BY <1>8 DEF Redirect, Fails, BodyType, bodyVars
<1>9. CASE Status
  BY <1>9 DEF Status, Fails, BodyType, bodyVars
<1>10. CASE Response
  BY <1>10, JobTypes, DownloadAssumption DEF Response, Limited, Fails, BodyType
<1>11. CASE Read
  BY <1>11, DownloadAssumption DEF Read, BodyType, OggMin
<1>12. CASE ReadOver
  BY <1>12 DEF ReadOver, Fails, BodyType, bodyVars
<1>13. CASE ReadFails
  BY <1>13 DEF ReadFails, Fails, BodyType, bodyVars
<1>14. CASE ReadEnds
  BY <1>14 DEF ReadEnds, Fails, BodyType, bodyVars
<1>15. CASE Measure
  BY <1>15 DEF Measure, Ends, Delivers, BodyType, bodyVars
<1> QED
  BY <1>1, <1>2, <1>3, <1>4, <1>5, <1>6, <1>7, <1>8, <1>9, <1>10, <1>11, <1>12, <1>13, <1>14, <1>15 DEF Next, Network

\* Types of the file.
LEMMA StepFile ==
  ASSUME FileType, Next
  PROVE  FileType'
<1>1. CASE Refused
  BY JobStays, <1>1 DEF Refused, Refuses, Ends, FileType
<1>2. CASE Start
  BY JobStays, <1>2 DEF Start, Fails, FileType
<1>3. CASE Failed
  BY JobStays, <1>3 DEF Failed, Ends, NewRequest, FileType
<1>4. CASE Timeout
  BY JobStays, <1>4 DEF Timeout, Fails, FileType
<1>5. CASE Offline
  BY JobStays, <1>5 DEF Offline, Fails, FileType
<1>6. CASE Guard
  BY JobStays, <1>6 DEF Guard, Fails, FileType
<1>7. CASE Resolve
  BY JobStays, <1>7 DEF Resolve, Fails, FileType
<1>8. CASE Redirect
  BY JobStays, <1>8 DEF Redirect, Fails, FileType
<1>9. CASE Status
  BY JobStays, <1>9 DEF Status, Fails, FileType
<1>10. CASE Response
  BY JobStays, <1>10 DEF Response, Limited, Fails, NewRequest, FileType
<1>11. CASE Read
  BY JobStays, <1>11 DEF Read, Fails, FileType
<1>12. CASE ReadOver
  BY JobStays, <1>12 DEF ReadOver, Fails, FileType
<1>13. CASE ReadFails
  BY JobStays, <1>13 DEF ReadFails, Fails, FileType
<1>14. CASE ReadEnds
  BY JobStays, <1>14 DEF ReadEnds, Fails, FileType
<1>15. CASE Measure
  BY JobStays, <1>15 DEF Measure, Ends, Delivers, FileType
<1> QED
  BY <1>1, <1>2, <1>3, <1>4, <1>5, <1>6, <1>7, <1>8, <1>9, <1>10, <1>11, <1>12, <1>13, <1>14, <1>15 DEF Next, Network

\* The duration of a voice note is a number, not below its own, at most Margin below
\* the declared one, and the larger of the two at most.
LEMMA VoiceTypes ==
  ASSUME NEW declared \in Int, NEW f \in OggFiles
  PROVE  LET own == OggDurationSeconds(f)
             dur == VoiceDuration(declared, own)
         IN  /\ own \in Nat /\ dur \in Int
             /\ dur >= own /\ dur >= declared - Margin
             /\ dur = declared \/ dur = own
<1>1. OggDurationSeconds(f) \in Nat
  BY DownloadAssumption, DurationIsNumber
<1>2. ASSUME NEW own \in Nat
      PROVE  LET dur == VoiceDuration(declared, own)
             IN  /\ dur \in Int /\ dur >= own /\ dur >= declared - Margin
                 /\ dur = declared \/ dur = own
  BY DownloadAssumption DEF VoiceDuration, OggMax
<1> QED
  BY <1>1, <1>2

\* Types of the answer.
LEMMA StepResult ==
  ASSUME JobType, BodyType, ResultType, FileType, Next
  PROVE  ResultType'
<1>1. CASE Refused
  BY <1>1 DEF Refused, Refuses, Ends, ResultType, Codes
<1>2. CASE Start
  BY <1>2 DEF Start, Fails, ResultType
<1>3. CASE Failed
  BY <1>3 DEF Failed, Ends, ResultType, Codes
<1>4. CASE Timeout
  BY <1>4 DEF Timeout, Fails, ResultType
<1>5. CASE Offline
  BY <1>5 DEF Offline, Fails, ResultType
<1>6. CASE Guard
  BY <1>6 DEF Guard, Fails, ResultType
<1>7. CASE Resolve
  BY <1>7 DEF Resolve, Fails, ResultType
<1>8. CASE Redirect
  BY <1>8 DEF Redirect, Fails, ResultType
<1>9. CASE Status
  BY <1>9 DEF Status, Fails, ResultType
<1>10. CASE Response
  BY <1>10 DEF Response, Limited, Fails, NewRequest, ResultType
<1>11. CASE Read
  BY <1>11 DEF Read, Fails, ResultType
<1>12. CASE ReadOver
  BY <1>12 DEF ReadOver, Fails, ResultType
<1>13. CASE ReadFails
  BY <1>13 DEF ReadFails, Fails, ResultType
<1>14. CASE ReadEnds
  BY <1>14 DEF ReadEnds, Fails, ResultType
<1>15. CASE Measure
  <2>1. CASE Ends("media_unavailable") \/ Ends("media_too_large")
    BY <2>1 DEF Ends, ResultType, Codes
  <2>2. CASE Delivers(held, 0)
    BY <2>2 DEF Delivers, ResultType, Codes, BodyType
  <2>3. ASSUME NEW dur \in Int, Delivers(job.real, dur) PROVE ResultType'
    BY <2>3, JobTypes DEF Delivers, ResultType, Codes
  <2>4. ASSUME file' \in OggFiles PROVE VoiceDuration(job.dur, OggDurationSeconds(file')) \in Int
    BY <2>4, JobTypes, VoiceTypes
  <2>5. job.dur \in Int
    BY JobTypes
  <2> QED
    BY <1>15, <2>1, <2>2, <2>3, <2>4, <2>5, Zenon DEF Measure
<1> QED
  BY <1>1, <1>2, <1>3, <1>4, <1>5, <1>6, <1>7, <1>8, <1>9, <1>10, <1>11, <1>12, <1>13, <1>14, <1>15 DEF Next, Network

\* What was asked for is looked at before the first request.
LEMMA StepCheck ==
  ASSUME JobType, CheckInv, Next
  PROVE  CheckInv'
<1>1. CASE Refused
  BY <1>1 DEF Refused, Refuses, Ends, CheckInv
<1>2. CASE Start
  BY <1>2 DEF Start, Fails, CheckInv
<1>3. CASE Failed
  BY <1>3 DEF Failed, Ends, NewRequest, CheckInv
<1>4. CASE Timeout
  BY <1>4 DEF Timeout, Fails, CheckInv
<1>5. CASE Offline
  BY <1>5 DEF Offline, Fails, CheckInv
<1>6. CASE Guard
  BY <1>6 DEF Guard, Fails, CheckInv
<1>7. CASE Resolve
  BY <1>7 DEF Resolve, Fails, CheckInv
<1>8. CASE Redirect
  BY <1>8 DEF Redirect, Fails, CheckInv
<1>9. CASE Status
  BY <1>9 DEF Status, Fails, CheckInv
<1>10. CASE Response
  BY <1>10 DEF Response, Limited, Fails, NewRequest, CheckInv
<1>11. CASE Read
  BY <1>11 DEF Read, Fails, CheckInv
<1>12. CASE ReadOver
  BY <1>12 DEF ReadOver, Fails, CheckInv
<1>13. CASE ReadFails
  BY <1>13 DEF ReadFails, Fails, CheckInv
<1>14. CASE ReadEnds
  BY <1>14 DEF ReadEnds, Fails, CheckInv
<1>15. CASE Measure
  BY <1>15 DEF Measure, Ends, Delivers, CheckInv
<1> QED
  BY <1>1, <1>2, <1>3, <1>4, <1>5, <1>6, <1>7, <1>8, <1>9, <1>10, <1>11, <1>12, <1>13, <1>14, <1>15 DEF Next, Network

\* Only a name that Guard let pass is dialed, and only a public address of it.
LEMMA StepDial ==
  ASSUME JobType, RequestType, DialInv, Next
  PROVE  DialInv'
<1>1. CASE Refused
  BY <1>1 DEF Refused, Refuses, Ends, DialInv, requestVars
<1>2. CASE Start
  BY <1>2 DEF Start, Fails, DialInv, requestVars
<1>3. CASE Failed
  BY <1>3 DEF Failed, Ends, NewRequest, DialInv, requestVars
<1>4. CASE Timeout
  BY <1>4 DEF Timeout, Fails, DialInv, requestVars
<1>5. CASE Offline
  BY <1>5 DEF Offline, Fails, DialInv, requestVars
<1>6. CASE Guard
  <2>1. url' = url /\ dialed' = dialed /\ Port(url)' = Port(url)
    BY <1>6 DEF Guard, Port
  <2>2. url.host \in Seq(STRING)
    BY DEF RequestType, AnyUrl
  <2>3. pc' = "dial" => host' = url.host /\ AddrAllowed(url.host, Port(url))
    BY <1>6 DEF Guard, Fails
  <2> QED
    BY <2>1, <2>2, <2>3 DEF DialInv
<1>7. CASE Resolve
  <2>1. url' = url /\ host' = host /\ Port(url)' = Port(url)
    BY <1>7 DEF Resolve, Port
  <2>2. host \in Seq(STRING) /\ AddrAllowed(host, Port(url))
    BY <1>7 DEF Resolve, DialInv
  <2>3. CASE dialed' = dialed
    BY <2>1, <2>2, <2>3 DEF DialInv
  <2>4. CASE addrs # <<>> /\ PublicIP(Head(addrs))
             /\ dialed' = [host |-> host, port |-> Port(url), ip |-> Head(addrs)]
    <3>1. Head(addrs) \in AnyAddress
      BY <2>4 DEF RequestType
    <3>2. /\ dialed'.host = host /\ dialed'.port = Port(url) /\ dialed'.ip = Head(addrs)
      BY <2>4
    <3>3. /\ dialed'.host \in Seq(STRING) /\ AddrAllowed(dialed'.host, dialed'.port)
          /\ dialed'.ip \in AnyAddress /\ PublicIP(dialed'.ip)
      BY <2>2, <2>4, <3>1, <3>2
    <3> QED
      BY <2>1, <2>2, <3>3 DEF DialInv
  <2> QED
    BY <1>7, <2>3, <2>4, Zenon DEF Resolve
<1>8. CASE Redirect
  BY <1>8 DEF Redirect, Fails, DialInv, requestVars
<1>9. CASE Status
  BY <1>9 DEF Status, Fails, DialInv, requestVars
<1>10. CASE Response
  BY <1>10 DEF Response, Limited, Fails, NewRequest, DialInv, requestVars
<1>11. CASE Read
  BY <1>11 DEF Read, Fails, DialInv, requestVars
<1>12. CASE ReadOver
  BY <1>12 DEF ReadOver, Fails, DialInv, requestVars
<1>13. CASE ReadFails
  BY <1>13 DEF ReadFails, Fails, DialInv, requestVars
<1>14. CASE ReadEnds
  BY <1>14 DEF ReadEnds, Fails, DialInv, requestVars
<1>15. CASE Measure
  BY <1>15 DEF Measure, Ends, Delivers, DialInv, requestVars
<1> QED
  BY <1>1, <1>2, <1>3, <1>4, <1>5, <1>6, <1>7, <1>8, <1>9, <1>10, <1>11, <1>12, <1>13, <1>14, <1>15 DEF Next, Network

\* The body and the limit.
LEMMA StepBodyInv ==
  ASSUME JobType, BodyType, FlagType, BodyInv, Next
  PROVE  BodyInv'
<1> DEFINE limit == BodyLimit
           whole == Encoded
<1>a. job' = job /\ limit \in Nat /\ whole \in Nat
  BY JobStays, JobTypes
<1>b. BodyLimit' = limit /\ Encoded' = whole
  BY <1>a DEF BodyLimit, Encoded
<1>c. /\ held <= limit
      /\ pc = "read" => left = limit - held
      /\ pc = "read" /\ honest => held + body = whole
      /\ pc = "measure" => body = 0
  BY DEF BodyInv
<1>d. BodyInv' <=>
        /\ held' <= limit
        /\ pc' = "read" => left' = limit - held'
        /\ pc' = "read" /\ honest' => held' + body' = whole
        /\ pc' = "measure" => body' = 0
  BY <1>b DEF BodyInv
<1> HIDE DEF limit, whole
<1>1. CASE Refused
  BY <1>a, <1>c, <1>d, <1>1 DEF Refused, Refuses, Ends, bodyVars
<1>2. CASE Start
  BY <1>a, <1>c, <1>d, <1>2 DEF Start, Fails, bodyVars
<1>3. CASE Failed
  BY <1>a, <1>c, <1>d, <1>3 DEF Failed, Ends, bodyVars
<1>4. CASE Timeout
  BY <1>a, <1>c, <1>d, <1>4 DEF Timeout, Fails, bodyVars
<1>5. CASE Offline
  BY <1>a, <1>c, <1>d, <1>5 DEF Offline, Fails, bodyVars
<1>6. CASE Guard
  BY <1>a, <1>c, <1>d, <1>6 DEF Guard, Fails, bodyVars
<1>7. CASE Resolve
  BY <1>a, <1>c, <1>d, <1>7 DEF Resolve, Fails, bodyVars
<1>8. CASE Redirect
  BY <1>a, <1>c, <1>d, <1>8 DEF Redirect, Fails, bodyVars
<1>9. CASE Status
  BY <1>a, <1>c, <1>d, <1>9 DEF Status, Fails, bodyVars
<1>10. CASE Response
  <2>0. PICK h \in BOOLEAN, n \in 0 .. MaxBody :
          /\ (h => n = whole) /\ honest' = h
          /\ \E announced \in {-1, n} : Limited(announced, n)
    BY <1>10 DEF Response, whole
  <2>1. PICK announced \in {-1, n} : Limited(announced, n)
    BY <2>0
  <2>2. n \in Nat
    BY DownloadAssumption
  <2>3. CASE pc' = "failed" /\ held' = 0
    BY <1>a, <1>d, <2>3
  <2>4. CASE pc' = "read" /\ left' = limit /\ held' = 0 /\ body' = n
    BY <1>a, <1>d, <2>0, <2>2, <2>4
  <2> QED
    BY <2>1, <2>3, <2>4 DEF Limited, Fails, limit
<1>11. CASE Read
  BY <1>a, <1>c, <1>d, <1>11 DEF Read, BodyType, OggMin
<1>12. CASE ReadOver
  BY <1>a, <1>c, <1>d, <1>12 DEF ReadOver, Fails, bodyVars
<1>13. CASE ReadFails
  BY <1>a, <1>c, <1>d, <1>13 DEF ReadFails, Fails, bodyVars
<1>14. CASE ReadEnds
  BY <1>a, <1>c, <1>d, <1>14 DEF ReadEnds, Fails, bodyVars
<1>15. CASE Measure
  BY <1>a, <1>c, <1>d, <1>15 DEF Measure, Ends, Delivers, bodyVars
<1> QED
  BY <1>1, <1>2, <1>3, <1>4, <1>5, <1>6, <1>7, <1>8, <1>9, <1>10, <1>11, <1>12, <1>13, <1>14, <1>15 DEF Next, Network

\* A file whose encrypted bytes are over the limit is over its cap.
LEMMA EncodedOver ==
  ASSUME JobType, job.kind # "picture", Encoded > BodyLimit
  PROVE  job.real > MaxFetchBytes(job.kind)
<1> DEFINE q == job.real \div Block
           m == MaxFetchBytes(job.kind)
<1>1. job.real \in Nat /\ m \in Nat /\ Block \in Nat \ {0} /\ Mac \in Nat
  BY JobTypes, DownloadAssumption
<1>2. q \in Int /\ job.real = Block * q + (job.real % Block) /\ job.real % Block \in 0 .. Block - 1
  <2>1. ASSUME NEW x \in Int
        PROVE  /\ x \div Block \in Int /\ x = Block * (x \div Block) + (x % Block)
               /\ x % Block \in 0 .. Block - 1
    <3>1. Block \in Nat \ {0}
      BY <1>1
    <3> QED
      BY <3>1, ModDiv, ModRange
  <2> DEFINE r == job.real
  <2>2. r \in Int
    BY <1>1
  <2> HIDE DEF r
  <2>3. /\ r \div Block \in Int /\ r = Block * (r \div Block) + (r % Block)
        /\ r % Block \in 0 .. Block - 1
    BY <2>1, <2>2
  <2> QED
    BY <2>3 DEF r
<1>3. (q + 1) * Block + Mac > m + (Block + Mac)
  BY DEF Encoded, BodyLimit, DownloadOverhead
<1> HIDE DEF q, m
<1>4. (q + 1) * Block = Block * q + Block
  BY <1>1, <1>2
<1> DEFINE b == Block * q
<1>5. b \in Int
  BY <1>1, <1>2
<1>6. job.real >= b
  BY <1>1, <1>2, <1>5
<1>7. b + Block + Mac > m + (Block + Mac)
  BY <1>3, <1>4
<1> HIDE DEF b
<1> QED
  BY <1>1, <1>5, <1>6, <1>7 DEF m

\* A body over the limit is an error that stays, and no file within its cap.
LEMMA StepOver ==
  ASSUME JobType, BodyType, FlagType, BodyInv, OverInv, Next
  PROVE  OverInv'
<1>a. job' = job /\ pc # "done"
  BY JobStays
<1>b. pc # "failed" => ~over
  BY <1>a DEF OverInv
<1>1. CASE Refused
  BY <1>a, <1>b, <1>1 DEF Refused, Refuses, Ends, OverInv
<1>2. CASE Start
  BY <1>a, <1>b, <1>2 DEF Start, Fails, OverInv
<1>3. CASE Failed
  <2>1. CASE error = "network" /\ pc' = "request"
    <3>1. ~over /\ over' = over
      BY <1>a, <1>3, <2>1 DEF Failed, OverInv
    <3> QED
      BY <2>1, <3>1 DEF OverInv
  <2>2. CASE pc' = "done" /\ UNCHANGED bodyVars
    BY <1>a, <1>3, <2>2 DEF Failed, OverInv, bodyVars
  <2> QED
    BY <1>3, <2>1, <2>2, Zenon DEF Failed, Ends
<1>4. CASE Timeout
  BY <1>a, <1>b, <1>4 DEF Timeout, Fails, OverInv
<1>5. CASE Offline
  BY <1>a, <1>b, <1>5 DEF Offline, Fails, OverInv
<1>6. CASE Guard
  BY <1>a, <1>b, <1>6 DEF Guard, Fails, OverInv
<1>7. CASE Resolve
  BY <1>a, <1>b, <1>7 DEF Resolve, Fails, OverInv
<1>8. CASE Redirect
  BY <1>a, <1>b, <1>8 DEF Redirect, Fails, OverInv
<1>9. CASE Status
  BY <1>a, <1>b, <1>9 DEF Status, Fails, OverInv
<1>10. CASE Response
  <2>1. PICK h \in BOOLEAN, n \in 0 .. MaxBody :
          /\ (h => n = Encoded) /\ honest' = h
          /\ \E announced \in {-1, n} : Limited(announced, n) /\ over' = (announced > BodyLimit)
    BY <1>10 DEF Response
  <2>2. PICK announced \in {-1, n} : Limited(announced, n) /\ over' = (announced > BodyLimit)
    BY <2>1
  <2>3. BodyLimit \in Nat /\ -1 \in Int /\ ~(-1 > BodyLimit)
    BY JobTypes
  <2>4. CASE announced > BodyLimit
    <3>1. pc' = "failed" /\ error' = "too_large" /\ over'
      BY <2>2, <2>4 DEF Limited, Fails
    <3>2. announced = n
      BY <2>3, <2>4
    <3>3. honest' => Encoded > BodyLimit
      BY <2>1, <2>4, <3>2
    <3>4. job.kind = "picture" \/ ~honest' \/ job.real > MaxFetchBytes(job.kind)
      BY <3>3, EncodedOver
    <3> QED
      BY <1>a, <3>1, <3>4 DEF OverInv
  <2>5. CASE ~(announced > BodyLimit)
    <3>1. pc' = "read" /\ ~over'
      BY <2>2, <2>5 DEF Limited
    <3> QED
      BY <3>1 DEF OverInv
  <2> QED
    BY <2>4, <2>5
<1>11. CASE Read
  BY <1>a, <1>b, <1>11 DEF Read, Fails, OverInv
<1>12. CASE ReadOver
  <2>1. BodyLimit \in Nat /\ Encoded \in Nat
    BY JobTypes
  <2>2. held <= BodyLimit /\ left = BodyLimit - held /\ left <= 0 /\ body > 0
        /\ (honest => held + body = Encoded)
    BY <1>12 DEF ReadOver, BodyInv
  <2>3. honest => Encoded > BodyLimit
    BY <2>1, <2>2 DEF BodyType
  <2>4. pc' = "failed" /\ error' = "too_large" /\ over' /\ honest' = honest
    BY <1>12 DEF ReadOver, Fails, bodyVars
  <2>5. job.kind = "picture" \/ ~honest \/ job.real > MaxFetchBytes(job.kind)
    BY <2>3, EncodedOver
  <2> QED
    BY <1>a, <2>4, <2>5 DEF OverInv
<1>13. CASE ReadFails
  BY <1>a, <1>b, <1>13 DEF ReadFails, Fails, OverInv
<1>14. CASE ReadEnds
  BY <1>a, <1>b, <1>14 DEF ReadEnds, Fails, OverInv
<1>15. CASE Measure
  BY <1>a, <1>b, <1>15 DEF Measure, Ends, Delivers, OverInv
<1> QED
  BY <1>1, <1>2, <1>3, <1>4, <1>5, <1>6, <1>7, <1>8, <1>9, <1>10, <1>11, <1>12, <1>13, <1>14, <1>15 DEF Next, Network

\* What is delivered.
LEMMA StepOk ==
  ASSUME JobType, BodyType, FileType, CheckInv, BodyInv, OkInv, Next
  PROVE  OkInv'
<1>a. job' = job /\ result.code = "none"
  BY JobStays DEF CheckInv
<1>b. ASSUME result' = result PROVE OkInv'
  BY <1>a, <1>b DEF OkInv
<1>1. CASE Refused
  BY <1>1 DEF Refused, Refuses, Ends, OkInv
<1>2. CASE Start
  BY <1>b, <1>2 DEF Start
<1>3. CASE Failed
  <2>1. CASE result' = result
    BY <1>b, <2>1
  <2>2. CASE result'.code # "ok"
    BY <2>2 DEF OkInv
  <2> QED
    BY <1>3, <2>1, <2>2 DEF Failed, Ends
<1>4. CASE Timeout
  BY <1>b, <1>4 DEF Timeout
<1>5. CASE Offline
  BY <1>b, <1>5 DEF Offline
<1>6. CASE Guard
  BY <1>b, <1>6 DEF Guard
<1>7. CASE Resolve
  BY <1>b, <1>7 DEF Resolve
<1>8. CASE Redirect
  BY <1>b, <1>8 DEF Redirect
<1>9. CASE Status
  BY <1>b, <1>9 DEF Status
<1>10. CASE Response
  BY <1>b, <1>10 DEF Response
<1>11. CASE Read
  BY <1>b, <1>11 DEF Read
<1>12. CASE ReadOver
  BY <1>b, <1>12 DEF ReadOver
<1>13. CASE ReadFails
  BY <1>b, <1>13 DEF ReadFails
<1>14. CASE ReadEnds
  BY <1>b, <1>14 DEF ReadEnds
<1>15. CASE Measure
  <2>1. Cap' = Cap /\ Cap \in Nat /\ job.dur \in Int
    BY <1>a, JobTypes DEF Cap
  <2>2. body' = body /\ body = 0 /\ held <= BodyLimit /\ file = Null
    BY <1>15 DEF Measure, bodyVars, BodyInv, FileType
  <2>3. CASE Ends("media_unavailable") \/ Ends("media_too_large")
    BY <2>3 DEF Ends, OkInv
  <2>4. CASE job.kind = "picture" /\ Delivers(held, 0) /\ file' = file
    <3>1. held <= Cap
      BY <2>2, <2>4 DEF BodyLimit, Cap
    <3> QED
      BY <2>1, <2>2, <2>4, <3>1 DEF Delivers, OkInv
  <2>5. CASE job.kind = "voice" /\ file' \in OggFiles
             /\ CheckFetch(job.kind, job.real, VoiceDuration(job.dur, OggDurationSeconds(file')))
             /\ Delivers(job.real, VoiceDuration(job.dur, OggDurationSeconds(file')))
    <3> DEFINE own == OggDurationSeconds(file')
               dur == VoiceDuration(job.dur, own)
    <3>1. own \in Nat /\ dur \in Int /\ dur >= own /\ dur >= job.dur - Margin
      BY <2>1, <2>5, VoiceTypes
    <3>2. dur <= Limits.voiceSeconds /\ job.real <= Cap
      BY <2>5 DEF CheckFetch, Cap
    <3>3. result'.code = "ok" /\ result'.size = job.real /\ result'.dur = dur
      BY <2>5 DEF Delivers
    <3> HIDE DEF dur
    <3>4. dur \in job.dur - Margin .. Limits.voiceSeconds
      BY <2>1, <3>1, <3>2, CapTypes, DownloadAssumption
    <3> QED
      BY <1>a, <2>1, <2>2, <3>1, <3>2, <3>3, <3>4 DEF OkInv
  <2>6. CASE job.kind # "voice" /\ job.kind \in MediaKinds /\ file' = Null
             /\ CheckFetch(job.kind, job.real, job.dur) /\ Delivers(job.real, job.dur)
    <3>1. job.real <= Cap
      BY <2>6 DEF CheckFetch, Cap, MediaKinds
    <3> QED
      BY <2>1, <2>2, <2>6, <3>1 DEF Delivers, OkInv
  <2> QED
    BY <1>15, <2>3, <2>4, <2>5, <2>6, Zenon DEF Measure
<1> QED
  BY <1>1, <1>2, <1>3, <1>4, <1>5, <1>6, <1>7, <1>8, <1>9, <1>10, <1>11, <1>12, <1>13, <1>14, <1>15 DEF Next, Network

\* What media_too_large is said of.
LEMMA StepTooLarge ==
  ASSUME JobType, BodyType, FileType, CheckInv, OverInv, TooLargeIsTrue, Next
  PROVE  TooLargeIsTrue'
<1>a. job' = job /\ result.code = "none"
  BY JobStays DEF CheckInv
<1>b. ASSUME result' = result PROVE TooLargeIsTrue'
  BY <1>a, <1>b DEF TooLargeIsTrue
<1>1. CASE Refused
  BY <1>a, <1>1 DEF Refused, Refuses, Ends, TooLargeIsTrue
<1>2. CASE Start
  BY <1>b, <1>2 DEF Start
<1>3. CASE Failed
  <2>1. CASE result' = result
    BY <1>b, <2>1
  <2>2. CASE error # "too_large" /\ result'.code # "media_too_large"
    BY <2>2 DEF TooLargeIsTrue
  <2>3. CASE error = "too_large" /\ UNCHANGED <<over, bodyVars>>
    <3>1. over /\ over' = over /\ honest' = honest
      BY <1>3, <2>3 DEF Failed, OverInv, bodyVars
    <3>2. job.kind = "picture" \/ ~honest \/ (job.kind \in MediaKinds /\ job.real > MaxFetchBytes(job.kind))
      BY <1>3, <3>1 DEF Failed, OverInv, CheckInv, CheckFetch
    <3> QED
      BY <1>a, <3>1, <3>2 DEF TooLargeIsTrue
  <2> QED
    BY <1>3, <2>1, <2>2, <2>3 DEF Failed, Ends
<1>4. CASE Timeout
  BY <1>b, <1>4 DEF Timeout
<1>5. CASE Offline
  BY <1>b, <1>5 DEF Offline
<1>6. CASE Guard
  BY <1>b, <1>6 DEF Guard
<1>7. CASE Resolve
  BY <1>b, <1>7 DEF Resolve
<1>8. CASE Redirect
  BY <1>b, <1>8 DEF Redirect
<1>9. CASE Status
  BY <1>b, <1>9 DEF Status
<1>10. CASE Response
  BY <1>b, <1>10 DEF Response
<1>11. CASE Read
  BY <1>b, <1>11 DEF Read
<1>12. CASE ReadOver
  BY <1>b, <1>12 DEF ReadOver
<1>13. CASE ReadFails
  BY <1>b, <1>13 DEF ReadFails
<1>14. CASE ReadEnds
  BY <1>b, <1>14 DEF ReadEnds
<1>15. CASE Measure
  <2>1. job.dur \in Int /\ job.real \in Nat /\ MaxFetchBytes(job.kind) \in Nat /\ Limits.voiceSeconds \in Nat
    BY JobTypes, CapTypes
  <2>2. CASE result'.code # "media_too_large"
    BY <2>2 DEF TooLargeIsTrue
  <2>3. CASE job.kind \in MediaKinds /\ job.real > MaxFetchBytes(job.kind)
    BY <1>a, <2>3 DEF TooLargeIsTrue
  <2>4. CASE job.kind = "voice" /\ file' \in OggFiles
             /\ ~CheckFetch(job.kind, job.real, VoiceDuration(job.dur, OggDurationSeconds(file')))
             /\ job.real <= MaxFetchBytes(job.kind)
    <3> DEFINE own == OggDurationSeconds(file')
               dur == VoiceDuration(job.dur, own)
    <3>1. dur > Limits.voiceSeconds
      BY <2>1, <2>4, VoiceTypes DEF CheckFetch, MediaKinds
    <3>2. job.dur <= Limits.voiceSeconds
      BY <1>15, <2>4 DEF Measure, CheckInv, CheckFetch
    <3>3. own > Limits.voiceSeconds
      <4>1. dur = job.dur \/ dur = own
        BY <2>1, <2>4, VoiceTypes
      <4>2. own \in Nat
        BY <2>1, <2>4, VoiceTypes
      <4> HIDE DEF dur, own
      <4> QED
        BY <2>1, <3>1, <3>2, <4>1, <4>2
    <3>4. file' \in OggBytes /\ file' # Null
      BY <2>4, DownloadAssumption
    <3>5. own <= DurationOf(file') /\ own \in Nat /\ DurationOf(file') \in Nat
      BY <3>4, DurationNeverMore, DurationIsNumber
    <3>6. DurationOf(file') > Limits.voiceSeconds
      BY <2>1, <3>3, <3>5
    <3> QED
      BY <1>a, <2>4, <3>4, <3>6 DEF TooLargeIsTrue
  <2>5. CASE job.kind # "voice" /\ job.kind \in MediaKinds /\ ~CheckFetch(job.kind, job.real, job.dur)
    <3>1. job.real > MaxFetchBytes(job.kind)
      BY <2>1, <2>5 DEF CheckFetch
    <3> QED
      BY <2>3, <2>5, <3>1
  <2>6. \/ result'.code # "media_too_large"
        \/ job.kind = "voice" /\ file' \in OggFiles
             /\ ~CheckFetch(job.kind, job.real, VoiceDuration(job.dur, OggDurationSeconds(file')))
        \/ job.kind # "voice" /\ job.kind \in MediaKinds /\ ~CheckFetch(job.kind, job.real, job.dur)
    BY <1>15 DEF Measure, Ends, Delivers
  <2> QED
    BY <2>1, <2>2, <2>3, <2>4, <2>5, <2>6 DEF MediaKinds
<1> QED
  BY <1>1, <1>2, <1>3, <1>4, <1>5, <1>6, <1>7, <1>8, <1>9, <1>10, <1>11, <1>12, <1>13, <1>14, <1>15 DEF Next, Network

-----------------------------------------------------------------------------
(* The theorems *)

\* TypeOK is TypeInv, without the request.
LEMMA TypeIs ==
  ASSUME TypeInv
  PROVE  TypeOK
<1>1. job \in Jobs /\ pc \in Pcs /\ error \in Errors /\ honest \in BOOLEAN /\ over \in BOOLEAN
  BY DEF TypeInv, JobType, ErrorType, FlagType
<1>2. via \in 0 .. MaxRedirects - 1 /\ tries \in 0 .. MaxTries
  BY DEF TypeInv, RequestType
<1>3. body \in 0 .. MaxBody /\ left \in Int /\ held \in Nat
  BY DEF TypeInv, BodyType
<1>4. file # Null => job.kind = "voice"
  BY DEF TypeInv, FileType
<1>5. result.code \in Codes /\ result.size \in Nat /\ result.dur \in Int
  BY DEF TypeInv, ResultType
<1> QED
  BY <1>1, <1>2, <1>3, <1>4, <1>5, Zenon DEF TypeOK, Pcs, Errors

\* A step that changes nothing keeps the invariant.
LEMMA StepNothing ==
  ASSUME IInv, UNCHANGED vars
  PROVE  IInv'
<1>1. TypeInv'
  BY DEF IInv, TypeInv, vars, requestVars, bodyVars, JobType, RequestType, BodyType, FlagType, ErrorType,
         ResultType, FileType
<1>2. CheckInv' /\ DialInv'
  BY DEF IInv, CheckInv, DialInv, vars, requestVars, bodyVars, Port
<1>3. BodyInv'
  BY DEF IInv, BodyInv, BodyLimit, Encoded, vars, requestVars, bodyVars
<1>4. OverInv' /\ OkInv'
  BY DEF IInv, OverInv, OkInv, Cap, vars, requestVars, bodyVars
<1>5. TooLargeIsTrue'
  BY DEF IInv, TooLargeIsTrue, vars, requestVars, bodyVars
<1> QED
  BY <1>1, <1>2, <1>3, <1>4, <1>5 DEF IInv

\* The invariant is inductive.
LEMMA IsInvariant == Spec => []IInv
<1>1. Init => IInv
  BY InitInv
<1>2. IInv /\ [Next]_vars => IInv'
  <2>1. ASSUME IInv, Next
        PROVE  IInv'
    <3>1. JobType /\ RequestType /\ BodyType /\ FlagType /\ ErrorType /\ ResultType /\ FileType
      BY <2>1 DEF IInv, TypeInv
    <3>2. CheckInv /\ DialInv /\ BodyInv /\ OverInv /\ OkInv /\ TooLargeIsTrue
      BY <2>1 DEF IInv
    <3>3. TypeInv'
      BY <2>1, <3>1, StepPlace, StepRequest, StepBody, StepResult, StepFile DEF TypeInv
    <3>4. CheckInv' /\ DialInv' /\ BodyInv'
      BY <2>1, <3>1, <3>2, StepCheck, StepDial, StepBodyInv
    <3>5. OverInv' /\ OkInv' /\ TooLargeIsTrue'
      BY <2>1, <3>1, <3>2, StepOver, StepOk, StepTooLarge
    <3> QED
      BY <3>3, <3>4, <3>5 DEF IInv
  <2>2. ASSUME IInv, UNCHANGED vars
        PROVE  IInv'
    BY <2>2, StepNothing
  <2> QED
    BY <2>1, <2>2
<1> QED
  BY <1>1, <1>2, PTL DEF Spec

\* A connection is made only for a name of WhatsApp, on 443 and to a public address,
\* whatever the resolver answers and wherever servers redirect (Guard, Resolve,
\* CheckRedirect).
THEOREM OnlyWhatsAppAlways == Spec => []OnlyWhatsApp
<1>1. IInv => OnlyWhatsApp
  <2> SUFFICES ASSUME DialInv, dialed # Null
               PROVE  OnlyWhatsApp
    BY DEF IInv, OnlyWhatsApp
  <2>1. /\ dialed.host \in Seq(STRING) /\ AddrAllowed(dialed.host, dialed.port)
        /\ dialed.ip \in AnyAddress /\ PublicIP(dialed.ip)
    BY DEF DialInv
  <2>2. dialed.port = "443" /\ HostAllowed(dialed.host)
    BY <2>1 DEF AddrAllowed, AllowedPort
  <2>3. LET h == Trimmed(dialed.host) IN
        Len(h) > 2 /\ h[Len(h) - 1] = "whatsapp" /\ h[Len(h)] \in {"net", "com"}
    BY <2>1, <2>2, WhatsAppHost
  <2>4. dialed.ip.range \in {"public4", "global6"}
    BY <2>1, PublicRange
  <2> QED
    BY <2>2, <2>3, <2>4, Zenon DEF OnlyWhatsApp
<1> QED
  BY <1>1, IsInvariant, PTL

\* However long a body is and in whatever pieces it comes, no more of it than the
\* limit is in memory, and what is delivered came whole and is within its cap; the
\* variables keep their types (limitedBody.Read, CheckFetch).
THEOREM BodyBoundedAlways == Spec => []BodyBounded
<1>1. IInv => BodyBounded
  <2> SUFFICES ASSUME IInv PROVE BodyBounded
    OBVIOUS
  <2>1. TypeOK
    BY TypeIs DEF IInv
  <2>2. held <= BodyLimit /\ (result.code = "ok" => body = 0 /\ result.size <= Cap)
    BY DEF IInv, BodyInv, OkInv
  <2> QED
    BY <2>1, <2>2 DEF BodyBounded, Cap
<1> QED
  BY <1>1, IsInvariant, PTL

\* media_too_large is said only of a file that is too large: declared so, really so,
\* too long, or replaced by something over the limit (DownloadErrorCode, fetchMedia).
THEOREM TooLargeAlways == Spec => []TooLargeIsTrue
<1>1. IInv => TooLargeIsTrue
  BY DEF IInv
<1> QED
  BY <1>1, IsInvariant, PTL

\* The duration read from a voice note is the one its pages stand for, unless the sum
\* wraps, and the one reported is within the cap, not below the file's own and at most
\* Margin below the declared one (OggDurationSeconds, voiceDuration).
THEOREM VoiceHonestAlways == Spec => []VoiceIsHonest
<1>1. IInv => VoiceIsHonest
  <2> SUFFICES ASSUME IInv, file # Null PROVE VoiceIsHonest
    BY DEF VoiceIsHonest
  <2>1. file \in OggBytes
    BY DownloadAssumption DEF IInv, TypeInv, FileType
  <2>2. ~Wraps(file) => OggDurationSeconds(file) = DurationOf(file)
    BY <2>1, DurationIsTrue
  <2>3. result.code = "ok" =>
          /\ result.dur \in job.dur - Margin .. Limits.voiceSeconds
          /\ result.dur >= OggDurationSeconds(file)
    BY DEF IInv, OkInv
  <2> QED
    BY <2>2, <2>3 DEF VoiceIsHonest
<1> QED
  BY <1>1, IsInvariant, PTL

\* A body over the limit ends the download: it is not tried again (errBody,
\* DownloadErrorCode).
THEOREM TooLargeFinal == Spec => TooLargeIsFinal
<1>1. IInv /\ [Next]_vars => [over => UNCHANGED tries]_vars
  <2> SUFFICES ASSUME IInv, Next, over
               PROVE  UNCHANGED tries
    BY DEF vars
  <2>1. pc = "failed" /\ error = "too_large"
    BY JobStays DEF IInv, OverInv
  <2>2. CASE Failed
    BY <2>1, <2>2 DEF Failed, requestVars
  <2>3. CASE ~Failed
    BY <2>1, <2>3 DEF Next, Network, Refused, Start, Timeout, Offline, Guard, Resolve, Redirect, Status,
                      Response, Read, ReadOver, ReadFails, ReadEnds, Measure
  <2> QED
    BY <2>2, <2>3
<1> QED
  BY <1>1, IsInvariant, PTL DEF Spec, TooLargeIsFinal
=============================================================================
