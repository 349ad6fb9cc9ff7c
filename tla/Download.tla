------------------------------ MODULE Download ------------------------------
(***************************************************************************)
(* One download over the guarded media client: the file of a fetch_media   *)
(* or the picture of a fetch_avatar.  The caps are looked at before it, on *)
(* what the sender declared, and after it, on what came; in between the    *)
(* transport refuses hosts, addresses and redirects (Transport) and cuts   *)
(* the body off at the limit in the request's context.                     *)
(*                                                                         *)
(* The resolver, the servers and the library that downloads are external:  *)
(* every answer of theirs is a choice.  Sizes are in units; the block and  *)
(* the MAC of WhatsApp's encryption are Block and Mac of them.             *)
(***************************************************************************)
EXTENDS Transport, Ogg, FiniteSets

CONSTANTS
  Jobs,         \* [kind, size, dur, real, url]: what is asked for and what the file really is
  Urls,         \* where a server may redirect to
  Answers,      \* what the resolver may answer: sequences of addresses
  OggFiles,     \* what the bytes of a voice note may be
  Limits,       \* media.Limits: image, voice, voiceSeconds, video, file
  MaxAvatarBytes, \* protocol.MaxAvatarBytes
  Block, Mac,   \* media.DownloadOverhead
  Margin,       \* wa.VoiceDurationMargin
  MaxTries,     \* external: how often the library tries a network error again
  MaxBody,      \* bound: the longest body a server sends
  Null

DownloadOverhead == Block + Mac
MediaKinds == {"image", "voice", "video", "sticker", "document", "audio"}  \* Fetchable

ASSUME DownloadAssumption ==
  /\ Jobs \subseteq [kind : STRING, size : Int, dur : Int, real : Nat, url : AnyUrl]
  /\ Urls \subseteq AnyUrl /\ Answers \subseteq Seq(AnyAddress)
  /\ Limits \in [image : Nat, voice : Nat, voiceSeconds : Nat, video : Nat, file : Nat]
  /\ Block \in Nat \ {0} /\ Mac \in Nat /\ Margin \in Nat
  /\ MaxTries \in Nat /\ MaxBody \in Nat /\ MaxAvatarBytes \in Nat
  /\ OggFiles \subseteq OggBytes /\ Null \notin OggFiles

VARIABLES
  job,     \* the command's descriptor; "picture" is the kind of a fetch_avatar
  pc,
  url,     \* the request on its way
  via,     \* requests before it: len(via)
  tries,   \* external: attempts of the library so far
  host,    \* the name Resolve dials for, Null when none
  addrs,   \* the addresses of the lookup not tried yet
  error,   \* what the last attempt failed with, or Null
  body,    \* bytes the server has still to send
  left,    \* limitedBody.left
  held,    \* bytes of the body in memory
  honest,  \* the server sends the very file
  file,    \* the Ogg bytes of a voice note that came, or Null
  result,  \* the code of the command's final line, and the size and duration it reports
  dialed,  \* history: the connection of this request, or Null
  over     \* history: the body of this request is known to be over the limit

requestVars == <<url, via, tries, host, addrs>>
bodyVars    == <<body, left, held, honest>>
vars == <<job, pc, requestVars, error, bodyVars, file, result, dialed, over>>

Codes == {"none", "ok", "media_too_large", "media_unavailable", "media_expired", "timeout",
          "not_connected"}

-----------------------------------------------------------------------------
(* The caps *)

MaxFetchBytes(kind) ==
  CASE kind \in {"image", "sticker"}  -> Limits.image
    [] kind = "voice"                 -> Limits.voice
    [] kind = "video"                 -> Limits.video
    [] kind \in {"document", "audio"} -> Limits.file
    [] OTHER                          -> 0

CheckFetch(kind, size, dur) ==
  /\ kind \in MediaKinds
  /\ kind = "voice" => dur <= Limits.voiceSeconds
  /\ size \in 0 .. MaxFetchBytes(kind)

\* The file's own length, but not much less than the sender declared.
VoiceDuration(declared, own) ==
  IF own <= 0 \/ declared - own > Margin THEN OggMax(declared, own) ELSE own

\* Mutant of BodyLimit: no room for the padding.
BodyLimitNoPad == IF job.kind = "picture" THEN MaxAvatarBytes ELSE MaxFetchBytes(job.kind) + Mac

\* The limit in the request's context.
BodyLimit == IF job.kind = "picture" THEN MaxAvatarBytes ELSE MaxFetchBytes(job.kind) + DownloadOverhead

\* The bytes of the file on the server: encrypted, with one block of padding at most.
Encoded == IF job.kind = "picture" THEN job.real ELSE (job.real \div Block + 1) * Block + Mac

-----------------------------------------------------------------------------
(* The end *)

Ends(code) == pc' = "done" /\ result' = [code |-> code, size |-> 0, dur |-> 0]

Delivers(size, dur) == pc' = "done" /\ result' = [code |-> "ok", size |-> size, dur |-> dur]

Refuses(code) == Ends(code) /\ UNCHANGED <<job, requestVars, error, bodyVars, file, dialed, over>>

\* fetchMedia looks at the descriptor; FetchPicture takes https only.
Refused ==
  /\ pc = "start"
  /\ \/ job.kind \notin MediaKinds \cup {"picture"} /\ Refuses("media_unavailable")
     \/ job.kind = "picture" /\ job.url.scheme # "https" /\ Refuses("media_unavailable")
     \/ job.kind \in MediaKinds /\ ~CheckFetch(job.kind, job.size, job.dur) /\ Refuses("media_too_large")

Start ==
  /\ pc = "start"
  /\ IF job.kind = "picture" THEN job.url.scheme = "https" ELSE CheckFetch(job.kind, job.size, job.dur)
  /\ pc' = "request"
  /\ UNCHANGED <<job, requestVars, error, bodyVars, file, result, dialed, over>>

\* Nothing is left of a request that was answered or failed.
NewRequest == url' = job.url /\ via' = 0 /\ host' = Null /\ addrs' = <<>> /\ dialed' = Null

\* External: the library tries again after a network error, FetchPicture does not.
\* DownloadErrorCode, and the codes of fetchAvatar.
Failed ==
  /\ pc = "failed"
  /\ \/ /\ error = "network" /\ job.kind # "picture" /\ tries < MaxTries
        /\ tries' = tries + 1
        /\ NewRequest
        /\ error' = Null
        /\ body' = 0 /\ left' = 0 /\ held' = 0 /\ honest' = FALSE
        /\ pc' = "request"
        /\ UNCHANGED result
     \/ /\ Ends(CASE error = "too_large"                             -> "media_too_large"
                  [] error = "gone" /\ job.kind # "picture"          -> "media_expired"
                  [] error = "timeout" /\ job.kind # "picture"       -> "timeout"
                  [] error = "offline"                               -> "not_connected"
                  [] OTHER                                           -> "media_unavailable")
        /\ UNCHANGED <<requestVars, error, bodyVars, dialed>>
  /\ UNCHANGED <<job, file, over>>

Fails(e) == pc' = "failed" /\ error' = e

\* The context of the request ends; a picture's is fetchAvatar's.
Timeout ==
  /\ pc \in {"request", "dial", "response", "read"}
  /\ Fails("timeout")
  /\ UNCHANGED <<job, requestVars, bodyVars, file, result, dialed, over>>

\* External: the library asks WhatsApp for its media hosts first, and is offline.
Offline ==
  /\ pc = "request" /\ via = 0
  /\ job.kind # "picture"
  /\ Fails("offline")
  /\ UNCHANGED <<job, requestVars, bodyVars, file, result, dialed, over>>

-----------------------------------------------------------------------------
(* The transport *)

Port(u) == IF u.port # "" THEN u.port ELSE IF u.scheme = "https" THEN AllowedPort ELSE "80"

\* Guard, before any lookup; then Resolve's lookup.
Guard ==
  /\ pc = "request"
  /\ \/ /\ ~AddrAllowed(url.host, Port(url))
        /\ Fails("network")
        /\ UNCHANGED <<host, addrs>>
     \/ /\ AddrAllowed(url.host, Port(url))
        /\ \/ Fails("network") /\ UNCHANGED <<host, addrs>>
           \/ \E a \in Answers :
                /\ pc' = "dial"
                /\ host' = url.host
                /\ addrs' = a
                /\ UNCHANGED error
  /\ UNCHANGED <<job, url, via, tries, bodyVars, file, result, dialed, over>>

\* Mutant of Resolve: the name is dialed once one of its addresses is public, and
\* the dialer looks it up again.
ResolveDialsName ==
  /\ pc = "dial"
  /\ \/ /\ addrs = <<>>
        /\ Fails("network")
        /\ UNCHANGED <<addrs, dialed>>
     \/ /\ addrs # <<>> /\ addrs' = Tail(addrs)
        /\ \/ /\ ~PublicIP(Head(addrs))
              /\ UNCHANGED <<pc, error, dialed>>
           \/ /\ PublicIP(Head(addrs))
              /\ \E a \in Answers :
                   /\ a # <<>>
                   /\ dialed' = [host |-> host, port |-> Port(url), ip |-> Head(a)]
              /\ pc' = "response"
              /\ UNCHANGED error
  /\ UNCHANGED <<job, url, via, tries, host, bodyVars, file, result, over>>

\* Resolve's loop: the public addresses in turn, by IP; the network is "tcp".
Resolve ==
  /\ pc = "dial"
  /\ \/ /\ addrs = <<>>
        /\ Fails("network")
        /\ UNCHANGED <<addrs, dialed>>
     \/ /\ addrs # <<>> /\ addrs' = Tail(addrs)
        /\ \/ /\ ~PublicIP(Head(addrs))
              /\ UNCHANGED <<pc, error, dialed>>
           \/ /\ PublicIP(Head(addrs))
              /\ dialed' = [host |-> host, port |-> Port(url), ip |-> Head(addrs)]
              /\ pc' \in {"dial", "response"}
              /\ UNCHANGED error
  /\ UNCHANGED <<job, url, via, tries, host, bodyVars, file, result, over>>

\* Mutant of Redirect: any number of them.
RedirectForever ==
  /\ pc = "response"
  /\ \E u \in Urls :
       \/ CheckRedirect(u, 0) /\ url' = u /\ via' = OggMin(via + 1, MaxRedirects - 1)
            /\ pc' = "request" /\ UNCHANGED error
       \/ ~CheckRedirect(u, 0) /\ Fails("network") /\ UNCHANGED <<url, via>>
  /\ UNCHANGED <<job, tries, host, addrs, bodyVars, file, result, dialed, over>>

\* The client follows a redirect that CheckRedirect lets pass; via has one request more.
Redirect ==
  /\ pc = "response"
  /\ \E u \in Urls :
       \/ CheckRedirect(u, via + 1) /\ url' = u /\ via' = via + 1
            /\ pc' = "request" /\ UNCHANGED error
       \/ ~CheckRedirect(u, via + 1) /\ Fails("network") /\ UNCHANGED <<url, via>>
  /\ UNCHANGED <<job, tries, host, addrs, bodyVars, file, result, dialed, over>>

\* 403, 404 and 410; any other status but 200.
Status ==
  /\ pc = "response"
  /\ \E e \in {"gone", "status"} : Fails(e)
  /\ UNCHANGED <<job, requestVars, bodyVars, file, result, dialed, over>>

\* Mutant of Limited: the error comes from RoundTrip.
LimitedByRoundTrip(announced, n) ==
  IF announced > BodyLimit THEN Fails("network") /\ held' = 0 /\ left' = 0 /\ body' = 0
  ELSE pc' = "read" /\ left' = BodyLimit /\ held' = 0 /\ body' = n /\ UNCHANGED error

\* limitTransport.RoundTrip: a longer Content-Length is refused unread, by an error
\* from the body.
Limited(announced, n) ==
  IF announced > BodyLimit THEN Fails("too_large") /\ held' = 0 /\ left' = 0 /\ body' = 0
  ELSE pc' = "read" /\ left' = BodyLimit /\ held' = 0 /\ body' = n /\ UNCHANGED error

\* 200: the server announces a length or none (-1), and sends the file or anything
\* else; a length it announces is what it sends, or the client fails the read.
Response ==
  /\ pc = "response"
  /\ \E h \in BOOLEAN, n \in 0 .. MaxBody :
       /\ h => n = Encoded
       /\ honest' = h
       /\ \E announced \in {-1, n} :
            /\ Limited(announced, n)
            /\ over' = (announced > BodyLimit)
  /\ NewRequest
  /\ UNCHANGED <<job, tries, file, result>>

\* Mutant of Read: the limit is looked at between reads, not in them.
ReadWhole ==
  /\ pc = "read"
  /\ left > 0 /\ body > 0
  /\ \E n \in 1 .. body : held' = held + n /\ left' = left - n /\ body' = body - n
  /\ UNCHANGED <<job, pc, requestVars, error, honest, file, result, dialed, over>>

\* limitedBody.Read: at most left bytes, however many are there.
Read ==
  /\ pc = "read"
  /\ left > 0 /\ body > 0
  /\ \E n \in 1 .. OggMin(left, body) : held' = held + n /\ left' = left - n /\ body' = body - n
  /\ UNCHANGED <<job, pc, requestVars, error, honest, file, result, dialed, over>>

\* At the limit one byte more is asked for.
ReadOver ==
  /\ pc = "read"
  /\ left <= 0 /\ body > 0
  /\ Fails("too_large")
  /\ over' = TRUE
  /\ UNCHANGED <<job, requestVars, bodyVars, file, result, dialed>>

\* The connection breaks.
ReadFails ==
  /\ pc = "read"
  /\ Fails("network")
  /\ UNCHANGED <<job, requestVars, bodyVars, file, result, dialed, over>>

\* The end of the body.  External: bytes that are not the file fail its hash.
ReadEnds ==
  /\ pc = "read"
  /\ body = 0
  /\ \/ (honest \/ job.kind = "picture") /\ pc' = "measure" /\ UNCHANGED error
     \/ ~honest /\ job.kind # "picture" /\ Fails("hash")
  /\ UNCHANGED <<job, requestVars, bodyVars, file, result, dialed, over>>

-----------------------------------------------------------------------------
(* After the download *)

\* The caps on the real size and, for a voice note, the file's own duration.  A
\* picture has to be one: http.DetectContentType.
Measure ==
  /\ pc = "measure"
  /\ \/ /\ job.kind = "picture"
        /\ Ends("media_unavailable") \/ Delivers(held, 0)
        /\ UNCHANGED file
     \/ /\ job.kind \in MediaKinds
        /\ file' \in IF job.kind = "voice" THEN OggFiles ELSE {Null}
        /\ LET dur == IF job.kind = "voice" THEN VoiceDuration(job.dur, OggDurationSeconds(file'))
                      ELSE job.dur
           IN  IF CheckFetch(job.kind, job.real, dur) THEN Delivers(job.real, dur)
               ELSE Ends("media_too_large")
  /\ UNCHANGED <<job, requestVars, error, bodyVars, dialed, over>>

Init ==
  /\ job \in Jobs
  /\ pc = "start"
  /\ url = job.url /\ via = 0 /\ tries = 0 /\ host = Null /\ addrs = <<>>
  /\ error = Null
  /\ body = 0 /\ left = 0 /\ held = 0 /\ honest = FALSE
  /\ file = Null /\ result = [code |-> "none", size |-> 0, dur |-> 0]
  /\ dialed = Null /\ over = FALSE

Network ==
  \/ Refused \/ Start \/ Failed \/ Timeout \/ Offline \/ Guard \/ Resolve \/ Redirect \/ Status
  \/ Response \/ Read \/ ReadOver \/ ReadFails \/ ReadEnds

Next == Network \/ Measure

Spec == Init /\ [][Next]_vars

\* Every request has a timeout, and the goroutine goes on.
FairSpec == Spec /\ WF_vars(Network)

-----------------------------------------------------------------------------
(* Properties *)

\* The types of the variables.
TypeOK ==
  /\ job \in Jobs
  /\ pc \in {"start", "request", "dial", "response", "read", "measure", "failed", "done"}
  /\ via \in 0 .. MaxRedirects - 1 /\ tries \in 0 .. MaxTries
  /\ error \in {Null, "network", "timeout", "offline", "gone", "status", "too_large", "hash"}
  /\ body \in 0 .. MaxBody /\ left \in Int /\ held \in Nat /\ honest \in BOOLEAN
  /\ file # Null => job.kind = "voice"
  /\ result.code \in Codes /\ result.size \in Nat /\ result.dur \in Int
  /\ over \in BOOLEAN

\* A connection is made only for a name of WhatsApp, on 443 and to a public address:
\* neither a URL or redirect of a server nor an answer of the resolver leads anywhere
\* else, also when two lookups are answered differently (Guard, Resolve, CheckRedirect).
OnlyWhatsApp ==
  dialed # Null =>
    /\ dialed.port = "443"
    /\ LET h == Trimmed(dialed.host) IN
       Len(h) > 2 /\ h[Len(h) - 1] = "whatsapp" /\ h[Len(h)] \in {"net", "com"}
    /\ dialed.ip.range \in {"public4", "global6"}

\* The variables keep their types; however long the body and in whatever pieces it
\* comes, no more of it than the limit is in memory, and what is delivered came whole
\* and is within the cap of its kind, whatever the sender declared (limitedBody.Read,
\* CheckFetch on the real size).
BodyBounded ==
  /\ TypeOK
  /\ held <= BodyLimit
  /\ result.code = "ok" =>
       body = 0 /\ result.size <= IF job.kind = "picture" THEN MaxAvatarBytes ELSE MaxFetchBytes(job.kind)

\* media_too_large is the answer for a file that is too large, and for no other: the
\* sender declared it so, it is, or the server sent something else over the limit; a
\* file at its cap passes with its padding and MAC (DownloadOverhead, DownloadErrorCode).
TooLargeIsTrue ==
  result.code = "media_too_large" =>
    \/ job.kind \in MediaKinds /\ ~CheckFetch(job.kind, job.size, job.dur)
    \/ job.kind \in MediaKinds /\ job.real > MaxFetchBytes(job.kind)
    \/ job.kind = "voice" /\ file # Null /\ DurationOf(file) > Limits.voiceSeconds
    \/ over /\ ~honest
    \/ job.kind = "picture" /\ over

\* A body over the limit ends the download: it is not tried again (the errBody of
\* RoundTrip, DownloadErrorCode).
TooLargeIsFinal == [][over => UNCHANGED tries]_vars

\* The duration read from a voice note is the one its pages stand for, unless the sum
\* that rounds up wraps; and the one reported is within the cap, not below the file's
\* own and at most Margin below the declared one (OggDurationSeconds, voiceDuration).
VoiceIsHonest ==
  file # Null =>
    /\ ~Wraps(file) => OggDurationSeconds(file) = DurationOf(file)
    /\ result.code = "ok" =>
         /\ result.dur \in job.dur - Margin .. Limits.voiceSeconds
         /\ result.dur >= OggDurationSeconds(file)

\* The download ends, whatever the servers answer (CheckRedirect's limit, and the
\* timeouts): the command gets to the bytes or to its final line.
DownloadEnds == <>(pc \in {"measure", "done"})
=============================================================================
