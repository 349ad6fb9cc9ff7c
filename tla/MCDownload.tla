---------------------------- MODULE MCDownload ----------------------------
(* Instances of Download for TLC. *)
EXTENDS Download

Host1 == <<"mmg", "whatsapp", "net">>
Host2 == <<"web", "whatsapp", "com", "">>

Https(h)  == [scheme |-> "https", host |-> h, port |-> ""]
MediaUrl  == Https(Host1)
OtherUrls == {Https(Host2), Https(<<"whatsapp", "net">>), Https(<<"", "whatsapp", "com">>),
              Https(<<"a_b", "whatsapp", "net">>), Https(<<"pps", "whatsapp", "net", "other">>),
              [scheme |-> "http", host |-> Host1, port |-> "443"],
              [scheme |-> "https", host |-> Host1, port |-> "8443"]}

V4(r) == [form |-> "v4", range |-> r]
SomeAnswers ==
  {<<>>, <<V4("public4")>>, <<V4("private"), V4("public4")>>, <<[form |-> "mapped", range |-> "loopback"]>>,
   <<[form |-> "nat64", range |-> "public4"]>>, <<[form |-> "v6", range |-> "outside6"]>>,
   <<[form |-> "v6", range |-> "global6"], [form |-> "6to4", range |-> "private"]>>}

SmallLimits == [image |-> 2, voice |-> 3, voiceSeconds |-> 3, video |-> 1, file |-> 0]

MediaJobs ==
  [kind : {"image", "sticker"}, size : {-1, 2, 3}, dur : {0}, real : 0 .. 4, url : {MediaUrl}]
    \cup [kind : {"voice"}, size : {3}, dur : {0, 3, 4}, real : 2 .. 4, url : {MediaUrl}]
    \cup [kind : {"video", "document", "audio", "location"}, size : {0}, dur : {0}, real : 0 .. 1, url : {MediaUrl}]
PictureJobs ==
  [kind : {"picture"}, size : {0}, dur : {0}, real : {3, 4}, url : {MediaUrl} \cup OtherUrls]
SomeJobs == MediaJobs \cup PictureJobs
SomeUrls == {MediaUrl} \cup OtherUrls

\* Pages of two streams, and files of up to three pages.
Page(b, e, s, n, h, g) == [ok |-> TRUE, bos |-> b, eos |-> e, serial |-> s, seq |-> n, head |-> h, granule |-> g]
FirstPages == {Page(b, e, 0, n, h, g) : b \in BOOLEAN, e \in BOOLEAN, n \in {0, 3}, h \in {NoHead, 1}, g \in {0, NoGranule}}
Starts     == {p \in FirstPages : p.bos /\ p.seq = 0 /\ p.head # NoHead}
NextPages  == {Page(FALSE, e, s, n, NoHead, g) :
                 e \in BOOLEAN, s \in 0 .. 1, n \in {0, 1, 2}, g \in {5, 9, 22, NoGranule - 1, NoGranule}}
LastPages  == {Page(FALSE, TRUE, s, n, NoHead, g) : s \in 0 .. 1, n \in {2, 3}, g \in {6, 24, NoGranule}}
Bad        == [Page(FALSE, FALSE, 0, 1, NoHead, 5) EXCEPT !.ok = FALSE]
Again      == Page(TRUE, FALSE, 0, 1, 1, 5)
PageSeqs   == {<<>>} \cup {<<p, q>> : p \in FirstPages, q \in NextPages \cup {Bad, Again}}
                \cup {<<p, q, r>> : p \in Starts, q \in NextPages, r \in LastPages}
SomeFiles  == {[pages |-> s, len |-> n] : s \in PageSeqs, n \in {3, 14}}
=============================================================================
