-------------------------------- MODULE Ogg --------------------------------
(***************************************************************************)
(* media.OggDurationSeconds: the duration of a voice note read from its    *)
(* pages.  A file is [pages, len]; a page is [ok, bos, eos, serial, seq,   *)
(* head, granule], where ok says that its header is one of version 0 and   *)
(* that its segment table and body fit, head is the pre-skip of a full     *)
(* OpusHead packet at the start of its body or NoHead, and granule is      *)
(* unsigned with NoGranule for -1.                                         *)
(***************************************************************************)
EXTENDS Integers, Sequences

CONSTANTS
  Rate,            \* samples of a second: 48000
  BytesPerSecond,  \* MaxOggBytesPerSecond
  Word,            \* 2^64
  SeqWord,         \* 2^32
  MaxSeconds       \* math.MaxInt32

ASSUME OggAssumption ==
  /\ Rate \in Nat \ {0} /\ BytesPerSecond \in Nat \ {0} /\ MaxSeconds \in Nat
  /\ Word \in Nat \ {0} /\ SeqWord \in Nat \ {0}

NoHead    == -1
NoGranule == Word - 1

OggPages == [ok : BOOLEAN, bos : BOOLEAN, eos : BOOLEAN, serial : Nat, seq : 0 .. SeqWord - 1,
             head : {NoHead} \cup Nat, granule : 0 .. Word - 1]
OggBytes == [pages : Seq(OggPages), len : Nat]

CeilDiv(a, b) == (a + b - 1) \div b

OggMax(a, b) == IF a > b THEN a ELSE b
OggMin(a, b) == IF a < b THEN a ELSE b

\* Mutant of PageFits: a page of another stream is taken too.
PageFitsAnySerial(pages, i) ==
  LET p == pages[i] IN
  /\ p.ok
  /\ i > 1 => ~pages[i - 1].eos
  /\ IF i = 1 THEN p.bos /\ p.head # NoHead
     ELSE ~p.bos /\ p.seq = (pages[i - 1].seq + 1) % SeqWord

\* What the walk looks at in page i, apart from its granule.
PageFits(pages, i) ==
  LET p == pages[i] IN
  /\ p.ok
  /\ i > 1 => ~pages[i - 1].eos
  /\ IF i = 1 THEN p.bos /\ p.head # NoHead
     ELSE p.serial = pages[1].serial /\ ~p.bos /\ p.seq = (pages[i - 1].seq + 1) % SeqWord

\* The loop, page by page: [ok, seen, max] after i pages; it returns 0 at the first
\* page that does not fit.
Walk(pages) ==
  LET w[i \in 0 .. Len(pages)] ==
        IF i = 0 THEN [ok |-> TRUE, seen |-> FALSE, max |-> 0]
        ELSE LET b == w[i - 1]  g == pages[i].granule IN
             IF ~b.ok \/ ~PageFits(pages, i) THEN [b EXCEPT !.ok = FALSE]
             ELSE IF g = NoGranule THEN b
             ELSE IF b.seen /\ g < b.max THEN [b EXCEPT !.ok = FALSE]
             ELSE [ok |-> TRUE, seen |-> TRUE, max |-> g]
  IN  w[Len(pages)]

\* uint64 arithmetic: the sum that rounds up may wrap.
OggDurationSeconds(f) ==
  LET w == Walk(f.pages) IN
  IF ~w.ok \/ ~w.seen \/ w.max <= f.pages[1].head THEN 0
  ELSE LET sum == (w.max - f.pages[1].head + Rate - 1) % Word
       IN  OggMax(OggMin(sum \div Rate, MaxSeconds), CeilDiv(f.len, BytesPerSecond))

-----------------------------------------------------------------------------
(* What the comment of OggDurationSeconds says, without the walk *)

Granules(f) == {f.pages[i].granule : i \in DOMAIN f.pages} \ {NoGranule}

\* One logical stream from its first to its last page.
WellFormed(f) ==
  /\ f.pages # <<>>
  /\ \A i \in DOMAIN f.pages :
       /\ f.pages[i].ok
       /\ f.pages[i].serial = f.pages[1].serial
       /\ f.pages[i].bos <=> i = 1
       /\ f.pages[i].eos => i = Len(f.pages)
       /\ f.pages[i].seq = (f.pages[1].seq + i - 1) % SeqWord
  /\ f.pages[1].head # NoHead
  /\ \A i, j \in DOMAIN f.pages :
       i < j /\ NoGranule \notin {f.pages[i].granule, f.pages[j].granule} =>
         f.pages[i].granule <= f.pages[j].granule

\* The largest granule, less the pre-skip, in seconds rounded up, at least what
\* the size stands for.
DurationOf(f) ==
  IF ~WellFormed(f) \/ \A g \in Granules(f) : g <= f.pages[1].head THEN 0
  ELSE LET last == CHOOSE g \in Granules(f) : \A h \in Granules(f) : h <= g
       IN  OggMax(OggMin(CeilDiv(last - f.pages[1].head, Rate), MaxSeconds),
                  CeilDiv(f.len, BytesPerSecond))

\* The sum wraps: a last granule within a second of 2^64.
Wraps(f) == \E g \in Granules(f) : g + Rate > Word + f.pages[1].head
=============================================================================
