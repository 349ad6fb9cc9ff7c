----------------------------- MODULE OggProofs -----------------------------
(***************************************************************************)
(* What OggDurationSeconds computes, for every file: the walk over the     *)
(* pages (Walk) against what the comment of the function says without it   *)
(* (WellFormed, DurationOf).                                               *)
(*                                                                         *)
(* The walk is a recursive function on 0 .. Len(pages).  An induction over *)
(* its argument is the choice of a least counterexample (LeastOne).        *)
(***************************************************************************)
EXTENDS Ogg, FiniteSetTheorems, TLAPS

-----------------------------------------------------------------------------
(* Numbers *)

\* Every set of numbers has a least one.
LEMMA LeastOne ==
  ASSUME NEW T \in SUBSET Nat, T # {}
  PROVE  \E m \in T : \A n \in T : m <= n
<1> DEFINE TT == {1 .. n : n \in T}
           R  == StrictSubsetOrdering(Nat)
<1>1. IsWellFoundedOn(R, FiniteSubsetsOf(Nat))
  BY FS_StrictSubsetOrderingWellFounded
<1>2. TT # {} /\ TT \subseteq FiniteSubsetsOf(Nat)
  <2>1. ASSUME NEW n \in T PROVE 1 .. n \in FiniteSubsetsOf(Nat)
    BY FS_Interval DEF FiniteSubsetsOf
  <2> QED
    BY <2>1
<1>3. PICK x \in TT : \A y \in TT : ~(<<y, x>> \in R)
  <2> HIDE DEF TT, R
  <2> QED
    BY <1>1, <1>2, WFMin
<1>4. PICK m \in T : x = 1 .. m
  BY <1>3
<1>5. ASSUME NEW n \in T, n < m PROVE FALSE
  <2>1. 1 .. n \subseteq 1 .. m /\ 1 .. n # 1 .. m /\ 1 .. n \subseteq Nat /\ 1 .. m \subseteq Nat
    <3>1. m \in 1 .. m /\ m \notin 1 .. n
      BY <1>5
    <3> QED
      BY <1>5, <3>1
  <2>2. <<1 .. n, 1 .. m>> \in R
    BY <2>1 DEF StrictSubsetOrdering
  <2> QED
    BY <1>3, <1>4, <2>2
<1> QED
  BY <1>5

\* A set of numbers with 0 and the successor of each of its members below n has all
\* numbers up to n.
LEMMA Induction ==
  ASSUME NEW n \in Nat, NEW S, 0 \in S,
         \A i \in 0 .. n - 1 : i \in S => i + 1 \in S
  PROVE  0 .. n \subseteq S
<1> DEFINE T == {i \in 0 .. n : i \notin S}
<1>1. SUFFICES ASSUME T # {} PROVE FALSE
  OBVIOUS
<1>2. PICK m \in T : \A i \in T : m <= i
  <2>1. T \in SUBSET Nat
    OBVIOUS
  <2> HIDE DEF T
  <2> QED
    BY <1>1, <2>1, LeastOne
<1>3. m # 0 /\ m \in 0 .. n /\ m \notin S
  BY <1>2
<1>4. m - 1 \in 0 .. n - 1 /\ m - 1 \in 0 .. n
  BY <1>3
<1>5. m - 1 \in S
  BY <1>2, <1>4, m - 1 < m
<1> QED
  BY <1>3, <1>4, <1>5, (m - 1) + 1 = m

\* A remainder is smaller than the modulus.
LEMMA ModRange ==
  ASSUME NEW M \in Nat \ {0}, NEW x \in Int
  PROVE  x % M \in 0 .. M - 1
  OBVIOUS

\* A number is its quotient and its remainder.
LEMMA ModDiv ==
  ASSUME NEW M \in Nat \ {0}, NEW x \in Int
  PROVE  x = M * (x \div M) + (x % M) /\ x \div M \in Int
  OBVIOUS

\* The only multiple of M between -M and M is 0.
LEMMA Between ==
  ASSUME NEW M \in Nat \ {0}, NEW d \in Int, -M < M * d, M * d < M
  PROVE  d = 0
<1>1. CASE d >= 1
  <2>1. M * d >= M
    BY <1>1
  <2> QED
    BY <2>1
<1>2. CASE d <= -1
  <2>1. M * d <= -M
    BY <1>2
  <2> QED
    BY <2>1
<1> QED
  BY <1>1, <1>2

\* A quotient and a remainder are those of the number they make.
LEMMA ModUnique ==
  ASSUME NEW M \in Nat \ {0}, NEW q \in Int, NEW r \in 0 .. M - 1
  PROVE  (M * q + r) % M = r
<1> DEFINE x == M * q + r
<1>1. x \in Int
  OBVIOUS
<1>2. x = M * (x \div M) + (x % M) /\ x \div M \in Int
  BY <1>1, ModDiv
<1>3. x % M \in 0 .. M - 1
  BY <1>1, ModRange
<1>4. x = M * q + r
  OBVIOUS
<1> HIDE DEF x
<1>5. M * (q - (x \div M)) = (x % M) - r
  BY <1>2, <1>3, <1>4
<1> DEFINE d == q - (x \div M)
<1>6. d \in Int /\ -M < M * d /\ M * d < M
  BY <1>2, <1>3, <1>5
<1>7. d = 0
  <2> HIDE DEF d
  <2> QED
    BY <1>6, Between
<1> QED
  BY <1>2, <1>3, <1>4, <1>7 DEF x

\* The successor of a remainder is the remainder of the successor.
LEMMA ModStep ==
  ASSUME NEW M \in Nat \ {0}, NEW x \in Int
  PROVE  ((x % M) + 1) % M = (x + 1) % M
<1> DEFINE q == x \div M
           r == x % M
<1>1. x = M * q + r /\ q \in Int /\ r \in 0 .. M - 1
  BY ModDiv, ModRange
<1> HIDE DEF q, r
<1>2. CASE r < M - 1
  <2>1. x + 1 = M * q + (r + 1) /\ r + 1 \in 0 .. M - 1
    BY <1>1, <1>2
  <2>2. (M * q + (r + 1)) % M = r + 1
    BY <1>1, <2>1, ModUnique
  <2>3. (M * 0 + (r + 1)) % M = r + 1
    BY <2>1, ModUnique
  <2> QED
    BY <1>1, <2>1, <2>2, <2>3 DEF r
<1>3. CASE r = M - 1
  <2>1. x + 1 = M * (q + 1) + 0 /\ q + 1 \in Int
    BY <1>1, <1>3
  <2> DEFINE k == q + 1
  <2>2. (M * k + 0) % M = 0
    <3>1. k \in Int /\ 0 \in 0 .. M - 1
      BY <2>1
    <3> HIDE DEF k
    <3> QED
      BY <3>1, ModUnique
  <2>3. (M * 1 + 0) % M = 0
    BY ModUnique
  <2>4. r + 1 = M * 1 + 0 /\ x + 1 = M * k + 0
    BY <1>1, <1>3, <2>1
  <2>5. (x + 1) % M = 0
    <3> HIDE DEF k
    <3> QED
      BY <2>2, <2>4
  <2>6. (r + 1) % M = 0
    BY <2>3, <2>4
  <2> QED
    BY <2>5, <2>6 DEF r
<1> QED
  BY <1>1, <1>2, <1>3

-----------------------------------------------------------------------------
(* The walk *)

Begin == [ok |-> TRUE, seen |-> FALSE, max |-> 0]

\* One turn of the loop: the state before page i, and after it.
After(pages, b, i) ==
  IF ~b.ok \/ ~PageFits(pages, i) THEN [b EXCEPT !.ok = FALSE]
  ELSE IF pages[i].granule = NoGranule THEN b
  ELSE IF b.seen /\ pages[i].granule < b.max THEN [b EXCEPT !.ok = FALSE]
  ELSE [ok |-> TRUE, seen |-> TRUE, max |-> pages[i].granule]

IsWalk(w, pages, n) == w = [i \in 0 .. n |-> IF i = 0 THEN Begin ELSE After(pages, w[i - 1], i)]

\* There is such a function up to every page.
LEMMA WalkExists ==
  ASSUME NEW pages, NEW n \in Nat
  PROVE  \E w : IsWalk(w, pages, n)
<1> DEFINE S == {i \in 0 .. n : \E w : IsWalk(w, pages, i)}
<1>1. 0 \in S
  <2> DEFINE w == [i \in 0 .. 0 |-> Begin]
  <2>1. w = [i \in 0 .. 0 |-> IF i = 0 THEN Begin ELSE After(pages, w[i - 1], i)]
    OBVIOUS
  <2>2. \E x : IsWalk(x, pages, 0)
    <3> HIDE DEF w
    <3> QED
      BY <2>1 DEF IsWalk
  <2> QED
    BY <2>2
<1>2. ASSUME NEW i \in 0 .. n - 1, i \in S PROVE i + 1 \in S
  <2>1. PICK v : v = [j \in 0 .. i |-> IF j = 0 THEN Begin ELSE After(pages, v[j - 1], j)]
    BY <1>2 DEF IsWalk
  <2> DEFINE w == [j \in 0 .. i + 1 |-> IF j <= i THEN v[j] ELSE After(pages, v[i], i + 1)]
  <2>2. ASSUME NEW j \in 0 .. i + 1
        PROVE  w[j] = IF j = 0 THEN Begin ELSE After(pages, w[j - 1], j)
    <3>1. CASE j = 0
      <4>1. w[j] = v[j] /\ 0 \in 0 .. i
        BY <3>1
      <4>2. v[0] = Begin
        <5>1. 0 \in 0 .. i
          OBVIOUS
        <5> QED
          BY <2>1, <5>1
      <4> QED
        BY <3>1, <4>1, <4>2
    <3>2. CASE j \in 1 .. i
      <4>1. w[j] = v[j] /\ w[j - 1] = v[j - 1]
        BY <3>2
      <4>2. v[j] = After(pages, v[j - 1], j)
        <5>1. j \in 0 .. i /\ j # 0
          BY <3>2
        <5> QED
          BY <2>1, <5>1
      <4> QED
        BY <3>2, <4>1, <4>2
    <3>3. CASE j = i + 1
      <4>1. w[j] = After(pages, v[i], i + 1) /\ w[j - 1] = v[i] /\ j # 0
        BY <3>3
      <4> QED
        BY <3>3, <4>1
    <3> QED
      BY <3>1, <3>2, <3>3
  <2>3. w = [j \in 0 .. i + 1 |-> IF j = 0 THEN Begin ELSE After(pages, w[j - 1], j)]
    <3>1. w = [j \in 0 .. i + 1 |-> w[j]]
      OBVIOUS
    <3> HIDE DEF w
    <3> QED
      BY <2>2, <3>1
  <2>4. \E x : IsWalk(x, pages, i + 1)
    <3> HIDE DEF w
    <3> QED
      BY <2>3 DEF IsWalk
  <2> QED
    BY <2>4
<1>3. 0 .. n \subseteq S
  <2> HIDE DEF S
  <2> QED
    BY <1>1, <1>2, Induction
<1> QED
  BY <1>3

\* Walk is the state after the last page.
LEMMA WalkIs ==
  ASSUME NEW pages, Len(pages) \in Nat
  PROVE  \E w : IsWalk(w, pages, Len(pages)) /\ Walk(pages) = w[Len(pages)]
<1> DEFINE v == CHOOSE w :
              w = [i \in 0 .. Len(pages) |->
                     IF i = 0 THEN [ok |-> TRUE, seen |-> FALSE, max |-> 0]
                     ELSE LET b == w[i - 1]  g == pages[i].granule IN
                          IF ~b.ok \/ ~PageFits(pages, i) THEN [b EXCEPT !.ok = FALSE]
                          ELSE IF g = NoGranule THEN b
                          ELSE IF b.seen /\ g < b.max THEN [b EXCEPT !.ok = FALSE]
                          ELSE [ok |-> TRUE, seen |-> TRUE, max |-> g]]
<1>1. PICK w : IsWalk(w, pages, Len(pages))
  BY WalkExists
<1>2. w = [i \in 0 .. Len(pages) |->
             IF i = 0 THEN [ok |-> TRUE, seen |-> FALSE, max |-> 0]
             ELSE LET b == w[i - 1]  g == pages[i].granule IN
                  IF ~b.ok \/ ~PageFits(pages, i) THEN [b EXCEPT !.ok = FALSE]
                  ELSE IF g = NoGranule THEN b
                  ELSE IF b.seen /\ g < b.max THEN [b EXCEPT !.ok = FALSE]
                  ELSE [ok |-> TRUE, seen |-> TRUE, max |-> g]]
  BY <1>1, Zenon DEF IsWalk, Begin, After
<1>3. v = [i \in 0 .. Len(pages) |->
             IF i = 0 THEN [ok |-> TRUE, seen |-> FALSE, max |-> 0]
             ELSE LET b == v[i - 1]  g == pages[i].granule IN
                  IF ~b.ok \/ ~PageFits(pages, i) THEN [b EXCEPT !.ok = FALSE]
                  ELSE IF g = NoGranule THEN b
                  ELSE IF b.seen /\ g < b.max THEN [b EXCEPT !.ok = FALSE]
                  ELSE [ok |-> TRUE, seen |-> TRUE, max |-> g]]
  BY <1>2, Zenon
<1>4. Walk(pages) = v[Len(pages)]
  BY Zenon DEF Walk
<1> HIDE DEF v
<1>5. IsWalk(v, pages, Len(pages))
  BY <1>3, Zenon DEF IsWalk, Begin, After
<1> QED
  BY <1>4, <1>5

\* What has been read after page i: the granules of the pages.
Heard(pages, i) == {pages[k].granule : k \in 1 .. i} \ {NoGranule}

Grows(pages, i) ==
  \A j, k \in 1 .. i :
    j < k /\ NoGranule \notin {pages[j].granule, pages[k].granule} =>
      pages[j].granule <= pages[k].granule

\* b is the state after page i.
Taken(pages, b, i) ==
  /\ b \in [ok : BOOLEAN, seen : BOOLEAN, max : Nat]
  /\ b.ok <=> (\A k \in 1 .. i : PageFits(pages, k)) /\ Grows(pages, i)
  /\ b.ok => IF Heard(pages, i) = {} THEN ~b.seen
             ELSE b.seen /\ b.max \in Heard(pages, i) /\ \A h \in Heard(pages, i) : h <= b.max

\* One turn keeps that.
LEMMA TakenStep ==
  ASSUME NEW pages \in Seq(OggPages), NEW i \in 0 .. Len(pages) - 1, NEW b, Taken(pages, b, i)
  PROVE  Taken(pages, After(pages, b, i + 1), i + 1)
<1> DEFINE g == pages[i + 1].granule
           a == After(pages, b, i + 1)
<1>1. g \in Nat /\ i + 1 \in 1 .. Len(pages) /\ \A k \in 1 .. i : pages[k].granule \in Nat
  <2>1. \A k \in 1 .. Len(pages) : pages[k] \in OggPages
    OBVIOUS
  <2>2. \A k \in 1 .. Len(pages) : pages[k].granule \in 0 .. Word - 1
    BY <2>1 DEF OggPages
  <2>3. \A k \in 1 .. Len(pages) : pages[k].granule \in Nat
    BY <2>2, OggAssumption
  <2>4. i + 1 \in 1 .. Len(pages) /\ 1 .. i \subseteq 1 .. Len(pages)
    OBVIOUS
  <2> QED
    BY <2>3, <2>4
<1>2. Heard(pages, i + 1) = Heard(pages, i) \cup ({g} \ {NoGranule})
  <2>1. 1 .. i + 1 = (1 .. i) \cup {i + 1}
    OBVIOUS
  <2> QED
    BY <2>1 DEF Heard
<1>3. Grows(pages, i + 1) <=> Grows(pages, i) /\ (g # NoGranule => \A h \in Heard(pages, i) : h <= g)
  <2>1. ASSUME Grows(pages, i + 1)
        PROVE  Grows(pages, i) /\ (g # NoGranule => \A h \in Heard(pages, i) : h <= g)
    <3>1. Grows(pages, i)
      <4>1. 1 .. i \subseteq 1 .. i + 1
        OBVIOUS
      <4> QED
        BY <2>1, <4>1 DEF Grows
    <3>2. ASSUME g # NoGranule, NEW k \in 1 .. i, pages[k].granule # NoGranule
          PROVE  pages[k].granule <= g
      <4>1. k \in 1 .. i + 1 /\ i + 1 \in 1 .. i + 1 /\ k < i + 1
        OBVIOUS
      <4> QED
        BY <2>1, <3>2, <4>1 DEF Grows
    <3> QED
      BY <3>1, <3>2 DEF Heard
  <2>2. ASSUME Grows(pages, i), g # NoGranule => \A h \in Heard(pages, i) : h <= g
        PROVE  Grows(pages, i + 1)
    <3> SUFFICES ASSUME NEW j \in 1 .. i + 1, NEW k \in 1 .. i + 1, j < k,
                        NoGranule \notin {pages[j].granule, pages[k].granule}
                 PROVE  pages[j].granule <= pages[k].granule
      BY DEF Grows
    <3>1. j \in 1 .. i
      OBVIOUS
    <3>2. CASE k = i + 1
      <4>1. pages[j].granule \in Heard(pages, i)
        BY <3>1 DEF Heard
      <4> QED
        BY <2>2, <3>2, <4>1
    <3>3. CASE k \in 1 .. i
      BY <2>2, <3>1, <3>3 DEF Grows
    <3> QED
      BY <3>2, <3>3
  <2> QED
    BY <2>1, <2>2
<1>4. (\A k \in 1 .. i + 1 : PageFits(pages, k)) <=>
        (\A k \in 1 .. i : PageFits(pages, k)) /\ PageFits(pages, i + 1)
  <2>1. 1 .. i + 1 = (1 .. i) \cup {i + 1}
    OBVIOUS
  <2> QED
    BY <2>1
<1>5. \A h \in Heard(pages, i) : h \in Nat
  BY <1>1 DEF Heard
<1>6. a = IF ~b.ok \/ ~PageFits(pages, i + 1) THEN [b EXCEPT !.ok = FALSE]
          ELSE IF g = NoGranule THEN b
          ELSE IF b.seen /\ g < b.max THEN [b EXCEPT !.ok = FALSE]
          ELSE [ok |-> TRUE, seen |-> TRUE, max |-> g]
  BY DEF After
<1>7. /\ b \in [ok : BOOLEAN, seen : BOOLEAN, max : Nat]
      /\ b.ok <=> (\A k \in 1 .. i : PageFits(pages, k)) /\ Grows(pages, i)
      /\ b.ok => IF Heard(pages, i) = {} THEN ~b.seen
                 ELSE b.seen /\ b.max \in Heard(pages, i) /\ \A h \in Heard(pages, i) : h <= b.max
  BY DEF Taken
<1> HIDE DEF g, a
<1>8. CASE ~b.ok \/ ~PageFits(pages, i + 1)
  <2>1. a = [b EXCEPT !.ok = FALSE]
    BY <1>6, <1>8
  <2>2. a.ok = FALSE /\ a \in [ok : BOOLEAN, seen : BOOLEAN, max : Nat]
    BY <1>7, <2>1
  <2>3. ~((\A k \in 1 .. i + 1 : PageFits(pages, k)) /\ Grows(pages, i + 1))
    BY <1>3, <1>4, <1>7, <1>8
  <2> QED
    BY <2>2, <2>3 DEF Taken, a
<1>9. CASE b.ok /\ PageFits(pages, i + 1) /\ g = NoGranule
  <2>1. a = b /\ Heard(pages, i + 1) = Heard(pages, i)
    BY <1>2, <1>6, <1>9
  <2>2. (\A k \in 1 .. i + 1 : PageFits(pages, k)) /\ Grows(pages, i + 1)
    BY <1>3, <1>4, <1>7, <1>9
  <2> QED
    BY <1>7, <1>9, <2>1, <2>2 DEF Taken, a
<1>10. CASE b.ok /\ PageFits(pages, i + 1) /\ g # NoGranule /\ b.seen /\ g < b.max
  <2>1. a = [b EXCEPT !.ok = FALSE]
    BY <1>6, <1>10
  <2>2. a.ok = FALSE /\ a \in [ok : BOOLEAN, seen : BOOLEAN, max : Nat]
    BY <1>7, <2>1
  <2>3. b.max \in Heard(pages, i) /\ b.max \in Nat
    BY <1>7, <1>10
  <2>4. ~Grows(pages, i + 1)
    BY <1>1, <1>3, <1>10, <2>3
  <2> QED
    BY <2>2, <2>4 DEF Taken, a
<1>11. CASE b.ok /\ PageFits(pages, i + 1) /\ g # NoGranule /\ ~(b.seen /\ g < b.max)
  <2>1. a = [ok |-> TRUE, seen |-> TRUE, max |-> g]
    BY <1>6, <1>11
  <2>2. \A h \in Heard(pages, i) : h <= g
    <3>1. CASE Heard(pages, i) = {}
      BY <3>1
    <3>2. CASE Heard(pages, i) # {}
      <4>1. b.seen /\ b.max \in Nat /\ \A h \in Heard(pages, i) : h <= b.max
        BY <1>7, <1>11, <3>2
      <4>2. b.max <= g
        BY <1>1, <1>11, <4>1
      <4> QED
        BY <1>1, <1>5, <4>1, <4>2
    <3> QED
      BY <3>1, <3>2
  <2>3. (\A k \in 1 .. i + 1 : PageFits(pages, k)) /\ Grows(pages, i + 1)
    BY <1>3, <1>4, <1>7, <1>11, <2>2
  <2>4. g \in Heard(pages, i + 1) /\ \A h \in Heard(pages, i + 1) : h <= g
    BY <1>1, <1>2, <1>11, <2>2
  <2>5. a.ok /\ a.seen /\ a.max = g /\ a \in [ok : BOOLEAN, seen : BOOLEAN, max : Nat]
    BY <1>1, <2>1
  <2> QED
    BY <2>3, <2>4, <2>5 DEF Taken, a
<1>12. b.ok \in BOOLEAN /\ b.seen \in BOOLEAN
  BY <1>7
<1> QED
  BY <1>8, <1>9, <1>10, <1>11, <1>12

\* Walk returns what the pages hold.
LEMMA WalkTaken ==
  ASSUME NEW pages \in Seq(OggPages)
  PROVE  Taken(pages, Walk(pages), Len(pages))
<1> DEFINE n == Len(pages)
<1>1. n \in Nat
  OBVIOUS
<1>2. PICK w : IsWalk(w, pages, n) /\ Walk(pages) = w[n]
  BY <1>1, WalkIs
<1>3. \A i \in 0 .. n : w[i] = IF i = 0 THEN Begin ELSE After(pages, w[i - 1], i)
  <2> HIDE DEF n
  <2> QED
    BY <1>2 DEF IsWalk
<1> DEFINE S == {i \in 0 .. n : Taken(pages, w[i], i)}
<1>4. 0 \in S
  <2>1. 0 \in 0 .. n /\ w[0] = Begin
    BY <1>1, <1>3
  <2>2. Taken(pages, Begin, 0)
    <3>1. 1 .. 0 = {}
      OBVIOUS
    <3>2. Heard(pages, 0) = {} /\ Grows(pages, 0)
      BY <3>1 DEF Heard, Grows
    <3> QED
      BY <3>1, <3>2 DEF Taken, Begin
  <2> QED
    BY <2>1, <2>2
<1>5. ASSUME NEW i \in 0 .. n - 1, i \in S PROVE i + 1 \in S
  <2>1. i + 1 \in 0 .. n /\ i + 1 # 0 /\ (i + 1) - 1 = i
    BY <1>1
  <2>2. w[i + 1] = After(pages, w[i], i + 1)
    BY <1>3, <2>1
  <2>3. Taken(pages, w[i], i)
    BY <1>5
  <2>4. Taken(pages, After(pages, w[i], i + 1), i + 1)
    BY <2>3, TakenStep
  <2> QED
    BY <2>1, <2>2, <2>4
<1>6. 0 .. n \subseteq S
  <2> HIDE DEF S, n
  <2> QED
    BY <1>1, <1>4, <1>5, Induction
<1>7. n \in 0 .. n
  BY <1>1
<1> QED
  BY <1>2, <1>6, <1>7

-----------------------------------------------------------------------------
(* One logical stream *)

\* What WellFormed asks of page i, and of the pages together.
PageOf(pages, i) ==
  /\ pages[i].ok
  /\ pages[i].serial = pages[1].serial
  /\ pages[i].bos <=> i = 1
  /\ pages[i].eos => i = Len(pages)
  /\ pages[i].seq = (pages[1].seq + i - 1) % SeqWord

\* The pages are numbered from the first on, modulo 2^32, exactly when each page has
\* the number after the one before it.
LEMMA Numbered ==
  ASSUME NEW pages \in Seq(OggPages), pages # <<>>
  PROVE  (\A i \in 1 .. Len(pages) : pages[i].seq = (pages[1].seq + i - 1) % SeqWord) <=>
         (\A i \in 2 .. Len(pages) : pages[i].seq = (pages[i - 1].seq + 1) % SeqWord)
<1> DEFINE n    == Len(pages)
           s(i) == pages[i].seq
<1>1. n \in Nat /\ n >= 1
  OBVIOUS
<1>2. \A i \in 1 .. n : s(i) \in 0 .. SeqWord - 1
  <2>1. \A i \in 1 .. n : pages[i] \in OggPages
    OBVIOUS
  <2> QED
    BY <2>1 DEF OggPages
<1>3. SeqWord \in Nat \ {0}
  BY OggAssumption
<1>4. s(1) \in Nat /\ s(1) % SeqWord = s(1)
  <2>1. s(1) \in 0 .. SeqWord - 1
    BY <1>1, <1>2
  <2>2. ASSUME NEW x \in 0 .. SeqWord - 1 PROVE x % SeqWord = x
    BY <1>3
  <2> HIDE DEF s
  <2> QED
    BY <2>1, <2>2
<1> HIDE DEF n, s
<1>5. ASSUME \A i \in 1 .. n : s(i) = (s(1) + i - 1) % SeqWord, NEW i \in 2 .. n
      PROVE  s(i) = (s(i - 1) + 1) % SeqWord
  <2> DEFINE x == s(1) + (i - 1) - 1
  <2>1. i - 1 \in 1 .. n /\ i \in 1 .. n /\ x \in Int /\ x + 1 = s(1) + i - 1
    BY <1>1, <1>4
  <2>2. s(i - 1) = x % SeqWord /\ s(i) = (x + 1) % SeqWord
    BY <1>5, <2>1
  <2>3. ((x % SeqWord) + 1) % SeqWord = (x + 1) % SeqWord
    <3> HIDE DEF x
    <3> QED
      BY <1>3, <2>1, ModStep
  <2> QED
    BY <2>2, <2>3
<1>6. ASSUME \A i \in 2 .. n : s(i) = (s(i - 1) + 1) % SeqWord
      PROVE  \A i \in 1 .. n : s(i) = (s(1) + i - 1) % SeqWord
  <2> DEFINE S == {k \in 0 .. n - 1 : s(k + 1) = (s(1) + k) % SeqWord}
  <2>1. 0 \in S
    BY <1>1, <1>4
  <2>2. ASSUME NEW k \in 0 .. (n - 1) - 1, k \in S PROVE k + 1 \in S
    <3>1. k + 2 \in 2 .. n /\ (k + 2) - 1 = k + 1 /\ k + 1 \in 0 .. n - 1
      BY <1>1
    <3>2. s(k + 2) = (s(k + 1) + 1) % SeqWord
      BY <1>6, <3>1
    <3>3. s(k + 1) = (s(1) + k) % SeqWord
      BY <2>2
    <3> DEFINE x == s(1) + k
    <3>4. x \in Int /\ x + 1 = s(1) + (k + 1)
      BY <1>4
    <3>5. ((x % SeqWord) + 1) % SeqWord = (x + 1) % SeqWord
      <4> HIDE DEF x
      <4> QED
        BY <1>3, <3>4, ModStep
    <3>6. s(k + 2) = (s(1) + (k + 1)) % SeqWord
      BY <3>2, <3>3, <3>4, <3>5
    <3>7. (k + 1) + 1 = k + 2
      OBVIOUS
    <3> QED
      BY <3>1, <3>6, <3>7
  <2>3. 0 .. n - 1 \subseteq S
    <3>1. n - 1 \in Nat
      BY <1>1
    <3> HIDE DEF S
    <3> QED
      BY <2>1, <2>2, <3>1, Induction
  <2> TAKE i \in 1 .. n
  <2>4. i - 1 \in 0 .. n - 1 /\ (i - 1) + 1 = i /\ s(1) + (i - 1) = s(1) + i - 1
    BY <1>1, <1>4
  <2>5. s((i - 1) + 1) = (s(1) + (i - 1)) % SeqWord
    BY <2>3, <2>4
  <2> QED
    BY <2>4, <2>5
<1> QED
  BY <1>5, <1>6 DEF n, s

\* The walk's look at each page and the page before it is WellFormed's look at the
\* whole file.
LEMMA FitsWell ==
  ASSUME NEW pages \in Seq(OggPages), pages # <<>>
  PROVE  (\A i \in 1 .. Len(pages) : PageFits(pages, i)) <=>
         (\A i \in 1 .. Len(pages) : PageOf(pages, i)) /\ pages[1].head # NoHead
<1> DEFINE n == Len(pages)
           Follows == \A i \in 2 .. n : pages[i].seq = (pages[i - 1].seq + 1) % SeqWord
<1>1. n \in Nat /\ n >= 1 /\ \A i \in 1 .. n : pages[i] \in OggPages
  OBVIOUS
<1>2. \A i \in 1 .. n : pages[i].ok \in BOOLEAN /\ pages[i].bos \in BOOLEAN /\ pages[i].eos \in BOOLEAN
  BY <1>1 DEF OggPages
<1>3. (\A i \in 1 .. n : pages[i].seq = (pages[1].seq + i - 1) % SeqWord) <=> Follows
  BY Numbered
<1>4. ASSUME \A i \in 1 .. n : PageFits(pages, i)
      PROVE  (\A i \in 1 .. n : PageOf(pages, i)) /\ pages[1].head # NoHead
  <2>1. pages[1].bos /\ pages[1].head # NoHead
    BY <1>1, <1>4 DEF PageFits
  <2>2. Follows
    BY <1>1, <1>4 DEF PageFits
  <2> SUFFICES ASSUME NEW i \in 1 .. n PROVE PageOf(pages, i)
    BY <2>1
  <2>3. pages[i].ok
    BY <1>4 DEF PageFits
  <2>4. pages[i].serial = pages[1].serial /\ (i # 1 => ~pages[i].bos)
    BY <1>1, <1>4 DEF PageFits
  <2>5. ASSUME pages[i].eos, i # n PROVE FALSE
    <3>1. i + 1 \in 1 .. n /\ i + 1 > 1 /\ (i + 1) - 1 = i
      BY <1>1, <2>5
    <3>2. ~pages[(i + 1) - 1].eos
      BY <1>4, <3>1 DEF PageFits
    <3> QED
      BY <2>5, <3>1, <3>2
  <2>6. pages[i].seq = (pages[1].seq + i - 1) % SeqWord
    BY <1>3, <2>2
  <2>7. pages[i].bos <=> i = 1
    BY <1>2, <2>1, <2>4
  <2> QED
    BY <2>3, <2>4, <2>5, <2>6, <2>7 DEF PageOf
<1>5. ASSUME \A i \in 1 .. n : PageOf(pages, i), pages[1].head # NoHead, NEW i \in 1 .. n
      PROVE  PageFits(pages, i)
  <2>1. Follows
    BY <1>3, <1>5 DEF PageOf
  <2>2. i > 1 => ~pages[i - 1].eos
    <3> SUFFICES ASSUME i > 1, pages[i - 1].eos PROVE FALSE
      BY <1>1, <1>2
    <3>1. i - 1 \in 1 .. n /\ i - 1 # n
      BY <1>1
    <3> QED
      BY <1>5, <3>1 DEF PageOf
  <2>3. pages[i].ok /\ pages[i].serial = pages[1].serial /\ (pages[i].bos <=> i = 1)
    BY <1>5 DEF PageOf
  <2>4. i # 1 => pages[i].seq = (pages[i - 1].seq + 1) % SeqWord
    BY <1>1, <2>1
  <2> HIDE DEF Follows, n
  <2> QED
    BY <1>5, <2>2, <2>3, <2>4 DEF PageFits
<1> QED
  BY <1>4, <1>5

-----------------------------------------------------------------------------
(* The duration *)

\* The states of the walk and the granules of a file are numbers.
LEMMA FileTypes ==
  ASSUME NEW f \in OggBytes
  PROVE  /\ f.pages \in Seq(OggPages) /\ f.len \in Nat
         /\ \A i \in 1 .. Len(f.pages) : f.pages[i] \in OggPages
         /\ \A i \in 1 .. Len(f.pages) : f.pages[i].granule \in Nat
         /\ Granules(f) = Heard(f.pages, Len(f.pages)) /\ Granules(f) \subseteq Nat
<1>1. f.pages \in Seq(OggPages) /\ f.len \in Nat
  BY DEF OggBytes
<1>2. \A i \in 1 .. Len(f.pages) : f.pages[i] \in OggPages
  BY <1>1
<1>3. \A i \in 1 .. Len(f.pages) : f.pages[i].granule \in 0 .. Word - 1
  BY <1>2 DEF OggPages
<1>4. \A i \in 1 .. Len(f.pages) : f.pages[i].granule \in Nat
  BY <1>3, OggAssumption
<1>5. DOMAIN f.pages = 1 .. Len(f.pages)
  BY <1>1
<1>6. Granules(f) = Heard(f.pages, Len(f.pages))
  BY <1>5 DEF Granules, Heard
<1>7. Granules(f) \subseteq Nat
  BY <1>4, <1>6 DEF Heard
<1> QED
  BY <1>1, <1>2, <1>4, <1>6, <1>7

\* The walk gets to the end exactly on the files that are one logical stream.
LEMMA WalkAccepts ==
  ASSUME NEW f \in OggBytes, f.pages # <<>>
  PROVE  Walk(f.pages).ok <=> WellFormed(f)
<1> DEFINE n == Len(f.pages)
<1>1. f.pages \in Seq(OggPages) /\ DOMAIN f.pages = 1 .. n
  BY FileTypes
<1>2. Walk(f.pages).ok <=> (\A k \in 1 .. n : PageFits(f.pages, k)) /\ Grows(f.pages, n)
  BY <1>1, WalkTaken DEF Taken
<1>3. (\A k \in 1 .. n : PageFits(f.pages, k)) <=>
        (\A k \in 1 .. n : PageOf(f.pages, k)) /\ f.pages[1].head # NoHead
  BY <1>1, FitsWell
<1>4. WellFormed(f) <=>
        (\A k \in 1 .. n : PageOf(f.pages, k)) /\ f.pages[1].head # NoHead /\ Grows(f.pages, n)
  BY <1>1, Zenon DEF WellFormed, PageOf, Grows
<1> QED
  BY <1>2, <1>3, <1>4

\* Both are computed from x: less than 2^64 unless the sum wraps.
SameFrom(f, x) ==
  /\ OggDurationSeconds(f) =
       OggMax(OggMin((x % Word) \div Rate, MaxSeconds), CeilDiv(f.len, BytesPerSecond))
  /\ DurationOf(f) = OggMax(OggMin(x \div Rate, MaxSeconds), CeilDiv(f.len, BytesPerSecond))
  /\ ~Wraps(f) => x < Word

\* The function and its comment say 0 of the same files, and differ for the others by
\* the width of the sum only.
LEMMA Durations ==
  ASSUME NEW f \in OggBytes
  PROVE  \/ OggDurationSeconds(f) = 0 /\ DurationOf(f) = 0
         \/ \E x \in Nat : SameFrom(f, x)
<1> DEFINE w == Walk(f.pages)
           G == Granules(f)
           n == Len(f.pages)
<1>1. f.pages \in Seq(OggPages) /\ G \subseteq Nat /\ G = Heard(f.pages, n)
  BY FileTypes
<1>2. /\ w \in [ok : BOOLEAN, seen : BOOLEAN, max : Nat]
      /\ w.ok => IF G = {} THEN ~w.seen
                 ELSE w.seen /\ w.max \in G /\ \A h \in G : h <= w.max
  BY <1>1, WalkTaken DEF Taken
<1>3. CASE f.pages = <<>>
  <2>1. ~WellFormed(f)
    BY <1>3 DEF WellFormed
  <2>2. G = {}
    BY <1>3 DEF Granules
  <2>3. ~w.ok \/ ~w.seen
    BY <1>2, <2>2
  <2> QED
    BY <2>1, <2>3 DEF OggDurationSeconds, DurationOf
<1>4. CASE f.pages # <<>> /\ ~w.ok
  <2>1. ~WellFormed(f)
    BY <1>4, WalkAccepts
  <2> QED
    BY <1>4, <2>1 DEF OggDurationSeconds, DurationOf
<1>5. CASE f.pages # <<>> /\ w.ok
  <2> DEFINE p == f.pages[1].head
  <2>1. WellFormed(f)
    BY <1>5, WalkAccepts
  <2>2. p \in Nat
    <3>1. f.pages[1] \in OggPages /\ p # NoHead
      BY <1>1, <1>5, <2>1 DEF WellFormed
    <3> QED
      BY <3>1 DEF OggPages
  <2>3. CASE \A g \in G : g <= p
    <3>1. ~w.seen \/ w.max <= p
      BY <1>2, <1>5, <2>3
    <3> QED
      BY <2>3, <3>1 DEF OggDurationSeconds, DurationOf
  <2>4. CASE ~(\A g \in G : g <= p)
    <3>1. w.seen /\ w.max \in G /\ (\A h \in G : h <= w.max) /\ w.max \in Nat
      BY <1>2, <1>5, <2>4
    <3>2. w.max > p
      <4>1. PICK g \in G : ~(g <= p)
        BY <2>4
      <4> QED
        BY <1>1, <2>2, <3>1, <4>1
    <3> DEFINE last == CHOOSE g \in G : \A h \in G : h <= g
    <3>3. last = w.max
      <4>1. last \in G /\ \A h \in G : h <= last
        BY <3>1
      <4> HIDE DEF last
      <4> QED
        BY <1>1, <3>1, <4>1
    <3> DEFINE sum == w.max - p + Rate - 1
    <3>4. sum \in Nat
      BY <2>2, <3>1, <3>2, OggAssumption
    <3>5. ~Wraps(f) => sum < Word
      BY <1>1, <2>2, <3>1, OggAssumption DEF Wraps
    <3>7. OggDurationSeconds(f) =
            OggMax(OggMin((sum % Word) \div Rate, MaxSeconds), CeilDiv(f.len, BytesPerSecond))
      <4>1. ~(~w.ok \/ ~w.seen \/ w.max <= p)
        BY <1>5, <2>2, <3>1, <3>2
      <4> QED
        BY <4>1, Zenon DEF OggDurationSeconds
    <3>8. DurationOf(f) =
            OggMax(OggMin(CeilDiv(last - p, Rate), MaxSeconds), CeilDiv(f.len, BytesPerSecond))
      BY <2>1, <2>4, Zenon DEF DurationOf
    <3>9. CeilDiv(last - p, Rate) = sum \div Rate
      BY <3>3 DEF CeilDiv
    <3> HIDE DEF sum, last
    <3>10. SameFrom(f, sum)
      BY <3>5, <3>7, <3>8, <3>9 DEF SameFrom
    <3> QED
      BY <3>4, <3>10
  <2> QED
    BY <2>3, <2>4
<1>6. w.ok \in BOOLEAN
  BY <1>2
<1> HIDE DEF w
<1> QED
  BY <1>3, <1>4, <1>5, <1>6

\* For every file whose last granule is not within a second of 2^64,
\* OggDurationSeconds returns what its comment says (media.go: OggDurationSeconds).
THEOREM DurationIsTrue ==
  ASSUME NEW f \in OggBytes, ~Wraps(f)
  PROVE  OggDurationSeconds(f) = DurationOf(f)
<1>1. ASSUME NEW x \in Nat, SameFrom(f, x)
      PROVE  OggDurationSeconds(f) = DurationOf(f)
  <2>1. x \in 0 .. Word - 1
    BY <1>1, OggAssumption DEF SameFrom
  <2>2. x % Word = x
    BY <2>1, OggAssumption
  <2> QED
    BY <1>1, <2>2 DEF SameFrom
<1> QED
  BY <1>1, Durations

\* A quotient grows with the number.
LEMMA DivGrows ==
  ASSUME NEW M \in Nat \ {0}, NEW a \in Nat, NEW b \in Nat, a <= b
  PROVE  a \div M <= b \div M
<1> DEFINE p == a \div M
           q == b \div M
<1>1. a = M * p + (a % M) /\ p \in Int /\ a % M \in 0 .. M - 1
  BY ModDiv, ModRange
<1>2. b = M * q + (b % M) /\ q \in Int /\ b % M \in 0 .. M - 1
  BY ModDiv, ModRange
<1> HIDE DEF p, q
<1>3. ASSUME p >= q + 1 PROVE FALSE
  <2>1. M * p >= M * (q + 1)
    BY <1>1, <1>2, <1>3
  <2>2. M * (q + 1) = M * q + M
    BY <1>2
  <2> QED
    BY <1>1, <1>2, <2>1, <2>2
<1> QED
  BY <1>1, <1>2, <1>3 DEF p, q

\* Also when the sum wraps, the duration is never longer than the pages stand for: a
\* file over the cap by it is over the cap (media.go: OggDurationSeconds).
THEOREM DurationNeverMore ==
  ASSUME NEW f \in OggBytes
  PROVE  DurationOf(f) \in Nat /\ OggDurationSeconds(f) <= DurationOf(f)
<1>1. ASSUME NEW x \in Nat, SameFrom(f, x)
      PROVE  DurationOf(f) \in Nat /\ OggDurationSeconds(f) <= DurationOf(f)
  <2>1. x % Word \in Nat /\ x % Word <= x
    BY OggAssumption
  <2>2. (x % Word) \div Rate <= x \div Rate
    BY <2>1, OggAssumption, DivGrows
  <2>3. (x % Word) \div Rate \in Nat /\ x \div Rate \in Nat
    BY <2>1, OggAssumption
  <2>4. CeilDiv(f.len, BytesPerSecond) \in Nat
    <3>1. f.len \in Nat
      BY FileTypes
    <3> QED
      BY <3>1, OggAssumption DEF CeilDiv
  <2> QED
    BY <1>1, <2>2, <2>3, <2>4, OggAssumption DEF SameFrom, OggMax, OggMin
<1> QED
  BY <1>1, Durations

\* Whatever the pages say, the duration is a number, and not less than what the size
\* of the file stands for unless it is 0 (media.go: OggDurationSeconds).
THEOREM DurationIsNumber ==
  ASSUME NEW f \in OggBytes
  PROVE  /\ OggDurationSeconds(f) \in Nat
         /\ OggDurationSeconds(f) # 0 => OggDurationSeconds(f) >= CeilDiv(f.len, BytesPerSecond)
<1> DEFINE w   == Walk(f.pages)
           sum == (w.max - f.pages[1].head + Rate - 1) % Word
           c   == CeilDiv(f.len, BytesPerSecond)
           d   == sum \div Rate
<1>1. f.pages \in Seq(OggPages) /\ f.len \in Nat
  BY FileTypes
<1>2. w \in [ok : BOOLEAN, seen : BOOLEAN, max : Nat] /\ (w.seen /\ w.ok => f.pages # <<>>)
  <2>1. Taken(f.pages, w, Len(f.pages))
    BY <1>1, WalkTaken
  <2>2. f.pages = <<>> => Heard(f.pages, Len(f.pages)) = {}
    <3>1. Len(<<>>) = 0 /\ 1 .. 0 = {}
      OBVIOUS
    <3> QED
      BY <3>1 DEF Heard
  <2> HIDE DEF w
  <2> QED
    BY <2>1, <2>2 DEF Taken
<1>3. c \in Nat
  BY <1>1, OggAssumption DEF CeilDiv
<1>4. CASE w.ok /\ w.seen /\ ~(w.max <= f.pages[1].head)
  <2>1. f.pages[1].head \in Int
    <3>1. f.pages[1] \in OggPages
      BY <1>1, <1>2, <1>4
    <3> QED
      BY <3>1 DEF OggPages, NoHead
  <2>2. sum \in Nat
    <3> DEFINE x == w.max - f.pages[1].head + Rate - 1
    <3>1. x \in Int
      BY <1>2, <2>1, OggAssumption
    <3> HIDE DEF x
    <3>2. x % Word \in 0 .. Word - 1
      BY <3>1, OggAssumption, ModRange
    <3> QED
      BY <3>2, OggAssumption DEF x
  <2>3. d \in Nat
    <3> HIDE DEF sum
    <3> QED
      BY <2>2, OggAssumption
  <2>4. OggDurationSeconds(f) = OggMax(OggMin(d, MaxSeconds), c)
    BY <1>4, Zenon DEF OggDurationSeconds
  <2>5. OggDurationSeconds(f) \in Nat /\ OggDurationSeconds(f) >= c
    <3> HIDE DEF c, d
    <3> QED
      BY <1>3, <2>3, <2>4, OggAssumption DEF OggMax, OggMin
  <2> QED
    BY <2>5
<1>5. CASE ~(w.ok /\ w.seen /\ ~(w.max <= f.pages[1].head))
  <2>1. OggDurationSeconds(f) = 0
    BY <1>5, Zenon DEF OggDurationSeconds
  <2> QED
    BY <2>1
<1> QED
  BY <1>4, <1>5
=============================================================================
