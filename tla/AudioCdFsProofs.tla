-------------------------- MODULE AudioCdFsProofs --------------------------
(***************************************************************************)
(* Proofs about AudioCdFs and CueSheet, for any discs and sheets, frames   *)
(* and headers of any size, any threads, handles, reads, seeks and faults: *)
(* types, tables of contents and the bytes that reads deliver.             *)
(***************************************************************************)
EXTENDS AudioCdFs, FiniteSetTheorems, WellFoundedInduction, TLAPS

(* Sets of numbers, sequences *)

\* A set of naturals that is not empty has a least element.
LEMMA LeastIs ==
  ASSUME NEW M, M \subseteq Nat, M # {}
  PROVE  \E m \in M : \A k \in M : m <= k
<1> DEFINE R == {ss \in Nat \X Nat : ss[1] < ss[2]}
<1>1. IsWellFoundedOn(R, Nat)
  BY NatLessThanWellFounded, Zenon DEF OpToRel
<1> HIDE DEF R
<1>2. PICK m \in M : \A k \in M : ~(<<k, m>> \in R)
  BY <1>1, WFMin
<1>3. ASSUME NEW k \in M, k < m PROVE FALSE
  <2>1. <<k, m>> \in R
    BY <1>3 DEF R
  <2>2. QED
    BY <2>1, <1>2
<1>4. m \in Nat /\ \A k \in M : k \in Nat
  OBVIOUS
<1>5. QED
  BY <1>3, <1>4

\* Appending to a sequence keeps what is in it.
LEMMA Appends ==
  ASSUME NEW S, NEW s \in Seq(S), NEW e \in S
  PROVE  /\ Append(s, e) \in Seq(S) /\ Len(Append(s, e)) = Len(s) + 1
         /\ \A i \in 1..Len(s) : Append(s, e)[i] = s[i]
         /\ Append(s, e)[Len(s) + 1] = e
  OBVIOUS

-----------------------------------------------------------------------------
(* The scan of a cue sheet *)

(* g is the scan of the first n lines.                                     *)
ScansTo(l, n, g) == g = [i \in 0..n |-> IF i = 0 THEN NothingScanned ELSE ScanLine(g[i - 1], l[i])]

\* There is one for each number of lines.
LEMMA ScanThere ==
  ASSUME NEW l \in Seq(Line), NEW n \in 0..Len(l)
  PROVE  \E g : ScansTo(l, n, g)
<1> DEFINE M == {m \in 0..Len(l) : ~ \E g : ScansTo(l, m, g)}
<1>1. SUFFICES M = {}
  OBVIOUS
<1>2. SUFFICES ASSUME M # {} PROVE FALSE
  OBVIOUS
<1>3. M \subseteq Nat
  OBVIOUS
<1>4. PICK m \in M : \A k \in M : m <= k
  BY <1>2, <1>3, LeastIs
<1>5. m \in Nat /\ m <= Len(l) /\ Len(l) \in Nat
  OBVIOUS
<1>6. CASE m = 0
  <2> DEFINE g == [i \in 0..0 |-> NothingScanned]
  <2>1. g = [i \in 0..0 |-> IF i = 0 THEN NothingScanned ELSE ScanLine(g[i - 1], l[i])]
    OBVIOUS
  <2>2. ScansTo(l, m, g)
    BY <2>1, <1>6 DEF ScansTo
  <2>3. QED
    BY <2>2
<1>7. CASE m # 0
  <2>1. m - 1 \in 0..Len(l) /\ m - 1 \notin M
    BY <1>4, <1>5, <1>7
  <2>2. PICK g : ScansTo(l, m - 1, g)
    BY <2>1
  <2> DEFINE h == [i \in 0..m |-> IF i = m THEN ScanLine(g[m - 1], l[m]) ELSE g[i]]
  <2>3. DOMAIN g = 0..(m - 1)
    BY <2>2 DEF ScansTo
  <2>4. ASSUME NEW i \in 0..m
        PROVE  h[i] = IF i = 0 THEN NothingScanned ELSE ScanLine(h[i - 1], l[i])
    <3>1. CASE i = m
      <4>1. h[i - 1] = g[m - 1] /\ h[i] = ScanLine(g[m - 1], l[m])
        BY <3>1, <1>5, <1>7
      <4>2. QED
        BY <4>1, <3>1, <1>7
    <3>2. CASE i # m /\ i # 0
      <4>1. i \in 0..(m - 1) /\ i - 1 \in 0..(m - 1) /\ i - 1 # m /\ i - 1 \in 0..m
        BY <3>2, <1>5
      <4>2. h[i - 1] = g[i - 1] /\ h[i] = g[i]
        BY <4>1, <3>2
      <4>3. g[i] = ScanLine(g[i - 1], l[i])
        BY <4>1, <3>2, <2>2, Zenon DEF ScansTo
      <4>4. QED
        BY <4>2, <4>3, <3>2
    <3>3. CASE i = 0
      <4>1. h[i] = g[0] /\ 0 \in 0..(m - 1)
        BY <3>3, <1>5, <1>7
      <4>2. g[0] = NothingScanned
        BY <4>1, <2>2, Zenon DEF ScansTo
      <4>3. QED
        BY <4>1, <4>2, <3>3
    <3>4. QED
      BY <3>1, <3>2, <3>3
  <2>5. ScansTo(l, m, h)
    <3> DEFINE F(i) == IF i = 0 THEN NothingScanned ELSE ScanLine(h[i - 1], l[i])
               G(i) == IF i = m THEN ScanLine(g[m - 1], l[m]) ELSE g[i]
    <3>1. h = [i \in 0..m |-> G(i)]
      OBVIOUS
    <3>2. \A i \in 0..m : G(i) = F(i)
      BY <2>4
    <3> HIDE DEF F, G
    <3>3. h = [i \in 0..m |-> F(i)]
      BY <3>1, <3>2, Zenon
    <3>4. QED
      BY <3>3, Zenon DEF F, ScansTo
  <2>6. QED
    BY <2>5
<1>8. QED
  BY <1>6, <1>7

\* What Scan is, line by line.
LEMMA ScanIs ==
  ASSUME NEW l \in Seq(Line)
  PROVE  /\ Scan(l)[0] = NothingScanned
         /\ \A i \in 1..Len(l) : Scan(l)[i] = ScanLine(Scan(l)[i - 1], l[i])
<1> DEFINE s == Scan(l)
<1>0. Len(l) \in Nat
  OBVIOUS
<1>1. \E g : ScansTo(l, Len(l), g)
  BY <1>0, ScanThere
<1>2. s = CHOOSE g : ScansTo(l, Len(l), g)
  BY Zenon DEF Scan, ScansTo
<1>3. ScansTo(l, Len(l), s)
  BY <1>1, <1>2
<1> HIDE DEF s
<1>4. \A i \in 0..Len(l) : s[i] = IF i = 0 THEN NothingScanned ELSE ScanLine(s[i - 1], l[i])
  BY <1>3, Zenon DEF ScansTo
<1>5. s[0] = NothingScanned
  BY <1>0, <1>4
<1>6. ASSUME NEW i \in 1..Len(l) PROVE s[i] = ScanLine(s[i - 1], l[i])
  <2>1. i \in 0..Len(l) /\ i # 0
    OBVIOUS
  <2>2. QED
    BY <2>1, <1>4, Zenon
<1>7. QED
  BY <1>5, <1>6 DEF s

-----------------------------------------------------------------------------
(* What a scan has found *)

\* How many tracks begin before line i.
Before(l, i) == Cardinality({j \in LinesOf(l, "TRACK") : j < i})

\* The lines of tracks are finitely many.
LEMMA BeforeIs ==
  ASSUME NEW l \in Seq(Line), NEW i \in Nat
  PROVE  /\ Before(l, i) \in Nat
         /\ Before(l, i + 1) = Before(l, i) + (IF i \in LinesOf(l, "TRACK") THEN 1 ELSE 0)
<1> DEFINE T == LinesOf(l, "TRACK")
           S(n) == {j \in T : j < n}
<1>1. Len(l) \in Nat /\ T \subseteq 1..Len(l)
  BY DEF LinesOf
<1>2. IsFiniteSet(T)
  <2>1. IsFiniteSet(1..Len(l)) /\ T \in SUBSET (1..Len(l))
    BY <1>1, FS_Interval
  <2>2. QED
    BY <2>1, FS_Subset, Zenon
<1>3. \A j \in T : j \in Nat
  BY <1>1
<1> HIDE DEF T
<1>4. i \in T => S(i + 1) = S(i) \cup {i} /\ i \notin S(i)
  <2>1. \A j \in T : j < i + 1 <=> j < i \/ j = i
    BY <1>3
  <2>2. ~(i < i)
    OBVIOUS
  <2>3. QED
    BY <2>1, <2>2, Zenon
<1>5. i \notin T => S(i + 1) = S(i)
  <2>1. \A j \in T : j < i + 1 <=> j < i \/ j = i
    BY <1>3
  <2>2. QED
    BY <2>1
<1>6. S(i) \in SUBSET T /\ Before(l, i) = Cardinality(S(i))
      /\ Before(l, i + 1) = Cardinality(S(i + 1))
  BY Zenon DEF Before, T
<1> HIDE DEF S
<1>7. IsFiniteSet(S(i))
  BY <1>2, <1>6, FS_Subset, Zenon
<1>8. Cardinality(S(i)) \in Nat
  BY <1>7, FS_CardinalityType, Zenon
<1>9. i \in T => Cardinality(S(i + 1)) = Cardinality(S(i)) + 1
  <2>1. Cardinality(S(i) \cup {i}) = IF i \in S(i) THEN Cardinality(S(i)) ELSE Cardinality(S(i)) + 1
    BY <1>7, FS_AddElement, Zenon
  <2>2. QED
    BY <1>4, <2>1, Zenon
<1>10. QED
  BY <1>5, <1>6, <1>8, <1>9 DEF T

\* Of tracks, each has one before it more than the last.
LEMMA BeforeGrows ==
  ASSUME NEW l \in Seq(Line), NEW i \in Nat, NEW j \in Nat, i <= j
  PROVE  Before(l, i) <= Before(l, j)
<1> DEFINE T == LinesOf(l, "TRACK")
           S(n) == {m \in T : m < n}
<1>1. Len(l) \in Nat /\ T \subseteq 1..Len(l)
  BY DEF LinesOf
<1>2. IsFiniteSet(T)
  <2>1. IsFiniteSet(1..Len(l)) /\ T \in SUBSET (1..Len(l))
    BY <1>1, FS_Interval
  <2>2. QED
    BY <2>1, FS_Subset, Zenon
<1>3. \A n \in T : n \in Nat
  BY <1>1
<1> HIDE DEF T
<1>4. S(i) \in SUBSET S(j)
  BY <1>3
<1>5. IsFiniteSet(S(j))
  <2>1. S(j) \in SUBSET T
    OBVIOUS
  <2>2. QED
    BY <1>2, <2>1, FS_Subset, Zenon
<1>6. Cardinality(S(i)) <= Cardinality(S(j))
  BY <1>4, <1>5, FS_Subset, Zenon
<1>7. QED
  BY <1>6, Zenon DEF Before, T

\* A time a sheet gives.
Time == [min : 0..255, sec : 0..59, frame : 0..74]
TimeIn(line) == [min |-> line.min, sec |-> line.sec, frame |-> line.frame]

(* What the scan of the first n lines knows: of each track that has begun, *)
(* the time of its INDEX 01 if that has been seen, at the track's place.   *)
(* The last one to begin is the current one.                               *)
Known(l, n, p) ==
  /\ \A i \in LinesOf(l, "TRACK") : i <= n =>
       \A j : StartsOf(l, i) = {j} =>
         p[Before(l, i) + 1] = IF j <= n THEN TimeIn(l[j]) ELSE CueTrack
  /\ \A k \in 0 .. Len(p) - 1 : \E i \in LinesOf(l, "TRACK") : i <= n /\ Before(l, i) = k

Scanned(l, n, s) ==
  /\ s \in [tracks : Seq(Time), current : Time, inTrack : BOOLEAN]
  /\ Len(Pushed(s)) = Before(l, n + 1)
  /\ s.inTrack => \E i \in LinesOf(l, "TRACK") :
       i <= n /\ \A h \in LinesOf(l, "TRACK") : h <= n => h <= i
  /\ ~s.inTrack => s.tracks = <<>> /\ \A h \in LinesOf(l, "TRACK") : ~(h <= n)
  /\ Known(l, n, Pushed(s))

\* Nothing is known before the first line.
LEMMA NothingKnown ==
  ASSUME NEW l \in Seq(Line)
  PROVE  Scanned(l, 0, NothingScanned)
<1> DEFINE s == NothingScanned
           T == LinesOf(l, "TRACK")
<1>1. /\ s.tracks = <<>> /\ s.current = CueTrack /\ s.inTrack = FALSE /\ Pushed(s) = <<>>
      /\ CueTrack \in Time
  BY DEF NothingScanned, Pushed, Time, CueTrack
<1>2. \A h \in T : ~(h <= 0)
  BY DEF LinesOf
<1>3. Before(l, 0 + 1) = 0
  <2>1. {j \in T : j < 1} = {}
    BY DEF LinesOf
  <2>2. Before(l, 1) = Cardinality({})
    BY <2>1, Zenon DEF Before
  <2>3. QED
    BY <2>2, FS_EmptySet
<1> HIDE DEF s, T
<1>4. Known(l, 0, Pushed(s))
  <2>1. Len(Pushed(s)) = 0
    BY <1>1
  <2>2. 0 .. Len(Pushed(s)) - 1 = {}
    BY <2>1
  <2>3. QED
    BY <1>2, <2>2 DEF Known, T
<1>5. s \in [tracks : Seq(Time), current : Time, inTrack : BOOLEAN]
  BY <1>1 DEF NothingScanned, s
<1>6. Len(<<>>) = 0
  OBVIOUS
<1>7. QED
  BY <1>1, <1>6, <1>2, <1>3, <1>4, <1>5, Zenon DEF Scanned, s, T

(* A track begins: it comes behind the others, and its time is not known.  *)
LEMMA TrackKnown ==
  ASSUME NEW l \in Seq(Line), NEW n \in Nat, n + 1 \in LinesOf(l, "TRACK"),
         NEW p \in Seq(Time), Len(p) = Before(l, n + 1), Known(l, n, p)
  PROVE  /\ Append(p, CueTrack) \in Seq(Time)
         /\ Len(Append(p, CueTrack)) = Before(l, (n + 1) + 1)
         /\ Known(l, n + 1, Append(p, CueTrack))
<1> DEFINE T == LinesOf(l, "TRACK")
           q == Append(p, CueTrack)
<1>1. CueTrack \in Time /\ Len(p) \in Nat
  BY DEF Time, CueTrack
<1>2. q \in Seq(Time) /\ Len(q) = Len(p) + 1 /\ q[Len(p) + 1] = CueTrack
      /\ (\A k \in 1..Len(p) : q[k] = p[k]) /\ Len(p) \in Nat
  BY <1>1, Appends
<1>3. Before(l, (n + 1) + 1) = Before(l, n + 1) + 1
  BY BeforeIs
<1>4. \A i \in T : i \in Nat
  BY DEF LinesOf
<1>5. n + 1 \in T
  OBVIOUS
<1> HIDE DEF q, T
<1>6. ASSUME NEW i \in T, i <= n + 1, NEW j, StartsOf(l, i) = {j}
      PROVE  q[Before(l, i) + 1] = IF j <= n + 1 THEN TimeIn(l[j]) ELSE CueTrack
  <2>1. j \in LinesOf(l, "INDEX") /\ i < j /\ j \in Nat
    BY <1>6 DEF StartsOf, LinesOf
  <2>2. j # n + 1
    BY <2>1, <1>5 DEF T, LinesOf
  <2>3. CASE i = n + 1
    <3>1. q[Before(l, i) + 1] = CueTrack
      BY <1>2, <2>3
    <3>2. ~(j <= n + 1)
      BY <2>1, <2>3
    <3>3. QED
      BY <3>1, <3>2
  <2>4. CASE i # n + 1
    <3>1. i \in Nat /\ i <= n
      BY <1>4, <1>6, <2>4
    <3>2. Before(l, i + 1) = Before(l, i) + 1 /\ Before(l, i) \in Nat
      BY <3>1, BeforeIs DEF T
    <3>3. Before(l, i + 1) <= Before(l, n + 1)
      BY <3>1, BeforeGrows
    <3>4. Before(l, i) + 1 \in 1..Len(p)
      BY <1>2, <3>2, <3>3
    <3>5. q[Before(l, i) + 1] = p[Before(l, i) + 1]
      BY <1>2, <3>4
    <3>6. p[Before(l, i) + 1] = IF j <= n THEN TimeIn(l[j]) ELSE CueTrack
      BY <1>6, <3>1, Zenon DEF Known, T
    <3>7. j <= n <=> j <= n + 1
      BY <2>1, <2>2
    <3>8. QED
      BY <3>5, <3>6, <3>7, Zenon
  <2>5. QED
    BY <2>3, <2>4
<1>7. ASSUME NEW k \in 0 .. Len(q) - 1
      PROVE  \E i \in T : i <= n + 1 /\ Before(l, i) = k
  <2>1. CASE k = Len(p)
    BY <1>5, <2>1
  <2>2. CASE k # Len(p)
    <3>1. k \in 0 .. Len(p) - 1
      BY <1>2, <2>2
    <3>2. PICK i \in T : i <= n /\ Before(l, i) = k
      BY <3>1, Zenon DEF Known, T
    <3>3. QED
      BY <1>4, <3>2
  <2>3. QED
    BY <2>1, <2>2
<1>8. Known(l, n + 1, q)
  BY <1>6, <1>7, Zenon DEF Known, T
<1>9. QED
  BY <1>2, <1>3, <1>8 DEF q

(* An INDEX 01 tells the time of the last track to have begun.             *)
LEMMA IndexKnown ==
  ASSUME NEW l \in Seq(Line), NEW n \in Nat, NEW p \in Seq(Time), NEW q \in Seq(Time), NEW last,
         n + 1 \in LinesOf(l, "INDEX"), l[n + 1].number = 1,
         last \in LinesOf(l, "TRACK"), last <= n,
         \A h \in LinesOf(l, "TRACK") : h <= n => h <= last,
         Len(p) = Before(l, n + 1), Known(l, n, p), Len(q) = Len(p),
         \A k \in 1 .. Len(p) - 1 : q[k] = p[k],
         \A j : StartsOf(l, last) = {j} /\ j = n + 1 => q[Len(p)] = TimeIn(l[n + 1])
  PROVE  Len(q) = Before(l, (n + 1) + 1) /\ Known(l, n + 1, q)
<1> DEFINE T == LinesOf(l, "TRACK")
<1>1. /\ \A i \in T : i \in Nat
      /\ n + 1 \notin T
  BY DEF LinesOf
<1>2. Before(l, (n + 1) + 1) = Before(l, n + 1) /\ Len(p) \in Nat
  BY <1>1, BeforeIs
<1>3. Before(l, last + 1) = Before(l, last) + 1 /\ Before(l, last) \in Nat
  BY <1>1, BeforeIs
<1>4. last \in T /\ last \in Nat /\ \A h \in T : h <= n + 1 => h <= last
  BY <1>1
<1> HIDE DEF T
<1>5. n + 1 \in StartsOf(l, last)
  <2>1. \A h \in T : h <= last \/ n + 1 < h
    BY <1>1, <1>4
  <2>2. last < n + 1
    BY <1>4
  <2>3. QED
    BY <2>1, <2>2, Zenon DEF StartsOf, T
<1>6. ASSUME NEW i \in T, i <= n + 1, NEW j, StartsOf(l, i) = {j}
      PROVE  q[Before(l, i) + 1] = IF j <= n + 1 THEN TimeIn(l[j]) ELSE CueTrack
  <2>1. j \in Nat /\ i \in Nat /\ i < j /\ \A h \in T : h <= i \/ j < h
    <3>1. j \in StartsOf(l, i)
      BY <1>6
    <3>2. j \in LinesOf(l, "INDEX") /\ i < j /\ \A h \in T : h <= i \/ j < h
      BY <3>1, Zenon DEF StartsOf, T
    <3>3. j \in Nat
      BY <3>2 DEF LinesOf
    <3>4. QED
      BY <1>1, <3>2, <3>3
  <2>2. i <= last
    BY <1>4, <1>6
  <2>3. Before(l, i + 1) = Before(l, i) + 1 /\ Before(l, i) \in Nat
    BY <2>1, BeforeIs DEF T
  <2>4. CASE i = last
    <3>1. j = n + 1
      BY <1>5, <1>6, <2>4
    <3>2. q[Len(p)] = TimeIn(l[n + 1])
      BY <1>6, <2>4, <3>1
    <3>3. Before(l, i) + 1 = Len(p)
      <4>1. Before(l, last + 1) <= Before(l, n + 1)
        BY <1>4, BeforeGrows
      <4>2. Len(p) <= Before(l, last + 1)
        <5>1. {h \in T : h < n + 1} = {h \in T : h < last + 1}
          <6>1. \A h \in T : h < n + 1 <=> h < last + 1
            BY <1>1, <1>4
          <6>2. QED
            BY <6>1
        <5>2. Before(l, n + 1) = Before(l, last + 1)
          BY <5>1, Zenon DEF Before, T
        <5>3. QED
          BY <5>2, <1>2
      <4>3. QED
        BY <4>1, <4>2, <1>2, <1>3, <2>4
    <3>4. QED
      BY <3>1, <3>2, <3>3
  <2>5. CASE i # last
    <3>1. Before(l, i + 1) <= Before(l, last)
      BY <1>4, <2>1, <2>2, <2>5, BeforeGrows
    <3>2. Before(l, last + 1) <= Before(l, n + 1)
      BY <1>4, BeforeGrows
    <3>3. Before(l, i) + 1 \in 1 .. Len(p) - 1
      BY <1>2, <1>3, <2>3, <3>1, <3>2
    <3>4. q[Before(l, i) + 1] = p[Before(l, i) + 1]
      BY <3>3
    <3>5. i <= n
      BY <1>4, <2>1, <2>2
    <3>6. p[Before(l, i) + 1] = IF j <= n THEN TimeIn(l[j]) ELSE CueTrack
      BY <1>6, <3>5, Zenon DEF Known, T
    <3>7. j < last
      BY <1>4, <2>1, <2>2, <2>5
    <3>8. j <= n /\ j <= n + 1
      BY <1>4, <2>1, <3>7
    <3>9. QED
      BY <3>4, <3>6, <3>8, Zenon
  <2>6. QED
    BY <2>4, <2>5
<1>7. ASSUME NEW k \in 0 .. Len(q) - 1
      PROVE  \E i \in T : i <= n + 1 /\ Before(l, i) = k
  <2>1. k \in 0 .. Len(p) - 1
    OBVIOUS
  <2>2. PICK i \in T : i <= n /\ Before(l, i) = k
    BY <2>1, Zenon DEF Known, T
  <2>3. QED
    BY <1>1, <2>2
<1>8. Known(l, n + 1, q)
  BY <1>6, <1>7, Zenon DEF Known, T
<1>9. QED
  BY <1>2, <1>8

(* Any other line tells nothing.                                           *)
LEMMA NothingNew ==
  ASSUME NEW l \in Seq(Line), NEW n \in Nat, NEW p \in Seq(Time),
         n + 1 \notin LinesOf(l, "TRACK"),
         Len(p) = Before(l, n + 1), Known(l, n, p),
         n + 1 \in LinesOf(l, "INDEX") /\ l[n + 1].number = 1 =>
           \A h \in LinesOf(l, "TRACK") : ~(h <= n)
  PROVE  Len(p) = Before(l, (n + 1) + 1) /\ Known(l, n + 1, p)
<1> DEFINE T == LinesOf(l, "TRACK")
<1>1. /\ \A i \in T : i \in Nat
      /\ n + 1 \notin T
  BY DEF LinesOf
<1>2. Before(l, (n + 1) + 1) = Before(l, n + 1) /\ Before(l, n + 1) \in Nat
  BY <1>1, BeforeIs
<1> HIDE DEF T
<1>3. ASSUME NEW i \in T, i <= n + 1, NEW j, StartsOf(l, i) = {j}
      PROVE  p[Before(l, i) + 1] = IF j <= n + 1 THEN TimeIn(l[j]) ELSE CueTrack
  <2>1. i <= n
    BY <1>1, <1>3
  <2>2. j \in Nat /\ j \in LinesOf(l, "INDEX") /\ l[j].number = 1
    BY <1>3 DEF StartsOf, LinesOf
  <2>3. j # n + 1
    BY <2>1, <2>2 DEF T
  <2>4. p[Before(l, i) + 1] = IF j <= n THEN TimeIn(l[j]) ELSE CueTrack
    BY <1>3, <2>1, Zenon DEF Known, T
  <2>5. j <= n <=> j <= n + 1
    BY <2>2, <2>3
  <2>6. QED
    BY <2>4, <2>5, Zenon
<1>4. ASSUME NEW k \in 0 .. Len(p) - 1
      PROVE  \E i \in T : i <= n + 1 /\ Before(l, i) = k
  <2>1. PICK i \in T : i <= n /\ Before(l, i) = k
    BY Zenon DEF Known, T
  <2>2. QED
    BY <1>1, <2>1
<1>5. Known(l, n + 1, p)
  BY <1>3, <1>4, Zenon DEF Known, T
<1>6. QED
  BY <1>2, <1>5

\* A byte is what it is.
LEMMA ByteIs ==
  /\ \A n \in Nat : Byte(n) \in 0..255
  /\ \A n \in 0..255 : Byte(n) = n
BY DEF Byte

\* One line more.
LEMMA ScanStep ==
  ASSUME NEW l, WellFormed(l), NEW n \in Nat, n + 1 \in 1..Len(l), NEW s, Scanned(l, n, s)
  PROVE  Scanned(l, n + 1, ScanLine(s, l[n + 1]))
<1> DEFINE T == LinesOf(l, "TRACK")
           line == l[n + 1]
           r == ScanLine(s, line)
           p == Pushed(s)
<1>1. l \in Seq(Line) /\ line \in Line /\ Len(l) \in Nat
  BY DEF WellFormed
<1>2. /\ s.tracks \in Seq(Time) /\ s.current \in Time /\ s.inTrack \in BOOLEAN
      /\ Len(p) = Before(l, n + 1) /\ Known(l, n, p)
      /\ s.inTrack => \E i \in T : i <= n /\ \A h \in T : h <= n => h <= i
      /\ ~s.inTrack => s.tracks = <<>> /\ \A h \in T : ~(h <= n)
  BY DEF Scanned
<1>3. p \in Seq(Time)
  BY <1>2, Appends DEF Pushed
<1>4. /\ n + 1 \in T <=> line.command = "TRACK"
      /\ n + 1 \in LinesOf(l, "INDEX") <=> line.command = "INDEX"
      /\ \A i \in T : i \in Nat
  BY <1>1 DEF LinesOf
<1>5. CueTrack \in Time
  BY DEF CueTrack, Time
<1>6. CASE line.command = "TRACK"
  <2>1. r = [tracks |-> p, current |-> CueTrack, inTrack |-> TRUE]
    BY <1>6 DEF ScanLine
  <2>2. r.tracks = p /\ r.current = CueTrack /\ r.inTrack = TRUE
    BY <2>1
  <2>3. Pushed(r) = Append(p, CueTrack)
    BY <2>2 DEF Pushed
  <2>4. n + 1 \in T /\ n + 1 <= n + 1 /\ \A h \in T : h <= n + 1 => h <= n + 1
    BY <1>4, <1>6
  <2> HIDE DEF p, r, T
  <2>5. Len(Pushed(r)) = Before(l, (n + 1) + 1) /\ Known(l, n + 1, Pushed(r))
    BY <1>1, <1>2, <1>3, <2>3, <2>4, TrackKnown DEF T
  <2>6. r \in [tracks : Seq(Time), current : Time, inTrack : BOOLEAN]
    BY <1>3, <1>5, <2>1
  <2>7. QED
    BY <2>2, <2>4, <2>5, <2>6, Zenon DEF Scanned, T, r
<1>7. CASE line.command = "INDEX" /\ IndexStarts(s, line)
  <2> DEFINE time == [min |-> Byte(line.min), sec |-> line.sec, frame |-> line.frame]
  <2>1. line.number = 1 /\ s.inTrack
    BY <1>7 DEF IndexStarts
  <2>2. r = [s EXCEPT !.current = time]
    BY <1>7 DEF ScanLine
  <2>3. time \in Time
    <3>1. line.min \in Nat /\ line.sec \in 0..59 /\ line.frame \in 0..74
      BY <1>1 DEF Line
    <3> DEFINE m == line.min
    <3>2. m \in Nat
      BY <3>1
    <3> HIDE DEF m
    <3>3. Byte(m) \in 0..255
      BY <3>2, ByteIs
    <3>4. QED
      BY <3>1, <3>3 DEF Time, m
  <2>4. /\ r \in [tracks : Seq(Time), current : Time, inTrack : BOOLEAN]
        /\ r.tracks = s.tracks /\ r.current = time /\ r.inTrack
    <3>1. s \in [tracks : Seq(Time), current : Time, inTrack : BOOLEAN]
      BY Zenon DEF Scanned
    <3> HIDE DEF time, r, line
    <3>2. r.inTrack = s.inTrack /\ r.tracks = s.tracks /\ r.current = time
      BY <2>2, <3>1
    <3>3. r \in [tracks : Seq(Time), current : Time, inTrack : BOOLEAN]
      BY <2>2, <2>3, <3>1
    <3>4. QED
      BY <2>1, <3>2, <3>3
  <2>5. PICK last \in T : last <= n /\ \A h \in T : h <= n => h <= last
    BY <1>2, <2>1
  <2>6. p = Append(s.tracks, s.current) /\ Pushed(r) = Append(s.tracks, time)
    BY <2>1, <2>4 DEF Pushed
  <2>7. \A j : StartsOf(l, last) = {j} /\ j = n + 1 => time = TimeIn(l[n + 1])
    <3>1. ASSUME NEW j, StartsOf(l, last) = {j}, j = n + 1 PROVE Byte(line.min) = line.min
      <4>1. PICK k \in DOMAIN l : StartsOf(l, last) = {k} /\ l[k].min \in 0..255
        BY <2>5 DEF WellFormed
      <4>2. k = n + 1
        BY <3>1, <4>1
      <4>3. QED
        BY <4>1, <4>2, ByteIs
    <3>2. QED
      BY <3>1, Zenon DEF TimeIn
  <2>8. n + 1 \in LinesOf(l, "INDEX") /\ n + 1 \notin T
    BY <1>4, <1>7
  <2> HIDE DEF time, r
  <2>9. /\ Pushed(r) \in Seq(Time) /\ Len(Pushed(r)) = Len(p) /\ Len(p) \in Nat
        /\ \A k \in 1 .. Len(p) - 1 : Pushed(r)[k] = p[k]
        /\ Pushed(r)[Len(p)] = time
    <3> DEFINE a == s.tracks
               b == s.current
    <3>1. a \in Seq(Time) /\ b \in Time
      BY <1>2
    <3> HIDE DEF a, b, p
    <3>2. p = Append(a, b) /\ Pushed(r) = Append(a, time)
      BY <2>6 DEF a, b
    <3>3. QED
      BY <2>3, <3>1, <3>2, Appends
  <2> DEFINE q == Pushed(r)
  <2> HIDE DEF p, q, T
  <2>10. q \in Seq(Time) /\ Len(q) = Len(p) /\ q[Len(p)] = time
         /\ \A k \in 1 .. Len(p) - 1 : q[k] = p[k]
    BY <2>9 DEF q
  <2>11. \A j : StartsOf(l, last) = {j} /\ j = n + 1 => q[Len(p)] = TimeIn(l[n + 1])
    BY <2>7, <2>10, Zenon
  <2>12. Len(q) = Before(l, (n + 1) + 1) /\ Known(l, n + 1, q)
    BY <1>1, <1>2, <1>3, <2>1, <2>5, <2>8, <2>10, <2>11, IndexKnown DEF T
  <2>13. last \in T /\ last <= n + 1 /\ \A h \in T : h <= n + 1 => h <= last
    BY <1>4, <2>5, <2>8
  <2>14. QED
    BY <2>4, <2>12, <2>13, Zenon DEF Scanned, T, r, q
<1>8. CASE ~(line.command = "TRACK") /\ ~(line.command = "INDEX" /\ IndexStarts(s, line))
  <2>1. r = s
    BY <1>8 DEF ScanLine
  <2>2. n + 1 \in LinesOf(l, "INDEX") /\ line.number = 1 => \A h \in T : ~(h <= n)
    BY <1>2, <1>4, <1>8 DEF IndexStarts
  <2>3. n + 1 \notin T
    BY <1>4, <1>8
  <2> HIDE DEF r
  <2>4. Len(p) = Before(l, (n + 1) + 1) /\ Known(l, n + 1, p)
    BY <1>1, <1>2, <1>3, <2>2, <2>3, NothingNew
  <2>5. \A h \in T : h <= n + 1 <=> h <= n
    BY <1>4, <2>3
  <2> HIDE DEF T
  <2>6. s.inTrack => \E i \in T : i <= n + 1 /\ \A h \in T : h <= n + 1 => h <= i
    BY <1>2, <2>5
  <2>7. Scanned(l, n + 1, s)
    BY <1>2, <2>4, <2>5, <2>6, Zenon DEF Scanned, T
  <2>8. QED
    BY <2>1, <2>7 DEF r
<1>9. QED
  BY <1>6, <1>7, <1>8

\* So it goes to the end of the sheet.
LEMMA ScanRight ==
  ASSUME NEW l, WellFormed(l)
  PROVE  Scanned(l, Len(l), Scan(l)[Len(l)])
<1> DEFINE s == Scan(l)
           M == {n \in 0..Len(l) : ~Scanned(l, n, s[n])}
<1>1. l \in Seq(Line) /\ Len(l) \in Nat
  BY DEF WellFormed
<1>2. s[0] = NothingScanned /\ \A i \in 1..Len(l) : s[i] = ScanLine(s[i - 1], l[i])
  BY <1>1, ScanIs
<1> HIDE DEF s
<1>3. SUFFICES ASSUME M # {} PROVE FALSE
  BY <1>1 DEF s
<1>4. PICK m \in M : \A k \in M : m <= k
  <2>1. M \subseteq Nat
    OBVIOUS
  <2> HIDE DEF M
  <2>2. QED
    BY <1>3, <2>1, LeastIs, Zenon
<1>5. Scanned(l, 0, s[0])
  BY <1>1, <1>2, NothingKnown
<1>6. m # 0 /\ m \in 1..Len(l)
  BY <1>1, <1>5
<1> DEFINE n == m - 1
<1>7. n \in Nat /\ n + 1 = m /\ n \in 0..Len(l) /\ ~(m <= n)
  BY <1>1, <1>6
<1>8. Scanned(l, n, s[n])
  BY <1>4, <1>7
<1>9. s[m] = ScanLine(s[n], l[m])
  BY <1>2, <1>6
<1> HIDE DEF n
<1>10. Scanned(l, n + 1, ScanLine(s[n], l[n + 1]))
  BY <1>6, <1>7, <1>8, ScanStep
<1>11. Scanned(l, m, s[m])
  BY <1>7, <1>9, <1>10, Zenon
<1>12. QED
  BY <1>11

-----------------------------------------------------------------------------
(* Tables of contents *)

\* From frames to a time, and back if a table can hold it.
LEMMA MsfIs ==
  ASSUME NEW n \in Nat
  PROVE  /\ lbaToMsf(n) \in Time
         /\ n < TableEnd => LbaOf(lbaToMsf(n)) = n
<1> DEFINE a == n \div 4500
           b == (n % 4500) \div 75
           c == n % 75
<1>1. lbaToMsf(n) = [min |-> Byte(a), sec |-> b, frame |-> c]
  BY DEF lbaToMsf
<1>2. a \in Nat /\ b \in 0..59 /\ c \in 0..74
  OBVIOUS
<1>3. n = (a * 60 + b) * 75 + c
  OBVIOUS
<1>4. n < TableEnd => a \in 0..255
  BY DEF TableEnd
<1> HIDE DEF a, b, c
<1>5. Byte(a) \in 0..255 /\ (a \in 0..255 => Byte(a) = a)
  BY <1>2, ByteIs
<1>6. lbaToMsf(n) \in Time
  BY <1>1, <1>2, <1>5 DEF Time
<1>7. lbaToMsf(n).min = Byte(a) /\ lbaToMsf(n).sec = b /\ lbaToMsf(n).frame = c
  BY <1>1
<1>8. QED
  BY <1>3, <1>4, <1>5, <1>6, <1>7 DEF LbaOf

\* The scan has the tracks that the sheet says.
LEMMA SheetIs ==
  ASSUME NEW l, WellFormed(l), NEW p, p = Pushed(Scan(l)[Len(l)])
  PROVE  /\ p \in Seq(Time) /\ Len(p) = TrackCount(l) /\ TrackCount(l) \in Nat
         /\ \A k \in 0 .. TrackCount(l) - 1 : StartIn(l, k) = LbaOf(p[k + 1])
<1> DEFINE s == Scan(l)[Len(l)]
           T == LinesOf(l, "TRACK")
<1>1. l \in Seq(Line) /\ Len(l) \in Nat /\ Scanned(l, Len(l), s)
  BY ScanRight DEF WellFormed
<1> HIDE DEF s
<1>2. p \in Seq(Time) /\ Len(p) = Before(l, Len(l) + 1) /\ Known(l, Len(l), p) /\ Len(p) \in Nat
  <2>1. p = Pushed(s)
    BY DEF s
  <2>2. s.tracks \in Seq(Time) /\ s.current \in Time /\ <<>> \in Seq(Time)
    BY <1>1 DEF Scanned
  <2>3. Pushed(s) \in Seq(Time)
    BY <2>2, Appends DEF Pushed
  <2>4. QED
    BY <1>1, <2>1, <2>3 DEF Scanned
<1>3. \A i \in T : i \in Nat /\ i <= Len(l)
  BY <1>1 DEF LinesOf
<1>4. Len(p) = TrackCount(l)
  <2>1. {j \in T : j < Len(l) + 1} = T
    BY <1>1, <1>3
  <2>2. Before(l, Len(l) + 1) = TrackCount(l)
    BY <2>1, Zenon DEF Before, TrackCount
  <2>3. QED
    BY <1>2, <2>2
<1>5. ASSUME NEW k \in 0 .. TrackCount(l) - 1
      PROVE  StartIn(l, k) = LbaOf(p[k + 1])
  <2> DEFINE i == TrackLine(l, k)
  <2>1. \E h \in T : Before(l, h) = k
    BY <1>2, <1>4 DEF Known
  <2>2. i \in T /\ Before(l, i) = k
    BY <2>1, Zenon DEF TrackLine, Before
  <2> HIDE DEF i
  <2>3. PICK j \in DOMAIN l : StartsOf(l, i) = {j} /\ l[j].min \in 0..255
    BY <2>2 DEF WellFormed
  <2>4. i <= Len(l) /\ j <= Len(l)
    BY <1>1, <1>3, <2>2
  <2>5. p[Before(l, i) + 1] = TimeIn(l[j])
    BY <1>2, <2>2, <2>3, <2>4, Zenon DEF Known
  <2>6. (CHOOSE h \in StartsOf(l, i) : TRUE) = j
    BY <2>3
  <2>7. StartIn(l, k) = LbaOf(l[j])
    BY <2>6, Zenon DEF StartIn, i
  <2>8. LbaOf(TimeIn(l[j])) = LbaOf(l[j])
    BY DEF LbaOf, TimeIn
  <2>9. QED
    BY <2>2, <2>5, <2>7, <2>8, Zenon
<1>6. QED
  BY <1>2, <1>4, <1>5

(* The table of a cue sheet: its tracks are the sheet's, and at its end is *)
(* the file's, where that is within what a table can hold.                 *)
LEMMA CueTocIs ==
  ASSUME NEW l, WellFormed(l), NEW n \in Nat, NEW c, c = cuebin_to_TOC(l, n)
  PROVE  /\ c \in Toc /\ Len(c.tracks) = c.last + 1 /\ c.last = TrackCount(l)
         /\ \A k \in 0 .. c.last - 1 : LbaOf(c.tracks[k + 1]) - 150 = StartIn(l, k)
         /\ n < TableEnd => LbaOf(c.tracks[c.last + 1]) - 150 = n
<1> DEFINE p == Pushed(Scan(l)[Len(l)])
           q == Append(p, lbaToMsf(n))
           S(m) == [m EXCEPT !.frame = Byte(@ + 150)]
<1>1. /\ p \in Seq(Time) /\ Len(p) = TrackCount(l) /\ TrackCount(l) \in Nat
      /\ \A k \in 0 .. TrackCount(l) - 1 : StartIn(l, k) = LbaOf(p[k + 1])
  BY SheetIs
<1>2. lbaToMsf(n) \in Time /\ (n < TableEnd => LbaOf(lbaToMsf(n)) = n)
  BY MsfIs
<1>3. c = [last |-> Len(q) - 1, tracks |-> [k \in DOMAIN q |-> S(q[k])]]
  BY Zenon DEF cuebin_to_TOC
<1> HIDE DEF p
<1>4. /\ q \in Seq(Time) /\ Len(q) = Len(p) + 1 /\ q[Len(p) + 1] = lbaToMsf(n)
      /\ \A k \in 1..Len(p) : q[k] = p[k]
  BY <1>1, <1>2, Appends
<1> HIDE DEF q
<1>5. DOMAIN q = 1 .. Len(p) + 1 /\ Len(p) \in Nat /\ \A k \in 1 .. Len(p) + 1 : q[k] \in Time
  BY <1>1, <1>4
<1>6. ASSUME NEW m \in Time
      PROVE  S(m) \in Msf /\ LbaOf(S(m)) = LbaOf(m) + 150
  <2>1. PICK a \in 0..255, b \in 0..59, e \in 0..74 : m = [min |-> a, sec |-> b, frame |-> e]
    BY DEF Time
  <2>2. Byte(e + 150) = e + 150
    BY ByteIs
  <2>3. S(m) = [min |-> a, sec |-> b, frame |-> Byte(e + 150)]
    BY <2>1
  <2>4. S(m) = [min |-> a, sec |-> b, frame |-> e + 150]
    BY <2>2, <2>3
  <2>5. S(m) \in Msf
    BY <2>4 DEF Msf
  <2>6. S(m).min = a /\ S(m).sec = b /\ S(m).frame = e + 150
    BY <2>4
  <2>7. m.min = a /\ m.sec = b /\ m.frame = e
    BY <2>1
  <2>8. LbaOf(S(m)) = (a * 60 + b) * 75 + (e + 150) /\ LbaOf(m) = (a * 60 + b) * 75 + e
    BY <2>6, <2>7 DEF LbaOf
  <2>9. ((a * 60 + b) * 75 + e) + 150 = (a * 60 + b) * 75 + (e + 150)
    OBVIOUS
  <2>10. QED
    BY <2>5, <2>8, <2>9, Zenon
<1> HIDE DEF S
<1> DEFINE w == [k \in DOMAIN q |-> S(q[k])]
<1>7. w \in Seq(Msf) /\ Len(w) = Len(p) + 1 /\ \A k \in 1 .. Len(p) + 1 : w[k] = S(q[k])
  <2>1. \A k \in 1 .. Len(p) + 1 : S(q[k]) \in Msf
    BY <1>5, <1>6
  <2>2. w = [k \in 1 .. Len(p) + 1 |-> S(q[k])]
    BY <1>5
  <2>3. w \in [1 .. Len(p) + 1 -> Msf]
    BY <2>1, <2>2
  <2>4. Len(p) + 1 \in Nat
    BY <1>5
  <2> HIDE DEF w
  <2>5. DOMAIN w = 1 .. Len(p) + 1
    BY <2>3
  <2>6. w \in Seq(Msf) /\ Len(w) = Len(p) + 1
    BY <2>3, <2>4, <2>5
  <2>7. QED
    BY <2>2, <2>6
<1>8. c.last = TrackCount(l) /\ c.tracks = w
  BY <1>1, <1>3, <1>4
<1>9. c \in Toc
  <2> HIDE DEF w
  <2>1. c = [last |-> TrackCount(l), tracks |-> w]
    <3>1. Len(q) - 1 = TrackCount(l)
      BY <1>1, <1>4
    <3>2. QED
      BY <1>3, <3>1, Zenon DEF w
  <2>2. QED
    BY <1>1, <1>7, <2>1 DEF Toc
<1> HIDE DEF w
<1>10. ASSUME NEW k \in 0 .. c.last - 1
       PROVE  LbaOf(c.tracks[k + 1]) - 150 = StartIn(l, k)
  <2>1. k + 1 \in 1..Len(p) /\ k + 1 \in 1 .. Len(p) + 1 /\ k \in 0 .. TrackCount(l) - 1
    BY <1>1, <1>8
  <2>2. w[k + 1] = S(p[k + 1]) /\ p[k + 1] \in Time
    <3>1. p[k + 1] \in Time
      BY <1>1, <2>1
    <3>2. w[k + 1] = S(q[k + 1]) /\ q[k + 1] = p[k + 1]
      BY <1>4, <1>7, <2>1, Zenon
    <3>3. QED
      BY <3>1, <3>2, Zenon
  <2>3. LbaOf(w[k + 1]) = StartIn(l, k) + 150
    BY <1>1, <1>6, <2>1, <2>2
  <2>4. StartIn(l, k) \in Int
    <3>1. StartIn(l, k) = LbaOf(p[k + 1])
      BY <1>1, <2>1
    <3>2. ASSUME NEW m \in Time PROVE LbaOf(m) \in Int
      <4>1. m.min \in Int /\ m.sec \in Int /\ m.frame \in Int
        BY DEF Time
      <4>2. QED
        BY <4>1 DEF LbaOf
    <3>3. QED
      BY <2>2, <3>1, <3>2
  <2>5. QED
    BY <1>8, <2>3, <2>4
<1>11. n < TableEnd => LbaOf(c.tracks[c.last + 1]) - 150 = n
  <2>1. w[Len(p) + 1] = S(lbaToMsf(n))
    BY <1>4, <1>5, <1>7
  <2>2. n < TableEnd => LbaOf(w[Len(p) + 1]) = n + 150
    BY <1>2, <1>6, <2>1
  <2>3. QED
    BY <1>1, <1>8, <2>2
<1>12. QED
  BY <1>1, <1>7, <1>8, <1>9, <1>10, <1>11

-----------------------------------------------------------------------------
(* Frames *)

\* A product grows with its factor.
LEMMA Ordered ==
  ASSUME NEW x \in Int, NEW y \in Int, x <= y, NEW n \in Nat
  PROVE  x * n <= y * n
  OBVIOUS

\* What division with a remainder means.
LEMMA Quotient ==
  ASSUME NEW a \in Int, NEW n \in Int, n > 0,
         NEW q \in Int, NEW r \in Int, q = a \div n, r = a % n
  PROVE  a = q * n + r
  OBVIOUS

\* Multiples of a sum and of a difference.
LEMMA SumMultiple ==
  ASSUME NEW a \in Int, NEW k \in Int, NEW n \in Nat \ {0}
  PROVE  /\ (a + k) * n = a * n + k * n /\ (a - k) * n = a * n - k * n
         /\ a * n \in Int /\ k * n \in Int
  OBVIOUS

\* A place is a frame and an offset in it.
LEMMA DivMod ==
  ASSUME NEW a \in Int
  PROVE  \E q \in Int, r \in 0..(FrameSize - 1) :
           q = a \div FrameSize /\ r = a % FrameSize /\ a = q * FrameSize + r
<1>1. PICK q \in Int : q = a \div FrameSize
  BY SizeAssumption
<1>2. PICK r \in 0..(FrameSize - 1) : r = a % FrameSize
  BY SizeAssumption
<1>3. r \in Int /\ FrameSize \in Int /\ FrameSize > 0
  BY SizeAssumption
<1>4. a = q * FrameSize + r
  BY <1>1, <1>2, <1>3, Quotient
<1>5. QED
  BY <1>1, <1>2, <1>4, Zenon

\* And no other frame and offset.
LEMMA DivIs ==
  ASSUME NEW a \in Int, NEW q \in Int, NEW r \in 0..(FrameSize - 1),
         a = q * FrameSize + r
  PROVE  a \div FrameSize = q /\ a % FrameSize = r
<1>0. FrameSize \in Nat \ {0}
  BY SizeAssumption
<1>1. PICK d \in Int, m \in 0..(FrameSize - 1) :
        d = a \div FrameSize /\ m = a % FrameSize /\ a = d * FrameSize + m
  BY DivMod
<1>2. ~(q < d)
  <2> SUFFICES ASSUME q < d PROVE FALSE
    OBVIOUS
  <2>1. (q + 1) * FrameSize <= d * FrameSize
    BY <1>0, Ordered
  <2>2. (q + 1) * FrameSize = q * FrameSize + FrameSize
    BY <1>0
  <2>3. m \in Int /\ m >= 0 /\ r \in Int /\ r < FrameSize
    BY <1>0
  <2>4. q * FrameSize + r = d * FrameSize + m
    BY <1>1
  <2>5. QED
    BY <2>1, <2>2, <2>3, <2>4, <1>0
<1>3. ~(d < q)
  <2> SUFFICES ASSUME d < q PROVE FALSE
    OBVIOUS
  <2>1. (d + 1) * FrameSize <= q * FrameSize
    BY <1>0, Ordered
  <2>2. (d + 1) * FrameSize = d * FrameSize + FrameSize
    BY <1>0
  <2>3. r \in Int /\ r >= 0 /\ m \in Int /\ m < FrameSize
    BY <1>0
  <2>4. q * FrameSize + r = d * FrameSize + m
    BY <1>1
  <2>5. QED
    BY <2>1, <2>2, <2>3, <2>4, <1>0
<1>4. d = q
  BY <1>2, <1>3
<1>5. m = r
  <2>1. d * FrameSize = q * FrameSize
    BY <1>4
  <2>2. d * FrameSize \in Int /\ m \in Int /\ r \in Int
    BY <1>0
  <2>3. QED
    BY <1>1, <2>1, <2>2
<1>6. QED
  BY <1>1, <1>4, <1>5, Zenon


-----------------------------------------------------------------------------
(* The invariant *)

(* On a disc d with table c: its frames, the frame at which the table has  *)
(* track k, and the one at which the disc's author has it.                 *)
FramesOn(d)      == d.bytes \div FrameSize
BaseIn(c, k)     == LbaOf(c.tracks[k + 1]) - 150
StartOn(d, c, k) == CASE k = c.last                        -> FramesOn(d)
                      [] k # c.last /\ d.kind = "drive"  -> d.starts[k + 1]
                      [] OTHER                           -> StartIn(d.sheet, k)

(* They are the same, but for the end of a drive's table.                  *)
TableRight(d, c) ==
  /\ d \in Discs /\ c \in Toc /\ Len(c.tracks) = c.last + 1
  /\ \A k \in 0 .. c.last - 1 : BaseIn(c, k) = StartOn(d, c, k) /\ StartOn(d, c, k) \in Nat
  /\ d.kind = "bin" => c.last = TrackCount(d.sheet) /\ BaseIn(c, c.last) = FramesOn(d)

\* A call is where its kind has it, and its handle is open until it returns.
CallAt(t) ==
  /\ pc[t] = "idle" <=> op[t].kind = "none"
  /\ pc[t] = "seek" <=> op[t].kind = "seek"
  /\ op[t].kind # "none" => op[t].handle \in Handles /\ Opened(op[t].handle)

\* The samples asked for, and how many of them have been delivered.
Samples(o)   == o.asked - HeaderPart(o.pos, o.asked)
Delivered(o) == Samples(o) - o.rem

(* A call o that has delivered n bytes of a track whose first frame is     *)
(* base: what is next of the frames is next of the samples.                *)
LocalAt(o, base, n) ==
  LET from == SamplesFrom(o.pos)
      sum  == (from % FrameSize) + o.asked - HeaderPart(o.pos, o.asked) - 1
  IN /\ o.rem <= Samples(o) /\ n = o.asked - o.rem /\ o.asked \in Nat \ {0}
     /\ o.last = (base + from \div FrameSize) + sum \div FrameSize
     /\ o.rem > 0 => /\ from + Delivered(o) = (o.next - base) * FrameSize + o.off
                     /\ o.off < FrameSize

(* Byte i of a call to track k, which starts at frame start, is what it    *)
(* ought to be if it is within the disc's frames.                          *)
Due(o, k, start, frames, i, b) ==
  LET p == o.pos + i - 1
      n == start + (p - HeaderSize) \div FrameSize
  IN p < HeaderSize \/ n < frames =>
       \/ b = IF p < HeaderSize THEN HeaderByte(k, p)
              ELSE FrameByte(n, (p - HeaderSize) % FrameSize)
       \/ o.unread /\ p >= HeaderSize /\ n = 0

LocalIn(d, c, o, k, at, s, calm) ==
  at \in {"frame", "return"} /\ k <= c.last =>
    /\ LocalAt(o, BaseIn(c, k), Len(s))
    /\ at = "return" => o.rem = 0
    /\ calm /\ k < c.last =>
         \A i \in 1..Len(s) : Due(o, k, StartOn(d, c, k), FramesOn(d), i, s[i])
Local(t) ==
  LocalIn(disc, toc, op[t], handle[op[t].handle].track, pc[t], out[t], faults = 0)

(* As long as the drive delivers, the buffer holds the frame it names, if  *)
(* there is one, or nothing has been read since the start; and who is      *)
(* reading knew that.                                                      *)
Fresh  == [frame |-> 0, holds |-> NoFrame]
Honest == faults = 0 =>
  /\ buf.frame \in 0 .. FramesOn(disc) - 1 => buf.holds = buf.frame \/ buf = Fresh
  /\ \A t \in Threads : pc[t] = "frame" /\ buf = Fresh /\ FramesOn(disc) > 0 => op[t].unread

AudioInv == TypeOK /\ TableRight(disc, toc) /\ Honest /\ \A t \in Threads : CallAt(t) /\ Local(t)

\* Sizes are not 0, and a quotient of naturals is one.
LEMMA SizesAre ==
  /\ FrameSize \in Nat \ {0} /\ HeaderSize \in Nat \ {0} /\ PosLimit \in Nat \ {0}
  /\ \A n \in Nat : n \div FrameSize \in Nat
<1>1. FrameSize \in Nat \ {0} /\ HeaderSize \in Nat \ {0} /\ PosLimit \in Nat \ {0}
  BY SizeAssumption
<1>2. ASSUME NEW n \in Nat PROVE n \div FrameSize \in Nat
  <2>0. n \in Int
    OBVIOUS
  <2>1. PICK q \in Int, r \in 0..(FrameSize - 1) :
          q = n \div FrameSize /\ r = n % FrameSize /\ n = q * FrameSize + r
    BY <2>0, DivMod, Zenon
  <2>2. ~(q < 0)
    <3> SUFFICES ASSUME q < 0 PROVE FALSE
      OBVIOUS
    <3>1. (q + 1) * FrameSize <= 0 * FrameSize
      BY <1>1, Ordered
    <3>2. (q + 1) * FrameSize = q * FrameSize + FrameSize /\ 0 * FrameSize = 0
      BY <1>1
    <3>3. r < FrameSize /\ r \in Int /\ q * FrameSize \in Int
      BY <1>1
    <3>4. QED
      BY <1>1, <2>1, <3>1, <3>2, <3>3
  <2>3. QED
    BY <2>1, <2>2
<1>3. QED
  BY <1>1, <1>2

\* What is header of a read, and where its samples start.
LEMMA HeaderIs ==
  ASSUME NEW pos \in Nat, NEW len \in Nat
  PROVE  /\ HeaderPart(pos, len) \in 0..len /\ SamplesFrom(pos) \in Nat
         /\ HeaderPart(pos, len) < len => pos + HeaderPart(pos, len) = HeaderSize + SamplesFrom(pos)
         /\ \A i \in 1 .. HeaderPart(pos, len) : pos + i - 1 < HeaderSize
  BY SizesAre DEF HeaderPart, SamplesFrom, Least

\* The table is right from the start.
LEMMA TableInit == Init => TableRight(disc, toc)
<1> SUFFICES ASSUME Init PROVE TableRight(disc, toc)
  OBVIOUS
<1>1. disc \in Disc /\ disc \in Discs /\ toc \in Tocs(disc)
  BY DiscAssumption DEF Init
<1>2. FramesOn(disc) \in Nat /\ disc.bytes \in Nat
  BY <1>1, SizesAre DEF FramesOn, Disc
<1>3. CASE disc.kind = "bin"
  <2>1. WellFormed(disc.sheet) /\ FramesOn(disc) < TableEnd
    BY <1>1, <1>3, DiscAssumption DEF FramesOn
  <2>2. toc = cuebin_to_TOC(disc.sheet, FramesOn(disc))
    BY <1>1, <1>3 DEF Tocs, FramesOn
  <2>3. /\ toc \in Toc /\ Len(toc.tracks) = toc.last + 1 /\ toc.last = TrackCount(disc.sheet)
        /\ \A k \in 0 .. toc.last - 1 : LbaOf(toc.tracks[k + 1]) - 150 = StartIn(disc.sheet, k)
        /\ LbaOf(toc.tracks[toc.last + 1]) - 150 = FramesOn(disc)
    BY <1>2, <2>1, <2>2, CueTocIs
  <2>4. toc.last \in Nat
    BY <2>3 DEF Toc
  <2>5. ASSUME NEW k \in 0 .. toc.last - 1 PROVE BaseIn(toc, k) = StartOn(disc, toc, k) /\ StartOn(disc, toc, k) \in Nat
    <3>1. k # toc.last /\ ~(k > toc.last) /\ disc.kind # "drive"
      BY <1>3, <2>4
    <3>2. BaseIn(toc, k) = LbaOf(toc.tracks[k + 1]) - 150 /\ StartOn(disc, toc, k) = StartIn(disc.sheet, k)
      BY <3>1 DEF BaseIn, StartOn
    <3>3. StartIn(disc.sheet, k) \in Nat
      <4> DEFINE p == Pushed(Scan(disc.sheet)[Len(disc.sheet)])
      <4>1. p \in Seq(Time) /\ Len(p) = toc.last /\ StartIn(disc.sheet, k) = LbaOf(p[k + 1])
        BY <2>1, <2>3, SheetIs
      <4> HIDE DEF p
      <4>2. p[k + 1] \in Time
        BY <2>4, <4>1
      <4>3. p[k + 1].min \in Nat /\ p[k + 1].sec \in Nat /\ p[k + 1].frame \in Nat
        BY <4>2 DEF Time
      <4>4. \A x, y, z \in Nat : (x * 60 + y) * 75 + z \in Nat
        OBVIOUS
      <4>5. LbaOf(p[k + 1]) \in Nat
        BY <4>3, <4>4, Zenon DEF LbaOf
      <4>6. QED
        BY <4>1, <4>5, Zenon
    <3>4. QED
      BY <2>3, <3>2, <3>3
  <2>6. BaseIn(toc, toc.last) = FramesOn(disc)
    BY <2>3, <2>4 DEF BaseIn
  <2>7. QED
    BY <1>1, <2>3, <2>5, <2>6 DEF TableRight
<1>4. CASE disc.kind = "drive"
  <2> DEFINE a == disc.starts
             S(k) == lbaToMsf(a[k] + 150)
             b == [k \in DOMAIN a |-> S(k)]
             out0 == lbaToMsf(disc.bytes \div FrameSize + 150)
             e(x, y) == [min |-> out0.min, sec |-> x, frame |-> y]
  <2>1. a \in Seq(Nat) /\ Len(a) \in Nat /\ DOMAIN a = 1..Len(a) /\ \A k \in 1..Len(a) : a[k] \in Nat
    BY <1>1 DEF Disc
  <2>2. \A k \in 1..Len(a) : a[k] + 150 < TableEnd
    BY <1>1, <1>4, <2>1, DiscAssumption
  <2>3. PICK x \in Garbage, y \in Garbage :
          toc = [last |-> Len(b), tracks |-> Append(b, e(x, y))]
    <3> DEFINE R(x, y) == [last |-> Len(b), tracks |-> Append(b, e(x, y))]
    <3>1. toc \in DriveTocs(disc)
      BY <1>1, <1>4, Zenon DEF Tocs
    <3>2. DriveTocs(disc) = {R(x, y) : x, y \in Garbage}
      BY DEF DriveTocs
    <3> HIDE DEF R
    <3>3. PICK x, y \in Garbage : toc = R(x, y)
      BY <3>1, <3>2
    <3>4. QED
      BY <3>3, Zenon DEF R
  <2>4. out0 \in Time
    BY <1>2, MsfIs DEF FramesOn
  <2>5. \A k \in 1..Len(a) : S(k) \in Msf /\ LbaOf(S(k)) = a[k] + 150
    <3>1. Time \subseteq Msf
      BY DEF Time, Msf
    <3>2. ASSUME NEW k \in 1..Len(a) PROVE S(k) \in Msf /\ LbaOf(S(k)) = a[k] + 150
      <4>1. a[k] + 150 \in Nat /\ a[k] + 150 < TableEnd
        BY <2>1, <2>2
      <4>2. QED
        BY <3>1, <4>1, MsfIs, Zenon
    <3>3. QED
      BY <3>2
  <2>6. e(x, y) \in Msf
    <3>1. x \in 0..255 /\ y \in 0..255
      BY BoundAssumption
    <3>2. out0.min \in 0..255
      BY <2>4 DEF Time
    <3>3. QED
      BY <3>1, <3>2 DEF Msf
  <2> DEFINE z == e(x, y)
  <2> HIDE DEF S, out0, z
  <2>7. b \in [1..Len(a) -> Msf] /\ \A k \in 1..Len(a) : b[k] = S(k)
    BY <2>1, <2>5
  <2> HIDE DEF b
  <2>8. b \in Seq(Msf) /\ Len(b) = Len(a)
    BY <2>1, <2>7
  <2>9. /\ Append(b, z) \in Seq(Msf) /\ Len(Append(b, z)) = Len(a) + 1
        /\ \A k \in 1..Len(a) : Append(b, z)[k] = S(k)
    BY <2>6, <2>7, <2>8, Appends DEF z
  <2>10. toc.last = Len(a) /\ toc.tracks = Append(b, z) /\ toc = [last |-> Len(a), tracks |-> Append(b, z)]
    BY <2>3, <2>8 DEF z
  <2>11. toc \in Toc /\ Len(toc.tracks) = toc.last + 1
    BY <2>1, <2>9, <2>10 DEF Toc
  <2>12. ASSUME NEW k \in 0 .. toc.last - 1 PROVE BaseIn(toc, k) = StartOn(disc, toc, k) /\ StartOn(disc, toc, k) \in Nat
    <3>1. k + 1 \in 1..Len(a) /\ ~(k > toc.last) /\ k # toc.last
      BY <2>1, <2>10
    <3>2. toc.tracks[k + 1] = S(k + 1)
      BY <2>9, <2>10, <3>1
    <3>3. BaseIn(toc, k) = (a[k + 1] + 150) - 150 /\ StartOn(disc, toc, k) = a[k + 1]
      BY <1>4, <2>5, <3>1, <3>2 DEF BaseIn, StartOn
    <3>4. QED
      BY <2>1, <3>1, <3>3
  <2>13. QED
    BY <1>1, <1>4, <2>11, <2>12 DEF TableRight
<1>5. QED
  BY <1>1, <1>3, <1>4 DEF Disc

\* The invariant holds at the start.
LEMMA AudioInit == Init => AudioInv
<1> SUFFICES ASSUME Init PROVE AudioInv
  OBVIOUS
<1>1. TableRight(disc, toc)
  BY TableInit
<1>2. /\ disc \in Discs /\ session = NoThread /\ buf = Fresh /\ calls = 0 /\ faults = 0
      /\ handle = [h \in Handles |-> Closed] /\ pc = [t \in Threads |-> "idle"]
      /\ op = [t \in Threads |-> NoCall] /\ out = [t \in Threads |-> <<>>]
  BY DEF Init, Fresh
<1>3. NoCall \in Call /\ NoCall.kind = "none"
  BY DEF NoCall, Call
<1>4. Closed \in Handle
  BY DEF Closed, Handle, NoTrack
<1>5. Fresh \in [frame : Int, holds : Nat \cup {NoFrame}]
  BY DEF Fresh
<1>6. MaxCalls \in Nat /\ MaxFaults \in Nat
  BY BoundAssumption
<1>7. TypeOK
  <2>1. handle \in [Handles -> Handle]
    BY <1>2, <1>4, Zenon
  <2>2. op \in [Threads -> Call]
    BY <1>2, <1>3, Zenon
  <2>3. <<>> \in Seq(Bytes)
    OBVIOUS
  <2>4. out \in [Threads -> Seq(Bytes)]
    BY <1>2, <2>3, Zenon
  <2>5. "idle" \in Labels
    BY DEF Labels
  <2>6. pc \in [Threads -> Labels]
    BY <1>2, <2>5, Zenon
  <2>7. \A t \in Threads : op[t].kind = "read" <=> session = t
    BY <1>2, <1>3, ThreadAssumption
  <2>8. calls \in 0..MaxCalls /\ faults \in 0..MaxFaults
    BY <1>2, <1>6
  <2>9. QED
    BY <1>1, <1>2, <1>5, <2>1, <2>2, <2>4, <2>6, <2>7, <2>8 DEF TypeOK, TableRight
<1>8. Honest
  BY <1>2 DEF Honest
<1>9. ASSUME NEW t \in Threads PROVE CallAt(t) /\ Local(t)
  <2>1. pc[t] = "idle" /\ op[t].kind = "none"
    BY <1>2, <1>3
  <2>2. QED
    BY <2>1 DEF CallAt, Local, LocalIn
<1>10. QED
  BY <1>1, <1>7, <1>8, <1>9 DEF AudioInv

-----------------------------------------------------------------------------
(* Steps *)

(* A thread that a step leaves alone: its call stands as it stood, if its  *)
(* handle is the same track's.                                             *)
LEMMA Others ==
  ASSUME NEW u \in Threads, CallAt(u), Local(u),
         pc'[u] = pc[u], op'[u] = op[u], out'[u] = out[u], disc' = disc, toc' = toc,
         op[u].kind # "none" => handle'[op[u].handle].track = handle[op[u].handle].track,
         faults' = 0 => faults = 0
  PROVE  CallAt(u)' /\ Local(u)'
<1>1. CallAt(u)'
  BY Zenon DEF CallAt, Opened
<1>2. CASE op[u].kind = "none"
  <2>1. pc'[u] = "idle"
    BY <1>2 DEF CallAt
  <2>2. Local(u)'
    BY <2>1 DEF Local, LocalIn
  <2>3. QED
    BY <1>1, <2>2
<1>3. CASE op[u].kind # "none"
  <2> DEFINE k == handle[op[u].handle].track
  <2>1. handle'[op'[u].handle].track = k
    BY <1>3
  <2>2. LocalIn(disc, toc, op[u], k, pc[u], out[u], faults = 0)
    BY Zenon DEF Local
  <2>3. LocalIn(disc, toc, op[u], k, pc[u], out[u], faults' = 0)
    BY <2>2 DEF LocalIn
  <2> HIDE DEF k
  <2>4. Local(u)'
    BY <2>1, <2>3, Zenon DEF Local
  <2>5. QED
    BY <1>1, <2>4
<1>4. QED
  BY <1>2, <1>3

\* The buffer and who reads are as they were.
LEMMA HonestKept ==
  ASSUME Honest, buf' = buf, disc' = disc, faults' = faults,
         \A u \in Threads : pc'[u] = "frame" => pc[u] = "frame" /\ op'[u].unread = op[u].unread
  PROVE  Honest'
BY DEF Honest, Fresh

\* A place in a table is a number of frames.
LEMMA PlaceIs == ASSUME NEW m \in Msf PROVE LbaOf(m) \in Nat
<1>1. m.min \in Nat /\ m.sec \in Nat /\ m.frame \in Nat
  BY DEF Msf
<1>2. \A x, y, z \in Nat : (x * 60 + y) * 75 + z \in Nat
  OBVIOUS
<1>3. QED
  BY <1>1, <1>2, Zenon DEF LbaOf

\* So is that of every track of a table, and of its end.
LEMMA LbaIs ==
  ASSUME NEW c \in Toc, Len(c.tracks) = c.last + 1, NEW k \in 0 .. c.last
  PROVE  c.tracks[k + 1] \in Msf /\ LbaOf(c.tracks[k + 1]) \in Nat /\ BaseIn(c, k) \in Int
<1>1. c.last \in Nat /\ c.tracks \in Seq(Msf) /\ k + 1 \in 1..Len(c.tracks)
  BY DEF Toc
<1> DEFINE m == c.tracks[k + 1]
<1>2. m \in Msf
  BY <1>1
<1> HIDE DEF m
<1>5. LbaOf(m) \in Nat
  BY <1>2, PlaceIs, Zenon
<1>6. LbaOf(c.tracks[k + 1]) \in Nat
  BY <1>5, Zenon DEF m
<1>7. \A x \in Nat : x - 150 \in Int
  OBVIOUS
<1>8. BaseIn(c, k) \in Int
  BY <1>6, <1>7, Zenon DEF BaseIn
<1>9. QED
  BY <1>2, <1>6, <1>8, Zenon DEF m

\* cdaudiofs_open keeps the invariant: no call has the handle.
LEMMA OpenKeeps == ASSUME AudioInv, NEW t \in Threads, Open(t) PROVE AudioInv'
<1>1. PICK h \in Handles, number \in 1..(toc.last + 2) :
        /\ ~Opened(h)
        /\ handle' = [handle EXCEPT ![h] = [track |-> number - 1, offset |-> 0]]
  BY Zenon DEF Open
<1>2. /\ calls < MaxCalls /\ calls' = calls + 1
      /\ UNCHANGED <<disc, toc, faults, session, buf, pc, op, out>>
  BY DEF Open, Called, local
<1>3. TypeOK /\ TableRight(disc, toc) /\ Honest
  BY DEF AudioInv
<1>4. toc.last \in Nat
  BY <1>3 DEF TypeOK, Toc
<1>5. [track |-> number - 1, offset |-> 0] \in Handle
  BY <1>4 DEF Handle
<1>6. handle' \in [Handles -> Handle]
  BY <1>1, <1>3, <1>5 DEF TypeOK
<1>7. calls' \in 0..MaxCalls
  BY <1>2, <1>3, BoundAssumption DEF TypeOK
<1>8. TypeOK'
  BY <1>2, <1>3, <1>6, <1>7 DEF TypeOK
<1>9. TableRight(disc, toc)' /\ Honest'
  BY <1>2, <1>3, HonestKept
<1>10. ASSUME NEW u \in Threads PROVE CallAt(u)' /\ Local(u)'
  <2>1. CallAt(u) /\ Local(u)
    BY DEF AudioInv
  <2>2. op[u].kind # "none" => handle'[op[u].handle].track = handle[op[u].handle].track
    <3>1. op[u].kind # "none" => op[u].handle # h
      BY <1>1, <2>1 DEF CallAt
    <3>2. QED
      BY <1>1, <1>3, <3>1, <2>1 DEF TypeOK, CallAt
  <2>3. QED
    BY <1>2, <2>1, <2>2, Others
<1>11. QED
  BY <1>8, <1>9, <1>10 DEF AudioInv

\* A close keeps the invariant: no call has the handle.
LEMMA CloseKeeps == ASSUME AudioInv, NEW t \in Threads, Close(t) PROVE AudioInv'
<1>1. PICK h \in Handles :
        /\ \A u \in Threads : pc[u] = "idle" \/ op[u].handle # h
        /\ handle' = [handle EXCEPT ![h] = Closed]
  BY Zenon DEF Close
<1>2. /\ calls < MaxCalls /\ calls' = calls + 1
      /\ UNCHANGED <<disc, toc, faults, session, buf, pc, op, out>>
  BY DEF Close, Called, local
<1>3. TypeOK /\ TableRight(disc, toc) /\ Honest
  BY DEF AudioInv
<1>4. Closed \in Handle
  BY DEF Closed, Handle
<1>5. handle' \in [Handles -> Handle]
  BY <1>1, <1>3, <1>4 DEF TypeOK
<1>6. calls' \in 0..MaxCalls
  BY <1>2, <1>3, BoundAssumption DEF TypeOK
<1>7. TypeOK'
  BY <1>2, <1>3, <1>5, <1>6 DEF TypeOK
<1>8. TableRight(disc, toc)' /\ Honest'
  BY <1>2, <1>3, HonestKept
<1>9. ASSUME NEW u \in Threads PROVE CallAt(u)' /\ Local(u)'
  <2>1. CallAt(u) /\ Local(u)
    BY DEF AudioInv
  <2>2. op[u].kind # "none" => handle'[op[u].handle].track = handle[op[u].handle].track
    BY <1>1, <1>3, <2>1 DEF TypeOK, CallAt
  <2>3. QED
    BY <1>2, <2>1, <2>2, Others
<1>10. QED
  BY <1>7, <1>8, <1>9 DEF AudioInv

\* What a seek may start from is a number.
LEMMA SizesOfFile ==
  ASSUME TypeOK, NEW k \in Nat
  PROVE  FileSizes(k) \subseteq Int
<1>1. toc \in Toc /\ Len(toc.tracks) = toc.last + 1 /\ toc.last \in Nat
  BY DEF TypeOK, Toc
<1>2. CASE k < toc.last
  <2>1. LbaOf(toc.tracks[k + 1]) \in Nat /\ LbaOf(toc.tracks[(k + 1) + 1]) \in Nat
    <3>1. k \in 0..toc.last /\ k + 1 \in 0..toc.last
      BY <1>1, <1>2
    <3>2. QED
      BY <1>1, <3>1, LbaIs, Zenon
  <2>2. TrackLba(k) \in Int /\ TrackLba(k + 1) \in Int
    <3>1. ~(k > toc.last) /\ ~(k + 1 > toc.last)
      BY <1>1, <1>2
    <3>2. TrackLba(k) = LbaOf(toc.tracks[k + 1]) /\ TrackLba(k + 1) = LbaOf(toc.tracks[(k + 1) + 1])
      BY <3>1, Zenon DEF TrackLba
    <3>3. \A x \in Nat : x \in Int
      OBVIOUS
    <3>4. QED
      BY <2>1, <3>2, <3>3, Zenon
  <2>3. \A x, y \in Int : (x - y) * FrameSize + HeaderSize \in Int
    BY SizesAre
  <2>4. FileSizes(k) = {(TrackLba(k + 1) - TrackLba(k)) * FrameSize + HeaderSize}
    <3>1. k # toc.last
      BY <1>1, <1>2
    <3>2. QED
      BY <1>2, <3>1, Zenon DEF FileSizes
  <2>5. QED
    BY <2>2, <2>3, <2>4, Zenon
<1>3. CASE ~(k < toc.last)
  BY <1>1, <1>3, BoundAssumption DEF FileSizes
<1>4. QED
  BY <1>2, <1>3

\* A seek to x is a call.
LEMMA SeekIs ==
  ASSUME NEW h \in Handles, NEW x \in Int
  PROVE  LET n == [NoCall EXCEPT !.kind = "seek", !.handle = h, !.to = x]
         IN n \in Call /\ n.kind = "seek" /\ n.handle = h
<1> DEFINE a == [NoCall EXCEPT !.kind = "seek"]
           b == [a EXCEPT !.handle = h]
           n == [b EXCEPT !.to = x]
<1>1. NoCall \in Call
  BY DEF NoCall, Call
<1>2. a \in Call /\ a.kind = "seek"
  BY <1>1 DEF Call
<1> HIDE DEF a
<1>3. b \in Call /\ b.kind = "seek" /\ b.handle = h
  BY <1>2 DEF Call
<1> HIDE DEF b
<1>4. n \in Call /\ n.kind = "seek" /\ n.handle = h
  BY <1>3 DEF Call
<1>5. QED
  BY <1>4 DEF n, b, a

\* cdaudiofs_seek's choice of a base keeps the invariant.
LEMMA SeekKeeps == ASSUME AudioInv, NEW t \in Threads, Seek(t) PROVE AudioInv'
<1> DEFINE o(h, x) == [NoCall EXCEPT !.kind = "seek", !.handle = h, !.to = x]
<1>1. PICK h \in Handles :
        /\ Opened(h)
        /\ \E base \in {0, handle[h].offset} \cup FileSizes(handle[h].track), d \in Moves :
             op' = [op EXCEPT ![t] = o(h, base + d)]
  BY DEF Seek
<1>2. PICK base \in {0, handle[h].offset} \cup FileSizes(handle[h].track), d \in Moves :
        op' = [op EXCEPT ![t] = o(h, base + d)]
  BY <1>1, Zenon
<1>3. /\ pc[t] = "idle" /\ calls < MaxCalls /\ calls' = calls + 1
      /\ pc' = [pc EXCEPT ![t] = "seek"]
      /\ UNCHANGED <<disc, toc, faults, session, handle, buf, out>>
  BY DEF Seek, Called
<1>4. TypeOK /\ TableRight(disc, toc) /\ Honest /\ CallAt(t)
  BY DEF AudioInv
<1> DEFINE n == o(h, base + d)
<1>5. base + d \in Int
  <2>1. handle[h] \in Handle /\ handle[h].track # NoTrack
    BY <1>1, <1>4 DEF TypeOK, Opened
  <2>2. handle[h].track \in Nat /\ handle[h].offset \in Int
    BY <2>1 DEF Handle
  <2>3. FileSizes(handle[h].track) \subseteq Int
    BY <1>4, <2>2, SizesOfFile, Zenon
  <2>4. base \in Int /\ d \in Int
    BY <2>2, <2>3, BoundAssumption
  <2>5. QED
    BY <2>4
<1>6. n \in Call /\ n.kind = "seek" /\ n.handle = h
  BY <1>5, SeekIs, Zenon
<1> HIDE DEF n
<1>7. op' = [op EXCEPT ![t] = n]
  BY <1>2 DEF n
<1>8. /\ op' \in [Threads -> Call] /\ op'[t] = n /\ pc' \in [Threads -> Labels] /\ pc'[t] = "seek"
      /\ \A u \in Threads \ {t} : op'[u] = op[u] /\ pc'[u] = pc[u]
  <2>1. "seek" \in Labels
    BY DEF Labels
  <2>2. QED
    BY <1>3, <1>4, <1>6, <1>7, <2>1 DEF TypeOK
<1>9. calls' \in 0..MaxCalls
  BY <1>3, <1>4, BoundAssumption DEF TypeOK
<1>10. \A u \in Threads : op'[u].kind = "read" <=> session' = u
  <2>1. op[t].kind = "none"
    BY <1>3, <1>4 DEF CallAt
  <2>2. QED
    BY <1>3, <1>4, <1>6, <1>8, <2>1 DEF TypeOK
<1>11. TypeOK'
  BY <1>3, <1>4, <1>8, <1>9, <1>10 DEF TypeOK
<1>12. Honest'
  <2>1. \A u \in Threads : pc'[u] = "frame" => pc[u] = "frame" /\ op'[u].unread = op[u].unread
    BY <1>8
  <2>2. QED
    BY <1>3, <1>4, <2>1, HonestKept
<1>13. TableRight(disc, toc)'
  BY <1>3, <1>4
<1>14. ASSUME NEW u \in Threads PROVE CallAt(u)' /\ Local(u)'
  <2>1. CASE u = t
    <3>1. CallAt(t)'
      BY <1>1, <1>3, <1>6, <1>8 DEF CallAt, Opened
    <3>2. Local(t)'
      BY <1>8 DEF Local, LocalIn
    <3>3. QED
      BY <2>1, <3>1, <3>2
  <2>2. CASE u # t
    <3>1. CallAt(u) /\ Local(u)
      BY DEF AudioInv
    <3>2. QED
      BY <1>3, <1>8, <2>2, <3>1, Others
  <2>3. QED
    BY <2>1, <2>2
<1>15. QED
  BY <1>11, <1>12, <1>13, <1>14 DEF AudioInv

\* The move that follows keeps it: the track stays.
LEMMA SeekMoveKeeps == ASSUME AudioInv, NEW t \in Threads, SeekMove(t) PROVE AudioInv'
<1> DEFINE h == op[t].handle
<1>1. /\ pc[t] = "seek" /\ UNCHANGED <<disc, toc, calls, session, buf, out, faults>>
      /\ handle' = [handle EXCEPT ![h].offset = op[t].to]
      /\ op' = [op EXCEPT ![t] = NoCall] /\ pc' = [pc EXCEPT ![t] = "idle"]
  BY DEF SeekMove, At
<1>2. TypeOK /\ TableRight(disc, toc) /\ Honest /\ CallAt(t)
  BY DEF AudioInv
<1>3. op[t].kind = "seek" /\ h \in Handles /\ op[t].to \in Int
  BY <1>1, <1>2 DEF CallAt, TypeOK, Call
<1>4. handle[h] \in Handle /\ handle \in [Handles -> Handle]
  BY <1>2, <1>3 DEF TypeOK
<1> HIDE DEF h
<1>5. handle' \in [Handles -> Handle] /\ \A g \in Handles : handle'[g].track = handle[g].track
  <2>1. [handle[h] EXCEPT !.offset = op[t].to] \in Handle
    BY <1>3, <1>4 DEF Handle
  <2>2. [handle[h] EXCEPT !.offset = op[t].to].track = handle[h].track
    BY <1>4 DEF Handle
  <2>3. QED
    BY <1>1, <1>3, <1>4, <2>1, <2>2
<1>6. NoCall \in Call /\ NoCall.kind = "none" /\ "idle" \in Labels
  BY DEF NoCall, Call, Labels
<1>7. /\ op' \in [Threads -> Call] /\ op'[t] = NoCall /\ pc' \in [Threads -> Labels] /\ pc'[t] = "idle"
      /\ \A u \in Threads \ {t} : op'[u] = op[u] /\ pc'[u] = pc[u]
  BY <1>1, <1>2, <1>6 DEF TypeOK
<1>8. \A u \in Threads : op'[u].kind = "read" <=> session' = u
  BY <1>1, <1>2, <1>3, <1>6, <1>7 DEF TypeOK
<1>9. TypeOK'
  BY <1>1, <1>2, <1>5, <1>7, <1>8 DEF TypeOK
<1>10. Honest'
  <2>1. \A u \in Threads : pc'[u] = "frame" => pc[u] = "frame" /\ op'[u].unread = op[u].unread
    BY <1>7
  <2>2. QED
    BY <1>1, <1>2, <2>1, HonestKept
<1>11. TableRight(disc, toc)'
  BY <1>1, <1>2
<1>12. ASSUME NEW u \in Threads PROVE CallAt(u)' /\ Local(u)'
  <2>1. CASE u = t
    BY <1>6, <1>7, <2>1 DEF CallAt, Local, LocalIn
  <2>2. CASE u # t
    <3>1. CallAt(u) /\ Local(u)
      BY DEF AudioInv
    <3>2. op[u].kind # "none" => handle'[op[u].handle].track = handle[op[u].handle].track
      BY <1>5, <3>1 DEF CallAt
    <3>3. QED
      BY <1>1, <1>7, <2>2, <3>1, <3>2, Others
  <2>3. QED
    BY <2>1, <2>2
<1>13. QED
  BY <1>9, <1>10, <1>11, <1>12 DEF AudioInv

\* The end of a read keeps it: only the mutex's holder can be there.
LEMMA ReturnKeeps == ASSUME AudioInv, NEW t \in Threads, Return(t) PROVE AudioInv'
<1> DEFINE h == op[t].handle
<1>1. /\ pc[t] = "return" /\ UNCHANGED <<disc, toc, calls, buf, faults>>
      /\ handle' = [handle EXCEPT ![h].offset = @ + op[t].asked]
      /\ session' = NoThread /\ out' = [out EXCEPT ![t] = <<>>]
      /\ op' = [op EXCEPT ![t] = NoCall] /\ pc' = [pc EXCEPT ![t] = "idle"]
  BY DEF Return, At
<1>2. TypeOK /\ TableRight(disc, toc) /\ Honest /\ CallAt(t)
  BY DEF AudioInv
<1>3. op[t].kind = "read" /\ h \in Handles /\ op[t].asked \in Nat /\ session = t
  BY <1>1, <1>2 DEF CallAt, TypeOK, Call
<1>4. handle[h] \in Handle /\ handle \in [Handles -> Handle]
  BY <1>2, <1>3 DEF TypeOK
<1> HIDE DEF h
<1>5. handle' \in [Handles -> Handle] /\ \A g \in Handles : handle'[g].track = handle[g].track
  <2>1. handle[h].offset + op[t].asked \in Int
    BY <1>3, <1>4 DEF Handle
  <2> DEFINE x == handle[h].offset + op[t].asked
  <2>2. handle' = [handle EXCEPT ![h].offset = x]
    BY <1>1
  <2> HIDE DEF x
  <2>3. [handle[h] EXCEPT !.offset = x] \in Handle
    BY <1>4, <2>1 DEF Handle, x
  <2>4. [handle[h] EXCEPT !.offset = x].track = handle[h].track
    BY <1>4 DEF Handle
  <2>5. QED
    BY <1>3, <1>4, <2>2, <2>3, <2>4
<1>6. NoCall \in Call /\ NoCall.kind = "none" /\ "idle" \in Labels /\ <<>> \in Seq(Bytes)
  BY DEF NoCall, Call, Labels
<1>7. /\ op' \in [Threads -> Call] /\ op'[t] = NoCall /\ pc' \in [Threads -> Labels] /\ pc'[t] = "idle"
      /\ out' \in [Threads -> Seq(Bytes)]
      /\ \A u \in Threads \ {t} : op'[u] = op[u] /\ pc'[u] = pc[u] /\ out'[u] = out[u]
  BY <1>1, <1>2, <1>6 DEF TypeOK
<1>8. \A u \in Threads : op'[u].kind = "read" <=> session' = u
  BY <1>1, <1>2, <1>3, <1>6, <1>7, ThreadAssumption DEF TypeOK
<1>9. TypeOK'
  BY <1>1, <1>2, <1>5, <1>7, <1>8 DEF TypeOK
<1>10. Honest'
  <2>1. \A u \in Threads : pc'[u] = "frame" => pc[u] = "frame" /\ op'[u].unread = op[u].unread
    BY <1>7
  <2>2. QED
    BY <1>1, <1>2, <2>1, HonestKept
<1>11. TableRight(disc, toc)'
  BY <1>1, <1>2
<1>12. ASSUME NEW u \in Threads PROVE CallAt(u)' /\ Local(u)'
  <2>1. CASE u = t
    BY <1>6, <1>7, <2>1 DEF CallAt, Local, LocalIn
  <2>2. CASE u # t
    <3>1. CallAt(u) /\ Local(u)
      BY DEF AudioInv
    <3>2. op[u].kind # "none" => handle'[op[u].handle].track = handle[op[u].handle].track
      BY <1>5, <3>1 DEF CallAt
    <3>3. QED
      BY <1>1, <1>7, <2>2, <3>1, <3>2, Others
  <2>3. QED
    BY <2>1, <2>2
<1>13. QED
  BY <1>9, <1>10, <1>11, <1>12 DEF AudioInv

(* A thread that takes the mutex to read, with a call w that stands at at  *)
(* with the bytes s delivered, keeps the invariant.                        *)
LEMMA ReadEnters ==
  ASSUME AudioInv, NEW t \in Threads, NEW h \in Handles, NEW w \in Call,
         NEW at \in {"frame", "return"}, NEW s \in Seq(Bytes),
         Opened(h), pc[t] = "idle", session = NoThread, session' = t,
         calls < MaxCalls, calls' = calls + 1, UNCHANGED <<disc, toc, faults, handle, buf>>,
         w.kind = "read", w.handle = h, op' = [op EXCEPT ![t] = w],
         pc' = [pc EXCEPT ![t] = at], out' = [out EXCEPT ![t] = s],
         at = "frame" /\ buf = Fresh => w.unread,
         LocalIn(disc, toc, w, handle[h].track, at, s, faults = 0)
  PROVE  AudioInv'
<1>1. TypeOK /\ TableRight(disc, toc) /\ Honest
  BY DEF AudioInv
<1>2. /\ op' \in [Threads -> Call] /\ op'[t] = w /\ pc' \in [Threads -> Labels] /\ pc'[t] = at
      /\ out' \in [Threads -> Seq(Bytes)] /\ out'[t] = s
      /\ \A u \in Threads \ {t} : op'[u] = op[u] /\ pc'[u] = pc[u] /\ out'[u] = out[u]
  <2>1. at \in Labels
    BY DEF Labels
  <2>2. QED
    BY <1>1, <2>1 DEF TypeOK
<1>3. calls' \in 0..MaxCalls
  BY <1>1, BoundAssumption DEF TypeOK
<1>4. \A u \in Threads \ {t} : op[u].kind # "read" /\ pc[u] # "frame" /\ pc[u] # "return"
  <2> SUFFICES ASSUME NEW u \in Threads \ {t}
               PROVE  op[u].kind # "read" /\ pc[u] # "frame" /\ pc[u] # "return"
    OBVIOUS
  <2>1. op[u].kind # "read"
    BY <1>1, ThreadAssumption DEF TypeOK
  <2>2. op[u].kind \in {"none", "seek"} /\ CallAt(u)
    BY <1>1, <2>1 DEF TypeOK, Call, AudioInv
  <2>3. QED
    BY <2>1, <2>2 DEF CallAt
<1>5. \A u \in Threads : op'[u].kind = "read" <=> session' = u
  BY <1>2, <1>4
<1>6. TypeOK'
  BY <1>1, <1>2, <1>3, <1>5 DEF TypeOK
<1>7. Honest'
  BY <1>1, <1>2, <1>4 DEF Honest, Fresh
<1>8. TableRight(disc, toc)'
  BY <1>1
<1>9. ASSUME NEW u \in Threads PROVE CallAt(u)' /\ Local(u)'
  <2>1. CASE u = t
    <3>1. CallAt(t)'
      BY <1>2 DEF CallAt, Opened
    <3>2. /\ disc' = disc /\ toc' = toc /\ faults' = faults /\ handle' = handle
      OBVIOUS
    <3>3. LocalIn(disc', toc', op'[t], handle'[op'[t].handle].track, pc'[t], out'[t], faults' = 0)
      BY <1>2, <3>2, Zenon
    <3>4. Local(t)'
      BY <3>3, Zenon DEF Local
    <3>5. QED
      BY <2>1, <3>1, <3>4
  <2>2. CASE u # t
    <3>1. CallAt(u) /\ Local(u)
      BY DEF AudioInv
    <3>2. QED
      BY <1>2, <2>2, <3>1, Others
  <2>3. QED
    BY <2>1, <2>2
<1>10. QED
  BY <1>6, <1>7, <1>8, <1>9 DEF AudioInv

(* cdaudiofs_read's header and its choice of frames: the bytes copied are  *)
(* the header's, and the first frame is the first sample's.                *)
LEMMA ReadLocal ==
  ASSUME TableRight(disc, toc), NEW k \in 0..toc.last, NEW pos \in Nat, NEW len \in Nat \ {0},
         NEW w \in Call, w.pos = pos, w.asked = len, w.rem = len - HeaderPart(pos, len),
         w.next = FirstFrame(k, pos), w.last = LastFrame(k, pos, len),
         w.off = SamplesFrom(pos) % FrameSize,
         NEW at, at = IF HeaderPart(pos, len) = len THEN "return" ELSE "frame",
         NEW calm \in BOOLEAN
  PROVE  LocalIn(disc, toc, w, k, at, [i \in 1..HeaderPart(pos, len) |-> HeaderByte(k, pos + i - 1)], calm)
<1> DEFINE hdr  == HeaderPart(pos, len)
           from == SamplesFrom(pos)
           base == BaseIn(toc, k)
           s    == [i \in 1..hdr |-> HeaderByte(k, pos + i - 1)]
           sum  == (from % FrameSize) + len - hdr - 1
<1>1. /\ hdr \in 0..len /\ from \in Nat /\ \A i \in 1..hdr : pos + i - 1 < HeaderSize
  BY HeaderIs
<1>2. Len(s) = hdr /\ \A i \in 1..hdr : s[i] = HeaderByte(k, pos + i - 1)
  BY <1>1
<1>3. base \in Int
  BY LbaIs DEF TableRight
<1>4. w.next = base + from \div FrameSize /\ w.last = (base + from \div FrameSize) + sum \div FrameSize
  <2>1. ~(k > toc.last)
    BY DEF TableRight, Toc
  <2>2. FirstFrame(k, pos) = base + from \div FrameSize
    BY <2>1, Zenon DEF FirstFrame, TrackLba, BaseIn
  <2>3. LastFrame(k, pos, len) = FirstFrame(k, pos) + sum \div FrameSize
    BY DEF LastFrame
  <2> HIDE DEF base, from, sum
  <2>4. QED
    BY <2>2, <2>3, Zenon
<1>5. PICK q \in Int, r \in 0..(FrameSize - 1) :
        q = from \div FrameSize /\ r = from % FrameSize /\ from = q * FrameSize + r
  BY <1>1, DivMod
<1>6. w.off = r /\ w.off < FrameSize /\ FrameSize \in Nat
  <2>1. r < FrameSize
    BY SizesAre
  <2>2. w.off = r
    BY <1>5, Zenon
  <2>3. QED
    BY <2>1, <2>2, SizesAre
<1>7. SamplesFrom(w.pos) = from /\ HeaderPart(w.pos, w.asked) = hdr /\ w.asked = len
  BY Zenon
<1> HIDE DEF from, base, s, hdr, sum
<1>8. LocalAt(w, base, Len(s))
  <2>1. Samples(w) = len - hdr /\ w.rem = len - hdr
    BY <1>7, Zenon DEF Samples, hdr
  <2>2. Delivered(w) = 0
    <3>1. Delivered(w) = Samples(w) - w.rem
      BY Zenon DEF Delivered
    <3>2. QED
      BY <1>1, <2>1, <3>1
  <2>3. w.rem <= Samples(w) /\ Len(s) = w.asked - w.rem /\ w.asked \in Nat \ {0}
    BY <1>1, <1>2, <1>7, <2>1
  <2>4. w.last = (base + SamplesFrom(w.pos) \div FrameSize)
                   + ((SamplesFrom(w.pos) % FrameSize) + w.asked - HeaderPart(w.pos, w.asked) - 1) \div FrameSize
    BY <1>4, <1>7, Zenon DEF sum
  <2>5. from + Delivered(w) = (w.next - base) * FrameSize + w.off
    <3>1. w.next = base + q
      BY <1>4, <1>5
    <3>2. w.next - base = q
      BY <1>3, <3>1
    <3>3. from + 0 = from
      BY <1>1
    <3>4. QED
      BY <1>5, <1>6, <2>2, <3>2, <3>3, Zenon
  <2>6. QED
    BY <1>6, <1>7, <2>3, <2>4, <2>5, Zenon DEF LocalAt
<1>9. at = "return" => w.rem = 0
  BY <1>1 DEF hdr
<1>10. ASSUME NEW i \in 1..Len(s) PROVE Due(w, k, StartOn(disc, toc, k), FramesOn(disc), i, s[i])
  <2>1. w.pos + i - 1 < HeaderSize /\ s[i] = HeaderByte(k, w.pos + i - 1)
    BY <1>1, <1>2
  <2>2. QED
    BY <2>1, Zenon DEF Due
<1>11. QED
  BY <1>8, <1>9, <1>10, Zenon DEF LocalIn, base, s, hdr

\* A read of len bytes at pos, and the same with its frames chosen.
ReadOf(h, pos, len) == [NoCall EXCEPT !.kind = "read", !.handle = h, !.pos = pos, !.asked = len]
WithFrames(o, r, n, l, f, u) ==
  [o EXCEPT !.rem = r, !.next = n, !.last = l, !.off = f, !.unread = u]

\* A read is a call.
LEMMA ReadIs ==
  ASSUME NEW h \in Handles, NEW pos \in Nat, NEW len \in Nat
  PROVE  LET o == ReadOf(h, pos, len)
         IN o \in Call /\ o.kind = "read" /\ o.handle = h /\ o.pos = pos /\ o.asked = len
<1> DEFINE a == [NoCall EXCEPT !.kind = "read"]
           b == [a EXCEPT !.handle = h]
           c == [b EXCEPT !.pos = pos]
           o == [c EXCEPT !.asked = len]
<1>1. NoCall \in Call
  BY DEF NoCall, Call
<1>2. a \in Call /\ a.kind = "read"
  BY <1>1 DEF Call
<1> HIDE DEF a
<1>3. b \in Call /\ b.kind = "read" /\ b.handle = h
  BY <1>2 DEF Call
<1> HIDE DEF b
<1>4. c \in Call /\ c.kind = "read" /\ c.handle = h /\ c.pos = pos
  BY <1>3 DEF Call
<1> HIDE DEF c
<1>5. o \in Call /\ o.kind = "read" /\ o.handle = h /\ o.pos = pos /\ o.asked = len
  BY <1>4 DEF Call
<1>6. QED
  BY <1>5 DEF o, c, b, a, ReadOf

\* With its frames it is the same call.
Framed(w, o, r, n, l, f, u) ==
  /\ w \in Call /\ w.kind = o.kind /\ w.handle = o.handle /\ w.pos = o.pos /\ w.asked = o.asked
  /\ w.rem = r /\ w.next = n /\ w.last = l /\ w.off = f /\ w.unread = u

\* What WithFrames makes of a call is that.
LEMMA FramesOfCall ==
  ASSUME NEW o \in Call, NEW r \in Nat, NEW n \in Int, NEW l \in Int, NEW f \in Nat, NEW u \in BOOLEAN
  PROVE  Framed(WithFrames(o, r, n, l, f, u), o, r, n, l, f, u)
BY DEF Call, WithFrames, Framed

\* A read keeps the invariant.
LEMMA ReadKeeps == ASSUME AudioInv, NEW t \in Threads, Read(t) PROVE AudioInv'
<1> DEFINE K(g)    == handle[g].track
           P(g)    == handle[g].offset % PosLimit
           O(g, n) == ReadOf(g, P(g), n)
           H(g, n) == HeaderPart(P(g), n)
           W(g, n) == WithFrames(O(g, n), n - H(g, n), FirstFrame(K(g), P(g)),
                                 LastFrame(K(g), P(g), n), SamplesFrom(P(g)) % FrameSize, buf = Fresh)
           B(g, n) == [i \in 1..H(g, n) |-> HeaderByte(K(g), P(g) + i - 1)]
           Beyond(g, n) == /\ op' = [op EXCEPT ![t] = O(g, n)]
                           /\ pc' = [pc EXCEPT ![t] = "return"]
                           /\ UNCHANGED out
           Within(g, n) == /\ op' = [op EXCEPT ![t] = W(g, n)]
                           /\ out' = [out EXCEPT ![t] = B(g, n)]
                           /\ pc' = [pc EXCEPT ![t] = IF H(g, n) = n THEN "return" ELSE "frame"]
<1>1. /\ pc[t] = "idle" /\ calls < MaxCalls /\ calls' = calls + 1
      /\ session = NoThread /\ session' = t /\ UNCHANGED <<disc, toc, faults, handle, buf>>
  BY Zenon DEF Read, Called
<1>2. PICK h \in Handles, len \in Lengths :
        Opened(h) /\ IF K(h) > toc.last THEN Beyond(h, len) ELSE Within(h, len)
  BY ZenonT(30) DEF Read, Fresh, ReadOf, WithFrames
<1> DEFINE k   == K(h)
           pos == P(h)
           hdr == H(h, len)
<1>3. TypeOK /\ TableRight(disc, toc)
  BY DEF AudioInv
<1>4. toc.last \in Nat /\ toc \in Toc /\ Len(toc.tracks) = toc.last + 1
  BY <1>3 DEF TypeOK, Toc
<1>5. handle[h] \in Handle /\ handle[h].track # NoTrack
  BY <1>2, <1>3 DEF TypeOK, Opened
<1>6. k \in Nat /\ handle[h].offset \in Int
  BY <1>5 DEF Handle
<1>7. pos \in Nat
  <2> DEFINE x == handle[h].offset
  <2>1. x \in Int
    BY <1>6
  <2> HIDE DEF x
  <2>2. x % PosLimit \in 0..(PosLimit - 1)
    BY <2>1, SizesAre
  <2>3. x % PosLimit \in Nat
    BY <2>2, SizesAre
  <2>4. QED
    BY <2>3 DEF x
<1>8. len \in Nat \ {0}
  BY BoundAssumption
<1> DEFINE o == O(h, len)
<1>9. o \in Call /\ o.kind = "read" /\ o.handle = h /\ o.pos = pos /\ o.asked = len
  <2>1. len \in Nat
    BY <1>8
  <2>2. QED
    BY <1>7, <2>1, ReadIs
<1>10. CASE k > toc.last
  <2>1. Beyond(h, len)
    BY <1>2, <1>10, Zenon
  <2>2. op' = [op EXCEPT ![t] = o] /\ pc' = [pc EXCEPT ![t] = "return"]
    BY <2>1, Zenon
  <2>3. out \in [Threads -> Seq(Bytes)]
    BY <1>3 DEF TypeOK
  <2>4. out' = [out EXCEPT ![t] = out[t]] /\ out[t] \in Seq(Bytes)
    BY <2>1, <2>3
  <2>5. LocalIn(disc, toc, o, handle[h].track, "return", out[t], faults = 0)
    <3>1. ~(handle[h].track <= toc.last)
      BY <1>4, <1>6, <1>10
    <3>2. QED
      BY <3>1, Zenon DEF LocalIn
  <2> HIDE DEF o
  <2>6. "return" \in {"frame", "return"} /\ ~("return" = "frame" /\ buf = Fresh)
    OBVIOUS
  <2> HIDE DEF k, K, P, O, H, W, B, Beyond, Within
  <2>7. QED
    BY <1>1, <1>2, <1>9, <2>2, <2>4, <2>5, <2>6, ReadEnters, Zenon
<1>11. CASE ~(k > toc.last)
  <2> DEFINE w  == W(h, len)
             b  == B(h, len)
             at == IF hdr = len THEN "return" ELSE "frame"
  <2>1. Within(h, len)
    BY <1>2, <1>11, Zenon
  <2>2. op' = [op EXCEPT ![t] = w] /\ pc' = [pc EXCEPT ![t] = at] /\ out' = [out EXCEPT ![t] = b]
    BY <2>1, Zenon
  <2>3. hdr \in 0..len /\ SamplesFrom(pos) \in Nat
    BY <1>7, <1>8, HeaderIs
  <2>4. PICK q \in Int, r \in 0..(FrameSize - 1) :
          q = SamplesFrom(pos) \div FrameSize /\ r = SamplesFrom(pos) % FrameSize
    <3>1. SamplesFrom(pos) \in Int
      BY <2>3
    <3>2. QED
      BY <3>1, DivMod, Zenon
  <2>5. SamplesFrom(pos) % FrameSize \in Nat
    <3>1. r \in Nat
      BY SizesAre
    <3>2. QED
      BY <2>4, <3>1, Zenon
  <2>6. k \in 0..toc.last
    BY <1>4, <1>6, <1>11
  <2>7. FirstFrame(k, pos) \in Int
    <3>1. BaseIn(toc, k) \in Int
      BY <1>4, <2>6, LbaIs, Zenon
    <3>2. FirstFrame(k, pos) = BaseIn(toc, k) + q
      BY <1>11, <2>4, Zenon DEF FirstFrame, TrackLba, BaseIn
    <3> HIDE DEF k, pos
    <3>3. QED
      BY <3>1, <3>2
  <2>8. LastFrame(k, pos, len) \in Int
    <3> DEFINE sum == (SamplesFrom(pos) % FrameSize) + len - HeaderPart(pos, len) - 1
    <3>1. sum \in Int
      <4>1. sum = r + len - hdr - 1
        BY <2>4, Zenon
      <4> HIDE DEF sum, hdr
      <4>2. QED
        BY <1>8, <2>3, <4>1, SizesAre
    <3>2. LastFrame(k, pos, len) = FirstFrame(k, pos) + sum \div FrameSize
      BY DEF LastFrame
    <3> HIDE DEF sum
    <3>3. PICK x \in Int : x = sum \div FrameSize
      BY <3>1, DivMod, Zenon
    <3> HIDE DEF k, pos
    <3>4. QED
      BY <2>7, <3>2, <3>3
  <2>9. len - hdr \in Nat
    BY <1>8, <2>3
  <2>10. (buf = Fresh) \in BOOLEAN
    OBVIOUS
  <2>11. /\ w \in Call /\ w.kind = o.kind /\ w.handle = o.handle /\ w.pos = o.pos /\ w.asked = o.asked
         /\ w.rem = len - hdr /\ w.next = FirstFrame(k, pos) /\ w.last = LastFrame(k, pos, len)
         /\ w.off = SamplesFrom(pos) % FrameSize /\ w.unread = (buf = Fresh)
    <3> DEFINE r0 == len - hdr
               n0 == FirstFrame(k, pos)
               l0 == LastFrame(k, pos, len)
               f0 == SamplesFrom(pos) % FrameSize
               u0 == buf = Fresh
    <3>1. w = WithFrames(o, r0, n0, l0, f0, u0)
      BY Zenon
    <3>2. r0 \in Nat /\ n0 \in Int /\ l0 \in Int /\ f0 \in Nat /\ u0 \in BOOLEAN /\ o \in Call
      BY <1>9, <2>5, <2>7, <2>8, <2>9, <2>10, Zenon
    <3> HIDE DEF w, o, r0, n0, l0, f0, u0
    <3>3. Framed(w, o, r0, n0, l0, f0, u0)
      BY <3>1, <3>2, FramesOfCall, Zenon
    <3>4. QED
      BY <3>3, Zenon DEF Framed, r0, n0, l0, f0, u0
  <2> HIDE DEF w, o
  <2>12. LocalIn(disc, toc, w, k, at, b, faults = 0)
    <3>1. (faults = 0) \in BOOLEAN
      OBVIOUS
    <3>2. w.pos = pos /\ w.asked = len
      BY <1>9, <2>11
    <3> HIDE DEF k, pos
    <3>3. QED
      BY <1>3, <1>7, <1>8, <2>6, <2>11, <3>1, <3>2, ReadLocal, Zenon DEF k, pos
  <2>13. b \in Seq(Bytes)
    <3>1. ASSUME NEW i \in 1..hdr PROVE HeaderByte(k, pos + i - 1) \in Bytes
      <4>1. pos + i - 1 \in Nat
        BY <1>7, <2>3
      <4> DEFINE p == pos + i - 1
      <4> HIDE DEF p, k
      <4>2. HeaderByte(k, p) \in Bytes
        BY <1>6, <4>1 DEF HeaderByte, Bytes, p
      <4>3. QED
        BY <4>2 DEF p
    <3>2. hdr \in Nat
      BY <1>8, <2>3
    <3> DEFINE F(i) == HeaderByte(k, pos + i - 1)
    <3>3. \A i \in 1..hdr : F(i) \in Bytes
      BY <3>1
    <3>4. b = [i \in 1..hdr |-> F(i)]
      BY Zenon
    <3> HIDE DEF F, b, hdr
    <3>5. QED
      BY <3>2, <3>3, <3>4
  <2>14. at \in {"frame", "return"} /\ (at = "frame" /\ buf = Fresh => w.unread)
    BY <2>11
  <2>15. w.kind = "read" /\ w.handle = h
    BY <1>9, <2>11, Zenon
  <2> HIDE DEF k, K, P, O, H, W, B, Beyond, Within, at, b
  <2>16. LocalIn(disc, toc, w, handle[h].track, at, b, faults = 0)
    BY <2>12, Zenon DEF k, K
  <2>17. QED
    BY <1>1, <1>2, <2>2, <2>11, <2>13, <2>14, <2>15, <2>16, ReadEnters, Zenon
<1>12. QED
  BY <1>10, <1>11

(* Turns of the loop *)

\* A call after a turn.
Turned(o) == [o EXCEPT !.rem = @ - ToRead(o), !.next = @ + 1, !.off = 0]

\* What is copied in a turn is no more than remains; the rest of the call stands.
LEMMA TurnedIs ==
  ASSUME NEW o \in Call
  PROVE  /\ ToRead(o) \in Int /\ ToRead(o) <= o.rem
         /\ Turned(o) \in Call /\ Turned(o).kind = o.kind /\ Turned(o).handle = o.handle
         /\ Turned(o).pos = o.pos /\ Turned(o).asked = o.asked /\ Turned(o).unread = o.unread
         /\ Turned(o).rem = o.rem - ToRead(o) /\ Turned(o).next = o.next + 1
         /\ Turned(o).last = o.last /\ Turned(o).off = 0
<1>1. /\ o.rem \in Nat /\ o.next \in Int /\ o.off \in Nat /\ FrameSize \in Nat
  BY SizesAre DEF Call
<1> DEFINE e == ToRead(o)
<1>2. e \in Int /\ e <= o.rem /\ o.rem - e \in Nat
  BY <1>1 DEF ToRead, Least
<1> HIDE DEF e
<1> DEFINE r == o.rem - e
           a == [o EXCEPT !.rem = r]
           b == [a EXCEPT !.next = @ + 1]
           c == [b EXCEPT !.off = 0]
<1>3. r \in Nat
  BY <1>2
<1> HIDE DEF r
<1>4. /\ a \in Call /\ a.kind = o.kind /\ a.handle = o.handle /\ a.pos = o.pos /\ a.asked = o.asked
      /\ a.unread = o.unread /\ a.rem = r /\ a.next = o.next /\ a.last = o.last
  BY <1>3 DEF Call
<1> HIDE DEF a
<1>5. /\ b \in Call /\ b.kind = o.kind /\ b.handle = o.handle /\ b.pos = o.pos /\ b.asked = o.asked
      /\ b.unread = o.unread /\ b.rem = r /\ b.next = o.next + 1 /\ b.last = o.last
  BY <1>1, <1>4 DEF Call
<1> HIDE DEF b
<1>6. /\ c \in Call /\ c.kind = o.kind /\ c.handle = o.handle /\ c.pos = o.pos /\ c.asked = o.asked
      /\ c.unread = o.unread /\ c.rem = r /\ c.next = o.next + 1 /\ c.last = o.last /\ c.off = 0
  BY <1>5 DEF Call
<1>7. Turned(o) = c
  BY DEF Turned, c, b, a, r, e
<1> HIDE DEF c
<1>8. QED
  BY <1>2, <1>6, <1>7, Zenon DEF r, e

\* While bytes remain to be copied, the last frame has not been passed.
LEMMA LastReached ==
  ASSUME NEW o \in Call, NEW base \in Int, NEW n, LocalAt(o, base, n), o.rem > 0
  PROVE  o.next <= o.last
<1> DEFINE from == SamplesFrom(o.pos)
           S    == Samples(o)
           sum  == (from % FrameSize) + o.asked - HeaderPart(o.pos, o.asked) - 1
<1>1. o.rem \in Nat /\ o.next \in Int /\ o.last \in Int /\ o.off \in Nat /\ o.pos \in Nat /\ o.asked \in Nat
  BY DEF Call
<1>2. HeaderPart(o.pos, o.asked) \in 0..o.asked /\ from \in Nat
  BY <1>1, HeaderIs
<1>3. /\ o.rem <= S /\ o.last = (base + from \div FrameSize) + sum \div FrameSize
      /\ from + Delivered(o) = (o.next - base) * FrameSize + o.off
  BY Zenon DEF LocalAt
<1>4. PICK q \in Int, r \in 0..(FrameSize - 1) :
        q = from \div FrameSize /\ r = from % FrameSize /\ from = q * FrameSize + r
  <2>1. from \in Int
    BY <1>2
  <2>2. QED
    BY <2>1, DivMod, Zenon
<1>5. S \in Int /\ S = o.asked - HeaderPart(o.pos, o.asked) /\ Delivered(o) = S - o.rem
  BY <1>1, <1>2 DEF Samples, Delivered
<1>6. sum = r + S - 1 /\ sum \in Int
  <2>1. sum = r + o.asked - HeaderPart(o.pos, o.asked) - 1
    BY <1>4, Zenon
  <2> HIDE DEF sum, S, from
  <2>2. QED
    BY <1>1, <1>2, <1>5, <2>1, SizesAre
<1> HIDE DEF from, S, sum
<1>7. PICK q2 \in Int, r2 \in 0..(FrameSize - 1) :
        q2 = sum \div FrameSize /\ r2 = sum % FrameSize /\ sum = q2 * FrameSize + r2
  BY <1>6, DivMod, Zenon
<1>8. o.last = (base + q) + q2
  BY <1>3, <1>4, <1>7, Zenon
<1> SUFFICES ASSUME o.next > o.last PROVE FALSE
  BY <1>1
<1> DEFINE d == o.next - base
           m == (q + q2) + 1
<1>9. d \in Int /\ m \in Int /\ m <= d
  BY <1>1, <1>8
<1>10. m * FrameSize <= d * FrameSize
  BY <1>9, SizesAre, Ordered
<1>11. m * FrameSize = q * FrameSize + q2 * FrameSize + FrameSize
  BY SizesAre
<1>12. q * FrameSize \in Int /\ q2 * FrameSize \in Int /\ d * FrameSize \in Int
  BY <1>9, SizesAre
<1>13. d * FrameSize = from + (S - o.rem) - o.off
  <2> HIDE DEF d
  <2>1. from + (S - o.rem) = d * FrameSize + o.off
    BY <1>3, <1>5, Zenon DEF d
  <2>2. QED
    BY <1>1, <1>2, <1>5, <1>12, <2>1 DEF from
<1> DEFINE x == q * FrameSize
           y == q2 * FrameSize
           z == d * FrameSize
           w == m * FrameSize
<1>14. /\ x \in Int /\ y \in Int /\ z \in Int /\ w <= z /\ w = x + y + FrameSize
       /\ z = from + (S - o.rem) - o.off /\ from = x + r /\ r + S - 1 = y + r2
  BY <1>4, <1>6, <1>7, <1>10, <1>11, <1>12, <1>13, Zenon
<1> HIDE DEF x, y, z, w, d, m
<1>15. r \in Int /\ r2 \in Int /\ r2 < FrameSize /\ FrameSize \in Int /\ from \in Int
  BY <1>2, SizesAre DEF from
<1>16. QED
  BY <1>1, <1>5, <1>14, <1>15

\* A turn keeps a call where its bytes are.
LEMMA TurnKept ==
  ASSUME NEW o \in Call, NEW base \in Int, NEW n, LocalAt(o, base, n), o.rem > 0
  PROVE  ToRead(o) \in Nat \ {0} /\ LocalAt(Turned(o), base, n + ToRead(o))
<1> DEFINE from == SamplesFrom(o.pos)
           S    == Samples(o)
           e    == ToRead(o)
           v    == Turned(o)
           d    == o.next - base
<1>1. o.rem \in Nat /\ o.next \in Int /\ o.last \in Int /\ o.off \in Nat /\ o.pos \in Nat /\ o.asked \in Nat
  BY DEF Call
<1>2. HeaderPart(o.pos, o.asked) \in 0..o.asked /\ from \in Nat
  BY <1>1, HeaderIs
<1>3. /\ o.rem <= S /\ n = o.asked - o.rem /\ o.asked \in Nat \ {0} /\ o.off < FrameSize
      /\ from + Delivered(o) = d * FrameSize + o.off
  BY Zenon DEF LocalAt
<1>4. S \in Int /\ Delivered(o) = S - o.rem
  BY <1>1, <1>2 DEF Samples, Delivered
<1>5. /\ v \in Call /\ v.pos = o.pos /\ v.asked = o.asked /\ v.rem = o.rem - e /\ v.next = o.next + 1
      /\ v.last = o.last /\ v.off = 0 /\ e \in Int /\ e <= o.rem
  BY TurnedIs, Zenon
<1>6. e \in Nat \ {0} /\ (e = o.rem \/ e = FrameSize - o.off)
  BY <1>1, <1>3, SizesAre DEF ToRead, Least
<1>7. Samples(v) = S /\ SamplesFrom(v.pos) = from /\ HeaderPart(v.pos, v.asked) = HeaderPart(o.pos, o.asked)
  BY <1>5, Zenon DEF Samples
<1>8. Delivered(v) = S - (o.rem - e)
  BY <1>5, <1>7, Zenon DEF Delivered
<1> HIDE DEF from, S, e, v
<1>9. v.rem <= Samples(v) /\ n + e = v.asked - v.rem /\ v.asked \in Nat \ {0}
  BY <1>1, <1>3, <1>4, <1>5, <1>6, <1>7
<1>10. v.last = (base + SamplesFrom(v.pos) \div FrameSize)
                  + ((SamplesFrom(v.pos) % FrameSize) + v.asked - HeaderPart(v.pos, v.asked) - 1) \div FrameSize
  BY <1>5, <1>7, Zenon DEF LocalAt, from
<1>11. v.rem > 0 => SamplesFrom(v.pos) + Delivered(v) = (v.next - base) * FrameSize + v.off /\ v.off < FrameSize
  <2> SUFFICES ASSUME v.rem > 0
               PROVE  SamplesFrom(v.pos) + Delivered(v) = (v.next - base) * FrameSize + v.off /\ v.off < FrameSize
    OBVIOUS
  <2>1. e = FrameSize - o.off
    BY <1>1, <1>5, <1>6
  <2>2. d \in Int /\ v.next - base = d + 1
    BY <1>1, <1>5
  <2>3. (d + 1) * FrameSize = d * FrameSize + FrameSize /\ d * FrameSize \in Int
    BY <2>2, SizesAre
  <2>4. (v.next - base) * FrameSize = d * FrameSize + FrameSize
    BY <2>2, <2>3, Zenon
  <2> DEFINE z == d * FrameSize
             y == (v.next - base) * FrameSize
  <2>5. z \in Int /\ y = z + FrameSize /\ from + (S - o.rem) = z + o.off
    BY <1>3, <1>4, <2>3, <2>4, Zenon
  <2> HIDE DEF z, y, d
  <2>6. from + (S - (o.rem - e)) = y + 0
    BY <1>1, <1>2, <1>4, <2>1, <2>5, SizesAre DEF from
  <2>7. 0 < FrameSize
    BY SizesAre
  <2>8. QED
    BY <1>5, <1>7, <1>8, <2>6, <2>7, Zenon DEF y
<1>12. LocalAt(v, base, n + e)
  BY <1>9, <1>10, <1>11, Zenon DEF LocalAt
<1>13. QED
  BY <1>6, <1>12, Zenon DEF e, v

(* The bytes of a turn are what they ought to be, if the buffer holds the  *)
(* frame they are of.                                                      *)
LEMMA TurnBytes ==
  ASSUME NEW o \in Call, NEW base \in Nat, NEW n, LocalAt(o, base, n), o.rem > 0,
         NEW k, NEW frames \in Nat, NEW held, NEW j \in 1..ToRead(o),
         o.next \in 0..(frames - 1) => held = o.next \/ (o.unread /\ o.next = 0)
  PROVE  Due(Turned(o), k, base, frames, n + j, FrameByte(held, o.off + j - 1))
<1> DEFINE from == SamplesFrom(o.pos)
           hdr  == HeaderPart(o.pos, o.asked)
           v    == Turned(o)
           d    == o.next - base
           x    == o.off + j - 1
           p    == v.pos + (n + j) - 1
<1>1. o.rem \in Nat /\ o.next \in Int /\ o.last \in Int /\ o.off \in Nat /\ o.pos \in Nat /\ o.asked \in Nat
  BY DEF Call
<1>2. /\ hdr \in 0..o.asked /\ from \in Nat
      /\ hdr < o.asked => o.pos + hdr = HeaderSize + from
  BY <1>1, HeaderIs
<1>3. /\ o.rem <= Samples(o) /\ n = o.asked - o.rem /\ o.off < FrameSize
      /\ from + Delivered(o) = d * FrameSize + o.off
  BY Zenon DEF LocalAt
<1>4. Samples(o) = o.asked - hdr /\ Delivered(o) = (o.asked - hdr) - o.rem
  BY DEF Samples, Delivered
<1>5. v.pos = o.pos /\ v.unread = o.unread
  BY TurnedIs, Zenon
<1>6. j \in Nat \ {0} /\ x \in 0..(FrameSize - 1)
  <2>1. ToRead(o) \in Int /\ ToRead(o) <= FrameSize - o.off
    BY <1>1, <1>3, SizesAre DEF ToRead, Least
  <2>2. j \in Nat \ {0} /\ j <= FrameSize - o.off
    BY <1>1, <2>1, SizesAre
  <2>3. QED
    BY <1>1, <2>2, SizesAre
<1>7. d \in Int /\ d * FrameSize \in Int
  BY <1>1, SizesAre
<1>8. p \in Int /\ p - HeaderSize = d * FrameSize + x /\ p - HeaderSize \in Nat
  <2> DEFINE z == d * FrameSize
  <2>1. z \in Int /\ from + ((o.asked - hdr) - o.rem) = z + o.off
    BY <1>3, <1>4, <1>7, Zenon
  <2>2. o.rem <= o.asked - hdr
    BY <1>3, <1>4, Zenon
  <2> HIDE DEF z, d, hdr, from, v, x, p
  <2>3. o.pos + hdr = HeaderSize + from
    BY <1>1, <1>2, <2>2 DEF hdr
  <2>4. p = o.pos + (n + j) - 1
    BY <1>5, Zenon DEF p
  <2>5. x = o.off + j - 1
    BY Zenon DEF x
  <2>6. from \in Nat /\ hdr \in Nat /\ HeaderSize \in Nat
    BY <1>1, <1>2, SizesAre
  <2>7. p \in Int /\ p - HeaderSize = z + x /\ p - HeaderSize \in Nat
    BY <1>1, <1>3, <1>6, <2>1, <2>2, <2>3, <2>4, <2>5, <2>6
  <2>8. QED
    BY <2>7, Zenon DEF z
<1>9. (p - HeaderSize) \div FrameSize = d /\ (p - HeaderSize) % FrameSize = x
  <2>1. p - HeaderSize \in Int
    BY <1>8
  <2> HIDE DEF p, d, x
  <2>2. QED
    BY <1>6, <1>7, <1>8, <2>1, DivIs, Zenon
<1>10. d >= 0
  <2> SUFFICES ASSUME d + 1 <= 0 PROVE FALSE
    BY <1>7
  <2> HIDE DEF p, d, x
  <2>1. (d + 1) * FrameSize <= 0 * FrameSize
    <3>1. d + 1 \in Int /\ 0 \in Int /\ FrameSize \in Nat
      BY <1>7, SizesAre
    <3>2. QED
      BY <3>1, Ordered, Zenon
  <2>2. (d + 1) * FrameSize = d * FrameSize + FrameSize /\ 0 * FrameSize = 0
    BY <1>7, SizesAre
  <2> DEFINE z == d * FrameSize
  <2>3. z \in Int /\ z + FrameSize <= 0 /\ z + x \in Nat
    BY <1>7, <1>8, <2>1, <2>2, Zenon
  <2> HIDE DEF z
  <2>4. QED
    BY <1>6, <2>3, SizesAre
<1>11. base + d = o.next /\ o.next \in Nat
  BY <1>1, <1>10
<1>12. ~(p < HeaderSize) /\ p >= HeaderSize
  <2>1. p \in Int /\ p - HeaderSize >= 0 /\ HeaderSize \in Int
    BY <1>8, SizesAre
  <2> HIDE DEF p
  <2>2. QED
    BY <2>1
<1>13. o.next < frames => held = o.next \/ (o.unread /\ o.next = 0)
  BY <1>11
<1> DEFINE b == FrameByte(held, x)
           f == base + (p - HeaderSize) \div FrameSize
<1>14. f = o.next
  BY <1>9, <1>11, Zenon
<1>15. f < frames => \/ b = FrameByte(f, (p - HeaderSize) % FrameSize)
                     \/ v.unread /\ p >= HeaderSize /\ f = 0
  <2> HIDE DEF f, p, v, x, d
  <2>1. QED
    BY <1>5, <1>9, <1>12, <1>13, <1>14, Zenon
<1>16. p < HeaderSize \/ f < frames =>
         \/ b = IF p < HeaderSize THEN HeaderByte(k, p) ELSE FrameByte(f, (p - HeaderSize) % FrameSize)
         \/ v.unread /\ p >= HeaderSize /\ f = 0
  <2> HIDE DEF f, p, v, x, d, b
  <2>1. QED
    BY <1>12, <1>15, Zenon
<1>17. QED
  BY <1>16, Zenon DEF Due

(* ReadCD_Audio_Frame: as long as the drive delivers, the buffer then has  *)
(* the frame asked for, or has been fresh, and is, and frame 0 was asked   *)
(* for.                                                                    *)
LEMMA FetchIs ==
  ASSUME TypeOK, Honest, NEW n \in Int, Fetch(n)
  PROVE  /\ buf' \in [frame : Int, holds : Nat \cup {NoFrame}]
         /\ faults' \in 0..MaxFaults /\ (faults' = 0 => faults = 0)
         /\ faults' = 0 /\ n \in 0 .. FramesOn(disc) - 1 =>
              buf'.holds = n \/ (buf = Fresh /\ n = 0)
         /\ faults' = 0 /\ buf'.frame \in 0 .. FramesOn(disc) - 1 =>
              buf'.holds = buf'.frame \/ buf' = Fresh
         /\ faults' = 0 /\ buf' = Fresh /\ FramesOn(disc) > 0 => buf = Fresh
<1>1. /\ buf \in [frame : Int, holds : Nat \cup {NoFrame}] /\ faults \in 0..MaxFaults
      /\ MaxFaults \in Nat /\ Frames = FramesOn(disc) /\ disc \in Disc
  BY BoundAssumption, DiscAssumption DEF TypeOK, Frames, FramesOn
<1>2. FramesOn(disc) \in Nat
  BY <1>1, SizesAre DEF FramesOn, Disc
<1> DEFINE F == FramesOn(disc)
<1>3. faults = 0 => (buf.frame \in 0..(F - 1) => buf.holds = buf.frame \/ buf = Fresh)
  BY DEF Honest
<1>4. NoFrame \notin Nat /\ Fresh.frame = 0 /\ Fresh.holds = NoFrame
  BY DEF NoFrame, Fresh
<1> HIDE DEF F
<1>5. CASE n = buf.frame /\ UNCHANGED <<buf, faults>>
  BY <1>1, <1>3, <1>4, <1>5 DEF F
<1>6. CASE /\ n # buf.frame /\ n \in 0..(Frames - 1) /\ buf' = [frame |-> n, holds |-> n] /\ UNCHANGED faults
  <2>1. n \in Nat /\ buf'.frame = n /\ buf'.holds = n
    BY <1>1, <1>2, <1>6
  <2>2. buf' # Fresh
    BY <1>4, <2>1
  <2>3. QED
    BY <1>1, <1>6, <2>1, <2>2
<1>7. CASE /\ n # buf.frame
           /\ IF n \in 0..(Frames - 1) THEN faults < MaxFaults /\ faults' = faults + 1
                                       ELSE UNCHANGED faults
           /\ \E held \in {buf.holds, NoFrame} : buf' = [frame |-> n, holds |-> held]
  <2>1. PICK held \in {buf.holds, NoFrame} : buf' = [frame |-> n, holds |-> held]
    BY <1>7
  <2>2. buf' \in [frame : Int, holds : Nat \cup {NoFrame}] /\ buf'.frame = n
    BY <1>1, <2>1
  <2>3. CASE n \in 0..(Frames - 1)
    BY <1>1, <1>7, <2>2, <2>3
  <2>4. CASE n \notin 0..(Frames - 1)
    <3>1. faults' = faults /\ n \notin 0..(FramesOn(disc) - 1)
      BY <1>1, <1>7, <2>4
    <3>2. buf' = Fresh /\ FramesOn(disc) > 0 => FALSE
      BY <1>2, <1>4, <2>2, <3>1
    <3>3. QED
      BY <1>1, <2>2, <3>1, <3>2
  <2>5. QED
    BY <2>3, <2>4
<1>8. QED
  BY <1>5, <1>6, <1>7 DEF Fetch

\* Memory's bytes are bytes, whatever it holds.
LEMMA FrameByteIs ==
  ASSUME NEW m \in Nat \cup {NoFrame}, NEW x \in Nat
  PROVE  FrameByte(m, x) \in Bytes
<1>1. CASE m = NoFrame
  BY <1>1 DEF FrameByte, Bytes
<1>2. CASE m \in Nat /\ m # NoFrame
  BY <1>2 DEF FrameByte, Bytes
<1>3. QED
  BY <1>1, <1>2

(* A turn of the loop, in which the thread's call becomes v and its bytes  *)
(* s, or the loop's end, keeps the invariant if it is right for the call.  *)
LEMMA TurnKeeps ==
  ASSUME AudioInv, NEW t \in Threads, NEW v \in Call, NEW s \in Seq(Bytes), NEW at \in {"frame", "return"},
         pc[t] = "frame", v.kind = op[t].kind, v.handle = op[t].handle, v.unread = op[t].unread,
         UNCHANGED <<disc, toc, calls, session, handle>>,
         op' = [op EXCEPT ![t] = v], out' = [out EXCEPT ![t] = s], pc' = [pc EXCEPT ![t] = at],
         buf' \in [frame : Int, holds : Nat \cup {NoFrame}],
         faults' \in 0..MaxFaults, faults' = 0 => faults = 0,
         faults' = 0 /\ buf'.frame \in 0 .. FramesOn(disc) - 1 => buf'.holds = buf'.frame \/ buf' = Fresh,
         faults' = 0 /\ buf' = Fresh /\ FramesOn(disc) > 0 => buf = Fresh,
         LocalIn(disc, toc, v, handle[v.handle].track, at, s, faults' = 0)
  PROVE  AudioInv'
<1>1. TypeOK /\ TableRight(disc, toc) /\ Honest /\ CallAt(t)
  BY DEF AudioInv
<1>2. /\ op' \in [Threads -> Call] /\ op'[t] = v /\ pc' \in [Threads -> Labels] /\ pc'[t] = at
      /\ out' \in [Threads -> Seq(Bytes)] /\ out'[t] = s
      /\ \A u \in Threads \ {t} : op'[u] = op[u] /\ pc'[u] = pc[u] /\ out'[u] = out[u]
  <2>1. at \in Labels
    BY DEF Labels
  <2>2. QED
    BY <1>1, <2>1 DEF TypeOK
<1>3. v.kind = "read" /\ session = t
  BY <1>1 DEF CallAt, TypeOK, Call
<1>4. \A u \in Threads \ {t} : pc[u] # "frame"
  <2> SUFFICES ASSUME NEW u \in Threads \ {t} PROVE pc[u] # "frame"
    OBVIOUS
  <2>1. op[u].kind # "read"
    BY <1>1, <1>3 DEF TypeOK
  <2>2. op[u].kind \in {"none", "seek"} /\ CallAt(u)
    BY <1>1, <2>1 DEF TypeOK, Call, AudioInv
  <2>3. QED
    BY <2>1, <2>2 DEF CallAt
<1>5. \A u \in Threads : op'[u].kind = "read" <=> session' = u
  BY <1>1, <1>2 DEF TypeOK
<1>6. TypeOK'
  BY <1>1, <1>2, <1>5 DEF TypeOK
<1>7. Honest'
  <2> SUFFICES ASSUME faults' = 0
               PROVE  /\ buf'.frame \in 0 .. FramesOn(disc) - 1 => buf'.holds = buf'.frame \/ buf' = Fresh
                      /\ \A u \in Threads : pc'[u] = "frame" /\ buf' = Fresh /\ FramesOn(disc) > 0 => op'[u].unread
    BY DEF Honest, Fresh
  <2>1. \A u \in Threads : pc[u] = "frame" /\ buf = Fresh /\ FramesOn(disc) > 0 => op[u].unread
    BY <1>1 DEF Honest
  <2>2. \A u \in Threads : pc'[u] = "frame" => u = t
    BY <1>2, <1>4
  <2>3. QED
    BY <1>2, <2>1, <2>2
<1>8. TableRight(disc, toc)'
  BY <1>1
<1>9. ASSUME NEW u \in Threads PROVE CallAt(u)' /\ Local(u)'
  <2>1. CASE u = t
    <3>1. CallAt(t)'
      BY <1>1, <1>2, <1>3 DEF CallAt, Opened
    <3>2. /\ disc' = disc /\ toc' = toc /\ handle' = handle
      OBVIOUS
    <3>3. LocalIn(disc', toc', op'[t], handle'[op'[t].handle].track, pc'[t], out'[t], faults' = 0)
      BY <1>2, <3>2, Zenon
    <3>4. Local(t)'
      BY <3>3, Zenon DEF Local
    <3>5. QED
      BY <2>1, <3>1, <3>4
  <2>2. CASE u # t
    <3>1. CallAt(u) /\ Local(u)
      BY DEF AudioInv
    <3>2. QED
      BY <1>2, <2>2, <3>1, Others
  <2>3. QED
    BY <2>1, <2>2
<1>10. QED
  BY <1>6, <1>7, <1>8, <1>9 DEF AudioInv

\* The elements of two sequences joined.
LEMMA Joined ==
  ASSUME NEW s \in Seq(Bytes), NEW x \in Seq(Bytes)
  PROVE  /\ Len(s) \in Nat /\ Len(x) \in Nat /\ Len(s \o x) = Len(s) + Len(x)
         /\ \A i \in 1..Len(s) : (s \o x)[i] = s[i]
         /\ \A j \in 1..Len(x) : (s \o x)[Len(s) + j] = x[j]
  OBVIOUS

(* What a turn delivers to a call of a track that is there: the bytes      *)
(* before it are as they were, those of the turn are of the frame fetched. *)
LEMMA TurnLocal ==
  ASSUME TableRight(disc, toc), NEW k \in 0..toc.last, NEW o \in Call, NEW s \in Seq(Bytes), NEW x \in Seq(Bytes),
         NEW calm \in BOOLEAN, NEW held, o.rem > 0, FramesOn(disc) \in Nat,
         LocalIn(disc, toc, o, k, "frame", s, calm),
         Len(x) = ToRead(o), \A j \in 1..Len(x) : x[j] = FrameByte(held, o.off + j - 1),
         calm /\ o.next \in 0 .. FramesOn(disc) - 1 => held = o.next \/ (o.unread /\ o.next = 0)
  PROVE  LocalIn(disc, toc, Turned(o), k, "frame", s \o x, calm)
<1> DEFINE base == BaseIn(toc, k)
           v    == Turned(o)
           e    == ToRead(o)
           y    == s \o x
           start == StartOn(disc, toc, k)
           F    == FramesOn(disc)
<1>1. base \in Int /\ toc.last \in Nat
  BY LbaIs DEF TableRight, Toc
<1>2. LocalAt(o, base, Len(s)) /\ (calm /\ k < toc.last => \A i \in 1..Len(s) : Due(o, k, start, F, i, s[i]))
  <2>1. "frame" \in {"frame", "return"} /\ k <= toc.last
    BY <1>1
  <2>2. QED
    BY <2>1, Zenon DEF LocalIn
<1>3. e \in Nat \ {0} /\ LocalAt(v, base, Len(s) + e)
  <2> DEFINE n == Len(s)
  <2> HIDE DEF n, base
  <2>1. ToRead(o) \in Nat \ {0} /\ LocalAt(Turned(o), base, n + ToRead(o))
    BY <1>1, <1>2, TurnKept, Zenon DEF n
  <2>2. QED
    BY <2>1, Zenon DEF n
<1>4. v.pos = o.pos /\ v.unread = o.unread
  BY TurnedIs, Zenon
<1>5. /\ Len(s) \in Nat /\ Len(x) \in Nat /\ Len(y) = Len(s) + Len(x)
      /\ \A i \in 1..Len(s) : y[i] = s[i]
      /\ \A j \in 1..Len(x) : y[Len(s) + j] = x[j]
  BY Joined
<1>6. LocalAt(v, base, Len(y))
  BY <1>3, <1>5, Zenon
<1>7. ASSUME calm, k < toc.last, NEW i \in 1..Len(y) PROVE Due(v, k, start, F, i, y[i])
  <2>1. base = start /\ base \in Nat
    <3>1. k \in 0 .. toc.last - 1
      BY <1>1, <1>7
    <3>2. QED
      BY <3>1, Zenon DEF TableRight
  <2>2. CASE i \in 1..Len(s)
    <3>1. Due(o, k, start, F, i, y[i])
      BY <1>2, <1>5, <1>7, <2>2, Zenon
    <3>2. QED
      BY <1>4, <3>1, Zenon DEF Due
  <2>3. CASE i \notin 1..Len(s)
    <3> DEFINE j == i - Len(s)
    <3>1. j \in 1..Len(x) /\ i = Len(s) + j
      BY <1>5, <2>3
    <3> HIDE DEF j
    <3>2. y[i] = FrameByte(held, o.off + j - 1)
      BY <1>5, <3>1, Zenon
    <3> DEFINE n == Len(s)
    <3> HIDE DEF n, base, start, F, y
    <3>3. /\ LocalAt(o, base, n) /\ j \in 1..ToRead(o)
          /\ o.next \in 0..(F - 1) => held = o.next \/ (o.unread /\ o.next = 0)
      BY <1>2, <1>7, <3>1, Zenon DEF n, F
    <3>4. F \in Nat
      BY DEF F
    <3>5. Due(Turned(o), k, base, F, n + j, FrameByte(held, o.off + j - 1))
      BY <2>1, <3>3, <3>4, TurnBytes, Zenon
    <3>6. QED
      BY <2>1, <3>1, <3>2, <3>5, Zenon DEF n
  <2>4. QED
    BY <2>2, <2>3
<1> HIDE DEF y, v, base, start, F
<1>8. LocalIn(disc, toc, v, k, "frame", y, calm)
  <2>1. ~("frame" = "return")
    OBVIOUS
  <2>2. QED
    BY <1>6, <1>7, <2>1, Zenon DEF LocalIn, base, start, F
<1>9. QED
  BY <1>8, Zenon DEF y, v

\* A turn of audiocdfs_readdata's loop, or its end, keeps the invariant.
LEMMA ReadFrameKeeps == ASSUME AudioInv, NEW t \in Threads, ReadFrame(t) PROVE AudioInv'
<1> DEFINE o == op[t]
           k == handle[o.handle].track
           e == ToRead(o)
<1>1. pc[t] = "frame" /\ UNCHANGED <<disc, toc, calls, session, handle>>
  BY DEF ReadFrame, At
<1>2. TypeOK /\ TableRight(disc, toc) /\ Honest /\ CallAt(t) /\ Local(t)
  BY DEF AudioInv
<1>3. o \in Call /\ o.kind = "read" /\ o.handle \in Handles /\ Opened(o.handle) /\ out[t] \in Seq(Bytes)
  BY <1>1, <1>2 DEF TypeOK, CallAt, Call
<1>4. k \in Nat
  <2>1. handle[o.handle] \in Handle /\ handle[o.handle].track # NoTrack
    BY <1>2, <1>3 DEF TypeOK, Opened
  <2>2. QED
    BY <2>1 DEF Handle
<1>5. LocalIn(disc, toc, o, k, "frame", out[t], faults = 0)
  BY <1>1, <1>2, Zenon DEF Local
<1>6. toc.last \in Nat /\ FramesOn(disc) \in Nat
  BY <1>2, SizesAre, DiscAssumption DEF TypeOK, Toc, FramesOn, Disc
<1>7. CASE o.rem = 0 \/ o.next > o.last
  <2>1. pc' = [pc EXCEPT ![t] = "return"] /\ UNCHANGED <<op, out, buf, faults>>
    BY <1>7 DEF ReadFrame
  <2>2. op' = [op EXCEPT ![t] = o] /\ out' = [out EXCEPT ![t] = out[t]]
    BY <1>2, <2>1 DEF TypeOK
  <2>3. LocalIn(disc, toc, o, k, "return", out[t], faults' = 0)
    <3> SUFFICES ASSUME k <= toc.last
                 PROVE  /\ LocalAt(o, BaseIn(toc, k), Len(out[t]))
                        /\ o.rem = 0
                        /\ (faults' = 0) /\ k < toc.last =>
                             \A i \in 1..Len(out[t]) : Due(o, k, StartOn(disc, toc, k), FramesOn(disc), i, out[t][i])
      BY Zenon DEF LocalIn
    <3>1. /\ LocalAt(o, BaseIn(toc, k), Len(out[t]))
          /\ (faults = 0) /\ k < toc.last =>
               \A i \in 1..Len(out[t]) : Due(o, k, StartOn(disc, toc, k), FramesOn(disc), i, out[t][i])
      BY <1>5, Zenon DEF LocalIn
    <3>2. BaseIn(toc, k) \in Int
      <4>1. k \in 0..toc.last /\ toc \in Toc /\ Len(toc.tracks) = toc.last + 1
        BY <1>2, <1>4, <1>6 DEF TableRight
      <4>2. QED
        BY <4>1, LbaIs, Zenon
    <3>3. o.rem = 0
      <4> DEFINE n == Len(out[t])
                 base == BaseIn(toc, k)
      <4>1. o.rem \in Nat /\ o.next \in Int /\ o.last \in Int
        BY <1>3 DEF Call
      <4>2. LocalAt(o, base, n) /\ base \in Int
        BY <3>1, <3>2, Zenon
      <4> HIDE DEF n, base, o, k
      <4>3. o.rem > 0 => o.next <= o.last
        BY <1>3, <4>2, LastReached, Zenon
      <4>4. QED
        BY <1>7, <4>1, <4>3
    <3>4. QED
      BY <2>1, <3>1, <3>3, Zenon
  <2>4. /\ buf' \in [frame : Int, holds : Nat \cup {NoFrame}]
        /\ faults' \in 0..MaxFaults /\ (faults' = 0 => faults = 0)
        /\ faults' = 0 /\ buf'.frame \in 0 .. FramesOn(disc) - 1 => buf'.holds = buf'.frame \/ buf' = Fresh
        /\ faults' = 0 /\ buf' = Fresh /\ FramesOn(disc) > 0 => buf = Fresh
    <3>1. /\ buf \in [frame : Int, holds : Nat \cup {NoFrame}] /\ faults \in 0..MaxFaults
      BY <1>2 DEF TypeOK
    <3>2. faults = 0 /\ buf.frame \in 0 .. FramesOn(disc) - 1 => buf.holds = buf.frame \/ buf = Fresh
      BY <1>2, Zenon DEF Honest
    <3>3. buf' = buf /\ faults' = faults
      BY <2>1
    <3>4. QED
      BY <3>1, <3>2, <3>3, Zenon
  <2>5. "return" \in {"frame", "return"} /\ o.kind = op[t].kind /\ o.handle = op[t].handle /\ o.unread = op[t].unread
    OBVIOUS
  <2>6. LocalIn(disc, toc, o, handle[o.handle].track, "return", out[t], faults' = 0)
    BY <2>3, Zenon
  <2> DEFINE v == o
             y == out[t]
             at == "return"
  <2>7. /\ v \in Call /\ y \in Seq(Bytes) /\ at \in {"frame", "return"}
        /\ v.kind = op[t].kind /\ v.handle = op[t].handle /\ v.unread = op[t].unread
        /\ op' = [op EXCEPT ![t] = v] /\ out' = [out EXCEPT ![t] = y] /\ pc' = [pc EXCEPT ![t] = at]
        /\ LocalIn(disc, toc, v, handle[v.handle].track, at, y, faults' = 0)
    BY <1>3, <2>1, <2>2, <2>5, <2>6, Zenon
  <2> HIDE DEF o, k, v, y, at
  <2>8. QED
    BY <1>1, <2>4, <2>7, TurnKeeps, Zenon
<1>8. CASE ~(o.rem = 0 \/ o.next > o.last)
  <2> DEFINE x == [i \in 1..e |-> FrameByte(buf'.holds, o.off + i - 1)]
             v == Turned(o)
             y == out[t] \o x
  <2>1. /\ Fetch(o.next)
        /\ out' = [out EXCEPT ![t] = @ \o x]
        /\ op' = [op EXCEPT ![t].rem = @ - e, ![t].next = @ + 1, ![t].off = 0]
        /\ UNCHANGED pc
    BY <1>8, Zenon DEF ReadFrame
  <2>2. op' = [op EXCEPT ![t] = v] /\ out' = [out EXCEPT ![t] = y]
    <3>1. op \in [Threads -> Call] /\ out \in [Threads -> Seq(Bytes)]
      BY <1>2 DEF TypeOK
    <3>2. out' = [out EXCEPT ![t] = y]
      BY <2>1, <3>1
    <3> HIDE DEF e
    <3>3. v = [o EXCEPT !.rem = @ - e, !.next = @ + 1, !.off = 0]
      BY DEF Turned, e
    <3> DEFINE q == [o EXCEPT !.rem = @ - e, !.next = @ + 1, !.off = 0]
    <3>4. op' = [op EXCEPT ![t] = q]
      BY <2>1, <3>1
    <3> HIDE DEF q, v
    <3>5. q = v
      BY <3>3 DEF q
    <3>6. QED
      BY <3>2, <3>4, <3>5
  <2>3. pc' = [pc EXCEPT ![t] = "frame"]
    <3>1. pc \in [Threads -> Labels]
      BY <1>2 DEF TypeOK
    <3>2. QED
      BY <1>1, <2>1, <3>1
  <2>4. o.next \in Int /\ o.rem \in Nat /\ o.rem > 0 /\ o.off \in Nat
    BY <1>3, <1>8 DEF Call
  <2>5. /\ buf' \in [frame : Int, holds : Nat \cup {NoFrame}]
        /\ faults' \in 0..MaxFaults /\ (faults' = 0 => faults = 0)
        /\ faults' = 0 /\ o.next \in 0 .. FramesOn(disc) - 1 =>
             buf'.holds = o.next \/ (buf = Fresh /\ o.next = 0)
        /\ faults' = 0 /\ buf'.frame \in 0 .. FramesOn(disc) - 1 => buf'.holds = buf'.frame \/ buf' = Fresh
        /\ faults' = 0 /\ buf' = Fresh /\ FramesOn(disc) > 0 => buf = Fresh
    BY <1>2, <2>1, <2>4, FetchIs
  <2>6. /\ v \in Call /\ v.kind = o.kind /\ v.handle = o.handle /\ v.unread = o.unread
        /\ e \in Int
    BY <1>3, TurnedIs, Zenon
  <2> DEFINE held == buf'.holds
  <2>7. held \in Nat \cup {NoFrame}
    BY <2>5
  <2>8. x \in Seq(Bytes) /\ (e \in Nat => Len(x) = e) /\ \A i \in 1..e : x[i] = FrameByte(held, o.off + i - 1)
    <3> DEFINE G(i) == FrameByte(held, o.off + i - 1)
    <3>1. ASSUME NEW i \in 1..e PROVE G(i) \in Bytes
      <4>1. o.off + i - 1 \in Nat
        BY <2>4, <2>6
      <4> HIDE DEF held
      <4>2. QED
        BY <2>7, <4>1, FrameByteIs, Zenon
    <3>2. x = [i \in 1..e |-> G(i)]
      BY Zenon
    <3> HIDE DEF G, x, e, o
    <3>3. PICK m \in Nat : 1..e = 1..m /\ (e \in Nat => m = e)
      <4>1. CASE e \in Nat
        BY <4>1
      <4>2. CASE e \notin Nat
        <5>1. 1..e = 1..0
          BY <2>6, <4>2
        <5>2. QED
          BY <4>2, <5>1
      <4>3. QED
        BY <4>1, <4>2
    <3>4. x = [i \in 1..m |-> G(i)] /\ \A i \in 1..m : G(i) \in Bytes
      BY <3>1, <3>2, <3>3
    <3>5. x \in Seq(Bytes) /\ Len(x) = m /\ \A i \in 1..m : x[i] = G(i)
      BY <3>3, <3>4
    <3>6. QED
      BY <3>3, <3>5 DEF G
  <2> HIDE DEF x
  <2>9. y \in Seq(Bytes)
    BY <1>3, <2>8
  <2>10. LocalIn(disc, toc, v, k, "frame", y, faults' = 0)
    <3> SUFFICES ASSUME k <= toc.last PROVE LocalIn(disc, toc, v, k, "frame", y, faults' = 0)
      BY Zenon DEF LocalIn
    <3>1. k \in 0..toc.last
      BY <1>4, <1>6
    <3>2. LocalIn(disc, toc, o, k, "frame", out[t], faults' = 0)
      BY <1>5, <2>5, Zenon DEF LocalIn
    <3>3. LocalAt(o, BaseIn(toc, k), Len(out[t]))
      <4>1. "frame" \in {"frame", "return"}
        OBVIOUS
      <4>2. QED
        BY <1>5, <4>1, Zenon DEF LocalIn
    <3>4. BaseIn(toc, k) \in Int
      BY <1>2, <3>1, LbaIs, Zenon DEF TableRight
    <3>5. e \in Nat \ {0}
      <4> DEFINE n == Len(out[t])
                 base == BaseIn(toc, k)
      <4>1. LocalAt(o, base, n) /\ base \in Int
        BY <3>3, <3>4, Zenon
      <4> HIDE DEF n, base, o
      <4>2. QED
        BY <1>3, <2>4, <4>1, TurnKept, Zenon
    <3>6. Len(x) = ToRead(o) /\ \A j \in 1..Len(x) : x[j] = FrameByte(held, o.off + j - 1)
      <4>1. e \in Nat
        BY <3>5
      <4>2. QED
        BY <2>8, <4>1, Zenon
    <3>7. (faults' = 0) /\ o.next \in 0 .. FramesOn(disc) - 1 => held = o.next \/ (o.unread /\ o.next = 0)
      <4> SUFFICES ASSUME faults' = 0, o.next \in 0 .. FramesOn(disc) - 1, buf = Fresh, o.next = 0
                   PROVE  o.unread
        BY <2>5, Zenon
      <4>1. FramesOn(disc) > 0 /\ faults = 0
        BY <1>6, <2>5
      <4>2. QED
        BY <1>1, <1>2, <4>1 DEF Honest
    <3>8. (faults' = 0) \in BOOLEAN /\ o.rem > 0
      BY <2>4
    <3> DEFINE s == out[t]
               calm == faults' = 0
    <3>9. s \in Seq(Bytes) /\ calm \in BOOLEAN /\ LocalIn(disc, toc, o, k, "frame", s, calm)
      BY <1>3, <3>2, <3>8, Zenon
    <3>10. calm /\ o.next \in 0 .. FramesOn(disc) - 1 => held = o.next \/ (o.unread /\ o.next = 0)
      BY <3>7, Zenon
    <3> HIDE DEF o, k, held, s, calm
    <3>11. LocalIn(disc, toc, Turned(o), k, "frame", s \o x, calm)
      BY <1>2, <1>3, <1>6, <2>8, <3>1, <3>6, <3>8, <3>9, <3>10, TurnLocal, Zenon
    <3>12. QED
      BY <3>11, Zenon DEF s, calm
  <2>11. LocalIn(disc, toc, v, handle[v.handle].track, "frame", y, faults' = 0)
    BY <2>6, <2>10, Zenon
  <2>12. v.kind = op[t].kind /\ v.handle = op[t].handle /\ v.unread = op[t].unread /\ "frame" \in {"frame", "return"}
    BY <2>6, Zenon
  <2> HIDE DEF v, y, o, k
  <2>13. QED
    BY <1>1, <2>2, <2>3, <2>5, <2>6, <2>9, <2>11, <2>12, TurnKeeps, Zenon
<1>9. QED
  BY <1>7, <1>8

-----------------------------------------------------------------------------
(* Theorems *)

\* Every step keeps the invariant.
LEMMA AudioStep == AudioInv /\ [Next]_vars => AudioInv'
<1> SUFFICES ASSUME AudioInv, [Next]_vars PROVE AudioInv'
  OBVIOUS
<1>1. CASE UNCHANGED vars
  <2>1. /\ disc' = disc /\ toc' = toc /\ session' = session /\ handle' = handle /\ buf' = buf
        /\ pc' = pc /\ op' = op /\ out' = out /\ calls' = calls /\ faults' = faults
    BY <1>1 DEF vars, local
  <2>2. TypeOK'
    BY <2>1 DEF AudioInv, TypeOK
  <2>3. TableRight(disc, toc)' /\ Honest'
    BY <2>1, HonestKept DEF AudioInv
  <2>4. ASSUME NEW u \in Threads PROVE CallAt(u)' /\ Local(u)'
    <3>1. CallAt(u) /\ Local(u)
      BY DEF AudioInv
    <3>2. QED
      BY <2>1, <3>1, Others
  <2>5. QED
    BY <2>2, <2>3, <2>4 DEF AudioInv
<1>2. CASE Next
  <2>1. PICK t \in Threads :
          Open(t) \/ Close(t) \/ Seek(t) \/ SeekMove(t) \/ Read(t) \/ ReadFrame(t) \/ Return(t)
    BY <1>2, Zenon DEF Next
  <2>2. CASE Open(t)
    BY <2>2, OpenKeeps
  <2>3. CASE Close(t)
    BY <2>3, CloseKeeps
  <2>4. CASE Seek(t)
    BY <2>4, SeekKeeps
  <2>5. CASE SeekMove(t)
    BY <2>5, SeekMoveKeeps
  <2>6. CASE Read(t)
    BY <2>6, ReadKeeps
  <2>7. CASE ReadFrame(t)
    BY <2>7, ReadFrameKeeps
  <2>8. CASE Return(t)
    BY <2>8, ReturnKeeps
  <2>9. QED
    BY <2>1, <2>2, <2>3, <2>4, <2>5, <2>6, <2>7, <2>8
<1>3. QED
  BY <1>1, <1>2

\* The frame at which a track starts, as the properties have it.
LEMMA StartIs == ASSUME NEW k PROVE Start(k) = StartOn(disc, toc, k)
  BY Zenon DEF Start, StartOn, Frames, FramesOn

\* The invariant says what reads deliver.
LEMMA SamplesRight == AudioInv => RightSamples
<1> SUFFICES ASSUME AudioInv, NEW t \in Threads, pc[t] = "return", faults = 0,
                    handle[op[t].handle].track < toc.last,
                    NEW i \in 1..op[t].asked
             PROVE  LET o == op[t]  k == handle[op[t].handle].track  p == o.pos + i - 1 IN
                    p < FileEnd(k) /\ (p < HeaderSize \/ FrameOf(k, p) < Frames) =>
                    /\ i \in DOMAIN out[t]
                    /\ \/ out[t][i] = FileByte(k, p)
                       \/ o.unread /\ p >= HeaderSize /\ FrameOf(k, p) = 0
  BY Zenon DEF RightSamples
<1> DEFINE o == op[t]
           k == handle[op[t].handle].track
           p == o.pos + i - 1
           F == FramesOn(disc)
           s == out[t]
<1>1. TypeOK /\ CallAt(t) /\ Local(t)
  BY DEF AudioInv
<1>2. o \in Call /\ s \in Seq(Bytes) /\ toc.last \in Nat /\ handle[o.handle] \in Handle
  BY <1>1 DEF TypeOK, CallAt, Toc
<1>3. k \in Int /\ k <= toc.last
  BY <1>2 DEF Handle, NoTrack
<1>4. LocalIn(disc, toc, o, k, "return", s, faults = 0)
  BY <1>1, Zenon DEF Local
<1>5. /\ LocalAt(o, BaseIn(toc, k), Len(s)) /\ o.rem = 0
      /\ \A j \in 1..Len(s) : Due(o, k, StartOn(disc, toc, k), F, j, s[j])
  <2>1. "return" \in {"frame", "return"}
    OBVIOUS
  <2> HIDE DEF o, k, s, F
  <2>2. QED
    BY <1>3, <1>4, <2>1, Zenon DEF LocalIn, k, F
<1>6. Len(s) = o.asked - o.rem /\ o.asked \in Nat
  BY <1>5, Zenon DEF LocalAt
<1>7. i \in 1..Len(s) /\ i \in DOMAIN s
  <2> HIDE DEF s
  <2>1. o.asked - 0 = o.asked
    BY <1>6
  <2>2. Len(s) = o.asked
    BY <1>5, <1>6, <2>1, Zenon
  <2>3. QED
    BY <1>2, <2>2
<1>8. Due(o, k, StartOn(disc, toc, k), F, i, s[i])
  BY <1>5, <1>7, Zenon
<1>9. FrameOf(k, p) = StartOn(disc, toc, k) + (p - HeaderSize) \div FrameSize /\ Frames = F
  <2> HIDE DEF k, p
  <2>1. FrameOf(k, p) = Start(k) + (p - HeaderSize) \div FrameSize
    BY Zenon DEF FrameOf
  <2>2. Start(k) = StartOn(disc, toc, k)
    BY StartIs, Zenon
  <2>3. QED
    BY <2>1, <2>2, Zenon DEF Frames, FramesOn
<1>10. p < HeaderSize \/ FrameOf(k, p) < Frames =>
         \/ s[i] = FileByte(k, p)
         \/ o.unread /\ p >= HeaderSize /\ FrameOf(k, p) = 0
  BY <1>8, <1>9, Zenon DEF Due, FileByte
<1> HIDE DEF o, k, p, F, s
<1>11. QED
  BY <1>7, <1>10, Zenon DEF o, k, p, s

\* And that the table is the sheet's.
LEMMA TableFaithful == AudioInv => CueFaithful
<1> SUFFICES ASSUME AudioInv, disc.kind = "bin"
             PROVE  /\ toc.last = TrackCount(disc.sheet)
                    /\ \A k \in 0..toc.last : TrackLba(k) - 150 = Start(k)
  BY Zenon DEF CueFaithful
<1>1. TableRight(disc, toc)
  BY DEF AudioInv
<1>2. toc.last = TrackCount(disc.sheet) /\ BaseIn(toc, toc.last) = FramesOn(disc) /\ toc.last \in Nat
  BY <1>1 DEF TableRight, Toc
<1>3. ASSUME NEW k \in 0..toc.last PROVE TrackLba(k) - 150 = Start(k)
  <2>1. ~(k > toc.last)
    BY <1>2
  <2>2. TrackLba(k) - 150 = BaseIn(toc, k)
    BY <2>1, Zenon DEF TrackLba, BaseIn
  <2>3. BaseIn(toc, k) = StartOn(disc, toc, k)
    <3>1. CASE k = toc.last
      <4>1. StartOn(disc, toc, toc.last) = FramesOn(disc)
        <5>1. disc.kind # "drive"
          OBVIOUS
        <5>2. QED
          BY <5>1, Zenon DEF StartOn
      <4>2. QED
        BY <1>2, <3>1, <4>1, Zenon
    <3>2. CASE k # toc.last
      <4>1. k \in 0 .. toc.last - 1
        BY <1>2, <3>2
      <4>2. QED
        BY <1>1, <4>1, Zenon DEF TableRight
    <3>3. QED
      BY <3>1, <3>2
  <2>4. QED
    BY <2>2, <2>3, StartIs, Zenon
<1>4. QED
  BY <1>2, <1>3

(* The inductive invariant holds: the table is the disc's, the buffer      *)
(* holds the frame it names, and what a read has delivered, what is left   *)
(* of it and the frame that comes next add up.                             *)
THEOREM AudioInvariant == Spec => []AudioInv
<1>1. QED
  BY AudioInit, AudioStep, PTL DEF Spec

(* The variables keep their types, and the session mutex is held by the    *)
(* thread that reads.                                                      *)
THEOREM AudioTypes == Spec => []TypeOK
<1>1. AudioInv => TypeOK
  BY DEF AudioInv
<1>2. QED
  BY <1>1, AudioInvariant, PTL

(* As long as the drive delivers, cdaudiofs_read delivers the track's own  *)
(* bytes, for discs and sheets of any length, frames and headers of any    *)
(* size, any threads, handles and seeks: no frame of another track, none   *)
(* twice and none left out, but for the disc's first, which is taken for   *)
(* buffered before it has been read.                                       *)
THEOREM AudioRightSamples == Spec => []RightSamples
<1>1. QED
  BY SamplesRight, AudioInvariant, PTL

(* cuebin_to_TOC makes a table with the sheet's tracks in their order,     *)
(* each at its INDEX 01, that ends where the binary file does, for sheets  *)
(* with any tracks that fit a table and any indices and other lines.       *)
THEOREM AudioCueFaithful == Spec => []CueFaithful
<1>1. QED
  BY TableFaithful, AudioInvariant, PTL
=============================================================================
