--------------------------- MODULE UdfFilesProofs ---------------------------
(***************************************************************************)
(* The properties of UdfFiles for any disc, sector size, chunk size,       *)
(* threads and reads of any length.  None is inductive: the invariant      *)
(* follows each call through its sector ranges, and the buffer as a call   *)
(* nothing disturbed sees it.                                              *)
(***************************************************************************)
EXTENDS UdfFiles, WellFoundedInduction, TLAPS

(* A read of n bytes from pos on begins in the first extent.  It has Room  *)
(* bytes there; the sectors of the range hold Capacity of them.            *)
First(f)  == Extents(f)[1]
Starts(f, pos, n) ==
  /\ Extents(f) # <<>> /\ First(f).length > 0
  /\ 0 <= pos /\ pos < Span(First(f)) /\ 0 < n
Room(f, pos, n)     == Least(n, Span(First(f)) - pos)
Capacity(f, pos, n) == (SectorsFor(Room(f, pos, n)) * SectorSize) - (pos % SectorSize)

\* The place of byte p of file f, if the first extent holds it.
Place(f, p) == (PartitionLba + First(f).location) * SectorSize + p

\* A call, by its record o: its ranges, and the bytes it has so far.
All(o) == SectorRanges(o.file, o.pos, o.asked)
Got(o) == o.asked - o.rem
Begun(o) == Starts(o.file, o.pos, o.asked)
Cap(o)   == Capacity(o.file, o.pos, o.asked)

Ranging == {"range", "take", "chunk", "mark"}
Serving == {"lookup", "serve"}
RawSteps == {"fetch", "number", "copy"}

\* What is asked for is a part of the file.
FromFile(o) ==
  /\ o.kind \in {"read", "cache"}
  /\ o.file \in Files /\ o.pos >= 0 /\ o.pos + o.asked <= Dirlist[o.file].size
  /\ o.kind = "cache" => o.pos = 0 /\ o.asked = Dirlist[o.file].size

\* What a call is, by its step p, its record o and the bytes b delivered so far.
LocalAt(p, o, b) ==
  /\ p # "idle" => o.kind # "none"
  /\ Len(b) <= o.asked
  /\ p \in {"idle", "enter", "next", "flag", "index"} \cup Serving => b = <<>>
  /\ p \in {"enter"} \cup Serving \cup Ranging => FromFile(o)
  /\ p = "return" /\ o.kind # "raw" => FromFile(o)
  /\ p = "enter" => o.rem = o.asked /\ ~o.matched /\ o.off < SectorSize
  /\ p \in Serving => o.cached
  /\ p \in Ranging => /\ ~o.cached /\ Len(b) = Got(o) /\ o.off < SectorSize
                      /\ \A i \in DOMAIN o.ranges : o.ranges[i].len >= 1
  /\ p \in {"take", "mark"} => o.blocks >= 1
  /\ p = "chunk" => o.blocks >= 0
  /\ p = "mark" => o.rem > 0
  /\ p \in {"flag", "index", "next"} => o.kind = "cache"
  /\ p \in {"flag", "index"} => o.file \in Files
  /\ p \in RawSteps => /\ o.kind = "raw" /\ o.pos >= 0 /\ o.blocks >= 1
                       /\ Len(b) + o.blocks * SectorSize = o.asked
                       /\ o.sector * SectorSize = o.pos * SectorSize + Len(b)
  /\ p = "return" /\ o.kind = "raw" => o.pos >= 0 /\ Len(b) = o.asked

(* Where a call that begins in the first extent is: before the first       *)
(* range, in it, or past it.                                               *)
Before(o) == o.ranges = All(o) /\ o.rem = o.asked /\ ~o.matched

Filled(o) == o.rem = 0 /\ (o.asked <= Cap(o) \/ (o.matched /\ o.asked <= SectorSize))

Running(o) ==
  /\ o.sector * SectorSize + o.off = Place(o.file, o.pos + Got(o))
  /\ o.blocks * SectorSize - o.off + Got(o) = Cap(o)
  /\ o.blocks = 0 => o.off = 0

AtSome(o) == o.matched => Got(o) >= Least(o.asked, SectorSize)

Within(p, o) ==
  /\ o.ranges = Tail(All(o))
  /\ p = "take" => Running(o) /\ Got(o) = 0 /\ o.off = o.pos % SectorSize
                    /\ (o.off > 0 => o.matched)
  /\ p = "chunk" => (Running(o) \/ Filled(o)) /\ AtSome(o)
  /\ p = "mark" => Running(o) /\ AtSome(o)

Past(o, n) ==
  /\ n = o.asked \/ n >= Cap(o)
  /\ n > 0
  /\ o.matched => n >= Least(o.asked, SectorSize)
  /\ Len(All(o)) = 1 => n <= Cap(o) \/ (o.matched /\ n <= SectorSize)

StageAt(p, o, b) ==
  /\ o.matched => o.pos % SectorSize # 0
  /\ p \in Ranging \cup {"return"} /\ o.kind # "raw" /\ ~o.cached /\ Begun(o)
       => /\ p = "range" => Before(o) \/ (Past(o, Len(b)) /\ (Len(All(o)) = 1 => o.ranges = <<>>))
          /\ p \in {"take", "chunk", "mark"}
               => Within(p, o) \/ (Past(o, Len(b)) /\ Len(All(o)) > 1)
          /\ p = "return" => Past(o, Len(b))

\* A handle belongs to a file, and a read to an open handle.
Handled(t) ==
  /\ handle[t] # Closed => handle[t].file \in Files
  /\ Busy(t) /\ op[t].kind = "read" => handle[t] # Closed

\* A lookup found an entry; a file is flagged before its index is set.
Found(t) ==
  /\ pc[t] = "serve" =>
       /\ op[t].gen <= passes
       /\ op[t].gen = passes => /\ op[t].found \in DOMAIN entries
                                /\ op[t].spoiled \/ ( /\ entries[op[t].found].sound
                                                      /\ entries[op[t].found].file = op[t].file)
  /\ pc[t] = "index" => op[t].file \in cached

Local == \A t \in Threads :
  LocalAt(pc[t], op[t], out[t]) /\ StageAt(pc[t], op[t], out[t]) /\ Handled(t) /\ Found(t)

-----------------------------------------------------------------------------
(* What the threads share                                                  *)

\* An entry holds as many bytes as its file; if sound, those of the first extent are right.
Kept(e) ==
  /\ Len(e.bytes) = Dirlist[e.file].size
  /\ e.sound /\ Starts(e.file, 0, Len(e.bytes))
       => \A p \in 1..Len(e.bytes) : p <= Span(First(e.file)) => e.bytes[p] = Place(e.file, p - 1)

Cached == \A i \in DOMAIN entries : Kept(entries[i])

Alone(t) == \A u \in Threads \ {t} : ~Busy(u)

\* While nothing went wrong, only a sector just read has not its number yet.
Quiet ==
  quiet => /\ \A t \in Threads : Busy(t) /\ op[t].kind = "raw" => Alone(t)
           /\ \A t \in Threads : pc[t] = "mark" => buf.holds = LastOfChunk(t)
           /\ \A t \in Threads : pc[t] = "number" => buf.holds = op[t].sector
           /\ (\A t \in Threads : pc[t] \notin {"mark", "number"}) => Honest \/ buf.sector = 0

-----------------------------------------------------------------------------
(* A call nothing disturbed                                                *)

\* The bytes delivered from the first range are the file's, except for the hole.
Good(o, b) ==
  \A i \in 1..Len(b) : i <= Cap(o) /\ i \notin Hole(o) => b[i] = Place(o.file, o.pos + i - 1)

\* The bytes delivered from the cache are the file's.
Served(o, b) ==
  \A i \in 1..Len(b) : o.pos + i <= Span(First(o.file)) => b[i] = Place(o.file, o.pos + i - 1)

\* The buffer f is to be relied on by a call that has these ranges to read.
Reliable(f, ranges) ==
  f.holds = f.sector \/ \A i \in DOMAIN ranges : PartitionLba + ranges[i].sector # f.sector

\* What the call finds in the buffers f and c, at its step p.
CalmAt(p, o, b, f, c) ==
  /\ p \in {"range", "take", "chunk"} => Reliable(f, o.ranges)
  /\ p = "take" => f.holds = o.sector
  /\ p = "mark" => /\ f.holds = o.sector + Least(o.blocks, ChunkSectors) - 1
                   /\ \A i \in 1..Least(o.blocks, ChunkSectors) : c[i] = o.sector + i - 1
  /\ p \in {"number", "copy"} => f.holds = o.sector
  /\ o.kind = "raw" => \A i \in 1..Len(b) : b[i] = o.pos * SectorSize + i - 1
  /\ p \in Ranging \cup {"return"} /\ o.kind # "raw" /\ ~o.cached /\ Begun(o) => Good(o, b)
  /\ p = "return" /\ o.kind = "read" /\ o.cached /\ ~o.spoiled /\ Begun(o) => Served(o, b)

\* Calls that may be under way together.
Apart(o, p) ==
  "raw" \notin {o.kind, p.kind} /\ ~(o.kind = "read" /\ o.cached /\ p.kind = "cache")

Calm(t) ==
  calm[t] /\ Busy(t) => /\ \A u \in Threads \ {t} : Busy(u) => Apart(op[t], op[u])
                        /\ pc[t] = "serve" => op[t].gen = passes
                        /\ CalmAt(pc[t], op[t], out[t], buf, chunk)

Undisturbed == \A t \in Threads : Calm(t)

UdfInv == TypeOK /\ Local /\ Cached /\ Quiet /\ Undisturbed

-----------------------------------------------------------------------------
(* Numbers and sequences *)

\* A product grows with its factor.
LEMMA Ordered ==
  ASSUME NEW x \in Int, NEW y \in Int, x <= y, NEW n \in Nat
  PROVE  x * n <= y * n
  OBVIOUS

\* What division with a remainder means.
LEMMA Quotient ==
  ASSUME NEW a \in Int, NEW n \in Int, n > 0,
         NEW q \in Int, NEW r \in Int, q = a \div n, r = a % n
  PROVE  a = q * n + r
  OBVIOUS

\* A summand moves from one side of a sum to another.
LEMMA Shifted ==
  ASSUME NEW a \in Int, NEW b \in Int, NEW c \in Int, NEW d \in Int, NEW k \in Int, a + b = c + d
  PROVE  a + k + b = c + (d + k)
  OBVIOUS

\* The multiples next to a multiple.
LEMMA NextMultiple ==
  ASSUME NEW a \in Int, NEW n \in Nat \ {0}
  PROVE  (a + 1) * n = a * n + n /\ (a - 1) * n = a * n - n
  OBVIOUS

\* Multiples of a sum and of a difference.
LEMMA SumMultiple ==
  ASSUME NEW a \in Int, NEW k \in Int, NEW n \in Nat \ {0}
  PROVE  /\ (a + k) * n = a * n + k * n /\ (a - k) * n = a * n - k * n
         /\ a * n \in Int /\ k * n \in Int
  OBVIOUS

\* A positive multiple is no smaller than the number.
LEMMA Multiple ==
  ASSUME NEW a \in Int, a >= 1, NEW n \in Nat \ {0}
  PROVE  a * n >= n
  OBVIOUS

\* A place is a sector and an offset in it.
LEMMA DivMod ==
  ASSUME NEW a \in Int
  PROVE  \E q \in Int, r \in 0..(SectorSize - 1) :
           q = a \div SectorSize /\ r = a % SectorSize /\ a = q * SectorSize + r
<1>1. PICK q \in Int : q = a \div SectorSize
  BY SizeAssumption
<1>2. PICK r \in 0..(SectorSize - 1) : r = a % SectorSize
  BY SizeAssumption
<1>3. r \in Int /\ SectorSize \in Int /\ SectorSize > 0
  BY SizeAssumption
<1>4. a = q * SectorSize + r
  BY <1>1, <1>2, <1>3, Quotient
<1>5. QED
  BY <1>1, <1>2, <1>4, Zenon

\* And no other sector and offset.
LEMMA DivIs ==
  ASSUME NEW a \in Int, NEW q \in Int, NEW r \in 0..(SectorSize - 1),
         a = q * SectorSize + r
  PROVE  a \div SectorSize = q /\ a % SectorSize = r
<1>0. SectorSize \in Nat \ {0}
  BY SizeAssumption
<1>1. PICK d \in Int, m \in 0..(SectorSize - 1) :
        d = a \div SectorSize /\ m = a % SectorSize /\ a = d * SectorSize + m
  BY DivMod
<1>2. ~(q < d)
  <2> SUFFICES ASSUME q < d PROVE FALSE
    OBVIOUS
  <2>1. (q + 1) * SectorSize <= d * SectorSize
    BY <1>0, Ordered
  <2>2. (q + 1) * SectorSize = q * SectorSize + SectorSize
    BY <1>0
  <2>3. m \in Int /\ m >= 0 /\ r \in Int /\ r < SectorSize
    BY <1>0
  <2>4. q * SectorSize + r = d * SectorSize + m
    BY <1>1
  <2>5. QED
    BY <2>1, <2>2, <2>3, <2>4, <1>0
<1>3. ~(d < q)
  <2> SUFFICES ASSUME d < q PROVE FALSE
    OBVIOUS
  <2>1. (d + 1) * SectorSize <= q * SectorSize
    BY <1>0, Ordered
  <2>2. (d + 1) * SectorSize = d * SectorSize + SectorSize
    BY <1>0
  <2>3. r \in Int /\ r >= 0 /\ m \in Int /\ m < SectorSize
    BY <1>0
  <2>4. q * SectorSize + r = d * SectorSize + m
    BY <1>1
  <2>5. QED
    BY <2>1, <2>2, <2>3, <2>4, <1>0
<1>4. d = q
  BY <1>2, <1>3
<1>5. m = r
  <2>1. d * SectorSize = q * SectorSize
    BY <1>4
  <2>2. d * SectorSize \in Int /\ m \in Int /\ r \in Int
    BY <1>0
  <2>3. QED
    BY <1>1, <2>1, <2>2
<1>6. QED
  BY <1>1, <1>4, <1>5, Zenon

\* A set of naturals has a least one.
LEMMA LeastIs ==
  ASSUME NEW M, M \subseteq Nat, M # {}
  PROVE  \E m \in M : \A k \in M : m <= k
<1> DEFINE R == {ss \in Nat \X Nat : ss[1] < ss[2]}
<1>1. IsWellFoundedOn(R, Nat)
  BY NatLessThanWellFounded, Zenon DEF OpToRel
<1> HIDE DEF R
<1>2. PICK m \in M : \A k \in M : ~(<<k, m>> \in R)
  BY <1>1, WFMin
<1>3. ASSUME NEW k \in M, k < m PROVE FALSE
  <2>1. <<k, m>> \in R
    BY <1>3 DEF R
  <2>2. QED
    BY <2>1, <1>2
<1>4. m \in Nat /\ \A k \in M : k \in Nat
  OBVIOUS
<1>5. QED
  BY <1>3, <1>4

\* A function on an initial part of the positive numbers is a sequence.
LEMMA MakeSeq ==
  ASSUME NEW S, NEW n \in Nat, NEW f \in [1..n -> S]
  PROVE  f \in Seq(S) /\ Len(f) = n
  OBVIOUS

\* A sequence's length, domain and elements.
LEMMA SeqIs ==
  ASSUME NEW S, NEW f \in Seq(S)
  PROVE  Len(f) \in Nat /\ DOMAIN f = 1..Len(f) /\ \A i \in 1..Len(f) : f[i] \in S
  OBVIOUS

\* What one sequence after another is.
LEMMA Concats ==
  ASSUME NEW S, NEW a \in Seq(S), NEW b \in Seq(S)
  PROVE  /\ a \o b \in Seq(S) /\ Len(a \o b) = Len(a) + Len(b)
         /\ \A i \in 1..Len(a) : (a \o b)[i] = a[i]
         /\ \A i \in 1..Len(b) : (a \o b)[Len(a) + i] = b[i]
  OBVIOUS

\* Least is one of the two, and no greater than either.
LEMMA LeastOf ==
  ASSUME NEW a \in Int, NEW b \in Int
  PROVE  /\ Least(a, b) \in Int /\ Least(a, b) <= a /\ Least(a, b) <= b
         /\ Least(a, b) = a \/ Least(a, b) = b
  BY DEF Least

\* Greatest is one of the two, and no smaller than either.
LEMMA GreatestOf ==
  ASSUME NEW a \in Int, NEW b \in Int
  PROVE  /\ Greatest(a, b) \in Int /\ a <= Greatest(a, b) /\ b <= Greatest(a, b)
         /\ Greatest(a, b) = a \/ Greatest(a, b) = b
  BY DEF Greatest

-----------------------------------------------------------------------------
(* Files *)

(* The bytes of the first i extents: recursive functions are defined on    *)
(* every initial part of a sequence, or there is a first where they are    *)
(* not.                                                                    *)
SumsTo(d, n, g) == g = [i \in 0..n |-> IF i = 0 THEN 0 ELSE g[i - 1] + d[i].length]

\* For each initial part of the extents there is such a function.
LEMMA SumThere ==
  ASSUME NEW d \in Seq(Extent), NEW n \in 0..Len(d)
  PROVE  \E g : SumsTo(d, n, g)
<1> DEFINE M == {m \in 0..Len(d) : ~ \E g : SumsTo(d, m, g)}
<1>1. SUFFICES M = {}
  OBVIOUS
<1>2. SUFFICES ASSUME M # {} PROVE FALSE
  OBVIOUS
<1>3. M \subseteq Nat
  OBVIOUS
<1>4. PICK m \in M : \A k \in M : m <= k
  BY <1>2, <1>3, LeastIs
<1>5. m \in Nat /\ m <= Len(d) /\ Len(d) \in Nat
  BY SeqIs
<1>6. CASE m = 0
  <2> DEFINE g == [i \in 0..0 |-> 0]
  <2>1. g = [i \in 0..0 |-> IF i = 0 THEN 0 ELSE g[i - 1] + d[i].length]
    OBVIOUS
  <2>2. SumsTo(d, m, g)
    BY <2>1, <1>6 DEF SumsTo
  <2>3. QED
    BY <2>2
<1>7. CASE m # 0
  <2>1. m - 1 \in 0..Len(d) /\ m - 1 \notin M
    BY <1>4, <1>5, <1>7
  <2>2. PICK g : SumsTo(d, m - 1, g)
    BY <2>1
  <2> DEFINE h == [i \in 0..m |-> IF i = m THEN g[m - 1] + d[m].length ELSE g[i]]
  <2>3. DOMAIN g = 0..(m - 1)
    BY <2>2 DEF SumsTo
  <2>4. ASSUME NEW i \in 0..m
        PROVE  h[i] = IF i = 0 THEN 0 ELSE h[i - 1] + d[i].length
    <3>1. CASE i = m
      <4>1. h[i - 1] = g[m - 1] /\ h[i] = g[m - 1] + d[m].length
        BY <3>1, <1>5, <1>7
      <4>2. QED
        BY <4>1, <3>1, <1>7
    <3>2. CASE i # m /\ i # 0
      <4>1. i \in 0..(m - 1) /\ i - 1 \in 0..(m - 1) /\ i - 1 # m /\ i - 1 \in 0..m
        BY <3>2, <1>5
      <4>2. h[i - 1] = g[i - 1] /\ h[i] = g[i]
        BY <4>1, <3>2
      <4>3. g[i] = g[i - 1] + d[i].length
        BY <4>1, <3>2, <2>2 DEF SumsTo
      <4>4. QED
        BY <4>2, <4>3, <3>2
    <3>3. CASE i = 0
      <4>1. h[i] = g[0] /\ 0 \in 0..(m - 1)
        BY <3>3, <1>5, <1>7
      <4>2. g[0] = 0
        BY <4>1, <2>2 DEF SumsTo
      <4>3. QED
        BY <4>1, <4>2, <3>3
    <3>4. QED
      BY <3>1, <3>2, <3>3
  <2>5. h = [i \in 0..m |-> IF i = 0 THEN 0 ELSE h[i - 1] + d[i].length]
    <3>1. h = [i \in 0..m |-> h[i]]
      OBVIOUS
    <3> HIDE DEF h
    <3>2. QED
      BY <2>4, <3>1
  <2> HIDE DEF h
  <2>6. SumsTo(d, m, h)
    BY <2>5 DEF SumsTo
  <2>7. QED
    BY <2>6, <1>4
<1>8. QED
  BY <1>6, <1>7

\* Extents have a place and a length.
LEMMA ExtentsAre ==
  ASSUME NEW d \in Seq(Extent)
  PROVE  /\ Len(d) \in Nat /\ DOMAIN d = 1..Len(d)
         /\ \A i \in 1..Len(d) : d[i].location \in Nat /\ d[i].length \in Nat
<1>1. Len(d) \in Nat /\ DOMAIN d = 1..Len(d) /\ \A i \in 1..Len(d) : d[i] \in Extent
  BY SeqIs, Zenon
<1>2. \A e \in Extent : e.location \in Nat /\ e.length \in Nat
  BY DEF Extent
<1>3. QED
  BY <1>1, <1>2

\* BytesUpTo adds the lengths of the extents up.
LEMMA SumIs ==
  ASSUME NEW d \in Seq(Extent)
  PROVE  /\ BytesUpTo(d) \in [0..Len(d) -> Nat] /\ BytesUpTo(d)[0] = 0
         /\ \A i \in 1..Len(d) : BytesUpTo(d)[i] = BytesUpTo(d)[i - 1] + d[i].length
<1> DEFINE s == BytesUpTo(d)
<1>0. Len(d) \in Nat /\ \A i \in 1..Len(d) : d[i].length \in Nat
  BY ExtentsAre
<1>1. \E g : SumsTo(d, Len(d), g)
  BY <1>0, SumThere
<1>2. SumsTo(d, Len(d), s)
  <2>1. s = CHOOSE g : SumsTo(d, Len(d), g)
    BY DEF BytesUpTo, SumsTo
  <2>2. QED
    BY <1>1, <2>1
<1> HIDE DEF s
<1>3. DOMAIN s = 0..Len(d) /\ s[0] = 0
      /\ \A i \in 1..Len(d) : s[i] = s[i - 1] + d[i].length
  BY <1>0, <1>2 DEF SumsTo
<1> DEFINE M == {i \in 0..Len(d) : s[i] \notin Nat}
<1>4. M = {}
  <2>1. SUFFICES ASSUME M # {} PROVE FALSE
    OBVIOUS
  <2>2. M \subseteq Nat
    OBVIOUS
  <2>3. PICK m \in M : \A k \in M : m <= k
    BY <2>1, <2>2, LeastIs
  <2>4. m # 0 /\ m \in 1..Len(d)
    BY <1>0, <1>3
  <2>5. m - 1 \in 0..Len(d) /\ m - 1 \notin M
    BY <1>0, <2>3, <2>4
  <2>6. s[m - 1] \in Nat /\ s[m] = s[m - 1] + d[m].length /\ d[m].length \in Nat
    BY <1>0, <1>3, <2>4, <2>5
  <2>7. QED
    BY <2>6
<1>5. \A i \in 0..Len(d) : s[i] \in Nat
  BY <1>4
<1>6. s = [i \in 0..Len(d) |-> s[i]]
  BY <1>2, <1>3 DEF SumsTo
<1>7. s \in [0..Len(d) -> Nat]
  BY <1>5, <1>6
<1>8. QED
  BY <1>3, <1>7 DEF s

\* Of more extents there are no fewer bytes.
LEMMA SumGrows ==
  ASSUME NEW d \in Seq(Extent), NEW i \in 0..Len(d), NEW j \in 0..Len(d), i <= j
  PROVE  BytesUpTo(d)[i] <= BytesUpTo(d)[j]
<1> DEFINE s == BytesUpTo(d)
           M == {k \in 0..Len(d) : i <= k /\ ~(s[i] <= s[k])}
<1>0. Len(d) \in Nat /\ \A k \in 1..Len(d) : d[k].length \in Nat
  BY ExtentsAre
<1>1. s \in [0..Len(d) -> Nat] /\ \A k \in 1..Len(d) : s[k] = s[k - 1] + d[k].length
  BY SumIs
<1> HIDE DEF s
<1>2. SUFFICES ASSUME M # {} PROVE FALSE
  BY DEF s
<1>3. M \subseteq Nat
  OBVIOUS
<1>4. PICK m \in M : \A k \in M : m <= k
  BY <1>2, <1>3, LeastIs
<1>5. m # i /\ m \in 1..Len(d) /\ i <= m - 1
  BY <1>0, <1>1
<1>6. m - 1 \in 0..Len(d) /\ m - 1 \notin M
  BY <1>0, <1>4, <1>5
<1>7. s[i] <= s[m - 1]
  BY <1>5, <1>6
<1>8. s[i] \in Nat /\ s[m - 1] \in Nat /\ s[m] = s[m - 1] + d[m].length /\ d[m].length \in Nat
  BY <1>0, <1>1, <1>5, <1>6
<1>9. QED
  BY <1>7, <1>8

\* The parser leaves a size and extents for each file.
LEMMA FileTypes ==
  ASSUME NEW f \in Files
  PROVE  Dirlist[f].size \in Nat /\ Extents(f) \in Seq(Extent) /\ f \in Nat \ {0}
<1> DEFINE e == FileEntries[f]
<1>1. FileEntries \in Seq(FileEntry) /\ Files = DOMAIN FileEntries
  BY EntriesAssumption DEF Files, Dirlist
<1>2. e \in FileEntry /\ f \in Nat \ {0}
  <2>1. DOMAIN FileEntries = 1..Len(FileEntries) /\ Len(FileEntries) \in Nat
        /\ \A i \in 1..Len(FileEntries) : FileEntries[i] \in FileEntry
    BY <1>1, SeqIs, Zenon
  <2>2. QED
    BY <1>1, <2>1
<1>3. e.infoLen \in Nat /\ e.descs \in Seq(Extent)
  BY <1>2 DEF FileEntry
<1>4. <<>> \in Seq(Extent)
  OBVIOUS
<1>5. ASSUME NEW d \in Seq(Extent) PROVE TotalLength(d) \in Nat
  <2>1. BytesUpTo(d) \in [0..Len(d) -> Nat] /\ Len(d) \in 0..Len(d)
    BY SumIs, ExtentsAre
  <2>2. QED
    BY <2>1 DEF TotalLength
<1>6. CASE Version = 2
  <2>1. Dirlist[f] = ParseFileEntry(e)
    BY <1>1, <1>6 DEF Dirlist
  <2>2. QED
    BY <2>1, <1>2, <1>3, <1>4 DEF ParseFileEntry, Extents
<1>7. CASE Version # 2
  <2> DEFINE found == IF e.alloc \in {0, 1} THEN e.descs ELSE <<>>
  <2>1. Dirlist[f] = ParseExtendedFileEntry(e)
    BY <1>1, <1>7 DEF Dirlist
  <2>2. found \in Seq(Extent)
    BY <1>3, <1>4
  <2>3. Dirlist[f].size = TotalLength(found) /\ Extents(f) = found
    BY <2>1 DEF ParseExtendedFileEntry, Extents
  <2> HIDE DEF found
  <2>4. QED
    BY <1>2, <1>5, <2>2, <2>3
<1>8. QED
  BY <1>6, <1>7

-----------------------------------------------------------------------------
(* Ranges *)

\* Where the spans of the extents of a file begin.
LEMMA SpansAre ==
  ASSUME NEW f \in Files
  PROVE  /\ SpanStart(f, 1) = 0
         /\ \A i \in 1..Len(Extents(f)) :
              /\ SpanStart(f, i) \in Nat /\ Span(Extents(f)[i]) \in Nat
              /\ SpanStart(f, i + 1) = SpanStart(f, i) + Span(Extents(f)[i])
              /\ Extents(f)[i].length > 0 => Span(Extents(f)[i]) > 0
         /\ \A i, j \in 1..(Len(Extents(f)) + 1) : i <= j => SpanStart(f, i) <= SpanStart(f, j)
<1> DEFINE d == Extents(f)
           s == BytesUpTo(d)
<1>0. SectorSize \in Nat \ {0}
  BY SizeAssumption
<1>1. d \in Seq(Extent)
  BY FileTypes
<1>2. Len(d) \in Nat /\ \A i \in 1..Len(d) : d[i].length \in Nat
  BY <1>1, ExtentsAre
<1>3. /\ s \in [0..Len(d) -> Nat] /\ s[0] = 0
      /\ \A i \in 1..Len(d) : s[i] = s[i - 1] + d[i].length
  BY <1>1, SumIs
<1>4. \A i, j \in 0..Len(d) : i <= j => s[i] <= s[j]
  BY <1>1, SumGrows
<1>5. \A i : SpanStart(f, i) = s[i - 1] * SectorSize
  BY DEF SpanStart, BytesBefore
<1>6. \A i : Span(d[i]) = d[i].length * SectorSize
  BY DEF Span
<1> HIDE DEF s, d
<1>7. SpanStart(f, 1) = 0
  <2>1. SpanStart(f, 1) = s[0] * SectorSize
    BY <1>5
  <2>2. QED
    BY <2>1, <1>0, <1>3
<1>8. ASSUME NEW i \in 1..Len(d)
      PROVE  /\ SpanStart(f, i) \in Nat /\ Span(d[i]) \in Nat
             /\ SpanStart(f, i + 1) = SpanStart(f, i) + Span(d[i])
             /\ d[i].length > 0 => Span(d[i]) > 0
  <2>1. i - 1 \in 0..Len(d) /\ i \in 0..Len(d) /\ (i + 1) - 1 = i
    BY <1>2
  <2>2. PICK a \in Nat : a = s[i - 1]
    BY <2>1, <1>3
  <2>3. PICK l \in Nat : l = d[i].length
    BY <1>2
  <2>4. s[i] = a + l
    BY <1>3, <2>2, <2>3
  <2>5. /\ SpanStart(f, i) = a * SectorSize /\ Span(d[i]) = l * SectorSize
        /\ SpanStart(f, i + 1) = (a + l) * SectorSize
    BY <1>5, <1>6, <2>1, <2>2, <2>3, <2>4
  <2>6. /\ a * SectorSize \in Nat /\ l * SectorSize \in Nat
        /\ (a + l) * SectorSize = a * SectorSize + l * SectorSize
        /\ l > 0 => l * SectorSize > 0
    BY <1>0
  <2>7. SpanStart(f, i) \in Nat /\ Span(d[i]) \in Nat
    BY <2>5, <2>6
  <2>8. SpanStart(f, i + 1) = SpanStart(f, i) + Span(d[i])
    BY <2>5, <2>6, Zenon
  <2>9. d[i].length > 0 => Span(d[i]) > 0
    BY <2>3, <2>5, <2>6
  <2>10. QED
    BY <2>7, <2>8, <2>9
<1>9. ASSUME NEW i \in 1..(Len(d) + 1), NEW j \in 1..(Len(d) + 1), i <= j
      PROVE  SpanStart(f, i) <= SpanStart(f, j)
  <2>1. i - 1 \in 0..Len(d) /\ j - 1 \in 0..Len(d) /\ i - 1 <= j - 1
    BY <1>2, <1>9
  <2>2. s[i - 1] <= s[j - 1]
    BY <2>1, <1>4, Zenon
  <2>7. s[i - 1] \in Int /\ s[j - 1] \in Int
    <3>1. s[i - 1] \in Nat /\ s[j - 1] \in Nat
      BY <2>1, <1>3, Zenon
    <3>2. QED
      BY <3>1
  <2>3. SectorSize \in Nat
    BY <1>0
  <2>4. s[i - 1] * SectorSize <= s[j - 1] * SectorSize
    BY <2>2, <2>7, <2>3, Ordered
  <2>5. SpanStart(f, i) = s[i - 1] * SectorSize /\ SpanStart(f, j) = s[j - 1] * SectorSize
    BY <1>5, Zenon
  <2>6. QED
    BY <2>4, <2>5, Zenon
<1>10. QED
  BY <1>7, <1>8, <1>9 DEF d

\* What an extent a read reaches into contributes.
LEMMA RangeIs ==
  ASSUME NEW f \in Files, NEW pos \in Nat, NEW n \in Nat,
         NEW i \in DOMAIN Extents(f), Visited(f, i, pos, n)
  PROVE  RangeIn(f, i, pos, n) \in SectorRange /\ RangeIn(f, i, pos, n).len >= 1
<1> DEFINE from == FromIn(f, i, pos)
           till == TillIn(f, i, pos, n)
           first == SpanStart(f, i)
<1>0. SectorSize \in Nat \ {0}
  BY SizeAssumption
<1>1. Extents(f) \in Seq(Extent)
  BY FileTypes
<1>2. i \in 1..Len(Extents(f)) /\ Extents(f)[i].location \in Nat
  BY <1>1, ExtentsAre
<1>3. first \in Nat /\ Span(Extents(f)[i]) \in Nat
  BY <1>2, SpansAre
<1>4. from \in Int /\ first <= from
  BY <1>3, GreatestOf DEF FromIn
<1>5. till \in Int
  BY <1>3, LeastOf DEF TillIn
<1>6. from < till
  BY DEF Visited
<1> HIDE DEF from, till, first
<1>7. (from - first) \div SectorSize \in Nat /\ (till - from) \div SectorSize \in Nat
  <2>1. from - first \in Nat /\ till - from \in Nat
    BY <1>3, <1>4, <1>5, <1>6
  <2>2. QED
    BY <2>1, <1>0
<1>8. RangeIn(f, i, pos, n) =
        [sector |-> Extents(f)[i].location + (from - first) \div SectorSize,
         len    |-> (till - from) \div SectorSize + 1]
  BY DEF RangeIn, SectorsFor, from, till, first
<1>9. QED
  BY <1>2, <1>7, <1>8 DEF SectorRange

\* The extents a read reaches into follow one another.
LEMMA NoGap ==
  ASSUME NEW f \in Files, NEW pos \in Nat, NEW n \in Nat,
         NEW i \in Reached(f, pos, n), NEW k \in Reached(f, pos, n),
         NEW j \in Nat, i <= j, j <= k
  PROVE  j \in Reached(f, pos, n)
<1> DEFINE d == Extents(f)
           S(x) == SpanStart(f, x)
           L(x) == Span(d[x])
<1>1. d \in Seq(Extent)
  BY FileTypes
<1>2. DOMAIN d = 1..Len(d) /\ Len(d) \in Nat
  BY <1>1, ExtentsAre
<1>3. i \in 1..Len(d) /\ k \in 1..Len(d) /\ Visited(f, i, pos, n) /\ Visited(f, k, pos, n)
  BY <1>2 DEF Reached
<1>4. j \in 1..Len(d) /\ j + 1 \in 1..(Len(d) + 1) /\ i + 1 \in 1..(Len(d) + 1)
      /\ j \in 1..(Len(d) + 1) /\ k \in 1..(Len(d) + 1)
  BY <1>2, <1>3
<1>5. \A x \in 1..j : d[x].length > 0
  BY <1>2, <1>3, <1>4 DEF Visited
<1>6. /\ S(i) \in Nat /\ L(i) \in Nat /\ S(j) \in Nat /\ L(j) \in Nat /\ S(k) \in Nat
      /\ L(k) \in Nat /\ L(j) > 0
  BY <1>3, <1>4, <1>5, SpansAre
<1>7. S(i) + L(i) <= S(j) + L(j)
  <2>1. S(i + 1) = S(i) + L(i) /\ S(j + 1) = S(j) + L(j)
    BY <1>3, <1>4, SpansAre
  <2>2. S(i + 1) <= S(j + 1)
    <3>1. i + 1 <= j + 1
      BY <1>3
    <3>2. QED
      BY <3>1, <1>4, SpansAre
  <2>3. QED
    BY <2>1, <2>2
<1>8. S(j) <= S(k)
  BY <1>4, SpansAre
<1>9. ASSUME NEW x \in {i, k} PROVE pos < pos + n /\ pos < S(x) + L(x) /\ S(x) < pos + n
  <2>1. FromIn(f, x, pos) = Greatest(pos, S(x)) /\ TillIn(f, x, pos, n) = Least(pos + n, S(x) + L(x))
    BY DEF FromIn, TillIn
  <2>2. Greatest(pos, S(x)) < Least(pos + n, S(x) + L(x))
    BY <1>3, <2>1 DEF Visited
  <2>3. QED
    BY <1>6, <2>2 DEF Greatest, Least
<1>10. Greatest(pos, S(j)) < Least(pos + n, S(j) + L(j))
  <2>1. pos < S(j) + L(j) /\ S(j) < pos + n /\ pos < pos + n
    <3>1. pos < S(i) + L(i) /\ S(k) < pos + n /\ pos < pos + n
      BY <1>9
    <3> HIDE DEF S, L
    <3>2. QED
      BY <1>6, <1>7, <1>8, <3>1
  <2> HIDE DEF S, L
  <2>2. QED
    BY <1>6, <2>1 DEF Greatest, Least
<1>11. FromIn(f, j, pos) < TillIn(f, j, pos, n)
  BY <1>10 DEF FromIn, TillIn
<1>12. QED
  BY <1>2, <1>4, <1>5, <1>11 DEF Reached, Visited

\* The first and the last of a set of numbers up to a bound.
LEMMA Bounds ==
  ASSUME NEW m \in Nat, NEW M, M \subseteq 1..m, M # {}
  PROVE  /\ \E i \in M : \A j \in M : i <= j
         /\ \E i \in M : \A j \in M : i >= j
<1>1. M \subseteq Nat
  OBVIOUS
<1>2. \E i \in M : \A j \in M : i <= j
  BY <1>1, LeastIs
<1> DEFINE N == {k \in 0..m : \E i \in M : i = m - k}
<1>3. N \subseteq Nat /\ N # {}
  <2>1. PICK i \in M : TRUE
    OBVIOUS
  <2>2. m - i \in 0..m /\ i = m - (m - i)
    <3>1. i \in 1..m
      BY <2>1
    <3>2. QED
      BY <3>1
  <2>3. m - i \in N
    BY <2>1, <2>2
  <2>4. N \subseteq Nat
    OBVIOUS
  <2>5. N # {}
    BY <2>3, Zenon
  <2>6. QED
    BY <2>4, <2>5
<1>4. PICK k \in N : \A l \in N : k <= l
  BY <1>3, LeastIs
<1>5. PICK i \in M : i = m - k
  BY <1>4
<1>6. ASSUME NEW j \in M PROVE i >= j
  <2>1. m - j \in 0..m /\ j = m - (m - j)
    <3>1. j \in 1..m
      BY <1>6
    <3>2. QED
      BY <3>1
  <2>2. m - j \in N
    BY <2>1
  <2>3. k <= m - j /\ k \in Nat
    BY <2>2, <1>4
  <2>4. QED
    BY <2>3, <1>5
<1>7. QED
  BY <1>2, <1>5, <1>6

\* udf_extents_to_sectors has one range for each extent from the first to the last.
LEMMA RangesAre ==
  ASSUME NEW f \in Files, NEW pos \in Nat, NEW n \in Nat
  PROVE  /\ SectorRanges(f, pos, n) \in Seq(SectorRange)
         /\ \A k \in DOMAIN SectorRanges(f, pos, n) : SectorRanges(f, pos, n)[k].len >= 1
         /\ Reached(f, pos, n) = {} => SectorRanges(f, pos, n) = <<>>
         /\ \A i \in Reached(f, pos, n) :
              (\A j \in Reached(f, pos, n) : i <= j)
                => /\ SectorRanges(f, pos, n) # <<>>
                   /\ SectorRanges(f, pos, n)[1] = RangeIn(f, i, pos, n)
<1> DEFINE M == Reached(f, pos, n)
           first == CHOOSE i \in M : \A j \in M : i <= j
           last  == CHOOSE i \in M : \A j \in M : i >= j
           all == SectorRanges(f, pos, n)
<1>1. Extents(f) \in Seq(Extent)
  BY FileTypes
<1>2. DOMAIN Extents(f) = 1..Len(Extents(f)) /\ Len(Extents(f)) \in Nat
  BY <1>1, ExtentsAre
<1>3. M \subseteq 1..Len(Extents(f))
  BY <1>2 DEF Reached
<1>4. CASE M = {}
  <2>1. all = <<>>
    BY <1>4 DEF SectorRanges
  <2>2. QED
    BY <2>1, <1>4
<1>5. CASE M # {}
  <2>1. first \in M /\ \A j \in M : first <= j
    <3>1. \E i \in M : \A j \in M : i <= j
      BY <1>2, <1>3, <1>5, Bounds
    <3>2. QED
      BY <3>1
  <2>2. last \in M /\ \A j \in M : last >= j
    <3>1. \E i \in M : \A j \in M : i >= j
      BY <1>2, <1>3, <1>5, Bounds
    <3>2. QED
      BY <3>1
  <2>3. all = [k \in 1..(last - first + 1) |-> RangeIn(f, first + k - 1, pos, n)]
    BY <1>5 DEF SectorRanges
  <2> HIDE DEF first, last, all
  <2>4. first \in Nat /\ last \in Nat /\ first <= last
    BY <1>2, <1>3, <2>1, <2>2
  <2>5. ASSUME NEW k \in 1..(last - first + 1)
        PROVE  /\ RangeIn(f, first + k - 1, pos, n) \in SectorRange
               /\ RangeIn(f, first + k - 1, pos, n).len >= 1
    <3>1. first + k - 1 \in Nat /\ first <= first + k - 1 /\ first + k - 1 <= last
      BY <2>4
    <3>2. first + k - 1 \in M
      BY <2>1, <2>2, <3>1, NoGap
    <3>3. first + k - 1 \in DOMAIN Extents(f) /\ Visited(f, first + k - 1, pos, n)
      BY <3>2 DEF Reached
    <3>4. QED
      BY <3>3, RangeIs
  <2>6. last - first + 1 \in Nat \ {0}
    BY <2>4
  <2>7. all \in Seq(SectorRange) /\ Len(all) = last - first + 1
    <3>1. all \in [1..(last - first + 1) -> SectorRange]
      BY <2>3, <2>5
    <3>2. QED
      BY <3>1, <2>6, MakeSeq
  <2>8. \A k \in DOMAIN all : all[k].len >= 1
    BY <2>3, <2>5
  <2>9. ASSUME NEW i \in M, \A j \in M : i <= j
        PROVE  all # <<>> /\ all[1] = RangeIn(f, i, pos, n)
    <3>1. i = first
      BY <2>1, <2>4, <2>9, <1>3
    <3>2. 1 \in 1..(last - first + 1) /\ first + 1 - 1 = first
      BY <2>4
    <3>3. all[1] = RangeIn(f, first + 1 - 1, pos, n)
      BY <2>3, <3>2
    <3>4. QED
      BY <2>6, <2>7, <3>1, <3>2, <3>3
  <2>10. QED
    BY <1>5, <2>7, <2>8, <2>9 DEF all
<1>6. QED
  BY <1>4, <1>5

\* A read that begins in the first extent has its first range there.
LEMMA FirstRange ==
  ASSUME NEW f \in Files, NEW pos \in Nat, NEW n \in Nat, Starts(f, pos, n)
  PROVE  /\ Room(f, pos, n) \in Nat \ {0} /\ Room(f, pos, n) <= n
         /\ Room(f, pos, n) <= Span(First(f)) - pos
         /\ Room(f, pos, n) = n \/ Room(f, pos, n) = Span(First(f)) - pos
         /\ First(f).location \in Nat /\ Span(First(f)) \in Nat
         /\ SectorRanges(f, pos, n) # <<>>
         /\ SectorRanges(f, pos, n)[1].sector = First(f).location + pos \div SectorSize
         /\ SectorRanges(f, pos, n)[1].len = SectorsFor(Room(f, pos, n))
<1> DEFINE d == Extents(f)
           X == Room(f, pos, n)
<1>1. d \in Seq(Extent) /\ d # <<>>
  BY FileTypes DEF Starts
<1>2. 1 \in DOMAIN d /\ 1 \in 1..Len(d) /\ DOMAIN d = 1..Len(d) /\ First(f).location \in Nat
  <2>1. Len(d) \in Nat /\ DOMAIN d = 1..Len(d)
        /\ \A i \in 1..Len(d) : d[i].location \in Nat
    BY <1>1, ExtentsAre
  <2>2. Len(d) # 0
    BY <1>1, <2>1
  <2>3. QED
    BY <2>1, <2>2 DEF First
<1>3. SpanStart(f, 1) = 0 /\ Span(d[1]) \in Nat
  BY <1>2, SpansAre
<1>4. 0 < n /\ pos < Span(d[1]) /\ d[1].length > 0
  BY DEF Starts, First
<1>5. X = Least(n, Span(d[1]) - pos)
  BY DEF Room, First
<1>6. X \in Nat \ {0} /\ X <= n /\ X <= Span(d[1]) - pos /\ (X = n \/ X = Span(d[1]) - pos)
  BY <1>3, <1>4, <1>5 DEF Least
<1>7. FromIn(f, 1, pos) = pos
  BY <1>3 DEF FromIn, Greatest
<1>8. TillIn(f, 1, pos, n) = pos + X
  <2>1. TillIn(f, 1, pos, n) = Least(pos + n, 0 + Span(d[1]))
    BY <1>3 DEF TillIn
  <2>2. QED
    BY <2>1, <1>3, <1>5 DEF Least
<1> HIDE DEF X
<1>9. Visited(f, 1, pos, n)
  <2>1. FromIn(f, 1, pos) < TillIn(f, 1, pos, n)
    BY <1>6, <1>7, <1>8
  <2>2. \A j \in 1..1 : Extents(f)[j].length > 0
    BY <1>4
  <2>3. QED
    BY <2>1, <2>2 DEF Visited
<1>10. 1 \in Reached(f, pos, n) /\ \A j \in Reached(f, pos, n) : 1 <= j
  BY <1>2, <1>9 DEF Reached
<1>11. SectorRanges(f, pos, n) # <<>> /\ SectorRanges(f, pos, n)[1] = RangeIn(f, 1, pos, n)
  BY <1>10, RangesAre
<1>12. pos - 0 = pos /\ (pos + X) - pos = X
  BY <1>6
<1>13. RangeIn(f, 1, pos, n) =
         [sector |-> d[1].location + pos \div SectorSize, len |-> SectorsFor(X)]
  BY <1>3, <1>7, <1>8, <1>12, Zenon DEF RangeIn
<1>14. QED
  BY <1>2, <1>3, <1>6, <1>11, <1>13 DEF First, X

\* How many bytes the sectors of the first range hold.
LEMMA CapIs ==
  ASSUME NEW f \in Files, NEW pos \in Nat, NEW n \in Nat, Starts(f, pos, n)
  PROVE  /\ SectorsFor(Room(f, pos, n)) \in Nat \ {0}
         /\ pos % SectorSize \in 0..(SectorSize - 1)
         /\ Capacity(f, pos, n) \in Nat \ {0}
         /\ Capacity(f, pos, n) =
               SectorsFor(Room(f, pos, n)) * SectorSize - (pos % SectorSize)
         /\ pos % SectorSize = 0 => Capacity(f, pos, n) > Room(f, pos, n)
         /\ Room(f, pos, n) = n => (n <= Capacity(f, pos, n) <=> Covered(pos, n))
         /\ Room(f, pos, n) = n /\ SectorsFor(n) = 1 => n < SectorSize
<1> DEFINE X == Room(f, pos, n)
<1>1. SectorSize \in Nat \ {0}
  BY SizeAssumption
<1>2. X \in Nat \ {0}
  BY FirstRange
<1> HIDE DEF X
<1>3. X \in Int
  BY <1>2
<1>4. PICK q \in Int, r \in 0..(SectorSize - 1) :
        q = X \div SectorSize /\ r = X % SectorSize /\ X = q * SectorSize + r
  BY <1>3, DivMod, Zenon
<1>5. PICK o \in 0..(SectorSize - 1) : o = pos % SectorSize
  BY <1>1
<1>6. q \in Nat
  BY <1>1, <1>2, <1>4
<1>7. SectorsFor(X) = q + 1
  BY <1>4 DEF SectorsFor
<1>8. Capacity(f, pos, n) = (q + 1) * SectorSize - o
  BY <1>5, <1>7 DEF Capacity, X
<1>9. (q + 1) * SectorSize = q * SectorSize + SectorSize /\ q * SectorSize \in Nat
  BY <1>1, <1>6
<1>10. Capacity(f, pos, n) \in Nat \ {0} /\ (o = 0 => Capacity(f, pos, n) > X)
  BY <1>1, <1>2, <1>4, <1>8, <1>9
<1>11. X = n => (n <= Capacity(f, pos, n) <=> Covered(pos, n))
  <2> SUFFICES ASSUME X = n PROVE n <= Capacity(f, pos, n) <=> Covered(pos, n)
    OBVIOUS
  <2>1. Covered(pos, n) <=> o + r <= SectorSize
    BY <1>4, <1>5 DEF Covered
  <2>2. n <= Capacity(f, pos, n) <=> o + r <= SectorSize
    BY <1>1, <1>4, <1>5, <1>8, <1>9
  <2>3. QED
    BY <2>1, <2>2
<1>12. X = n /\ SectorsFor(n) = 1 => n < SectorSize
  <2> SUFFICES ASSUME X = n, SectorsFor(n) = 1 PROVE n < SectorSize
    OBVIOUS
  <2>1. q = 0
    BY <1>6, <1>7
  <2>2. q * SectorSize = 0
    BY <2>1, <1>1
  <2>3. QED
    BY <2>2, <1>1, <1>4
<1>13. Capacity(f, pos, n) = SectorsFor(X) * SectorSize - (pos % SectorSize)
  BY DEF Capacity, X
<1>14. QED
  BY <1>5, <1>6, <1>7, <1>10, <1>11, <1>12, <1>13 DEF X

\* A straight read begins in the first extent, which holds all of it.
LEMMA StraightIs ==
  ASSUME NEW f \in Files, NEW pos \in Nat, NEW n \in Nat, Straight(f, pos, n)
  PROVE  /\ Starts(f, pos, n) /\ Room(f, pos, n) = n /\ pos + n <= Span(First(f))
         /\ Len(SectorRanges(f, pos, n)) = 1
         /\ \A p \in pos .. pos + n - 1 : PlaceOf(f, p) = Place(f, p)
<1> DEFINE d == Extents(f)
<1>1. d \in Seq(Extent)
  BY FileTypes
<1>2. Len(d) \in Nat /\ DOMAIN d = 1..Len(d) /\ \A i \in 1..Len(d) : d[i].length \in Nat
  BY <1>1, ExtentsAre
<1>3. Len(SectorRanges(f, pos, n)) = 1 /\ pos + n <= Span(d[1])
  BY DEF Straight
<1>4. Reached(f, pos, n) # {}
  <2>1. Reached(f, pos, n) = {} => SectorRanges(f, pos, n) = <<>>
    BY RangesAre
  <2>2. Len(<<>>) = 0
    OBVIOUS
  <2>3. QED
    BY <2>1, <2>2, <1>3
<1>5. PICK i \in 1..Len(d) : Visited(f, i, pos, n)
  BY <1>2, <1>4 DEF Reached
<1>6. d # <<>> /\ 1 \in 1..Len(d) /\ 1 \in 1..i
  BY <1>2, <1>5
<1>7. d[1].length > 0
  BY <1>5, <1>6 DEF Visited
<1>8. 0 < n
  <2>1. SpanStart(f, i) \in Nat /\ Span(d[i]) \in Nat
    BY <1>5, SpansAre
  <2>2. Greatest(pos, SpanStart(f, i)) < Least(pos + n, SpanStart(f, i) + Span(d[i]))
    BY <1>5 DEF Visited, FromIn, TillIn
  <2>3. QED
    BY <2>1, <2>2 DEF Greatest, Least
<1>9. Span(d[1]) \in Nat
  BY <1>6, SpansAre
<1>10. Starts(f, pos, n)
  BY <1>3, <1>6, <1>7, <1>8, <1>9 DEF Starts, First
<1>11. Room(f, pos, n) = n
  BY <1>3, <1>9 DEF Room, First, Least
<1>12. \A p \in pos .. pos + n - 1 : PlaceOf(f, p) = Place(f, p)
  BY DEF Straight, Place, First
<1>13. QED
  BY <1>3, <1>10, <1>11, <1>12 DEF First

\* Places of a file follow one another.
LEMMA PlaceIs ==
  ASSUME NEW f \in Files, Extents(f) # <<>>
  PROVE  \E b \in Nat : /\ b = (PartitionLba + First(f).location) * SectorSize
                        /\ \A p : Place(f, p) = b + p
<1>1. Extents(f) \in Seq(Extent)
  BY FileTypes
<1>2. First(f).location \in Nat
  <2>1. Len(Extents(f)) \in Nat /\ \A i \in 1..Len(Extents(f)) : Extents(f)[i].location \in Nat
    BY <1>1, ExtentsAre
  <2>2. Len(Extents(f)) # 0
    BY <1>1, <2>1
  <2>3. QED
    BY <2>1, <2>2 DEF First
<1>3. (PartitionLba + First(f).location) * SectorSize \in Nat
  BY <1>2, SizeAssumption
<1>4. QED
  BY <1>3 DEF Place

-----------------------------------------------------------------------------
(* Bytes *)

\* Bytes of a buffer are as many as were asked for, at the places of its sector.
LEMMA BytesAre ==
  ASSUME NEW h \in Nat \cup {NoSector}, NEW off \in Nat, NEW n \in Nat
  PROVE  /\ Bytes(h, off, n) \in Seq(Places) /\ Len(Bytes(h, off, n)) = n
         /\ \A i \in 1..n : h \in Nat /\ off + i <= SectorSize
              => Bytes(h, off, n)[i] = h * SectorSize + off + i - 1
<1>0. SectorSize \in Nat \ {0}
  BY SizeAssumption
<1>1. ASSUME NEW i \in 1..n
      PROVE  (IF h = NoSector \/ off + i > SectorSize THEN NoPlace
              ELSE h * SectorSize + off + i - 1) \in Places
  <2>1. CASE h = NoSector \/ off + i > SectorSize
    BY <2>1 DEF Places
  <2>2. CASE ~(h = NoSector \/ off + i > SectorSize)
    <3>1. h \in Nat
      BY <2>2
    <3>2. h * SectorSize \in Nat
      BY <3>1, <1>0
    <3>3. h * SectorSize + off + i - 1 \in Nat
      BY <3>2
    <3>4. QED
      BY <3>3, <2>2 DEF Places
  <2>3. QED
    BY <2>1, <2>2
<1>2. Bytes(h, off, n) \in [1..n -> Places]
  BY <1>1 DEF Bytes
<1>3. Bytes(h, off, n) \in Seq(Places) /\ Len(Bytes(h, off, n)) = n
  BY <1>2, MakeSeq
<1>4. ASSUME NEW i \in 1..n, h \in Nat, off + i <= SectorSize
      PROVE  Bytes(h, off, n)[i] = h * SectorSize + off + i - 1
  <2>1. h # NoSector /\ ~(off + i > SectorSize)
    BY <1>0, <1>4 DEF NoSector
  <2>2. QED
    BY <2>1 DEF Bytes
<1>5. QED
  BY <1>3, <1>4

\* m sectors hold n bytes from offset off on.
Fits(m, off, n) == off + n <= m * SectorSize

\* Bytes of a chunk lie in its sectors, one after another.
LEMMA ChunkBytesAre ==
  ASSUME chunk \in [1..ChunkSectors -> Nat \cup {NoSector}],
         NEW m \in 1..ChunkSectors, NEW off \in 0..(SectorSize - 1), NEW n \in Nat,
         Fits(m, off, n)
  PROVE  /\ ChunkBytes(m, off, n) \in Seq(Places) /\ Len(ChunkBytes(m, off, n)) = n
         /\ \A s \in Nat : (\A j \in 1..m : chunk[j] = s + j - 1)
              => \A i \in 1..n : ChunkBytes(m, off, n)[i] = s * SectorSize + off + i - 1
<1>0. SectorSize \in Nat \ {0} /\ ChunkSectors \in Nat \ {0}
  BY SizeAssumption, ChunkAssumption
<1> DEFINE Q(i) == (off + i - 1) \div SectorSize
           R(i) == (off + i - 1) % SectorSize
<1>1. ASSUME NEW i \in 1..n
      PROVE  /\ Q(i) \in Nat /\ Q(i) + 1 \in 1..m /\ R(i) \in 0..(SectorSize - 1)
             /\ off + i - 1 = Q(i) * SectorSize + R(i)
  <2>1. off + i - 1 \in Nat /\ off + i - 1 < m * SectorSize
    BY <1>0 DEF Fits
  <2>2. PICK q \in Int, r \in 0..(SectorSize - 1) :
          q = Q(i) /\ r = R(i) /\ off + i - 1 = q * SectorSize + r
    BY <2>1, DivMod
  <2>3. q \in Nat
    BY SMTT(20), <1>0, <2>1, <2>2
  <2>4. q < m
    <3> SUFFICES ASSUME m <= q PROVE FALSE
      BY <2>3
    <3>1. m * SectorSize <= q * SectorSize
      BY <1>0, <2>3, Ordered
    <3>2. m * SectorSize \in Nat /\ q * SectorSize \in Nat /\ r \in Nat
      BY <1>0, <2>3
    <3>3. QED
      BY <3>1, <3>2, <2>1, <2>2
  <2>5. QED
    BY <2>2, <2>3, <2>4
<1>2. \A i \in 1..n : ChunkBytes(m, off, n)[i] = Bytes(chunk[Q(i) + 1], R(i), 1)[1]
  BY DEF ChunkBytes
<1>3. ChunkBytes(m, off, n) = [i \in 1..n |-> Bytes(chunk[Q(i) + 1], R(i), 1)[1]]
  BY DEF ChunkBytes
<1> HIDE DEF Q, R
<1>4. ASSUME NEW i \in 1..n
      PROVE  /\ Bytes(chunk[Q(i) + 1], R(i), 1)[1] \in Places
             /\ chunk[Q(i) + 1] \in Nat => Bytes(chunk[Q(i) + 1], R(i), 1)[1]
                                            = chunk[Q(i) + 1] * SectorSize + R(i)
  <2>1. Q(i) + 1 \in 1..ChunkSectors /\ R(i) \in Nat /\ R(i) + 1 <= SectorSize
    BY <1>0, <1>1
  <2>2. PICK h \in Nat \cup {NoSector} : h = chunk[Q(i) + 1]
    BY <2>1
  <2>3. /\ Bytes(h, R(i), 1) \in Seq(Places) /\ Len(Bytes(h, R(i), 1)) = 1
        /\ \A j \in 1..1 : h \in Nat /\ R(i) + j <= SectorSize
             => Bytes(h, R(i), 1)[j] = h * SectorSize + R(i) + j - 1
    <3>1. R(i) \in Nat /\ 1 \in Nat
      BY <2>1
    <3>2. QED
      BY <3>1, BytesAre, Zenon
  <2>4. Bytes(h, R(i), 1)[1] \in Places
    BY <2>3, SeqIs
  <2>5. h \in Nat => Bytes(h, R(i), 1)[1] = h * SectorSize + R(i) + 1 - 1
    BY <2>1, <2>3
  <2>6. h \in Nat => h * SectorSize + R(i) + 1 - 1 = h * SectorSize + R(i)
    BY <1>0, <2>1
  <2>7. QED
    BY <2>2, <2>4, <2>5, <2>6
<1>5. ChunkBytes(m, off, n) \in [1..n -> Places]
  BY <1>3, <1>4
<1>6. ChunkBytes(m, off, n) \in Seq(Places) /\ Len(ChunkBytes(m, off, n)) = n
  BY <1>5, MakeSeq
<1>7. ASSUME NEW s \in Nat, \A j \in 1..m : chunk[j] = s + j - 1, NEW i \in 1..n
      PROVE  ChunkBytes(m, off, n)[i] = s * SectorSize + off + i - 1
  <2>1. PICK q \in Nat : q = Q(i) /\ q + 1 \in 1..m
    BY <1>1
  <2>2. PICK r \in Nat : r = R(i)
    BY <1>0, <1>1
  <2>3. chunk[q + 1] = s + q
    BY <1>7, <2>1
  <2>4. ChunkBytes(m, off, n)[i] = (s + q) * SectorSize + r
    BY <1>2, <1>4, <2>1, <2>2, <2>3
  <2>5. (s + q) * SectorSize = s * SectorSize + q * SectorSize
        /\ s * SectorSize \in Nat /\ q * SectorSize \in Nat
    BY <1>0
  <2>6. off + i - 1 = q * SectorSize + r
    BY <1>1, <2>1, <2>2
  <2>7. QED
    BY <1>0, <2>4, <2>5, <2>6
<1>8. QED
  BY <1>6, <1>7

\* The part of a cached copy that was asked for.
LEMMA ServedAre ==
  ASSUME NEW b \in Seq(Places), NEW pos \in Nat, NEW n \in Nat
  PROVE  /\ ServedFrom(b, pos, n) \in Seq(Places) /\ Len(ServedFrom(b, pos, n)) = n
         /\ \A i \in 1..n : pos + i <= Len(b) => ServedFrom(b, pos, n)[i] = b[pos + i]
<1>1. DOMAIN b = 1..Len(b) /\ Len(b) \in Nat /\ \A i \in 1..Len(b) : b[i] \in Places
  BY SeqIs, Zenon
<1>2. NoPlace \in Places
  BY DEF Places
<1>3. ServedFrom(b, pos, n) \in [1..n -> Places]
  BY <1>1, <1>2 DEF ServedFrom
<1>4. \A i \in 1..n : pos + i <= Len(b) => ServedFrom(b, pos, n)[i] = b[pos + i]
  BY <1>1 DEF ServedFrom
<1>5. QED
  BY <1>3, <1>4, MakeSeq

-----------------------------------------------------------------------------
(* Calls *)

\* The fields of a call.
LEMMA CallIs ==
  ASSUME NEW o \in Call
  PROVE  /\ o.kind \in {"none", "read", "raw", "cache"} /\ o.file \in Files \cup {0}
         /\ o.pos \in Int /\ o.asked \in Nat /\ o.rem \in Nat
         /\ o.ranges \in Seq(SectorRange) /\ o.sector \in Nat /\ o.blocks \in Int
         /\ o.off \in Nat /\ o.found \in Nat /\ o.gen \in Nat
  BY DEF Call

\* A call that goes on is about the same bytes.
SameRead(o, q) ==
  /\ q.kind = o.kind /\ q.file = o.file /\ q.pos = o.pos /\ q.asked = o.asked
  /\ q.cached = o.cached

\* Calls about the same bytes have the same ranges.
LEMMA SameIs ==
  ASSUME NEW o, NEW q, SameRead(o, q)
  PROVE  /\ All(q) = All(o) /\ (Begun(q) <=> Begun(o)) /\ Cap(q) = Cap(o)
         /\ (FromFile(q) <=> FromFile(o))
  BY DEF SameRead, All, Begun, Cap, FromFile

\* A read that begins in the first extent: its ranges, and what the first's sectors hold.
LEMMA BegunIs ==
  ASSUME NEW o \in Call, FromFile(o), Begun(o)
  PROVE  /\ o.pos \in Nat /\ o.asked \in Nat \ {0} /\ o.file \in Files
         /\ All(o) \in Seq(SectorRange) /\ All(o) # <<>> /\ Len(All(o)) \in Nat \ {0}
         /\ Cap(o) \in Nat \ {0}
         /\ o.pos % SectorSize \in 0..(SectorSize - 1)
         /\ All(o)[1].len \in Nat \ {0} /\ All(o)[1].sector \in Nat
         /\ All(o)[1].len * SectorSize - (o.pos % SectorSize) = Cap(o)
         /\ (PartitionLba + All(o)[1].sector) * SectorSize + (o.pos % SectorSize)
              = Place(o.file, o.pos)
         /\ \E b \in Nat : \A p : Place(o.file, p) = b + p
<1>0. SectorSize \in Nat \ {0} /\ PartitionLba \in Nat
  BY SizeAssumption
<1>1. o.pos \in Nat /\ o.file \in Files /\ o.asked \in Nat
  BY CallIs DEF FromFile
<1>2. PICK f \in Files : f = o.file
  BY <1>1
<1>3. PICK pos \in Nat : pos = o.pos
  BY <1>1
<1>4. PICK n \in Nat : n = o.asked
  BY <1>1
<1>5. Starts(f, pos, n) /\ n # 0
  BY <1>2, <1>3, <1>4 DEF Begun, Starts
<1>6. Extents(f) # <<>>
  BY <1>5 DEF Starts
<1>7. PICK b \in Nat : /\ b = (PartitionLba + First(f).location) * SectorSize
                      /\ \A p : Place(f, p) = b + p
  BY <1>6, PlaceIs
<1>8. /\ First(f).location \in Nat /\ SectorRanges(f, pos, n) # <<>>
      /\ SectorRanges(f, pos, n)[1].sector = First(f).location + pos \div SectorSize
      /\ SectorRanges(f, pos, n)[1].len = SectorsFor(Room(f, pos, n))
  BY <1>5, FirstRange
<1>9. /\ SectorsFor(Room(f, pos, n)) \in Nat \ {0}
      /\ pos % SectorSize \in 0..(SectorSize - 1)
      /\ Capacity(f, pos, n) \in Nat \ {0}
      /\ Capacity(f, pos, n) =
            SectorsFor(Room(f, pos, n)) * SectorSize - (pos % SectorSize)
  BY <1>5, CapIs
<1>10. SectorRanges(f, pos, n) \in Seq(SectorRange)
  BY RangesAre
<1>11. Len(SectorRanges(f, pos, n)) \in Nat \ {0}
  BY <1>8, <1>10
<1>12. PICK q \in Int, r \in 0..(SectorSize - 1) :
         q = pos \div SectorSize /\ r = pos % SectorSize /\ pos = q * SectorSize + r
  <2>1. pos \in Int
    BY <1>3
  <2>2. QED
    BY <2>1, DivMod, Zenon
<1>13. q \in Nat
  BY <1>0, <1>12
<1>14. (PartitionLba + (First(f).location + q)) * SectorSize + r = Place(f, pos)
  <2>1. PICK l \in Nat : l = First(f).location
    BY <1>8
  <2>2. (PartitionLba + (l + q)) * SectorSize = (PartitionLba + l) * SectorSize + q * SectorSize
    BY <1>0, <1>13
  <2>3. (PartitionLba + l) * SectorSize \in Nat /\ q * SectorSize \in Nat
    BY <1>0, <1>13
  <2>4. Place(f, pos) = (PartitionLba + l) * SectorSize + pos
    BY <1>7, <2>1
  <2>5. QED
    BY <2>1, <2>2, <2>3, <2>4, <1>12
<1>15. All(o) = SectorRanges(f, pos, n) /\ Cap(o) = Capacity(f, pos, n)
  BY <1>2, <1>3, <1>4 DEF All, Cap
<1> HIDE DEF All, Cap
<1>16. All(o)[1].sector \in Nat
  BY <1>8, <1>12, <1>13, <1>15
<1>17. (PartitionLba + All(o)[1].sector) * SectorSize + (o.pos % SectorSize) = Place(o.file, o.pos)
  BY <1>2, <1>3, <1>8, <1>12, <1>14, <1>15, Zenon
<1>18. All(o)[1].len * SectorSize - (o.pos % SectorSize) = Cap(o)
  BY <1>3, <1>8, <1>9, <1>15, Zenon
<1>19. o.pos % SectorSize \in 0..(SectorSize - 1)
  BY <1>3, <1>9, Zenon
<1>20. \E c \in Nat : \A p : Place(o.file, p) = c + p
  BY <1>2, <1>7, Zenon
<1>21. All(o)[1].len \in Nat \ {0}
  BY <1>8, <1>9, <1>15, Zenon
<1>22. o.asked \in Nat \ {0}
  BY <1>4, <1>5
<1>23. QED
  BY <1>1, <1>8, <1>9, <1>10, <1>11, <1>15, <1>16, <1>17, <1>18, <1>19, <1>20, <1>21, <1>22, Zenon

\* A call past the first range stays past it.
LEMMA PastIs ==
  ASSUME NEW o, NEW q, SameRead(o, q), NEW n \in Nat, NEW m \in Nat, Past(o, n), n <= m,
         o.asked \in Nat, Cap(o) \in Nat, m <= o.asked, q.matched => o.matched,
         Len(All(o)) # 1 \/ m = n, o.matched => q.matched
  PROVE  Past(q, m)
<1>1. Cap(q) = Cap(o) /\ All(q) = All(o) /\ q.asked = o.asked
  BY SameIs DEF SameRead
<1>2. m = q.asked \/ m >= Cap(q)
  BY <1>1 DEF Past
<1>3. m > 0
  BY DEF Past
<1>4. q.matched => m >= Least(q.asked, SectorSize)
  <2>1. Least(o.asked, SectorSize) \in Int
    BY SizeAssumption DEF Least
  <2>2. QED
    BY <1>1, <2>1 DEF Past
<1>5. Len(All(q)) = 1 => m <= Cap(q) \/ (q.matched /\ m <= SectorSize)
  BY <1>1 DEF Past
<1>6. QED
  BY <1>2, <1>3, <1>4, <1>5 DEF Past

\* The next range begins, the first one at the start of the read.
LEMMA RangeStage ==
  ASSUME NEW o \in Call, NEW q \in Call, NEW b \in Seq(Places), NEW p2 \in {"take", "chunk"},
         LocalAt("range", o, b), StageAt("range", o, b), o.ranges # <<>>, SameRead(o, q),
         q.rem = o.rem, q.ranges = Tail(o.ranges),
         q.sector = PartitionLba + o.ranges[1].sector, q.blocks = o.ranges[1].len,
         q.off = IF o.rem = o.asked THEN o.pos % SectorSize ELSE 0,
         q.matched <=> o.matched \/ (p2 = "take" /\ q.off > 0)
  PROVE  /\ StageAt(p2, q, b)
         /\ Begun(o) /\ Good(o, b) => Good(q, b)
<1>1. FromFile(o) /\ ~o.cached /\ Len(b) = Got(o) /\ o.kind # "raw"
  BY DEF LocalAt, Ranging, FromFile
<1>2. /\ o.asked \in Nat /\ o.rem \in Nat /\ o.pos \in Int
  BY CallIs
<1>3. q.matched => q.pos % SectorSize # 0
  BY <1>2, SizeAssumption DEF StageAt, SameRead
<1>4. CASE ~Begun(o)
  <2>1. ~Begun(q)
    BY <1>4, SameIs
  <2>2. QED
    BY <1>3, <1>4, <2>1 DEF StageAt
<1>5. CASE Begun(o)
  <2>1. /\ o.asked \in Nat \ {0} /\ All(o) \in Seq(SectorRange) /\ All(o) # <<>>
        /\ Cap(o) \in Nat \ {0} /\ Len(All(o)) \in Nat \ {0}
        /\ o.pos % SectorSize \in 0..(SectorSize - 1)
        /\ All(o)[1].len \in Nat \ {0} /\ All(o)[1].sector \in Nat
        /\ All(o)[1].len * SectorSize - (o.pos % SectorSize) = Cap(o)
        /\ (PartitionLba + All(o)[1].sector) * SectorSize + (o.pos % SectorSize)
             = Place(o.file, o.pos)
    BY <1>1, <1>5, BegunIs
  <2>2. All(q) = All(o) /\ Cap(q) = Cap(o) /\ Begun(q)
    BY <1>5, SameIs
  <2>3. CASE Before(o)
    <3>1. o.ranges = All(o) /\ o.rem = o.asked /\ ~o.matched
      BY <2>3 DEF Before
    <3>2. q.ranges = Tail(All(q)) /\ q.rem = q.asked /\ q.off = o.pos % SectorSize
      BY <2>2, <3>1 DEF SameRead
    <3>3. Got(q) = 0 /\ Got(o) = 0 /\ Len(b) = 0
      BY <1>1, <1>2, <3>1, <3>2 DEF Got, SameRead
    <3>4. Running(q)
      <4>1. q.sector = PartitionLba + All(o)[1].sector /\ q.blocks = All(o)[1].len
        BY <3>1
      <4>2. q.pos + 0 = o.pos /\ q.file = o.file
        BY <1>2 DEF SameRead
      <4>3. q.sector * SectorSize + q.off = Place(q.file, q.pos + Got(q))
        BY <2>1, <3>2, <3>3, <4>1, <4>2, Zenon
      <4>4. q.blocks * SectorSize - q.off = Cap(q)
        BY <2>1, <2>2, <3>2, <4>1, Zenon
      <4>5. q.blocks * SectorSize - q.off + Got(q) = Cap(q)
        BY <2>1, <2>2, <3>3, <4>4
      <4>6. q.blocks # 0
        BY <2>1, <4>1
      <4>7. QED
        BY <4>3, <4>5, <4>6 DEF Running
    <3>5. q.off = q.pos % SectorSize
      BY <3>2 DEF SameRead
    <3>6. q.matched <=> p2 = "take" /\ q.off > 0
      BY <3>1, Zenon
    <3>7. Within(p2, q)
      BY <3>2, <3>3, <3>4, <3>5, <3>6 DEF Within, AtSome
    <3>8. StageAt(p2, q, b)
      BY <1>3, <3>7 DEF StageAt
    <3>9. Good(q, b)
      BY <3>3 DEF Good
    <3>10. QED
      BY <3>8, <3>9
  <2>4. CASE Past(o, Len(b)) /\ (Len(All(o)) = 1 => o.ranges = <<>>)
    <3>1. Len(b) > 0 /\ Len(b) \in Nat
      BY <2>4, SeqIs DEF Past
    <3>2. o.rem # o.asked
      BY <1>1, <1>2, <3>1 DEF Got
    <3>3. q.off = 0
      BY <3>2
    <3>4. q.matched <=> o.matched
      BY <3>3
    <3>5. Past(q, Len(b)) /\ Len(All(q)) > 1
      <4>1. Past(q, Len(b))
        BY <2>2, <2>4, <3>4 DEF Past, SameRead
      <4>2. PICK l \in Nat \ {0} : l = Len(All(o))
        BY <2>1
      <4>3. l # 1
        BY <2>4, <4>2
      <4>4. l > 1
        BY <4>3
      <4>5. QED
        BY <2>2, <4>1, <4>2, <4>4, Zenon
    <3>6. StageAt(p2, q, b)
      BY <1>3, <3>5 DEF StageAt
    <3>7. Hole(q) = Hole(o)
      BY <3>4 DEF Hole, SameRead
    <3>8. Good(o, b) => Good(q, b)
      BY <2>2, <3>7 DEF Good, SameRead
    <3>9. QED
      BY <3>6, <3>8
  <2>5. Before(o) \/ (Past(o, Len(b)) /\ (Len(All(o)) = 1 => o.ranges = <<>>))
    BY <1>1, <1>5 DEF StageAt, Ranging
  <2>6. QED
    BY <2>3, <2>4, <2>5
<1>6. QED
  BY <1>4, <1>5

\* The record after the buffered sector was taken.
Takes(o, q, n, p2) ==
  /\ SameRead(o, q) /\ n = Least(o.rem, SectorSize)
  /\ q.rem = o.rem - n /\ q.sector = o.sector + 1 /\ q.blocks = o.blocks - 1
  /\ q.off = o.off /\ q.ranges = o.ranges /\ (q.matched <=> o.matched)
  /\ p2 = IF o.blocks = 1 THEN "return" ELSE "chunk"

\* The buffered sector is taken: the range goes on behind it, or the read ends.
LEMMA TakeStage ==
  ASSUME NEW o \in Call, NEW q \in Call, NEW b \in Seq(Places), NEW h \in Nat \cup {NoSector},
         NEW p2, NEW n, LocalAt("take", o, b), StageAt("take", o, b), Takes(o, q, n, p2)
  PROVE  /\ StageAt(p2, q, b \o Bytes(h, o.off, n))
         /\ Begun(o) /\ Good(o, b) /\ h = o.sector => Good(q, b \o Bytes(h, o.off, n))
<1>1. SectorSize \in Nat \ {0}
  BY SizeAssumption
<1>2. /\ SameRead(o, q) /\ n = Least(o.rem, SectorSize)
      /\ q.rem = o.rem - n /\ q.sector = o.sector + 1 /\ q.blocks = o.blocks - 1
      /\ q.off = o.off /\ q.ranges = o.ranges /\ (q.matched <=> o.matched)
      /\ p2 \in {"return", "chunk"} /\ (p2 = "return" <=> o.blocks = 1)
  BY DEF Takes
<1>3. /\ FromFile(o) /\ ~o.cached /\ Len(b) = Got(o) /\ o.kind # "raw" /\ o.blocks >= 1
      /\ o.off < SectorSize /\ Len(b) <= o.asked
  BY DEF LocalAt, Ranging, FromFile
<1>4. /\ o.asked \in Nat /\ o.rem \in Nat /\ o.pos \in Int /\ o.off \in Nat /\ o.blocks \in Int
      /\ o.sector \in Nat /\ o.sector \in Int
  BY CallIs
<1>5. n \in Nat /\ n <= o.rem /\ n <= SectorSize /\ (n = o.rem \/ n = SectorSize)
  BY <1>1, <1>2, <1>4 DEF Least
<1> DEFINE c == Bytes(h, o.off, n)
           d == b \o c
<1>6. c \in Seq(Places) /\ Len(c) = n
  BY <1>4, <1>5, BytesAre
<1>7. \A i \in 1..n : h \in Nat /\ o.off + i <= SectorSize
           => c[i] = h * SectorSize + o.off + i - 1
  BY ZenonT(30), <1>4, <1>5, BytesAre
<1> HIDE DEF c
<1>8. /\ d \in Seq(Places) /\ Len(d) = Len(b) + n
      /\ \A i \in 1..Len(b) : d[i] = b[i]
      /\ \A i \in 1..n : d[Len(b) + i] = c[i]
  <2>1. b \o c \in Seq(Places) /\ Len(b \o c) = Len(b) + Len(c)
    BY <1>6, Concats
  <2>2. \A i \in 1..Len(b) : (b \o c)[i] = b[i]
    BY <1>6, Concats
  <2>3. \A i \in 1..Len(c) : (b \o c)[Len(b) + i] = c[i]
    BY <1>6, Concats
  <2>4. QED
    BY <2>1, <2>2, <2>3, <1>6
<1>9. d = b \o Bytes(h, o.off, n)
  BY DEF c
<1> HIDE DEF d
<1>10. Len(b) \in Nat /\ Got(q) = Len(d) /\ Len(d) <= q.asked /\ q.asked = o.asked
  BY SMTT(20), <1>3, <1>2, <1>4, <1>5, <1>8, SeqIs DEF Got, SameRead
<1>11. (q.matched => q.pos % SectorSize # 0) /\ q.pos = o.pos /\ q.file = o.file
  BY <1>2, Zenon DEF StageAt, SameRead
<1>12. CASE ~Begun(o)
  <2>1. ~Begun(q)
    BY <1>2, <1>12, SameIs
  <2>2. QED
    BY <1>11, <1>12, <1>9, <2>1, Zenon DEF StageAt
<1>13. CASE Begun(o)
  <2>1. /\ o.asked \in Nat \ {0} /\ All(o) \in Seq(SectorRange) /\ All(o) # <<>>
        /\ Cap(o) \in Nat \ {0} /\ Len(All(o)) \in Nat \ {0}
        /\ o.pos % SectorSize \in 0..(SectorSize - 1)
    BY <1>3, <1>13, BegunIs
  <2>2. All(q) = All(o) /\ Cap(q) = Cap(o) /\ Begun(q)
    BY <1>2, <1>13, SameIs
  <2>3. PICK e \in Nat : \A p : Place(o.file, p) = e + p
    BY <1>3, <1>13, BegunIs
  <2>4. Hole(q) = Hole(o)
    BY <1>2, <1>11 DEF Hole
  <2>5. CASE Within("take", o)
    <3>1. /\ o.sector * SectorSize + o.off = Place(o.file, o.pos + Got(o))
          /\ o.blocks * SectorSize - o.off + Got(o) = Cap(o)
          /\ Got(o) = 0 /\ o.off = o.pos % SectorSize /\ (o.off > 0 => o.matched)
          /\ o.ranges = Tail(All(o))
      BY <2>5 DEF Within, Running
    <3>2. Len(b) = 0 /\ o.rem = o.asked /\ Len(d) = n /\ Got(q) = n /\ n > 0
      <4>1. Len(b) = 0 /\ o.rem = o.asked
        BY <1>3, <1>2, <1>4, <3>1 DEF Got
      <4>2. Len(d) = n /\ Got(q) = n
        BY <1>5, <1>8, <1>10, <4>1
      <4>3. n > 0
        BY <1>1, <1>5, <2>1, <4>1
      <4>4. QED
        BY <4>1, <4>2, <4>3
    <3>3. o.sector * SectorSize \in Nat /\ o.blocks * SectorSize \in Int
      BY <1>1, <1>2, <1>4
    <3>4. (o.sector + 1) * SectorSize = o.sector * SectorSize + SectorSize
          /\ (o.blocks - 1) * SectorSize = o.blocks * SectorSize - SectorSize
      BY <1>1, <1>2, <1>4, NextMultiple
    <3>5. Place(o.file, o.pos + Got(o)) = e + o.pos
      BY <1>2, <1>4, <2>3, <3>1
    <3>6. Good(q, d) \/ h # o.sector
      <4> SUFFICES ASSUME h = o.sector, NEW i \in 1..Len(d), i \notin Hole(q)
                   PROVE  d[i] = Place(q.file, q.pos + i - 1)
        BY DEF Good
      <4>1. i \in 1..n /\ d[i] = c[i]
        <5>1. i \in 1..n /\ Len(b) + i = i
          BY <3>2
        <5>2. QED
          BY <5>1, <1>8
      <4>2. o.off + i <= SectorSize
        <5> SUFFICES ASSUME o.off + i > SectorSize PROVE i \in Hole(q)
          BY <1>2, <1>4, <4>1, <1>1
        <5>1. o.off > 0 /\ i \in 1..SectorSize
          BY <1>1, <1>2, <1>4, <1>5, <4>1
        <5>2. Hole(o) = {j \in 1..SectorSize : j > SectorSize - (o.pos % SectorSize)}
          BY <3>1, <5>1, Zenon DEF Hole
        <5>3. i > SectorSize - o.off
          BY <1>1, <1>2, <1>4, <4>1
        <5>4. QED
          BY <2>4, <3>1, <5>1, <5>2, <5>3
      <4>3. c[i] = o.sector * SectorSize + o.off + i - 1
        BY <1>4, <1>7, <4>1, <4>2
      <4>4. Place(q.file, q.pos + i - 1) = e + (o.pos + i - 1)
        BY <1>11, <2>3
      <4>5. QED
        BY SMTT(20), <1>2, <1>4, <3>1, <3>3, <3>5, <4>1, <4>3, <4>4
    <3>7. CASE p2 = "chunk" /\ n = SectorSize
      <4>1. q.sector * SectorSize + q.off = Place(q.file, q.pos + Got(q))
        <5>1. Place(q.file, q.pos + Got(q)) = e + (o.pos + SectorSize)
          BY <1>11, <2>3, <3>2, <3>7
        <5>2. q.sector * SectorSize + q.off = o.sector * SectorSize + SectorSize + o.off
          BY <1>2, <3>4, Zenon
        <5>3. o.sector * SectorSize + o.off = e + o.pos
          BY <3>1, <3>5, Zenon
        <5>4. o.sector * SectorSize + SectorSize + o.off = e + (o.pos + SectorSize)
          <6>1. PICK m \in Nat : m = o.sector * SectorSize
            BY <3>3
          <6>2. m + o.off = e + o.pos
            BY <5>3, <6>1
          <6>3. m + SectorSize + o.off = e + (o.pos + SectorSize)
            <7>1. /\ m \in Int /\ o.off \in Int /\ e \in Int /\ o.pos \in Int
                  /\ SectorSize \in Int
              BY <1>1, <1>4
            <7>2. QED
              BY SMTT(20), <7>1, <6>2, Shifted
          <6>4. QED
            BY <6>1, <6>3
        <5>5. QED
          BY <5>1, <5>2, <5>4, Zenon
      <4>2. q.blocks * SectorSize - q.off + Got(q) = Cap(q)
        <5>1. q.blocks * SectorSize = o.blocks * SectorSize - SectorSize
          BY <1>2, <3>4, Zenon
        <5>2. QED
          BY <1>1, <1>2, <1>4, <2>1, <2>2, <3>1, <3>2, <3>3, <3>7, <5>1
      <4>3. q.blocks # 0
        BY <1>3, <1>2, <1>4, <3>7
      <4>4. Running(q)
        BY <4>1, <4>2, <4>3 DEF Running
      <4>5. AtSome(q)
        BY <1>1, <1>2, <1>4, <1>10, <3>2, <3>7 DEF AtSome, Least
      <4>6. Within("chunk", q)
        BY <1>2, <2>2, <3>1, <4>4, <4>5 DEF Within
      <4>7. StageAt("chunk", q, d)
        BY <1>11, <4>6 DEF StageAt
      <4>8. QED
        BY <3>6, <3>7, <4>7, <1>9
    <3>8. CASE p2 = "chunk" /\ n # SectorSize
      <4>1. n = o.rem /\ q.rem = 0 /\ o.asked < SectorSize /\ Got(q) = o.asked
        BY <1>1, <1>2, <1>4, <1>5, <1>10, <3>2, <3>8
      <4>2. o.asked <= Cap(o) \/ (o.matched /\ o.asked <= SectorSize)
        <5>1. CASE o.off > 0
          BY <1>1, <1>2, <1>4, <3>1, <4>1, <5>1
        <5>2. CASE o.off = 0
          <6>1. o.blocks * SectorSize >= SectorSize
            BY <1>1, <1>3, <1>4, Multiple
          <6>2. QED
            BY <1>1, <1>4, <2>1, <3>1, <3>3, <4>1, <5>2, <6>1
        <5>3. QED
          BY <1>2, <1>4, <5>1, <5>2
      <4>3. Filled(q)
        BY <1>2, <1>10, <2>2, <4>1, <4>2 DEF Filled
      <4>4. AtSome(q)
        BY <1>1, <1>2, <1>4, <1>10, <4>1 DEF AtSome, Least
      <4>5. Within("chunk", q)
        BY <1>2, <2>2, <3>1, <4>3, <4>4 DEF Within
      <4>6. StageAt("chunk", q, d)
        BY <1>11, <4>5 DEF StageAt
      <4>7. QED
        BY <3>6, <3>8, <4>6, <1>9
    <3>9. CASE p2 = "return"
      <4>1. o.blocks = 1 /\ Cap(o) = SectorSize - o.off
        <5>1. o.blocks = 1
          BY <1>2, <3>9, Zenon
        <5>2. 1 * SectorSize = SectorSize
          BY <1>1
        <5>3. o.blocks * SectorSize = SectorSize
          BY <5>1, <5>2, Zenon
        <5>4. QED
          BY <1>1, <1>4, <2>1, <3>1, <5>1, <5>3
      <4>2. n = q.asked \/ n >= Cap(q)
        BY <1>1, <1>2, <1>4, <1>5, <1>10, <2>1, <2>2, <3>2, <4>1
      <4>3. n >= Least(q.asked, SectorSize)
        BY <1>1, <1>2, <1>4, <1>5, <1>10, <3>2 DEF Least
      <4>4. n <= Cap(q) \/ (q.matched /\ n <= SectorSize)
        BY <1>1, <1>2, <1>4, <1>5, <2>2, <3>1, <4>1
      <4>5. Past(q, Len(d))
        BY <3>2, <4>2, <4>3, <4>4 DEF Past
      <4>6. StageAt("return", q, d)
        BY <1>11, <4>5 DEF StageAt
      <4>7. QED
        BY <3>6, <3>9, <4>6, <1>9
    <3>10. QED
      BY <1>2, <3>7, <3>8, <3>9
  <2>6. CASE Past(o, Len(b)) /\ Len(All(o)) > 1
    <3>1. Past(q, Len(d))
      <4>1. Len(b) \in Nat /\ Len(d) \in Nat /\ Len(b) <= Len(d) /\ Len(d) <= o.asked
        <5>1. Len(b) \in Nat /\ Len(d) \in Nat
          BY <1>8, SeqIs, Zenon
        <5>2. n \in Nat /\ Len(d) = Len(b) + n /\ Len(d) <= o.asked
          BY <1>5, <1>8, <1>10, Zenon
        <5>3. QED
          BY <5>1, <5>2
      <4>2. Len(All(o)) # 1
        <5>1. PICK l \in Nat \ {0} : l = Len(All(o))
          BY <2>1
        <5>2. l > 1
          BY <2>6, <5>1
        <5>3. l # 1
          BY <5>2
        <5>4. QED
          BY <5>1, <5>3
      <4>3. QED
        BY <1>2, <1>4, <2>1, <2>6, <4>1, <4>2, PastIs
    <3>2. Len(All(q)) > 1
      BY <2>2, <2>6
    <3>3. StageAt(p2, q, d)
      BY <1>2, <1>11, <3>1, <3>2 DEF StageAt
    <3>4. Len(d) = Len(b) \/ Len(b) >= Cap(o)
      <4>1. CASE Len(b) = o.asked
        BY SMTT(20), <1>3, <1>2, <1>4, <1>5, <1>8, <4>1 DEF Got
      <4>2. QED
        BY <4>1, <2>6 DEF Past
    <3>5. ASSUME Good(o, b) PROVE Good(q, d)
      <4> SUFFICES ASSUME NEW i \in 1..Len(d), i <= Cap(q), i \notin Hole(q)
                   PROVE  d[i] = Place(q.file, q.pos + i - 1)
        BY DEF Good
      <4>1. i \in 1..Len(b)
        BY <1>10, <2>1, <2>2, <3>4
      <4>2. b[i] = Place(o.file, o.pos + i - 1)
        BY <2>2, <2>4, <3>5, <4>1 DEF Good
      <4>3. QED
        BY <1>8, <1>11, <4>1, <4>2
    <3>6. QED
      BY <3>3, <3>5, <1>9
  <2>7. Within("take", o) \/ (Past(o, Len(b)) /\ Len(All(o)) > 1)
    BY <1>3, <1>13 DEF StageAt, Ranging
  <2>8. QED
    BY <2>5, <2>6, <2>7, Zenon
<1>14. QED
  BY <1>12, <1>13

\* A range is read: its bytes are there, and with the only range the read.
LEMMA ChunkEnds ==
  ASSUME NEW o \in Call, NEW b \in Seq(Places), LocalAt("chunk", o, b), StageAt("chunk", o, b),
         o.blocks = 0 \/ o.rem = 0
  PROVE  StageAt("range", o, b)
<1>0. SectorSize \in Nat \ {0}
  BY SizeAssumption
<1>1. /\ FromFile(o) /\ ~o.cached /\ Len(b) = Got(o) /\ o.kind # "raw" /\ o.blocks >= 0
      /\ o.off < SectorSize /\ Len(b) <= o.asked
  BY DEF LocalAt, Ranging, FromFile
<1>2. /\ o.asked \in Nat /\ o.rem \in Nat /\ o.off \in Nat /\ o.blocks \in Int
  BY CallIs
<1>3. o.matched => o.pos % SectorSize # 0
  BY Zenon DEF StageAt
<1>4. SUFFICES ASSUME Begun(o)
               PROVE  Before(o) \/ (Past(o, Len(b)) /\ (Len(All(o)) = 1 => o.ranges = <<>>))
  BY <1>3 DEF StageAt
<1>5. /\ o.asked \in Nat \ {0} /\ All(o) \in Seq(SectorRange)
      /\ Cap(o) \in Nat \ {0} /\ Len(All(o)) \in Nat \ {0}
  BY <1>1, <1>4, BegunIs
<1>6. CASE Within("chunk", o)
  <2>1. o.ranges = Tail(All(o)) /\ (Running(o) \/ Filled(o)) /\ AtSome(o)
    BY <1>6 DEF Within
  <2>2. Len(All(o)) = 1 => o.ranges = <<>>
    BY <1>5, <2>1
  <2>3. o.matched => Len(b) >= Least(o.asked, SectorSize)
    BY <1>1, <2>1 DEF AtSome
  <2>4. CASE Running(o)
    <3>1. /\ o.blocks * SectorSize - o.off + Got(o) = Cap(o)
          /\ o.blocks = 0 => o.off = 0
      BY <2>4 DEF Running
    <3>2. Got(o) = o.asked - o.rem
      BY DEF Got
    <3>3. CASE o.blocks = 0
      <4>1. o.blocks * SectorSize = 0
        BY <1>0, <3>3
      <4>2. Got(o) = Cap(o)
        BY <1>2, <1>5, <3>1, <3>2, <3>3, <4>1
      <4>3. Past(o, Len(b))
        BY <1>1, <1>5, <2>3, <4>2 DEF Past
      <4>4. QED
        BY <2>2, <4>3
    <3>4. CASE o.blocks # 0
      <4>1. o.rem = 0 /\ Got(o) = o.asked
        BY <1>2, <3>2, <3>4
      <4>2. o.blocks >= 1
        BY <1>1, <1>2, <3>4
      <4>3. o.blocks * SectorSize >= SectorSize
        BY <1>0, <1>2, <4>2, Multiple
      <4>4. PICK m \in Int : m = o.blocks * SectorSize
        BY <1>0, <1>2
      <4>5. Got(o) <= Cap(o)
        <5>1. m - o.off + Got(o) = Cap(o) /\ m >= SectorSize
          BY <3>1, <4>3, <4>4
        <5>2. QED
          BY <1>0, <1>1, <1>2, <1>5, <4>1, <5>1
      <4>6. Past(o, Len(b))
        BY <1>1, <1>5, <2>3, <4>1, <4>5 DEF Past
      <4>7. QED
        BY <2>2, <4>6
    <3>5. QED
      BY <3>3, <3>4
  <2>5. CASE Filled(o)
    <3>1. o.rem = 0 /\ (o.asked <= Cap(o) \/ (o.matched /\ o.asked <= SectorSize))
      BY <2>5 DEF Filled
    <3>2. Len(b) = o.asked
      BY <1>1, <1>2, <3>1 DEF Got
    <3>3. Past(o, Len(b))
      BY <1>5, <2>3, <3>1, <3>2 DEF Past
    <3>4. QED
      BY <2>2, <3>3
  <2>6. QED
    BY <2>1, <2>4, <2>5
<1>7. CASE Past(o, Len(b)) /\ Len(All(o)) > 1
  <2>1. PICK l \in Nat \ {0} : l = Len(All(o))
    BY <1>5
  <2>2. l > 1
    BY <1>7, <2>1
  <2>3. l # 1
    BY <2>2
  <2>4. Len(All(o)) # 1
    BY <2>1, <2>3
  <2>5. QED
    BY <1>7, <2>4
<1>8. QED
  BY <1>1, <1>4, <1>6, <1>7 DEF StageAt, Ranging

\* A chunk to be read is in the first range, or behind it.
LEMMA ChunkMarks ==
  ASSUME NEW o \in Call, NEW b \in Seq(Places), LocalAt("chunk", o, b), StageAt("chunk", o, b),
         o.rem # 0
  PROVE  StageAt("mark", o, b)
<1>1. o.matched => o.pos % SectorSize # 0
  BY Zenon DEF StageAt
<1>2. Within("chunk", o) => Within("mark", o)
  BY DEF Within, Filled
<1>3. QED
  BY <1>1, <1>2 DEF StageAt, Ranging

\* A chunk has k sectors, and n bytes of it are copied.
Chunks(o, n, k) ==
  k = Least(o.blocks, ChunkSectors) /\ n = Least(o.rem, k * SectorSize - o.off)

\* A chunk is copied: the range goes on behind it.
Marks(o, q, n, k) ==
  /\ SameRead(o, q) /\ Chunks(o, n, k)
  /\ q.rem = o.rem - n /\ q.sector = o.sector + k /\ q.blocks = o.blocks - k
  /\ q.off = 0 /\ q.ranges = o.ranges /\ (q.matched <=> o.matched)

\* A chunk has at least one sector, and gives as many bytes as are left or as it holds.
LEMMA ChunkSize ==
  ASSUME NEW o \in Call, NEW b \in Seq(Places), LocalAt("mark", o, b), NEW n, NEW k,
         Chunks(o, n, k)
  PROVE  /\ k \in 1..ChunkSectors /\ k <= o.blocks /\ o.off \in 0..(SectorSize - 1)
         /\ n \in Nat \ {0} /\ n <= o.rem /\ k * SectorSize \in Int
         /\ o.off + n <= k * SectorSize
         /\ n = o.rem \/ n = k * SectorSize - o.off
<1>0. SectorSize \in Nat \ {0} /\ ChunkSectors \in Nat \ {0}
  BY SizeAssumption, ChunkAssumption
<1>1. o.off < SectorSize /\ o.blocks >= 1 /\ o.rem > 0
  BY DEF LocalAt, Ranging
<1>2. o.rem \in Nat /\ o.off \in Nat /\ o.blocks \in Int
  BY CallIs
<1>3. k = Least(o.blocks, ChunkSectors) /\ n = Least(o.rem, k * SectorSize - o.off)
  BY DEF Chunks
<1>4. k \in 1..ChunkSectors /\ k <= o.blocks
  BY <1>0, <1>1, <1>2, <1>3 DEF Least
<1>5. PICK m \in Int : m = k * SectorSize
  BY <1>0, <1>4
<1>6. k * SectorSize >= SectorSize
  BY <1>0, <1>4, Multiple
<1>7. m >= SectorSize /\ n = Least(o.rem, m - o.off)
  BY <1>3, <1>5, <1>6
<1>8. /\ n \in Nat \ {0} /\ n <= o.rem /\ o.off + n <= m
      /\ n = o.rem \/ n = m - o.off
  BY <1>0, <1>1, <1>2, <1>7 DEF Least
<1>9. QED
  BY <1>0, <1>1, <1>2, <1>4, <1>5, <1>8

\* c is n bytes long.
HasLength(c, n) == Len(c) = n

\* A chunk's part of the read is copied: where the call is then.
LEMMA MarkStage ==
  ASSUME NEW o \in Call, NEW q \in Call, NEW b \in Seq(Places), NEW c \in Seq(Places),
         NEW n, NEW k, LocalAt("mark", o, b), StageAt("mark", o, b), Marks(o, q, n, k),
         HasLength(c, n)
  PROVE  /\ StageAt("chunk", q, b \o c)
         /\ Begun(o) /\ Good(o, b)
              /\ (\A i \in 1..n : c[i] = o.sector * SectorSize + o.off + i - 1)
              => Good(q, b \o c)
<1>0. SectorSize \in Nat \ {0}
  BY SizeAssumption
<1>1. /\ SameRead(o, q) /\ q.rem = o.rem - n /\ q.sector = o.sector + k
      /\ q.blocks = o.blocks - k /\ q.off = 0 /\ q.ranges = o.ranges
      /\ (q.matched <=> o.matched)
  BY DEF Marks
<1>2. /\ FromFile(o) /\ ~o.cached /\ Len(b) = Got(o) /\ o.kind # "raw" /\ Len(b) <= o.asked
  BY DEF LocalAt, Ranging, FromFile
<1>3. /\ o.asked \in Nat /\ o.rem \in Nat /\ o.pos \in Int /\ o.off \in Nat /\ o.blocks \in Int
      /\ o.sector \in Nat /\ o.sector \in Int
  BY CallIs
<1>4. /\ k \in 1..ChunkSectors /\ k \in Int /\ k <= o.blocks /\ n \in Nat \ {0} /\ n <= o.rem
      /\ o.off + n <= k * SectorSize
      /\ n = o.rem \/ n = k * SectorSize - o.off
  <2>1. Chunks(o, n, k)
    BY DEF Marks
  <2>2. QED
    BY <2>1, ChunkSize
<1> DEFINE d == b \o c
<1>5. /\ d \in Seq(Places) /\ Len(d) = Len(b) + n
      /\ \A i \in 1..Len(b) : d[i] = b[i]
      /\ \A i \in 1..n : d[Len(b) + i] = c[i]
  <2>1. b \o c \in Seq(Places) /\ Len(b \o c) = Len(b) + Len(c)
    BY Concats
  <2>2. \A i \in 1..Len(b) : (b \o c)[i] = b[i]
    BY Concats
  <2>3. \A i \in 1..Len(c) : (b \o c)[Len(b) + i] = c[i]
    BY Concats
  <2>4. Len(c) = n
    BY DEF HasLength
  <2>5. QED
    BY <2>1, <2>2, <2>3, <2>4
<1>6. d = b \o c
  OBVIOUS
<1> HIDE DEF d
<1>7. /\ Len(b) \in Nat /\ Len(d) \in Nat
  BY <1>5, SeqIs, Zenon
<1>8. /\ Got(q) = Len(d) /\ Len(d) <= q.asked /\ q.asked = o.asked
      /\ Got(q) = Got(o) + n /\ Got(o) \in Nat /\ Got(o) = o.asked - o.rem
  <2>1. n \in Nat \ {0} /\ n <= o.rem
    BY <1>4, Zenon
  <2>2. /\ Got(o) = o.asked - o.rem /\ Got(q) = q.asked - q.rem
        /\ q.asked = o.asked /\ q.rem = o.rem - n
    BY <1>1 DEF Got, SameRead
  <2>3. Len(b) = Got(o) /\ Len(b) <= o.asked /\ Len(d) = Len(b) + n
    BY <1>2, <1>5
  <2>4. Got(o) \in Nat
    BY <1>7, <2>3
  <2>5. QED
    BY <1>3, <2>1, <2>2, <2>3, <2>4
<1>9. (q.matched => q.pos % SectorSize # 0) /\ q.pos = o.pos /\ q.file = o.file
  BY <1>1, Zenon DEF StageAt, SameRead
<1>10. CASE ~Begun(o)
  <2>1. ~Begun(q)
    BY <1>1, <1>10, SameIs
  <2>2. QED
    BY <1>6, <1>9, <1>10, <2>1, Zenon DEF StageAt
<1>11. CASE Begun(o)
  <2>1. /\ o.asked \in Nat \ {0} /\ All(o) \in Seq(SectorRange) /\ All(o) # <<>>
        /\ Cap(o) \in Nat \ {0} /\ Len(All(o)) \in Nat \ {0}
    BY <1>2, <1>11, BegunIs
  <2>2. All(q) = All(o) /\ Cap(q) = Cap(o) /\ Begun(q)
    BY <1>1, <1>11, SameIs
  <2>3. PICK e \in Nat : \A p : Place(o.file, p) = e + p
    BY <1>2, <1>11, BegunIs
  <2>4. Hole(q) = Hole(o)
    BY <1>1, <1>9 DEF Hole
  <2>5. CASE Within("mark", o)
    <3>1. /\ o.sector * SectorSize + o.off = Place(o.file, o.pos + Got(o))
          /\ o.blocks * SectorSize - o.off + Got(o) = Cap(o)
          /\ o.ranges = Tail(All(o)) /\ AtSome(o)
      BY <2>5 DEF Within, Running
    <3>2. PICK x \in Int, y \in Int, z \in Int :
            x = o.sector * SectorSize /\ y = o.blocks * SectorSize /\ z = k * SectorSize
      <4>1. o.sector \in Int /\ o.blocks \in Int /\ k \in Int
        BY <1>3, <1>4
      <4>2. o.sector * SectorSize \in Int
        BY <1>0, <4>1, SumMultiple, Zenon
      <4>3. o.blocks * SectorSize \in Int
        BY <1>0, <4>1, SumMultiple, Zenon
      <4>4. k * SectorSize \in Int
        BY <1>0, <4>1, SumMultiple, Zenon
      <4>5. QED
        BY <4>2, <4>3, <4>4, Zenon
    <3>3. x + o.off = e + (o.pos + Got(o)) /\ y - o.off + Got(o) = Cap(o)
      BY <2>3, <3>1, <3>2
    <3>4. (o.sector + k) * SectorSize = x + z /\ (o.blocks - k) * SectorSize = y - z
      <4>1. /\ (o.sector + k) * SectorSize = o.sector * SectorSize + k * SectorSize
            /\ (o.blocks - k) * SectorSize = o.blocks * SectorSize - k * SectorSize
        BY SMTT(20), <1>0, <1>3, <1>4, SumMultiple
      <4>2. QED
        BY <3>2, <4>1
    <3>5. z <= y
      <4>1. k * SectorSize <= o.blocks * SectorSize
        BY <1>0, <1>3, <1>4, Ordered
      <4>2. QED
        BY <3>2, <4>1
    <3>6. o.off + n <= z /\ (n = o.rem \/ n = z - o.off)
      BY <1>4, <3>2
    <3>7. AtSome(q)
      <4>1. q.matched => Got(o) >= Least(o.asked, SectorSize)
        BY <1>1, <3>1, Zenon DEF AtSome
      <4>2. Got(q) >= Got(o) /\ Got(q) \in Nat /\ q.asked = o.asked
        <5>1. n \in Nat /\ Got(q) = Got(o) + n /\ Got(o) \in Nat
          BY <1>4, <1>8, Zenon
        <5>2. QED
          BY <1>8, <5>1
      <4>3. Least(o.asked, SectorSize) \in Int
        <5>1. o.asked \in Int /\ SectorSize \in Int
          BY <1>0, <1>3
        <5>2. QED
          BY <5>1, LeastOf, Zenon
      <4>4. Got(q) >= Least(q.asked, SectorSize) \/ ~q.matched
        BY <1>8, <4>1, <4>2, <4>3
      <4>5. QED
        BY <4>4 DEF AtSome
    <3>8. Running(q) \/ Filled(q)
      <4>1. CASE n = z - o.off
        <5>1. q.sector * SectorSize + q.off = Place(q.file, q.pos + Got(q))
          <6>1. Place(q.file, q.pos + Got(q)) = e + (o.pos + (Got(o) + n))
            BY <1>8, <1>9, <2>3, Zenon
          <6>2. q.sector * SectorSize = x + z
            <7>1. q.sector = o.sector + k
              BY <1>1, Zenon
            <7>2. (o.sector + k) * SectorSize = x + z
              BY <3>4, Zenon
            <7>3. q.sector * SectorSize = (o.sector + k) * SectorSize
              BY <7>1
            <7>4. QED
              BY <7>2, <7>3, Zenon
          <6>3. x + z = e + (o.pos + (Got(o) + n)) /\ x + z + 0 = x + z
            <7>1. PICK g \in Nat : g = Got(o)
              BY <1>8
            <7>2. x + o.off = e + (o.pos + g)
              BY <3>3, <7>1
            <7>3. n \in Nat /\ z = o.off + n /\ x + z + 0 = x + z
              <8>1. n \in Nat
                BY <1>4, Zenon
              <8>2. QED
                BY <1>3, <4>1, <8>1
            <7>4. x + (o.off + n) = e + (o.pos + (g + n))
              <8>1. PICK v \in Nat, w \in Int, u \in Nat : v = o.off /\ w = o.pos /\ u = n
                BY <1>3, <7>3
              <8>2. x + v = e + (w + g)
                BY <7>2, <8>1, Zenon
              <8>3. x + (v + u) = e + (w + (g + u))
                BY <8>2
              <8>4. QED
                BY <8>1, <8>3, Zenon
            <7>5. QED
              BY <7>1, <7>3, <7>4, Zenon
          <6>4. QED
            BY <1>1, <6>1, <6>2, <6>3
        <5>2. q.blocks * SectorSize - q.off + Got(q) = Cap(q)
          <6>1. q.blocks * SectorSize = y - z
            BY <1>1, <3>4, Zenon
          <6>2. y - z - 0 + (Got(o) + n) = Cap(o)
            <7>1. PICK g \in Nat : g = Got(o)
              BY <1>8
            <7>2. PICK l \in Nat : l = Cap(o)
              BY <2>1
            <7>3. y - o.off + g = l
              BY <3>3, <7>1, <7>2
            <7>4. y - z - 0 + (g + n) = l
              BY SMTT(20), <1>3, <4>1, <7>3
            <7>5. QED
              BY <7>1, <7>2, <7>4, Zenon
          <6>3. QED
            BY <1>1, <1>8, <2>2, <6>1, <6>2
        <5>3. QED
          BY <1>1, <5>1, <5>2 DEF Running
      <4>2. CASE n # z - o.off
        <5>1. n = o.rem /\ q.rem = 0 /\ Got(q) = o.asked
          <6>1. n = o.rem
            BY <3>6, <4>2, Zenon
          <6>2. q.rem = o.rem - n
            BY <1>1, Zenon
          <6>3. Got(q) = Got(o) + n /\ Got(o) = o.asked - o.rem
            BY <1>8, Zenon
          <6>4. QED
            BY <1>3, <6>1, <6>2, <6>3
        <5>2. o.asked <= Cap(o)
          <6>1. /\ Got(o) \in Nat /\ Got(o) + n = o.asked /\ y - o.off + Got(o) = Cap(o)
                /\ z <= y /\ o.off + n <= z
            <7>1. Got(o) \in Nat /\ Got(q) = Got(o) + n /\ Got(q) = o.asked
              BY <1>8, <5>1, Zenon
            <7>2. QED
              BY <3>3, <3>5, <3>6, <7>1, Zenon
          <6>2. PICK g \in Nat : g = Got(o)
            BY <1>8
          <6>3. PICK l \in Nat : l = Cap(o)
            BY <2>1
          <6>4. g + n = o.asked /\ y - o.off + g = l
            BY <6>1, <6>2, <6>3
          <6>5. o.asked <= l
            <7>1. PICK v \in Nat, w \in Nat, u \in Nat : v = o.off /\ w = o.asked /\ u = n
              BY <1>3, <1>4
            <7>2. g + u = w /\ y - v + g = l /\ z <= y /\ v + u <= z
              BY <6>1, <6>4, <7>1, Zenon
            <7>3. w <= l
              BY <7>2
            <7>4. QED
              BY <7>1, <7>3
          <6>6. QED
            BY <6>3, <6>5
        <5>3. QED
          BY <1>8, <2>2, <5>1, <5>2 DEF Filled
      <4>3. QED
        BY <4>1, <4>2
    <3>9. Within("chunk", q)
      BY <1>1, <2>2, <3>1, <3>7, <3>8 DEF Within
    <3>10. StageAt("chunk", q, d)
      BY <1>9, <3>9 DEF StageAt
    <3>11. ASSUME Good(o, b),
                  \A i \in 1..n : c[i] = o.sector * SectorSize + o.off + i - 1
           PROVE  Good(q, d)
      <4> SUFFICES ASSUME NEW i \in 1..Len(d), i <= Cap(q), i \notin Hole(q)
                   PROVE  d[i] = Place(q.file, q.pos + i - 1)
        BY DEF Good
      <4>1. CASE i \in 1..Len(b)
        BY <1>5, <1>9, <2>2, <2>4, <3>11, <4>1 DEF Good
      <4>2. CASE i \notin 1..Len(b)
        <5>1. PICK j \in 1..n : i = Len(b) + j
          <6>1. i - Len(b) \in 1..n /\ i = Len(b) + (i - Len(b))
            BY <1>4, <1>5, <1>7, <4>2
          <6>2. QED
            BY <6>1
        <5>2. d[i] = x + o.off + j - 1
          BY <1>5, <3>2, <3>11, <5>1
        <5>3. Place(q.file, q.pos + i - 1) = e + (o.pos + i - 1)
          BY <1>9, <2>3
        <5>4. QED
          <6>1. PICK g \in Nat : g = Got(o) /\ g = Len(b)
            BY <1>2, <1>8
          <6>2. x + o.off = e + (o.pos + g) /\ i = g + j
            BY <3>3, <5>1, <6>1
          <6>3. x + o.off + j - 1 = e + (o.pos + i - 1)
            BY <1>3, <6>2
          <6>4. QED
            BY <5>2, <5>3, <6>3
      <4>3. QED
        BY <4>1, <4>2
    <3>12. QED
      BY <3>10, <3>11, <1>6
  <2>6. CASE Past(o, Len(b)) /\ Len(All(o)) > 1
    <3>1. Past(q, Len(d))
      <4>1. Len(b) <= Len(d) /\ Len(d) <= o.asked
        BY <1>4, <1>5, <1>7, <1>8
      <4>2. Len(All(o)) # 1
        <5>1. PICK l \in Nat \ {0} : l = Len(All(o))
          BY <2>1
        <5>2. l > 1
          BY <2>6, <5>1
        <5>3. l # 1
          BY <5>2
        <5>4. QED
          BY <5>1, <5>3
      <4>3. QED
        BY <1>1, <1>3, <1>7, <2>1, <2>6, <4>1, <4>2, PastIs
    <3>2. Len(All(q)) > 1
      BY <2>2, <2>6
    <3>3. StageAt("chunk", q, d)
      BY <1>9, <3>1, <3>2 DEF StageAt
    <3>4. Len(b) >= Cap(o)
      <4>1. Len(b) # o.asked
        BY <1>2, <1>3, <1>4, <1>7 DEF Got
      <4>2. QED
        BY <4>1, <2>6 DEF Past
    <3>5. ASSUME Good(o, b) PROVE Good(q, d)
      <4> SUFFICES ASSUME NEW i \in 1..Len(d), i <= Cap(q), i \notin Hole(q)
                   PROVE  d[i] = Place(q.file, q.pos + i - 1)
        BY DEF Good
      <4>1. i \in 1..Len(b)
        BY <1>7, <2>1, <2>2, <3>4
      <4>2. b[i] = Place(o.file, o.pos + i - 1)
        BY <2>2, <2>4, <3>5, <4>1 DEF Good
      <4>3. QED
        BY <1>5, <1>9, <4>1, <4>2
    <3>6. QED
      BY <3>3, <3>5, <1>6
  <2>7. Within("mark", o) \/ (Past(o, Len(b)) /\ Len(All(o)) > 1)
    BY <1>2, <1>11 DEF StageAt, Ranging
  <2>8. QED
    BY <2>5, <2>6, <2>7, Zenon
<1>12. QED
  BY <1>10, <1>11

-----------------------------------------------------------------------------
(* Steps *)

\* Where a call holds read_mutex.
Reading == {"lookup", "serve", "range", "take", "chunk", "mark"}

\* The mutexes belong to who is behind them.
Locked ==
  /\ \A t \in Threads : (Busy(t) /\ op[t].kind = "read") <=> session = t
  /\ \A t \in Threads : pc[t] \in Reading => reading = t

\* What a step of a call may set.
Shared ==
  /\ broken \in BOOLEAN
  /\ reading \in Threads \cup {NoThread}
  /\ buf \in [sector : Nat, holds : Nat \cup {NoSector}]
  /\ chunk \in [1..ChunkSectors -> Nat \cup {NoSector}]
  /\ cached \subseteq Files /\ indexed \subseteq cached
  /\ entries \in Seq(Entry)
  /\ looked \in [Threads -> Files \cup {0}]
  /\ calm \in [Threads -> BOOLEAN] /\ quiet \in BOOLEAN
  /\ faults \in 0..MaxFaults

Values ==
  /\ Shared
  /\ disc \in Discs /\ session \in Threads \cup {NoThread}
  /\ handle \in [Threads -> Handle] /\ passes \in Nat
  /\ pc \in [Threads -> Labels]
  /\ op \in [Threads -> Call]
  /\ out \in [Threads -> Seq(Places)]
  /\ calls \in 0..MaxCalls

\* TypeOK by who changes what.
LEMMA Typing == TypeOK <=> Values /\ Locked
  BY DEF TypeOK, Values, Shared, Locked, Reading

\* What is known of a thread.
LocalTo(u) ==
  LocalAt(pc[u], op[u], out[u]) /\ StageAt(pc[u], op[u], out[u]) /\ Handled(u) /\ Found(u)

\* What the invariant says of one thread.
LEMMA InCall ==
  ASSUME UdfInv, NEW t \in Threads
  PROVE  /\ Values /\ Locked /\ Local /\ Cached /\ Quiet /\ Undisturbed
         /\ op[t] \in Call /\ out[t] \in Seq(Places) /\ pc[t] \in Labels
         /\ LocalAt(pc[t], op[t], out[t]) /\ StageAt(pc[t], op[t], out[t])
         /\ Handled(t) /\ Found(t) /\ Calm(t)
<1>1. Values /\ Locked /\ Local /\ Cached /\ Quiet /\ Undisturbed
  BY Typing DEF UdfInv
<1>2. QED
  BY <1>1 DEF Values, Local, Undisturbed

\* The invariant, from what it says of each thread.
LEMMA Complete ==
  ASSUME Values', Locked', Cached', Quiet',
         \A u \in Threads : LocalTo(u)' /\ Calm(u)'
  PROVE  UdfInv'
<1>1. TypeOK'
  BY DEF TypeOK, Values, Shared, Locked, Reading
<1>2. Local'
  BY DEF Local, LocalTo
<1>3. QED
  BY <1>1, <1>2 DEF UdfInv, Undisturbed

\* What a step of thread t leaves to the others.
Unseen(u) == pc'[u] = pc[u] /\ op'[u] = op[u] /\ out'[u] = out[u] /\ handle'[u] = handle[u]

\* The cache grows, or is freed; files stay flagged.
EntriesKept ==
  /\ cached \subseteq cached'
  /\ \/ passes' = passes
        /\ \A i \in DOMAIN entries : i \in DOMAIN entries' /\ entries'[i] = entries[i]
     \/ passes' = passes + 1

\* A thread whose call and handle are left alone stays where it is.
LEMMA OthersLocal ==
  ASSUME Values, Local, NEW u \in Threads, Unseen(u), EntriesKept
  PROVE  LocalTo(u)'
<1>1. LocalAt(pc[u], op[u], out[u]) /\ StageAt(pc[u], op[u], out[u]) /\ Handled(u) /\ Found(u)
  BY DEF Local
<1>2. LocalAt(pc'[u], op'[u], out'[u]) /\ StageAt(pc'[u], op'[u], out'[u])
  BY <1>1, Zenon DEF Unseen
<1>3. Handled(u)'
  BY <1>1 DEF Unseen, Handled, Busy
<1>4. Found(u)'
  <2>1. passes \in Nat /\ op[u].gen \in Nat
    BY CallIs DEF Values
  <2>2. CASE pc[u] # "serve"
    BY <1>1, <2>2 DEF Found, Unseen, EntriesKept
  <2>3. CASE passes' = passes + 1
    BY <1>1, <2>1, <2>3 DEF Found, Unseen, EntriesKept
  <2>4. CASE /\ passes' = passes
             /\ \A i \in DOMAIN entries : i \in DOMAIN entries' /\ entries'[i] = entries[i]
    BY <1>1, <2>1, <2>4 DEF Found, Unseen, EntriesKept
  <2>5. QED
    BY <2>2, <2>3, <2>4 DEF EntriesKept
<1>5. QED
  BY <1>2, <1>3, <1>4 DEF LocalTo

\* Only the call's own steps between its locks and its raw reads touch the buffers.
BuffersKept(t) == (buf' = buf /\ chunk' = chunk) \/ pc[t] \in Ranging \cup RawSteps

(* A call that goes on disturbs no other: raw reads are alone while those  *)
(* around them are calm, and the others take turns behind read_mutex.      *)
LEMMA OthersCalm ==
  ASSUME Locked, Local, Undisturbed, NEW t \in Threads, Busy(t), NEW u \in Threads \ {t},
         Unseen(u), calm'[u] => calm[u], BuffersKept(t), passes' = passes,
         \A v \in Threads \ {t} : Unseen(v),
         Busy(t)' => op'[t].kind = op[t].kind
  PROVE  Calm(u)'
<1> SUFFICES ASSUME calm'[u], Busy(u)'
             PROVE  /\ \A v \in Threads \ {u} : Busy(v)' => Apart(op'[u], op'[v])
                    /\ pc'[u] = "serve" => op'[u].gen = passes'
                    /\ CalmAt(pc'[u], op'[u], out'[u], buf', chunk')
  BY Zenon DEF Calm
<1>1. calm[u] /\ Busy(u)
  BY DEF Busy, Unseen
<1>2. /\ \A v \in Threads \ {u} : Busy(v) => Apart(op[u], op[v])
      /\ pc[u] = "serve" => op[u].gen = passes
      /\ CalmAt(pc[u], op[u], out[u], buf, chunk)
  BY <1>1 DEF Undisturbed, Calm
<1>3. ASSUME NEW v \in Threads \ {u}, Busy(v)' PROVE Apart(op'[u], op'[v])
  <2>1. CASE v = t
    <3>1. Apart(op[u], op[t]) /\ op'[t].kind = op[t].kind
      BY <1>2, <1>3, <2>1
    <3>2. QED
      BY <2>1, <3>1, Zenon DEF Apart, Unseen
  <2>2. CASE v # t
    <3>1. Unseen(v) /\ Busy(v)
      BY <1>3, <2>2 DEF Unseen, Busy
    <3>2. Apart(op[u], op[v])
      BY <1>2, <1>3, <3>1
    <3>3. QED
      BY <3>1, <3>2, Zenon DEF Unseen
  <2>3. QED
    BY <2>1, <2>2
<1>4. CalmAt(pc'[u], op'[u], out'[u], buf', chunk')
  <2>1. CASE buf' = buf /\ chunk' = chunk
    BY <1>2, <2>1, Zenon DEF Unseen
  <2>2. CASE pc[t] \in Ranging \cup RawSteps
    <3>1. Apart(op[u], op[t])
      BY <1>2
    <3>2. op[u].kind # "raw" /\ op[t].kind # "raw"
      BY <3>1 DEF Apart
    <3>3. LocalAt(pc[u], op[u], out[u]) /\ LocalAt(pc[t], op[t], out[t])
      BY DEF Local
    <3>4. pc[u] \notin RawSteps /\ pc[t] \notin RawSteps
      BY <3>2, <3>3 DEF LocalAt
    <3>5. pc[t] \in Reading
      BY <2>2, <3>4 DEF Ranging, Reading
    <3>6. pc[u] \notin Reading
      BY <3>5 DEF Locked
    <3>7. pc[u] \notin {"range", "take", "chunk", "mark", "number", "copy"}
      BY <3>4, <3>6 DEF Reading, RawSteps
    <3>8. CalmAt(pc[u], op[u], out[u], buf', chunk')
      BY <1>2, <3>7 DEF CalmAt
    <3>9. QED
      BY <3>8, Zenon DEF Unseen
  <2>3. QED
    BY <2>1, <2>2 DEF BuffersKept
<1>5. pc'[u] = "serve" => op'[u].gen = passes'
  BY <1>2 DEF Unseen
<1>6. QED
  BY <1>3, <1>4, <1>5

\* The call of thread t goes on: at step p, as q, with the bytes b.
Goes(t, p, q, b) ==
  /\ p # "idle" /\ q.kind = op[t].kind /\ (q.kind = "read" => q.cached = op[t].cached)
  /\ pc' = [pc EXCEPT ![t] = p] /\ op' = [op EXCEPT ![t] = q] /\ out' = [out EXCEPT ![t] = b]
  /\ disc' = disc /\ session' = session /\ handle' = handle /\ passes' = passes
  /\ calls' = calls

\* read_mutex is kept, taken or released.
Turns(t, p) ==
  \/ reading' = reading /\ (p \in Reading => pc[t] \in Reading)
  \/ reading = NoThread /\ reading' = t
  \/ reading' = Unlocked(t) /\ p \notin Reading

\* A call at step p leaves the buffer honest, or is about to give it its number.
Hands(t, p, q) ==
  IF p = "mark" THEN buf'.holds = q.sector + Least(q.blocks, ChunkSectors) - 1
  ELSE IF p = "number" THEN buf'.holds = q.sector
  ELSE buf'.holds = buf'.sector \/ (buf' = buf /\ pc[t] \notin {"mark", "number"})

\* A step of one call changes nothing of the others'.
LEMMA GoneOn ==
  ASSUME Values, NEW t \in Threads, NEW p, NEW q, NEW b, Goes(t, p, q, b), Busy(t)
  PROVE  /\ pc'[t] = p /\ op'[t] = q /\ out'[t] = b /\ q.kind = op[t].kind
         /\ Busy(t)' /\ handle' = handle /\ session' = session /\ disc' = disc
         /\ passes' = passes
         /\ \A u \in Threads \ {t} : Unseen(u)
         /\ \A u \in Threads : (Busy(u)' <=> Busy(u)) /\ op'[u].kind = op[u].kind
<1>1. /\ pc'[t] = p /\ op'[t] = q /\ out'[t] = b /\ q.kind = op[t].kind
      /\ Busy(t)' /\ handle' = handle /\ session' = session /\ disc' = disc
      /\ passes' = passes
  BY DEF Goes, Values, Busy
<1>2. \A u \in Threads \ {t} : Unseen(u)
  BY DEF Goes, Values, Unseen
<1>3. ASSUME NEW u \in Threads PROVE (Busy(u)' <=> Busy(u)) /\ op'[u].kind = op[u].kind
  <2>1. CASE u = t
    BY <1>1, <2>1
  <2>2. CASE u # t
    BY <1>2, <2>2 DEF Unseen, Busy
  <2>3. QED
    BY <2>1, <2>2
<1>4. QED
  BY <1>1, <1>2, <1>3

\* While nothing went wrong, a step of a call leaves the buffer as Quiet says.
LEMMA QuietStep ==
  ASSUME Values, Locked, Local, Quiet, NEW t \in Threads, NEW p, NEW q, NEW b,
         Goes(t, p, q, b), Busy(t), BuffersKept(t), quiet' => quiet,
         quiet' => Hands(t, p, q)
  PROVE  Quiet'
<1> SUFFICES ASSUME quiet'
             PROVE  /\ \A u \in Threads : Busy(u)' /\ op'[u].kind = "raw" => Alone(u)'
                    /\ \A u \in Threads : pc'[u] = "mark" => buf'.holds = LastOfChunk(u)'
                    /\ \A u \in Threads : pc'[u] = "number" => buf'.holds = op'[u].sector
                    /\ (\A u \in Threads : pc'[u] \notin {"mark", "number"})
                         => Honest' \/ buf'.sector = 0
  BY Zenon DEF Quiet
<1>1. /\ pc'[t] = p /\ op'[t] = q /\ out'[t] = b /\ q.kind = op[t].kind
      /\ \A u \in Threads \ {t} : Unseen(u)
  BY GoneOn
<1>2. \A u \in Threads : (Busy(u)' <=> Busy(u)) /\ op'[u].kind = op[u].kind
  BY GoneOn
<1>3. /\ \A u \in Threads : Busy(u) /\ op[u].kind = "raw" => Alone(u)
      /\ \A u \in Threads : pc[u] = "mark" => buf.holds = LastOfChunk(u)
      /\ \A u \in Threads : pc[u] = "number" => buf.holds = op[u].sector
      /\ (\A u \in Threads : pc[u] \notin {"mark", "number"}) => Honest \/ buf.sector = 0
  BY Zenon DEF Quiet
<1>4. \A u \in Threads : Busy(u)' /\ op'[u].kind = "raw" => Alone(u)'
  BY <1>2, <1>3 DEF Alone
<1>5. ASSUME NEW u \in Threads, op[u].kind = "raw", Busy(u) PROVE u = t
  BY <1>3, <1>5 DEF Alone
<1>6. ASSUME NEW u \in Threads \ {t} PROVE pc'[u] # "number" /\ pc[u] # "number"
  <2>1. LocalAt(pc[u], op[u], out[u])
    BY DEF Local
  <2>2. pc[u] = "number" => Busy(u) /\ op[u].kind = "raw"
    BY <2>1 DEF LocalAt, RawSteps, Busy
  <2>3. pc[u] # "number"
    BY <1>5, <2>2
  <2>4. QED
    BY <1>1, <2>3 DEF Unseen
<1>7. ASSUME NEW u \in Threads \ {t}, pc[u] = "mark" PROVE buf' = buf
  <2>1. reading = u
    BY <1>7 DEF Locked, Reading
  <2>2. pc[t] \notin Ranging
    BY <2>1 DEF Locked, Ranging, Reading
  <2>3. LocalAt(pc[t], op[t], out[t])
    BY DEF Local
  <2>4. pc[t] \in RawSteps => op[t].kind = "raw"
    BY <2>3 DEF LocalAt
  <2>5. Busy(u)
    BY <1>7 DEF Busy
  <2>6. op[t].kind # "raw"
    BY <1>3, <2>5 DEF Alone
  <2>7. QED
    BY <2>2, <2>4, <2>6 DEF BuffersKept
<1>8. ASSUME NEW u \in Threads, pc'[u] = "mark" PROVE buf'.holds = LastOfChunk(u)'
  <2>1. CASE u = t
    BY <1>1, <1>8, <2>1 DEF Hands, LastOfChunk, BlocksNow
  <2>2. CASE u # t
    <3>1. pc[u] = "mark" /\ op'[u] = op[u]
      BY <1>1, <1>8, <2>2 DEF Unseen
    <3>2. buf'.holds = LastOfChunk(u)
      BY <1>3, <1>7, <2>2, <3>1
    <3>3. QED
      BY <3>1, <3>2 DEF LastOfChunk, BlocksNow
  <2>3. QED
    BY <2>1, <2>2
<1>9. ASSUME NEW u \in Threads, pc'[u] = "number" PROVE buf'.holds = op'[u].sector
  <2>1. u = t
    BY <1>6, <1>9
  <2>2. QED
    BY <1>1, <1>9, <2>1 DEF Hands
<1>10. ASSUME \A u \in Threads : pc'[u] \notin {"mark", "number"}
       PROVE  Honest' \/ buf'.sector = 0
  <2>1. p \notin {"mark", "number"}
    BY <1>1, <1>10
  <2>2. buf'.holds = buf'.sector \/ (buf' = buf /\ pc[t] \notin {"mark", "number"})
    BY <2>1 DEF Hands
  <2>3. CASE buf'.holds = buf'.sector
    BY <2>3 DEF Honest
  <2>4. CASE buf' = buf /\ pc[t] \notin {"mark", "number"}
    <3>1. \A u \in Threads : pc[u] \notin {"mark", "number"}
      BY <1>1, <1>10, <2>4 DEF Unseen
    <3>2. QED
      BY <1>3, <2>4, <3>1 DEF Honest
  <2>5. QED
    BY <2>2, <2>3, <2>4
<1>11. QED
  BY <1>4, <1>8, <1>9, <1>10

\* A step of a call leaves the mutexes to who is behind them.
LEMMA LockedStep ==
  ASSUME Values, Locked, NEW t \in Threads, NEW p, NEW q, NEW b, Goes(t, p, q, b), Busy(t),
         Turns(t, p)
  PROVE  Locked'
<1>1. /\ pc'[t] = p /\ session' = session
      /\ \A u \in Threads \ {t} : Unseen(u)
  BY GoneOn
<1>2. \A u \in Threads : (Busy(u)' <=> Busy(u)) /\ op'[u].kind = op[u].kind
  BY GoneOn
<1>3. \A u \in Threads : (Busy(u)' /\ op'[u].kind = "read") <=> session' = u
  BY <1>1, <1>2 DEF Locked
<1>4. ASSUME NEW u \in Threads, pc'[u] \in Reading PROVE reading' = u
  <2>1. CASE u = t
    <3>1. p \in Reading
      BY <1>1, <1>4, <2>1
    <3>2. QED
      BY <2>1, <3>1 DEF Turns, Locked
  <2>2. CASE u # t
    <3>1. pc[u] \in Reading
      BY <1>1, <1>4, <2>2 DEF Unseen
    <3>2. reading = u /\ reading # NoThread
      BY <3>1, ThreadAssumption DEF Locked
    <3>3. QED
      BY <2>2, <3>2 DEF Turns, Unlocked
  <2>3. QED
    BY <2>1, <2>2
<1>5. QED
  BY <1>3, <1>4 DEF Locked

\* What is left to show of a step of a call.
LEMMA GoesOn ==
  ASSUME UdfInv, NEW t \in Threads, Busy(t), NEW p \in Labels, NEW q \in Call,
         NEW b \in Seq(Places), Goes(t, p, q, b), Turns(t, p), Shared', BuffersKept(t),
         EntriesKept, Cached', \A u \in Threads \ {t} : calm'[u] = calm[u], quiet' => quiet,
         quiet' => Hands(t, p, q), LocalAt(p, q, b), StageAt(p, q, b), Found(t)',
         calm'[t] => calm[t] /\ (p = "serve" => q.gen = passes)
                       /\ CalmAt(p, q, b, buf', chunk')
  PROVE  UdfInv'
<1>0. Values /\ Locked /\ Local /\ Cached /\ Quiet /\ Undisturbed /\ Handled(t) /\ Calm(t)
  BY InCall
<1>1. /\ pc'[t] = p /\ op'[t] = q /\ out'[t] = b /\ q.kind = op[t].kind /\ handle' = handle
      /\ passes' = passes /\ \A u \in Threads \ {t} : Unseen(u)
  BY <1>0, GoneOn
<1>2. \A u \in Threads : (Busy(u)' <=> Busy(u)) /\ op'[u].kind = op[u].kind
  BY <1>0, GoneOn
<1>3. Values'
  <2>1. /\ pc' \in [Threads -> Labels] /\ op' \in [Threads -> Call]
        /\ out' \in [Threads -> Seq(Places)]
    BY <1>0 DEF Values, Goes
  <2>2. QED
    BY <1>0, <2>1 DEF Values, Goes
<1>4. Locked'
  BY <1>0, LockedStep
<1>5. Quiet'
  BY <1>0, QuietStep
<1>6. LocalTo(t)'
  <2>1. LocalAt(pc'[t], op'[t], out'[t]) /\ StageAt(pc'[t], op'[t], out'[t])
    BY <1>1, Zenon
  <2>2. Handled(t)'
    BY <1>0, <1>1, <1>2 DEF Handled
  <2>3. QED
    BY <2>1, <2>2 DEF LocalTo
<1>7. Calm(t)'
  <2> SUFFICES ASSUME calm'[t]
               PROVE  /\ \A u \in Threads \ {t} : Busy(u)' => Apart(op'[t], op'[u])
                      /\ pc'[t] = "serve" => op'[t].gen = passes'
                      /\ CalmAt(pc'[t], op'[t], out'[t], buf', chunk')
    BY Zenon DEF Calm
  <2>1. calm[t] /\ (p = "serve" => q.gen = passes) /\ CalmAt(p, q, b, buf', chunk')
    OBVIOUS
  <2>2. ASSUME NEW u \in Threads \ {t}, Busy(u)' PROVE Apart(op'[t], op'[u])
    <3>1. Busy(u)
      BY <1>2, <2>2
    <3>2. Apart(op[t], op[u])
      BY <1>0, <2>1, <3>1 DEF Calm
    <3>3. op'[u].kind = op[u].kind
      BY <1>2
    <3>4. q.kind = "read" => q.cached = op[t].cached
      BY DEF Goes
    <3>5. QED
      BY <1>1, <3>2, <3>3, <3>4 DEF Apart
  <2>3. QED
    BY <1>1, <2>1, <2>2
<1>8. ASSUME NEW u \in Threads \ {t} PROVE LocalTo(u)' /\ Calm(u)'
  <2>1. Unseen(u) /\ (calm'[u] => calm[u])
    BY <1>1
  <2>2. LocalTo(u)'
    BY <1>0, <2>1, OthersLocal
  <2>3. Calm(u)'
    BY <1>0, <1>1, <1>2, <2>1, OthersCalm
  <2>4. QED
    BY <2>2, <2>3
<1>9. QED
  BY <1>3, <1>4, <1>5, <1>6, <1>7, <1>8, Complete

-----------------------------------------------------------------------------
(* Reads from the disc *)

\* The records of a call as its steps leave them.
Ranged(o, r) == [o EXCEPT !.ranges = r]

\* The record with its ranges set.
LEMMA RangedIs ==
  ASSUME NEW o \in Call, NEW r \in Seq(SectorRange)
  PROVE  /\ Ranged(o, r) \in Call /\ SameRead(o, Ranged(o, r))
         /\ Ranged(o, r).ranges = r /\ Ranged(o, r).rem = o.rem
         /\ Ranged(o, r).off = o.off /\ Ranged(o, r).matched = o.matched
         /\ Ranged(o, r).gen = o.gen /\ Ranged(o, r).found = o.found
         /\ Ranged(o, r).spoiled = o.spoiled
  BY DEF Ranged, Call, SameRead

Turned(o, s, off, hit) ==
  [o EXCEPT !.ranges = Tail(o.ranges), !.sector = s, !.off = off,
            !.blocks = Head(o.ranges).len, !.matched = @ \/ (hit /\ off > 0)]

\* The record with the next range begun.
LEMMA TurnedIs ==
  ASSUME NEW o \in Call, o.ranges # <<>>, NEW s \in Nat, NEW off \in Nat, NEW hit \in BOOLEAN
  PROVE  /\ Turned(o, s, off, hit) \in Call /\ SameRead(o, Turned(o, s, off, hit))
         /\ Turned(o, s, off, hit).ranges = Tail(o.ranges)
         /\ Turned(o, s, off, hit).rem = o.rem
         /\ Turned(o, s, off, hit).off = off /\ Turned(o, s, off, hit).sector = s
         /\ Turned(o, s, off, hit).blocks = o.ranges[1].len
         /\ Turned(o, s, off, hit).matched <=> o.matched \/ (hit /\ off > 0)
         /\ o.ranges[1].len \in Nat /\ Tail(o.ranges) \in Seq(SectorRange)
<1>1. /\ o.ranges[1].len \in Nat /\ Tail(o.ranges) \in Seq(SectorRange)
      /\ Head(o.ranges) = o.ranges[1]
  <2>1. o.ranges \in Seq(SectorRange)
    BY CallIs
  <2>2. o.ranges[1] \in SectorRange
    BY <2>1
  <2>3. QED
    BY <2>1, <2>2 DEF SectorRange
<1>2. PICK h : h = Head(o.ranges).len
  OBVIOUS
<1>3. PICK m \in BOOLEAN : m = (o.matched \/ (hit /\ off > 0))
  OBVIOUS
<1>4. PICK r : r = Tail(o.ranges)
  OBVIOUS
<1>5. h \in Int /\ r \in Seq(SectorRange)
  BY <1>1, <1>2, <1>4
<1>6. Turned(o, s, off, hit) = [o EXCEPT !.ranges = r, !.sector = s, !.off = off,
                                         !.blocks = h, !.matched = m]
  BY <1>2, <1>3, <1>4, Zenon DEF Turned
<1> DEFINE a == [o EXCEPT !.ranges = r, !.sector = s, !.off = off, !.blocks = h]
<1>7. /\ a \in Call /\ SameRead(o, a) /\ a.ranges = r /\ a.rem = o.rem /\ a.off = off
      /\ a.sector = s /\ a.blocks = h
  BY <1>5 DEF Call, SameRead
<1>8. Turned(o, s, off, hit) = [a EXCEPT !.matched = m]
  BY <1>6 DEF Call
<1> HIDE DEF a
<1>9. /\ Turned(o, s, off, hit) \in Call /\ SameRead(a, Turned(o, s, off, hit))
      /\ Turned(o, s, off, hit).ranges = a.ranges
      /\ Turned(o, s, off, hit).rem = a.rem
      /\ Turned(o, s, off, hit).off = a.off /\ Turned(o, s, off, hit).sector = a.sector
      /\ Turned(o, s, off, hit).blocks = a.blocks
      /\ Turned(o, s, off, hit).matched = m
  BY <1>7, <1>8 DEF Call, SameRead
<1>10. SameRead(o, Turned(o, s, off, hit))
  BY <1>7, <1>9 DEF SameRead
<1>11. QED
  BY <1>1, <1>2, <1>3, <1>4, <1>7, <1>9, <1>10, Zenon

Advanced(o, n, k) == [o EXCEPT !.rem = @ - n, !.sector = @ + k, !.blocks = @ - k]

\* The record further on in its range.
LEMMA AdvancedIs ==
  ASSUME NEW o \in Call, NEW n \in Nat, n <= o.rem, NEW k \in Nat
  PROVE  /\ Advanced(o, n, k) \in Call /\ SameRead(o, Advanced(o, n, k))
         /\ Advanced(o, n, k).ranges = o.ranges
         /\ Advanced(o, n, k).rem = o.rem - n
         /\ Advanced(o, n, k).off = o.off /\ Advanced(o, n, k).sector = o.sector + k
         /\ Advanced(o, n, k).blocks = o.blocks - k
         /\ Advanced(o, n, k).matched = o.matched
<1>1. o.rem \in Nat /\ o.sector \in Nat /\ o.blocks \in Int
  BY CallIs
<1>2. PICK x \in Nat, y \in Nat, z \in Int : x = o.rem - n /\ y = o.sector + k /\ z = o.blocks - k
  BY <1>1
<1>3. Advanced(o, n, k) = [o EXCEPT !.rem = x, !.sector = y, !.blocks = z]
  BY <1>2, Zenon DEF Advanced
<1>4. /\ Advanced(o, n, k) \in Call /\ SameRead(o, Advanced(o, n, k))
      /\ Advanced(o, n, k).ranges = o.ranges
      /\ Advanced(o, n, k).rem = x
      /\ Advanced(o, n, k).off = o.off /\ Advanced(o, n, k).sector = y
      /\ Advanced(o, n, k).blocks = z
      /\ Advanced(o, n, k).matched = o.matched
  BY ZenonT(30), <1>3 DEF Call, SameRead
<1>5. QED
  BY <1>2, <1>4, Zenon

Aligned(o) == [o EXCEPT !.off = 0]

\* The record at the start of a sector.
LEMMA AlignedIs ==
  ASSUME NEW o \in Call
  PROVE  /\ Aligned(o) \in Call /\ SameRead(o, Aligned(o))
         /\ Aligned(o).ranges = o.ranges /\ Aligned(o).rem = o.rem
         /\ Aligned(o).off = 0 /\ Aligned(o).sector = o.sector
         /\ Aligned(o).blocks = o.blocks /\ Aligned(o).matched = o.matched
  BY DEF Aligned, Call, SameRead

\* read_mutex is taken: nobody is at the buffers, and they are honest if all went well.
LEMMA LockStep ==
  ASSUME UdfInv, NEW t \in Threads, Lock(t)
  PROVE  UdfInv'
<1> DEFINE o == op[t]
           r == SectorRanges(o.file, o.pos, o.asked)
<1>0. /\ Values /\ Locked /\ Local /\ Cached /\ Quiet /\ Undisturbed
      /\ o \in Call /\ out[t] \in Seq(Places) /\ pc[t] = "enter"
      /\ LocalAt("enter", o, out[t]) /\ StageAt("enter", o, out[t]) /\ Calm(t)
  BY InCall DEF Lock, At
<1>1. /\ reading = NoThread /\ reading' = t /\ disc' = disc /\ calls' = calls
      /\ broken' = broken /\ session' = session /\ handle' = handle /\ buf' = buf
      /\ chunk' = chunk /\ cached' = cached /\ indexed' = indexed /\ entries' = entries
      /\ passes' = passes /\ out' = out /\ looked' = looked /\ quiet' = quiet
      /\ faults' = faults
  BY DEF Lock, At, buffers, cache
<1>2. Busy(t)
  BY <1>0 DEF Busy
<1>3. /\ FromFile(o) /\ o.rem = o.asked /\ ~o.matched /\ out[t] = <<>> /\ o.kind # "none"
      /\ o.off < SectorSize
  BY <1>0 DEF LocalAt
<1>4. EntriesKept /\ Cached' /\ out' = [out EXCEPT ![t] = out[t]]
  BY <1>0, <1>1 DEF EntriesKept, Cached, Values
<1>5. Calm(t) /\ \A p : BuffersKept(t) /\ Turns(t, p)
  BY <1>0, <1>1 DEF BuffersKept, Turns
<1>6. CASE o.cached
  <2>1. pc' = [pc EXCEPT ![t] = "lookup"] /\ op' = op /\ calm' = calm
    BY <1>6 DEF Lock
  <2>2. Goes(t, "lookup", o, out[t])
    BY <1>0, <1>1, <1>4, <2>1 DEF Goes, Values
  <2>3. Shared'
    BY <1>0, <1>1, <2>1 DEF Values, Shared
  <2>4. LocalAt("lookup", o, out[t]) /\ StageAt("lookup", o, out[t])
    BY <1>0, <1>3, <1>6 DEF LocalAt, StageAt, Ranging, Serving, RawSteps
  <2>5. Found(t)'
    BY <1>0, <2>1 DEF Found, Values
  <2>6. Hands(t, "lookup", o)
    BY <1>0, <1>1 DEF Hands
  <2>7. CalmAt("lookup", o, out[t], buf', chunk')
    BY <1>3 DEF CalmAt, FromFile, Ranging
  <2>8. "lookup" \in Labels /\ \A u \in Threads \ {t} : calm'[u] = calm[u]
    BY <2>1 DEF Labels
  <2>9. quiet' => quiet
    BY <1>1
  <2>10. calm'[t] => calm[t]
    BY <2>1
  <2>11. QED
    BY <1>0, <1>2, <1>4, <1>5, <2>2, <2>3, <2>4, <2>5, <2>6, <2>7, <2>8, <2>9, <2>10, GoesOn
<1>7. CASE ~o.cached
  <2>1. /\ pc' = [pc EXCEPT ![t] = "range"]
        /\ op' = [op EXCEPT ![t].ranges = r]
        /\ calm' = [calm EXCEPT ![t] =
             @ /\ (quiet \/ Honest \/ \A i \in DOMAIN r : PartitionLba + r[i].sector # buf.sector)]
    BY <1>7 DEF Lock
  <2>2. o.file \in Files /\ o.pos \in Nat /\ o.asked \in Nat
    BY <1>0, <1>3, CallIs DEF FromFile
  <2>3. r \in Seq(SectorRange) /\ \A i \in DOMAIN r : r[i].len >= 1
    BY <2>2, RangesAre
  <2> DEFINE q == Ranged(o, r)
  <2>4. /\ q \in Call /\ SameRead(o, q) /\ q.ranges = r /\ q.rem = o.rem /\ q.off = o.off
        /\ q.matched = o.matched
    BY <1>0, <2>3, RangedIs
  <2>5. op' = [op EXCEPT ![t] = q]
    BY <1>0, <2>1 DEF Ranged, Values
  <2> HIDE DEF q
  <2>6. Goes(t, "range", q, out[t])
    BY <1>0, <1>1, <1>4, <2>1, <2>4, <2>5 DEF Goes, SameRead
  <2>7. calm' \in [Threads -> BOOLEAN] /\ (calm'[t] => calm[t])
        /\ \A u \in Threads \ {t} : calm'[u] = calm[u]
    <3>1. calm \in [Threads -> BOOLEAN]
      BY <1>0 DEF Values, Shared
    <3>2. PICK c \in BOOLEAN : c = (calm[t] /\ (quiet \/ Honest \/ \A i \in DOMAIN r :
                                       PartitionLba + r[i].sector # buf.sector))
      OBVIOUS
    <3>3. calm' = [calm EXCEPT ![t] = c]
      BY <2>1, <3>2, Zenon
    <3>4. QED
      BY <3>1, <3>2, <3>3
  <2>8. Shared'
    <3>1. t \in Threads \cup {NoThread}
      OBVIOUS
    <3>2. QED
      BY <1>0, <1>1, <2>7, <3>1 DEF Values, Shared
  <2>9. LocalAt("range", q, out[t])
    <3>1. FromFile(q) /\ Got(q) = 0 /\ ~q.cached /\ q.kind = o.kind /\ q.asked = o.asked
      BY <1>0, <1>3, <1>7, <2>4, CallIs, SameIs DEF Got, SameRead
    <3>2. Len(out[t]) = Got(q) /\ Len(out[t]) <= q.asked /\ q.off < SectorSize
      BY <1>3, <2>2, <2>4, <3>1
    <3>3. q.kind \notin {"raw", "none"} /\ (\A i \in DOMAIN q.ranges : q.ranges[i].len >= 1)
      BY <1>3, <2>3, <2>4, <3>1 DEF FromFile
    <3>4. QED
      BY <3>1, <3>2, <3>3 DEF LocalAt, Ranging, Serving, RawSteps
  <2>10. StageAt("range", q, out[t])
    <3>1. All(q) = r
      BY <2>4 DEF All, SameRead
    <3>2. Before(q)
      BY <1>3, <2>4, <3>1 DEF Before, SameRead
    <3>3. QED
      BY <1>3, <2>4, <3>2 DEF StageAt
  <2>11. Found(t)'
    BY <1>0, <2>1 DEF Found, Values
  <2>12. Hands(t, "range", q)
    BY <1>0, <1>1 DEF Hands
  <2>13. calm'[t] => CalmAt("range", q, out[t], buf', chunk')
    <3> SUFFICES ASSUME calm'[t] PROVE CalmAt("range", q, out[t], buf', chunk')
      OBVIOUS
    <3>1. quiet \/ Honest \/ \A i \in DOMAIN r : PartitionLba + r[i].sector # buf.sector
      BY <1>0, <2>1, Zenon DEF Values, Shared
    <3>2. Reliable(buf, r)
      <4>1. CASE quiet
        <5>1. \A u \in Threads : pc[u] # "mark"
          BY <1>0, <1>1, ThreadAssumption DEF Locked, Reading
        <5>2. ASSUME NEW u \in Threads, pc[u] = "number" PROVE FALSE
          <6>1. LocalAt(pc[u], op[u], out[u])
            BY <1>0 DEF Local
          <6>2. op[u].kind = "raw" /\ Busy(u)
            BY <5>2, <6>1 DEF LocalAt, RawSteps, Busy
          <6>3. Alone(u)
            BY <1>0, <4>1, <6>2 DEF Quiet
          <6>4. u # t
            BY <1>0, <5>2
          <6>5. QED
            BY <1>2, <6>3, <6>4 DEF Alone
        <5>3. Honest \/ buf.sector = 0
          BY <1>0, <4>1, <5>1, <5>2 DEF Quiet
        <5>4. ASSUME NEW i \in DOMAIN r, buf.sector = 0
              PROVE  PartitionLba + r[i].sector # buf.sector
          <6>1. r[i] \in SectorRange
            BY <2>3
          <6>2. r[i].sector \in Nat /\ PartitionLba \in Nat \ {0}
            BY <6>1, SizeAssumption DEF SectorRange
          <6>3. QED
            BY <5>4, <6>2
        <5>5. QED
          BY <5>3, <5>4 DEF Reliable, Honest
      <4>2. QED
        BY <3>1, <4>1 DEF Reliable, Honest
    <3>3. Good(q, <<>>)
      BY DEF Good
    <3>4. q.kind # "raw"
      BY <1>3, <2>4 DEF FromFile, SameRead
    <3>5. QED
      BY <1>1, <1>3, <2>4, <3>2, <3>3, <3>4 DEF CalmAt
  <2>14. "range" \in Labels
    BY DEF Labels
  <2>15. quiet' => quiet
    BY <1>1
  <2>16. QED
    BY <1>0, <1>2, <1>4, <1>5, <2>4, <2>6, <2>7, <2>8, <2>9, <2>10, <2>11, <2>12, <2>13,
       <2>14, <2>15, GoesOn
<1>8. QED
  BY <1>6, <1>7

\* A range starts, in the buffered sector if that is its first.
LEMMA NextRangeStep ==
  ASSUME UdfInv, NEW t \in Threads, NextRange(t)
  PROVE  UdfInv'
<1> DEFINE o == op[t]
<1>0. /\ Values /\ Locked /\ Local /\ Cached /\ Quiet /\ Undisturbed
      /\ o \in Call /\ out[t] \in Seq(Places) /\ pc[t] = "range"
      /\ LocalAt("range", o, out[t]) /\ StageAt("range", o, out[t]) /\ Calm(t)
  BY InCall DEF NextRange, At
<1>1. /\ disc' = disc /\ calls' = calls /\ reading' = reading
      /\ broken' = broken /\ session' = session /\ handle' = handle /\ buf' = buf
      /\ chunk' = chunk /\ cached' = cached /\ indexed' = indexed /\ entries' = entries
      /\ passes' = passes /\ out' = out /\ looked' = looked /\ calm' = calm /\ quiet' = quiet
      /\ faults' = faults
  BY DEF NextRange, At, buffers, cache, mutexes, ghosts
<1>2. Busy(t) /\ t \in Threads
  BY <1>0 DEF Busy
<1>3. /\ FromFile(o) /\ ~o.cached /\ Len(out[t]) = Got(o) /\ Len(out[t]) <= o.asked
      /\ \A i \in DOMAIN o.ranges : o.ranges[i].len >= 1
  BY <1>0 DEF LocalAt, Ranging
<1>4. o.kind \notin {"raw", "none"}
  BY <1>3 DEF FromFile
<1>5. /\ o.ranges \in Seq(SectorRange) /\ o.pos \in Nat /\ o.rem \in Nat /\ o.asked \in Nat
  BY <1>0, <1>3, CallIs DEF FromFile
<1>6. /\ EntriesKept /\ Cached' /\ out' = [out EXCEPT ![t] = out[t]] /\ Shared'
      /\ BuffersKept(t) /\ \A p : Turns(t, p)
  BY <1>0, <1>1 DEF EntriesKept, Cached, Values, Shared, BuffersKept, Turns, Reading
<1>7. /\ quiet' => quiet
      /\ calm'[t] => calm[t]
      /\ \A u \in Threads \ {t} : calm'[u] = calm[u]
  BY <1>1
<1>8. calm[t] => CalmAt("range", o, out[t], buf, chunk)
  BY <1>0, <1>2 DEF Calm
<1>9. CASE o.ranges = <<>>
  <2>1. pc' = [pc EXCEPT ![t] = "return"] /\ op' = op
    BY <1>9 DEF NextRange
  <2>2. Goes(t, "return", o, out[t])
    BY <1>0, <1>1, <1>6, <2>1 DEF Goes, Values
  <2>3. LocalAt("return", o, out[t])
    BY <1>3, <1>4 DEF LocalAt, Serving, Ranging, RawSteps
  <2>4. StageAt("return", o, out[t])
    <3>1. o.matched => o.pos % SectorSize # 0
      BY <1>0, Zenon DEF StageAt
    <3>2. ASSUME Begun(o) PROVE Past(o, Len(out[t]))
      <4>1. All(o) # <<>>
        BY <1>0, <1>3, <3>2, BegunIs
      <4>2. ~Before(o)
        BY <1>9, <4>1 DEF Before
      <4>3. Before(o) \/ Past(o, Len(out[t]))
        BY <1>0, <1>3, <1>4, <3>2 DEF StageAt, Ranging
      <4>4. QED
        BY <4>2, <4>3
    <3>3. QED
      BY <3>1, <3>2 DEF StageAt
  <2>5. Found(t)'
    BY <1>0, <2>1 DEF Found, Values
  <2>6. Hands(t, "return", o)
    BY <1>0, <1>1 DEF Hands
  <2>7. calm'[t] => CalmAt("return", o, out[t], buf', chunk')
    BY <1>1, <1>3, <1>4, <1>8 DEF CalmAt, Ranging
  <2>8. "return" \in Labels
    BY DEF Labels
  <2>9. QED
    BY <1>0, <1>2, <1>6, <1>7, <2>2, <2>3, <2>4, <2>5, <2>6, <2>7, <2>8, GoesOn
<1>10. CASE o.ranges # <<>>
  <2> DEFINE s == PartitionLba + o.ranges[1].sector
             off == OffsetOf(t)
             hit == Buffered(s)
             p == IF hit THEN "take" ELSE "chunk"
             q == Turned(o, s, off, hit)
  <2>1. o.ranges[1] \in SectorRange /\ Head(o.ranges) = o.ranges[1] /\ 1 \in DOMAIN o.ranges
    BY <1>5, <1>10
  <2>2. /\ s \in Nat /\ hit \in BOOLEAN /\ o.ranges[1].len >= 1 /\ off \in Nat
        /\ off < SectorSize
        /\ off = IF o.rem = o.asked THEN o.pos % SectorSize ELSE 0
    <3>1. s \in Nat
      BY <2>1, SizeAssumption DEF SectorRange
    <3>2. hit \in BOOLEAN
      BY DEF Buffered
    <3>3. o.pos % SectorSize \in 0..(SectorSize - 1) /\ SectorSize \in Nat \ {0}
      BY <1>5, SizeAssumption
    <3>4. off = IF o.rem = o.asked THEN o.pos % SectorSize ELSE 0
      BY DEF OffsetOf
    <3>5. QED
      BY <1>3, <2>1, <3>1, <3>2, <3>3, <3>4
  <2>3. /\ pc' = [pc EXCEPT ![t] = p] /\ op' = [op EXCEPT ![t] = q]
    BY <1>0, <1>10, <2>1 DEF NextRange, Turned, Values
  <2>4. /\ q \in Call /\ SameRead(o, q)
        /\ q.ranges = Tail(o.ranges) /\ q.rem = o.rem
        /\ q.off = off /\ q.sector = s /\ q.blocks = o.ranges[1].len
        /\ q.matched <=> o.matched \/ (hit /\ off > 0)
        /\ Tail(o.ranges) \in Seq(SectorRange)
    <3> HIDE DEF off, hit, s
    <3>1. QED
      BY SMTT(20), <1>0, <1>10, <2>2, TurnedIs
  <2>5. p \in {"take", "chunk"} /\ p \in Labels /\ (p = "take" <=> hit)
    BY DEF Labels
  <2> HIDE DEF q
  <2>6. /\ StageAt(p, q, out[t])
        /\ Begun(o) /\ Good(o, out[t]) => Good(q, out[t])
    <3>1. q.sector = PartitionLba + o.ranges[1].sector
      BY <2>4
    <3>2. q.off = IF o.rem = o.asked THEN o.pos % SectorSize ELSE 0
      BY <2>2, <2>4
    <3>3. q.matched <=> o.matched \/ (p = "take" /\ q.off > 0)
      BY <2>4, <2>5
    <3> HIDE DEF p, off, hit, s, o
    <3>4. QED
      BY <1>0, <1>10, <2>4, <2>5, <3>1, <3>2, <3>3, RangeStage
  <2>7. Goes(t, p, q, out[t])
    BY <1>0, <1>1, <1>6, <2>3, <2>4, <2>5 DEF Goes, SameRead
  <2>8. LocalAt(p, q, out[t])
    <3>1. FromFile(q) /\ Got(q) = Got(o) /\ ~q.cached /\ q.kind = o.kind /\ q.asked = o.asked
      BY <1>3, <2>4, SameIs DEF Got, SameRead
    <3>2. \A i \in DOMAIN q.ranges : q.ranges[i].len >= 1
      BY <1>3, <1>5, <1>10, <2>4
    <3>3. q.blocks >= 1
      BY <2>2, <2>4
    <3>4. QED
      <4>1. Len(out[t]) = Got(q) /\ Len(out[t]) <= q.asked /\ q.off < SectorSize
        BY <1>3, <2>2, <2>4, <3>1
      <4>2. q.kind \notin {"raw", "none"} /\ p \in {"take", "chunk"} /\ q.blocks >= 0
        BY <1>4, <2>4, <2>5, <3>1, <3>3, CallIs
      <4> HIDE DEF p
      <4>3. QED
        BY <3>1, <3>2, <3>3, <4>1, <4>2 DEF LocalAt, Ranging, Serving, RawSteps
  <2>9. Found(t)'
    BY <1>0, <2>3, <2>5 DEF Found, Values
  <2>10. Hands(t, p, q)
    BY <1>0, <1>1, <2>5 DEF Hands
  <2>11. calm'[t] => CalmAt(p, q, out[t], buf', chunk')
    <3> SUFFICES ASSUME calm[t] PROVE CalmAt(p, q, out[t], buf, chunk)
      BY <1>1
    <3>1. Reliable(buf, o.ranges)
      BY <1>8 DEF CalmAt
    <3>2. Reliable(buf, q.ranges)
      BY <1>5, <1>10, <2>4, <3>1 DEF Reliable
    <3>3. p = "take" => buf.holds = q.sector
      BY <2>1, <2>4, <2>5, <3>1 DEF Reliable, Buffered
    <3>4. Begun(q) => Good(q, out[t])
      <4>1. Begun(q) <=> Begun(o)
        BY <2>4, SameIs
      <4>2. Begun(o) => Good(o, out[t])
        BY <1>3, <1>4, <1>8 DEF CalmAt, Ranging
      <4>3. QED
        BY <2>6, <4>1, <4>2
    <3>5. q.kind # "raw"
      BY <1>4, <2>4 DEF SameRead
    <3>6. QED
      BY <2>5, <3>2, <3>3, <3>4, <3>5 DEF CalmAt
  <2>12. p # "serve"
    BY <2>5
  <2> HIDE DEF p
  <2>13. QED
    BY <1>0, <1>2, <1>6, <1>7, <2>4, <2>5, <2>6, <2>7, <2>8, <2>9, <2>10, <2>11, <2>12,
       GoesOn
<1>11. QED
  BY <1>9, <1>10

\* The buffered sector is copied.
LEMMA TakeStep ==
  ASSUME UdfInv, NEW t \in Threads, Take(t)
  PROVE  UdfInv'
<1> DEFINE o == op[t]
           n == Least(o.rem, SectorSize)
           q == Advanced(o, n, 1)
           p == IF o.blocks = 1 THEN "return" ELSE "chunk"
           b == out[t] \o Bytes(buf.holds, o.off, n)
<1>0. /\ Values /\ Locked /\ Local /\ Cached /\ Quiet /\ Undisturbed
      /\ o \in Call /\ out[t] \in Seq(Places) /\ pc[t] = "take"
      /\ LocalAt("take", o, out[t]) /\ StageAt("take", o, out[t]) /\ Calm(t)
  BY InCall DEF Take, At
<1>1. /\ disc' = disc /\ calls' = calls /\ reading' = reading
      /\ broken' = broken /\ session' = session /\ handle' = handle /\ buf' = buf
      /\ chunk' = chunk /\ cached' = cached /\ indexed' = indexed /\ entries' = entries
      /\ passes' = passes /\ looked' = looked /\ calm' = calm /\ quiet' = quiet
      /\ faults' = faults
  BY DEF Take, At, buffers, cache, mutexes, ghosts
<1>2. /\ pc' = [pc EXCEPT ![t] = p] /\ op' = [op EXCEPT ![t] = q] /\ out' = [out EXCEPT ![t] = b]
  BY <1>0 DEF Take, Taken, AfterTaken, Advanced, Values
<1>3. /\ FromFile(o) /\ ~o.cached /\ Len(out[t]) = Got(o) /\ Len(out[t]) <= o.asked
      /\ (\A i \in DOMAIN o.ranges : o.ranges[i].len >= 1) /\ o.off < SectorSize
      /\ o.blocks >= 1
  BY <1>0 DEF LocalAt, Ranging
<1>4. o.kind \notin {"raw", "none"}
  BY <1>3 DEF FromFile
<1>5. /\ o.rem \in Nat /\ o.asked \in Nat /\ o.off \in Nat /\ o.sector \in Nat
      /\ o.blocks \in Int
  BY <1>0, CallIs
<1>6. n \in Nat /\ n <= o.rem /\ 1 \in Nat
  BY <1>5, SizeAssumption DEF Least
<1>7. /\ q \in Call /\ SameRead(o, q) /\ q.ranges = o.ranges /\ q.rem = o.rem - n
      /\ q.off = o.off /\ q.sector = o.sector + 1 /\ q.blocks = o.blocks - 1
      /\ q.matched = o.matched
  <2> HIDE DEF n
  <2>1. QED
    BY <1>0, <1>6, AdvancedIs
<1>8. p \in {"return", "chunk"} /\ p \in Labels /\ (p = "return" <=> o.blocks = 1)
  BY DEF Labels
<1>9. buf.holds \in Nat \cup {NoSector}
  BY <1>0 DEF Values, Shared
<1>10. Takes(o, q, n, p)
  BY <1>7 DEF Takes
<1>11. /\ StageAt(p, q, b)
       /\ Begun(o) /\ Good(o, out[t]) /\ buf.holds = o.sector => Good(q, b)
  <2>1. b = out[t] \o Bytes(buf.holds, o.off, n)
    OBVIOUS
  <2> HIDE DEF q, p, n, b, o
  <2>2. QED
    BY <1>0, <1>7, <1>9, <1>10, <2>1, TakeStage
<1>12. b \in Seq(Places) /\ Len(b) = Len(out[t]) + n
  <2>1. Bytes(buf.holds, o.off, n) \in Seq(Places) /\ Len(Bytes(buf.holds, o.off, n)) = n
    <3> HIDE DEF n, o
    <3>1. QED
      BY <1>5, <1>6, <1>9, BytesAre
  <2> DEFINE c == Bytes(buf.holds, o.off, n)
  <2>2. c \in Seq(Places) /\ Len(c) = n /\ b = out[t] \o c
    BY <2>1
  <2> HIDE DEF b, c, n
  <2>3. out[t] \o c \in Seq(Places) /\ Len(out[t] \o c) = Len(out[t]) + Len(c)
    BY <1>0, <2>2, Concats
  <2>4. QED
    BY <2>2, <2>3
<1> HIDE DEF q, b, n
<1>13. Busy(t)
  BY <1>0 DEF Busy
<1>14. /\ EntriesKept /\ Cached' /\ Shared' /\ BuffersKept(t) /\ Turns(t, p)
  BY <1>0, <1>1, <1>8 DEF EntriesKept, Cached, Values, Shared, BuffersKept, Turns, Reading
<1>15. /\ quiet' => quiet
       /\ calm'[t] => calm[t]
       /\ \A u \in Threads \ {t} : calm'[u] = calm[u]
  BY <1>1
<1>16. Goes(t, p, q, b)
  BY <1>0, <1>1, <1>2, <1>7, <1>8 DEF Goes, SameRead
<1>17. LocalAt(p, q, b)
  <2>1. FromFile(q) /\ ~q.cached /\ q.kind = o.kind /\ q.asked = o.asked
    BY <1>3, <1>7, SameIs DEF SameRead
  <2>2. Len(b) = Got(q) /\ Len(b) <= q.asked
    <3>1. Len(out[t]) = o.asked - o.rem /\ Got(q) = q.asked - q.rem
      BY <1>3 DEF Got
    <3>2. QED
      BY SMTT(20), <1>5, <1>6, <1>7, <1>12, <2>1, <3>1
  <2>3. p = "chunk" => q.blocks >= 0
    BY <1>3, <1>5, <1>7
  <2> HIDE DEF p
  <2>4. QED
    BY <1>3, <1>4, <1>7, <1>8, <2>1, <2>2, <2>3 DEF LocalAt, Ranging, Serving, RawSteps
<1>18. Found(t)'
  BY <1>0, <1>2, <1>8 DEF Found, Values
<1>19. Hands(t, p, q)
  BY <1>0, <1>1, <1>8 DEF Hands
<1>20. calm'[t] => CalmAt(p, q, b, buf', chunk')
  <2> SUFFICES ASSUME calm[t] PROVE CalmAt(p, q, b, buf, chunk)
    BY <1>1
  <2>1. CalmAt("take", o, out[t], buf, chunk)
    BY <1>0, <1>13 DEF Calm
  <2>2. Reliable(buf, q.ranges) /\ buf.holds = o.sector
    BY <1>7, <2>1 DEF CalmAt
  <2>3. Begun(q) => Good(q, b)
    <3>1. Begun(q) <=> Begun(o)
      BY <1>7, SameIs
    <3>2. Begun(o) => Good(o, out[t])
      BY <1>3, <1>4, <2>1 DEF CalmAt, Ranging
    <3>3. QED
      BY <1>11, <2>2, <3>1, <3>2
  <2>4. q.kind # "raw" /\ ~q.cached
    BY <1>3, <1>4, <1>7 DEF SameRead
  <2>5. QED
    BY <1>8, <2>2, <2>3, <2>4 DEF CalmAt
<1>21. p # "serve"
  BY <1>8
<1> HIDE DEF p
<1>22. QED
  BY <1>0, <1>7, <1>8, <1>11, <1>12, <1>13, <1>14, <1>15, <1>16, <1>17, <1>18, <1>19,
     <1>20, <1>21, GoesOn

\* A chunk is read, with its last sector put into the buffer, or the range is at its end.
LEMMA ReadChunkStep ==
  ASSUME UdfInv, NEW t \in Threads, ReadChunk(t)
  PROVE  UdfInv'
<1> DEFINE o == op[t]
           k == Least(o.blocks, ChunkSectors)
<1>0. /\ Values /\ Locked /\ Local /\ Cached /\ Quiet /\ Undisturbed
      /\ o \in Call /\ out[t] \in Seq(Places) /\ pc[t] = "chunk"
      /\ LocalAt("chunk", o, out[t]) /\ StageAt("chunk", o, out[t]) /\ Found(t) /\ Calm(t)
  BY InCall DEF ReadChunk, At
<1>1. /\ disc' = disc /\ calls' = calls /\ reading' = reading /\ session' = session
      /\ handle' = handle /\ cached' = cached /\ indexed' = indexed /\ entries' = entries
      /\ passes' = passes /\ looked' = looked /\ op' = op /\ out' = out
  BY DEF ReadChunk, At, cache, mutexes
<1>2. /\ FromFile(o) /\ ~o.cached /\ Len(out[t]) = Got(o) /\ Len(out[t]) <= o.asked
      /\ (\A i \in DOMAIN o.ranges : o.ranges[i].len >= 1) /\ o.off < SectorSize
      /\ o.blocks >= 0
  BY <1>0 DEF LocalAt, Ranging
<1>3. o.kind \notin {"raw", "none"}
  BY <1>2 DEF FromFile
<1>4. /\ o.rem \in Nat /\ o.sector \in Nat /\ o.blocks \in Int /\ ChunkSectors \in Nat \ {0}
  BY <1>0, CallIs, ChunkAssumption
<1>5. Busy(t)
  BY <1>0 DEF Busy
<1>6. \E p \in {"range", "mark", "chunk"} :
        /\ pc' = [pc EXCEPT ![t] = p] /\ broken' \in BOOLEAN
        /\ \/ /\ buf' = buf /\ chunk' = chunk /\ calm' = calm /\ quiet' = quiet
              /\ faults' = faults
              /\ \/ p = "range" /\ (o.blocks = 0 \/ o.rem = 0)
                 \/ p = "chunk" /\ o.blocks # 0 /\ o.rem # 0
           \/ /\ p = "mark" /\ o.blocks # 0 /\ o.rem # 0
              /\ chunk' = Delivered12(t) /\ buf' = [buf EXCEPT !.holds = chunk'[k]]
              /\ calm' = calm /\ quiet' = quiet /\ faults' = faults
           \/ /\ p = "mark" /\ o.blocks # 0 /\ o.rem # 0
              /\ chunk' = chunk /\ buf' = [buf EXCEPT !.holds = chunk[k]]
              /\ calm' = [calm EXCEPT ![t] = FALSE] /\ quiet' = FALSE
              /\ faults' = faults + 1 /\ faults < MaxFaults
  <2>1. broken \in BOOLEAN /\ pc = [pc EXCEPT ![t] = "chunk"]
    BY <1>0 DEF Values, Shared
  <2>2. CASE o.blocks = 0 \/ o.rem = 0
    <3>1. /\ pc' = [pc EXCEPT ![t] = "range"] /\ broken' = broken /\ buf' = buf
          /\ chunk' = chunk /\ calm' = calm /\ quiet' = quiet /\ faults' = faults
      BY <2>2 DEF ReadChunk, buffers, ghosts
    <3>2. QED
      BY <2>1, <2>2, <3>1
  <2>3. CASE ~(o.blocks = 0 \/ o.rem = 0)
    <3>1. \/ /\ chunk' = Delivered12(t) /\ buf' = [buf EXCEPT !.holds = chunk'[k]]
             /\ pc' = [pc EXCEPT ![t] = "mark"] /\ broken' = broken
             /\ calm' = calm /\ quiet' = quiet /\ faults' = faults
          \/ /\ faults < MaxFaults /\ faults' = faults + 1
             /\ buf' = [buf EXCEPT !.holds = chunk[k]]
             /\ calm' = [calm EXCEPT ![t] = FALSE] /\ quiet' = FALSE
             /\ pc' = [pc EXCEPT ![t] = "mark"] /\ broken' = broken /\ chunk' = chunk
          \/ /\ broken' = TRUE /\ pc' = pc /\ buf' = buf /\ chunk' = chunk
             /\ calm' = calm /\ quiet' = quiet /\ faults' = faults
      BY <2>3 DEF ReadChunk, buffers, ghosts, BlocksNow
    <3> HIDE DEF k
    <3>2. QED
      BY <2>1, <2>3, <3>1
  <2>4. QED
    BY <2>2, <2>3
<1>7. /\ EntriesKept /\ Cached' /\ BuffersKept(t) /\ op' = [op EXCEPT ![t] = o]
      /\ out' = [out EXCEPT ![t] = out[t]]
  BY <1>0, <1>1 DEF EntriesKept, Cached, BuffersKept, Ranging, Values
<1>8. /\ buf \in [sector : Nat, holds : Nat \cup {NoSector}]
      /\ chunk \in [1..ChunkSectors -> Nat \cup {NoSector}]
      /\ calm \in [Threads -> BOOLEAN] /\ quiet \in BOOLEAN /\ faults \in 0..MaxFaults
      /\ MaxFaults \in Nat
  BY <1>0, BoundAssumption DEF Values, Shared
<1>9. calm[t] => CalmAt("chunk", o, out[t], buf, chunk)
  BY <1>0, <1>5 DEF Calm
<1>10. PICK p \in {"range", "mark", "chunk"} :
        /\ pc' = [pc EXCEPT ![t] = p] /\ broken' \in BOOLEAN
        /\ \/ /\ buf' = buf /\ chunk' = chunk /\ calm' = calm /\ quiet' = quiet
              /\ faults' = faults
              /\ \/ p = "range" /\ (o.blocks = 0 \/ o.rem = 0)
                 \/ p = "chunk" /\ o.blocks # 0 /\ o.rem # 0
           \/ /\ p = "mark" /\ o.blocks # 0 /\ o.rem # 0
              /\ chunk' = Delivered12(t) /\ buf' = [buf EXCEPT !.holds = chunk'[k]]
              /\ calm' = calm /\ quiet' = quiet /\ faults' = faults
           \/ /\ p = "mark" /\ o.blocks # 0 /\ o.rem # 0
              /\ chunk' = chunk /\ buf' = [buf EXCEPT !.holds = chunk[k]]
              /\ calm' = [calm EXCEPT ![t] = FALSE] /\ quiet' = FALSE
              /\ faults' = faults + 1 /\ faults < MaxFaults
  BY <1>6, Zenon
<1>11. Goes(t, p, o, out[t]) /\ Turns(t, p) /\ p \in Labels
  BY <1>0, <1>1, <1>7, <1>10 DEF Goes, Turns, Reading, Labels
<1>12. LocalAt(p, o, out[t])
  BY <1>2, <1>3, <1>4, <1>10 DEF LocalAt, Ranging, Serving, RawSteps
<1>13. StageAt(p, o, out[t])
  <2>1. CASE p = "chunk"
    BY <1>0, <2>1
  <2>2. CASE p = "range"
    <3>1. o.blocks = 0 \/ o.rem = 0
      BY <1>10, <2>2
    <3> HIDE DEF o
    <3>2. QED
      BY <1>0, <2>2, <3>1, ChunkEnds
  <2>3. CASE p = "mark"
    <3>1. o.rem # 0
      BY <1>10, <2>3
    <3> HIDE DEF o
    <3>2. QED
      BY <1>0, <2>3, <3>1, ChunkMarks
  <2>4. QED
    BY <2>1, <2>2, <2>3
<1>14. Found(t)'
  BY <1>0, <1>10 DEF Found, Values
<1>15. CASE buf' = buf /\ chunk' = chunk /\ calm' = calm /\ quiet' = quiet /\ faults' = faults
            /\ p # "mark"
  <2>1. Shared'
    BY <1>0, <1>1, <1>10, <1>15 DEF Values, Shared
  <2>2. Hands(t, p, o)
    BY <1>0, <1>10, <1>15 DEF Hands
  <2>3. calm'[t] => CalmAt(p, o, out[t], buf', chunk')
    <3> SUFFICES ASSUME calm[t] PROVE CalmAt(p, o, out[t], buf, chunk)
      BY <1>15
    <3>1. Reliable(buf, o.ranges) /\ (Begun(o) => Good(o, out[t]))
      BY <1>2, <1>3, <1>9 DEF CalmAt, Ranging
    <3>2. QED
      BY <1>2, <1>3, <1>10, <1>15, <3>1 DEF CalmAt
  <2>4. /\ quiet' => quiet
        /\ calm'[t] => calm[t]
        /\ \A u \in Threads \ {t} : calm'[u] = calm[u]
    BY <1>15
  <2>5. p # "serve"
    BY <1>10
  <2>6. QED
    BY <1>0, <1>5, <1>7, <1>11, <1>12, <1>13, <1>14, <2>1, <2>2, <2>3, <2>4, <2>5, GoesOn
<1>16. CASE ~(buf' = buf /\ chunk' = chunk /\ calm' = calm /\ quiet' = quiet /\ faults' = faults
              /\ p # "mark")
  <2>1. /\ p = "mark" /\ o.blocks # 0 /\ o.rem # 0
        /\ \/ /\ chunk' = Delivered12(t) /\ buf' = [buf EXCEPT !.holds = chunk'[k]]
              /\ calm' = calm /\ quiet' = quiet /\ faults' = faults
           \/ /\ chunk' = chunk /\ buf' = [buf EXCEPT !.holds = chunk[k]]
              /\ calm' = [calm EXCEPT ![t] = FALSE] /\ quiet' = FALSE
              /\ faults' = faults + 1 /\ faults < MaxFaults
    BY <1>10, <1>16
  <2>2. k \in 1..ChunkSectors
    BY <1>2, <1>4, <2>1 DEF Least
  <2>3. /\ Delivered12(t) \in [1..ChunkSectors -> Nat \cup {NoSector}]
        /\ \A i \in 1..k : Delivered12(t)[i] = o.sector + i - 1
    <3>1. Delivered12(t) = [i \in 1..ChunkSectors |->
                              IF i <= k THEN o.sector + i - 1 ELSE chunk[i]]
      BY DEF Delivered12, BlocksNow
    <3> HIDE DEF k, o
    <3>2. ASSUME NEW i \in 1..ChunkSectors
          PROVE  (IF i <= k THEN o.sector + i - 1 ELSE chunk[i]) \in Nat \cup {NoSector}
      BY <1>4, <1>8
    <3>3. Delivered12(t) \in [1..ChunkSectors -> Nat \cup {NoSector}]
      BY <3>1, <3>2
    <3>4. ASSUME NEW i \in 1..k PROVE Delivered12(t)[i] = o.sector + i - 1
      <4>1. i \in 1..ChunkSectors /\ i <= k
        BY <1>4, <2>2
      <4>2. QED
        BY <3>1, <4>1
    <3>5. QED
      BY <3>3, <3>4
  <2> HIDE DEF k
  <2>4. chunk' \in [1..ChunkSectors -> Nat \cup {NoSector}]
    BY <1>8, <2>1, <2>3
  <2>5. /\ buf' \in [sector : Nat, holds : Nat \cup {NoSector}]
        /\ buf'.holds = chunk'[k]
    <3>1. chunk'[k] \in Nat \cup {NoSector} /\ chunk[k] \in Nat \cup {NoSector}
      BY <1>8, <2>2, <2>4
    <3>2. buf' = [buf EXCEPT !.holds = chunk'[k]]
      BY <2>1
    <3>3. QED
      BY <1>8, <3>1, <3>2
  <2>6. calm' \in [Threads -> BOOLEAN] /\ quiet' \in BOOLEAN /\ faults' \in 0..MaxFaults
    <3>1. calm' \in [Threads -> BOOLEAN] /\ quiet' \in BOOLEAN
      BY <1>8, <2>1, Zenon
    <3>2. faults' \in 0..MaxFaults
      BY <1>8, <2>1
    <3>3. QED
      BY <3>1, <3>2
  <2>7. Shared'
    BY <1>0, <1>1, <1>10, <2>4, <2>5, <2>6 DEF Values, Shared
  <2>8. /\ quiet' => quiet
        /\ calm'[t] => calm[t]
        /\ \A u \in Threads \ {t} : calm'[u] = calm[u]
    BY <1>8, <2>1
  <2>9. quiet' \/ calm'[t]
          => (\A i \in 1..k : chunk'[i] = o.sector + i - 1) /\ buf'.holds = o.sector + k - 1
    <3>1. ASSUME quiet' \/ calm'[t] PROVE chunk' = Delivered12(t)
      BY <1>8, <2>1, <3>1
    <3>2. k \in 1..k
      BY <2>2
    <3>3. QED
      BY <2>3, <2>5, <3>1, <3>2
  <2>10. quiet' => Hands(t, p, o)
    BY <2>1, <2>9 DEF Hands, k
  <2>11. calm'[t] => CalmAt(p, o, out[t], buf', chunk')
    <3> SUFFICES ASSUME calm'[t] PROVE CalmAt(p, o, out[t], buf', chunk')
      OBVIOUS
    <3>1. Begun(o) => Good(o, out[t])
      BY <1>2, <1>3, <1>9, <2>8 DEF CalmAt, Ranging
    <3>2. QED
      BY <1>2, <1>3, <2>1, <2>9, <3>1 DEF CalmAt, k
  <2>12. p # "serve"
    BY <2>1
  <2>13. QED
    BY <1>0, <1>5, <1>7, <1>11, <1>12, <1>13, <1>14, <2>7, <2>8, <2>10, <2>11, <2>12, GoesOn
<1>17. QED
  BY <1>15, <1>16

\* The buffered sector gets its number, and the chunk is copied.
LEMMA MarkStep ==
  ASSUME UdfInv, NEW t \in Threads, Mark(t)
  PROVE  UdfInv'
<1> DEFINE o == op[t]
           k == Least(o.blocks, ChunkSectors)
           n == Least(o.rem, k * SectorSize - o.off)
           q == Aligned(Advanced(o, n, k))
           c == ChunkBytes(k, o.off, n)
           b == out[t] \o c
<1>0. /\ Values /\ Locked /\ Local /\ Cached /\ Quiet /\ Undisturbed
      /\ o \in Call /\ out[t] \in Seq(Places) /\ pc[t] = "mark"
      /\ LocalAt("mark", o, out[t]) /\ StageAt("mark", o, out[t]) /\ Calm(t)
  BY InCall DEF Mark, At
<1>1. /\ disc' = disc /\ calls' = calls /\ reading' = reading
      /\ broken' = broken /\ session' = session /\ handle' = handle
      /\ chunk' = chunk /\ cached' = cached /\ indexed' = indexed /\ entries' = entries
      /\ passes' = passes /\ looked' = looked /\ calm' = calm /\ quiet' = quiet
      /\ faults' = faults
  BY DEF Mark, At, cache, mutexes, ghosts
<1>2. /\ buf' = [buf EXCEPT !.sector = o.sector + k - 1]
      /\ pc' = [pc EXCEPT ![t] = "chunk"]
      /\ op' = [op EXCEPT ![t] = [o EXCEPT !.rem = @ - n, !.sector = @ + k,
                                           !.blocks = @ - k, !.off = 0]]
      /\ out' = [out EXCEPT ![t] = b]
  BY <1>0 DEF Mark, ToRead, BlocksNow, LastOfChunk, Values
<1>3. /\ FromFile(o) /\ ~o.cached /\ Len(out[t]) = Got(o) /\ Len(out[t]) <= o.asked
      /\ (\A i \in DOMAIN o.ranges : o.ranges[i].len >= 1) /\ o.off < SectorSize
      /\ o.blocks >= 1 /\ o.rem > 0
  BY <1>0 DEF LocalAt, Ranging
<1>4. o.kind \notin {"raw", "none"}
  BY <1>3 DEF FromFile
<1>5. /\ o.rem \in Nat /\ o.asked \in Nat /\ o.off \in Nat /\ o.sector \in Nat
      /\ o.blocks \in Int
  BY <1>0, CallIs
<1>6. Chunks(o, n, k)
  BY DEF Chunks
<1>7. op' = [op EXCEPT ![t] = q]
  BY <1>0, <1>2 DEF Aligned, Advanced, Values, Call
<1>8. /\ buf \in [sector : Nat, holds : Nat \cup {NoSector}]
      /\ chunk \in [1..ChunkSectors -> Nat \cup {NoSector}]
  BY <1>0 DEF Values, Shared
<1>9. /\ c = ChunkBytes(k, o.off, n) /\ b = out[t] \o c /\ q = Aligned(Advanced(o, n, k))
      /\ k = Least(o.blocks, ChunkSectors)
  OBVIOUS
<1>10. o = op[t]
  OBVIOUS
<1> HIDE DEF o, k, n, q, c, b
<1>11. /\ k \in 1..ChunkSectors /\ k <= o.blocks /\ o.off \in 0..(SectorSize - 1)
       /\ n \in Nat \ {0} /\ n <= o.rem
       /\ o.off + n <= k * SectorSize
  BY <1>0, <1>6, ChunkSize
<1>12. n \in Nat /\ k \in Nat /\ k >= 1
  <2>1. k \in 1..ChunkSectors /\ n \in Nat \ {0}
    BY <1>11, Zenon
  <2>2. QED
    BY <2>1, ChunkAssumption
<1>13. /\ q \in Call /\ SameRead(o, q) /\ q.ranges = o.ranges /\ q.rem = o.rem - n
       /\ q.off = 0 /\ q.sector = o.sector + k /\ q.blocks = o.blocks - k
       /\ q.matched = o.matched
  <2> DEFINE a == Advanced(o, n, k)
  <2>1. /\ a \in Call /\ SameRead(o, a) /\ a.ranges = o.ranges /\ a.rem = o.rem - n
        /\ a.off = o.off /\ a.sector = o.sector + k /\ a.blocks = o.blocks - k
        /\ a.matched = o.matched
    <3>1. n <= o.rem
      BY <1>11, Zenon
    <3>2. QED
      BY <1>0, <1>12, <3>1, AdvancedIs
  <2>2. q = Aligned(a)
    BY <1>9
  <2> HIDE DEF a
  <2>3. /\ Aligned(a) \in Call /\ SameRead(a, Aligned(a))
        /\ Aligned(a).ranges = a.ranges /\ Aligned(a).rem = a.rem
        /\ Aligned(a).off = 0 /\ Aligned(a).sector = a.sector
        /\ Aligned(a).blocks = a.blocks /\ Aligned(a).matched = a.matched
    BY <2>1, AlignedIs
  <2>4. SameRead(o, q)
    BY <2>1, <2>2, <2>3 DEF SameRead
  <2>5. QED
    BY <2>1, <2>2, <2>3, <2>4, Zenon
<1>14. Marks(o, q, n, k)
  BY <1>6, <1>13 DEF Marks
<1>15. /\ c \in Seq(Places) /\ Len(c) = n
       /\ \A s \in Nat : (\A j \in 1..k : chunk[j] = s + j - 1)
            => \A i \in 1..n : c[i] = s * SectorSize + o.off + i - 1
  <2>1. k \in 1..ChunkSectors /\ o.off \in 0..(SectorSize - 1) /\ n \in Nat
    BY <1>11, <1>12, Zenon
  <2>2. Fits(k, o.off, n)
    BY <1>11, Zenon DEF Fits
  <2>3. chunk \in [1..ChunkSectors -> Nat \cup {NoSector}]
    BY <1>8, Zenon
  <2>4. /\ ChunkBytes(k, o.off, n) \in Seq(Places) /\ Len(ChunkBytes(k, o.off, n)) = n
        /\ \A s \in Nat : (\A j \in 1..k : chunk[j] = s + j - 1)
             => \A i \in 1..n : ChunkBytes(k, o.off, n)[i] = s * SectorSize + o.off + i - 1
    BY <2>1, <2>2, <2>3, ChunkBytesAre
  <2>5. QED
    BY <1>9, <2>4, Zenon
<1>16. /\ StageAt("chunk", q, b)
       /\ Begun(o) /\ Good(o, out[t])
            /\ (\A i \in 1..n : c[i] = o.sector * SectorSize + o.off + i - 1)
            => Good(q, b)
  <2>1. HasLength(c, n)
    BY <1>15 DEF HasLength
  <2>2. QED
    <3>1. /\ o \in Call /\ q \in Call /\ out[t] \in Seq(Places) /\ c \in Seq(Places)
          /\ LocalAt("mark", o, out[t]) /\ StageAt("mark", o, out[t])
      BY <1>0, <1>13, <1>15, Zenon
    <3>2. /\ StageAt("chunk", q, out[t] \o c)
          /\ Begun(o) /\ Good(o, out[t])
               /\ (\A i \in 1..n : c[i] = o.sector * SectorSize + o.off + i - 1)
               => Good(q, out[t] \o c)
      BY <1>14, <2>1, <3>1, MarkStage
    <3>3. QED
      BY <1>9, <3>2, Zenon
<1>17. b \in Seq(Places) /\ Len(b) = Len(out[t]) + n
  <2>1. out[t] \o c \in Seq(Places) /\ Len(out[t] \o c) = Len(out[t]) + Len(c)
    BY <1>0, <1>15, Concats
  <2>2. QED
    BY <1>9, <1>15, <2>1
<1>18. /\ buf'.sector = o.sector + k - 1 /\ buf'.holds = buf.holds
       /\ buf' \in [sector : Nat, holds : Nat \cup {NoSector}]
  <2>1. PICK s \in Nat : s = o.sector + k - 1
    BY <1>5, <1>12
  <2>2. buf' = [buf EXCEPT !.sector = s]
    BY <1>2, <2>1
  <2>3. QED
    BY <1>8, <2>1, <2>2
<1>19. Busy(t) /\ "chunk" \in Labels
  BY <1>0 DEF Busy, Labels
<1>20. EntriesKept /\ Cached' /\ BuffersKept(t) /\ Turns(t, "chunk")
  BY <1>0, <1>1 DEF EntriesKept, Cached, BuffersKept, Turns, Ranging, Reading
<1>21. Shared'
  BY <1>0, <1>1, <1>18 DEF Values, Shared
<1>22. /\ quiet' => quiet
       /\ calm'[t] => calm[t]
       /\ \A u \in Threads \ {t} : calm'[u] = calm[u]
  BY <1>1
<1>23. Goes(t, "chunk", q, b)
  BY <1>1, <1>2, <1>7, <1>10, <1>13 DEF Goes, SameRead
<1>24. LocalAt("chunk", q, b)
  <2>1. FromFile(q) /\ ~q.cached /\ q.kind = o.kind /\ q.asked = o.asked
    BY <1>3, <1>13, SameIs DEF SameRead
  <2>2. Len(b) = Got(q) /\ Len(b) <= q.asked
    <3>1. Len(out[t]) = o.asked - o.rem /\ Got(q) = q.asked - q.rem
      BY <1>3 DEF Got
    <3>2. n <= o.rem
      BY <1>11, Zenon
    <3>3. QED
      BY <1>5, <1>12, <1>13, <1>17, <2>1, <3>1, <3>2
  <2>3. q.blocks >= 0 /\ q.off < SectorSize
    <3>1. k <= o.blocks
      BY <1>11, Zenon
    <3>2. QED
      BY <1>5, <1>12, <1>13, <3>1, SizeAssumption
  <2>4. QED
    BY <1>3, <1>4, <1>13, <2>1, <2>2, <2>3 DEF LocalAt, Ranging, Serving, RawSteps
<1>25. Found(t)'
  BY <1>0, <1>2 DEF Found, Values
<1>26. quiet' => Hands(t, "chunk", q)
  <2> SUFFICES ASSUME quiet' PROVE buf'.holds = buf'.sector
    BY DEF Hands
  <2>1. buf.holds = LastOfChunk(t)
    BY <1>0, <1>22 DEF Quiet
  <2>2. QED
    BY <1>9, <1>10, <1>18, <2>1 DEF LastOfChunk, BlocksNow
<1>27. calm'[t] => CalmAt("chunk", q, b, buf', chunk')
  <2> SUFFICES ASSUME calm[t] PROVE CalmAt("chunk", q, b, buf', chunk')
    BY <1>1
  <2>1. CalmAt("mark", o, out[t], buf, chunk)
    BY <1>0, <1>10, <1>19 DEF Calm
  <2>2. buf.holds = o.sector + k - 1 /\ \A i \in 1..k : chunk[i] = o.sector + i - 1
    BY <1>9, <2>1 DEF CalmAt
  <2>3. Reliable(buf', q.ranges)
    BY <1>18, <2>2 DEF Reliable
  <2>4. Begun(q) => Good(q, b)
    <3>1. Begun(q) <=> Begun(o)
      BY <1>13, SameIs
    <3>2. Begun(o) => Good(o, out[t])
      BY <1>3, <1>4, <2>1 DEF CalmAt, Ranging
    <3>3. \A i \in 1..n : c[i] = o.sector * SectorSize + o.off + i - 1
      BY <1>5, <1>15, <2>2, Zenon
    <3>4. QED
      BY <1>16, <3>1, <3>2, <3>3
  <2>5. q.kind # "raw" /\ ~q.cached
    BY <1>3, <1>4, <1>13 DEF SameRead
  <2>6. QED
    BY <2>3, <2>4, <2>5 DEF CalmAt
<1>28. QED
  BY <1>0, <1>13, <1>16, <1>17, <1>19, <1>20, <1>21, <1>22, <1>23, <1>24, <1>25, <1>26,
     <1>27, GoesOn

-----------------------------------------------------------------------------
(* Reads from the cache *)

\* get_udf_small_data finds an entry of the file, or none.
LEMMA EntryIs ==
  ASSUME entries \in Seq(Entry), NEW f
  PROVE  EntryOf(f) = 0 \/ EntryOf(f) \in DOMAIN entries
<1> DEFINE M == {i \in DOMAIN entries : entries[i].file = f}
<1>1. DOMAIN entries = 1..Len(entries) /\ Len(entries) \in Nat
  BY SeqIs
<1>2. CASE M = {}
  BY <1>2 DEF EntryOf
<1>3. CASE M # {}
  <2>1. M \subseteq Nat
    BY <1>1
  <2>2. PICK m \in M : \A k \in M : m <= k
    BY <2>1, <1>3, LeastIs
  <2>3. \A j \in 1..(m - 1) : entries[j].file # f
    <3>1. SUFFICES ASSUME NEW j \in 1..(m - 1), entries[j].file = f PROVE FALSE
      OBVIOUS
    <3>2. j \in M /\ j < m /\ m \in Nat
      BY <1>1, <2>2, <3>1
    <3>3. QED
      BY <2>2, <3>2
  <2>4. \E i \in DOMAIN entries : entries[i].file = f /\ \A j \in 1..(i - 1) : entries[j].file # f
    BY <2>2, <2>3
  <2>5. \E i \in DOMAIN entries : entries[i].file = f
    BY <1>3
  <2>6. EntryOf(f) = CHOOSE i \in DOMAIN entries :
                       entries[i].file = f /\ \A j \in 1..(i - 1) : entries[j].file # f
    BY <2>5, Zenon DEF EntryOf
  <2>7. QED
    BY <2>4, <2>6
<1>4. QED
  BY <1>2, <1>3

Looked(o, i, g, s) == [o EXCEPT !.found = i, !.gen = g, !.spoiled = s]

\* The record with the entry found.
LEMMA LookedIs ==
  ASSUME NEW o \in Call, NEW i \in Nat, NEW g \in Nat, NEW s \in BOOLEAN
  PROVE  /\ Looked(o, i, g, s) \in Call /\ SameRead(o, Looked(o, i, g, s))
         /\ Looked(o, i, g, s).found = i /\ Looked(o, i, g, s).gen = g
         /\ (Looked(o, i, g, s).spoiled <=> s) /\ Looked(o, i, g, s).matched = o.matched
<1> DEFINE a == [o EXCEPT !.found = i, !.gen = g]
<1>1. /\ a \in Call /\ SameRead(o, a) /\ a.found = i /\ a.gen = g /\ a.matched = o.matched
  BY DEF Call, SameRead
<1>2. Looked(o, i, g, s) = [a EXCEPT !.spoiled = s]
  BY DEF Looked, Call
<1> HIDE DEF a
<1>3. /\ Looked(o, i, g, s) \in Call /\ SameRead(a, Looked(o, i, g, s))
      /\ Looked(o, i, g, s).found = a.found /\ Looked(o, i, g, s).gen = a.gen
      /\ Looked(o, i, g, s).spoiled = s /\ Looked(o, i, g, s).matched = a.matched
  BY <1>1, <1>2 DEF Call, SameRead
<1>4. SameRead(o, Looked(o, i, g, s))
  BY <1>1, <1>3 DEF SameRead
<1>5. QED
  BY <1>1, <1>3, <1>4, Zenon

\* The cached copy of a file is looked for.
LEMMA LookupStep ==
  ASSUME UdfInv, NEW t \in Threads, Lookup(t)
  PROVE  UdfInv'
<1> DEFINE o == op[t]
<1>0. /\ Values /\ Locked /\ Local /\ Cached /\ Quiet /\ Undisturbed
      /\ o \in Call /\ out[t] \in Seq(Places) /\ pc[t] = "lookup"
      /\ LocalAt("lookup", o, out[t]) /\ StageAt("lookup", o, out[t]) /\ Calm(t)
  BY InCall DEF Lookup, At
<1>1. /\ disc' = disc /\ calls' = calls /\ reading' = reading
      /\ broken' = broken /\ session' = session /\ handle' = handle /\ buf' = buf
      /\ chunk' = chunk /\ cached' = cached /\ indexed' = indexed /\ entries' = entries
      /\ passes' = passes /\ out' = out /\ looked' = looked /\ calm' = calm /\ quiet' = quiet
      /\ faults' = faults
  BY DEF Lookup, At, buffers, cache, mutexes, ghosts
<1>2. Busy(t)
  BY <1>0 DEF Busy
<1>3. FromFile(o) /\ o.cached /\ out[t] = <<>> /\ o.kind \notin {"raw", "none"}
  BY <1>0 DEF LocalAt, Serving, FromFile
<1>4. entries \in Seq(Entry) /\ passes \in Nat
  BY <1>0 DEF Values, Shared
<1>5. PICK i \in {0} \cup DOMAIN entries :
        /\ op' = [op EXCEPT ![t].found = i, ![t].gen = passes,
                            ![t].spoiled = IF i = 0 THEN TRUE
                                           ELSE ~entries[i].sound \/ entries[i].file # o.file]
        /\ pc' = [pc EXCEPT ![t] = IF i = 0 THEN "return" ELSE "serve"]
  <2>1. EntryOf(o.file) \in {0} \cup DOMAIN entries
    BY <1>4, EntryIs
  <2>2. \A f \in {{EntryOf(o.file)}, {0} \cup DOMAIN entries} : f \subseteq {0} \cup DOMAIN entries
    BY <2>1
  <2>3. QED
    BY <2>2 DEF Lookup
<1>6. PICK s \in BOOLEAN :
        s = IF i = 0 THEN TRUE ELSE ~entries[i].sound \/ entries[i].file # o.file
  OBVIOUS
<1>7. i \in Nat
  BY <1>4, SeqIs
<1> DEFINE q == Looked(o, i, passes, s)
           p == IF i = 0 THEN "return" ELSE "serve"
<1>8. /\ q \in Call /\ SameRead(o, q) /\ q.found = i /\ q.gen = passes
      /\ (q.spoiled <=> s) /\ q.matched = o.matched
  <2>1. o \in Call /\ i \in Nat /\ passes \in Nat /\ s \in BOOLEAN
    BY <1>0, <1>4, <1>7
  <2> HIDE DEF o
  <2>2. QED
    BY <2>1, LookedIs
<1>9. op' = [op EXCEPT ![t] = q] /\ pc' = [pc EXCEPT ![t] = p]
  <2>1. op' = [op EXCEPT ![t].found = i, ![t].gen = passes, ![t].spoiled = s]
    BY <1>5, <1>6, Zenon
  <2>2. QED
    BY <1>0, <1>5, <2>1 DEF Looked, Values
<1>10. p \in {"return", "serve"} /\ p \in Labels /\ (p = "serve" <=> i # 0)
  BY DEF Labels
<1> HIDE DEF q, p
<1>11. out' = [out EXCEPT ![t] = out[t]] /\ EntriesKept /\ Cached' /\ Shared' /\ BuffersKept(t)
  BY <1>0, <1>1 DEF EntriesKept, Cached, Values, Shared, BuffersKept
<1>12. Goes(t, p, q, out[t]) /\ Turns(t, p)
  BY <1>0, <1>1, <1>8, <1>9, <1>10, <1>11 DEF Goes, Turns, SameRead, Reading
<1>13. FromFile(q) /\ q.cached /\ q.kind = o.kind /\ Len(out[t]) <= q.asked
  BY <1>0, <1>3, <1>8, SameIs DEF SameRead, LocalAt
<1>14. LocalAt(p, q, out[t])
  BY <1>3, <1>10, <1>13 DEF LocalAt, Ranging, Serving, RawSteps
<1>15. StageAt(p, q, out[t])
  <2>1. o.matched => o.pos % SectorSize # 0
    BY <1>0, Zenon DEF StageAt
  <2>2. q.matched => q.pos % SectorSize # 0
    BY <1>8, <2>1, Zenon DEF SameRead
  <2>3. QED
    BY <1>13, <2>2, <1>10 DEF StageAt
<1>16. Found(t)'
  <2>1. op'[t] = q /\ pc'[t] = p
    BY <1>0, <1>9 DEF Values
  <2>2. p = "serve" => /\ i \in DOMAIN entries
                       /\ s \/ (entries[i].sound /\ entries[i].file = o.file)
    BY <1>6, <1>10
  <2>3. passes <= passes /\ q.file = o.file
    BY <1>4, <1>8 DEF SameRead
  <2>4. QED
    BY <1>1, <1>8, <1>10, <2>1, <2>2, <2>3 DEF Found
<1>17. Hands(t, p, q)
  BY <1>0, <1>1, <1>10 DEF Hands
<1>18. CalmAt(p, q, out[t], buf', chunk')
  BY <1>3, <1>6, <1>8, <1>10, <1>13 DEF CalmAt, Ranging
<1>19. /\ quiet' => quiet
       /\ calm'[t] => calm[t] /\ (p = "serve" => q.gen = passes)
       /\ \A u \in Threads \ {t} : calm'[u] = calm[u]
  BY <1>1, <1>8
<1>20. QED
  BY <1>0, <1>2, <1>8, <1>10, <1>11, <1>12, <1>14, <1>15, <1>16, <1>17, <1>18, <1>19, GoesOn

\* The cached copy is handed out, or what was left of one that was freed.
LEMMA ServeStep ==
  ASSUME UdfInv, NEW t \in Threads, Serve(t)
  PROVE  UdfInv'
<1> DEFINE o == op[t]
           e == entries[o.found]
           d == IF o.gen = passes THEN e.bytes ELSE <<>>
           b == ServedFrom(d, o.pos, o.asked)
<1>0. /\ Values /\ Locked /\ Local /\ Cached /\ Quiet /\ Undisturbed
      /\ o \in Call /\ out[t] \in Seq(Places) /\ pc[t] = "serve"
      /\ LocalAt("serve", o, out[t]) /\ StageAt("serve", o, out[t]) /\ Found(t) /\ Calm(t)
  BY InCall DEF Serve, At
<1>1. /\ disc' = disc /\ calls' = calls /\ reading' = reading
      /\ broken' = broken /\ session' = session /\ handle' = handle /\ buf' = buf
      /\ chunk' = chunk /\ cached' = cached /\ indexed' = indexed /\ entries' = entries
      /\ passes' = passes /\ looked' = looked /\ calm' = calm /\ quiet' = quiet
      /\ faults' = faults /\ op' = op
      /\ pc' = [pc EXCEPT ![t] = "return"] /\ out' = [out EXCEPT ![t] = b]
  BY DEF Serve, At, buffers, cache, mutexes, ghosts
<1>2. Busy(t)
  BY <1>0 DEF Busy
<1>3. FromFile(o) /\ o.cached /\ o.kind \notin {"raw", "none"}
  BY <1>0 DEF LocalAt, Serving, FromFile
<1>4. o.file \in Files /\ o.pos \in Nat /\ o.asked \in Nat
      /\ o.pos + o.asked <= Dirlist[o.file].size
  BY <1>0, <1>3, CallIs DEF FromFile
<1>5. ASSUME o.gen = passes
      PROVE  /\ o.found \in DOMAIN entries /\ e.bytes \in Seq(Places)
             /\ Kept(e) /\ (o.spoiled \/ (e.sound /\ e.file = o.file))
  <2>1. /\ o.found \in DOMAIN entries
        /\ o.spoiled \/ (e.sound /\ e.file = o.file)
    BY <1>0, <1>5 DEF Found
  <2>2. e \in Entry
    BY <2>1, <1>0, SeqIs DEF Values, Shared
  <2>3. e.bytes \in Seq(Places)
    BY <2>2 DEF Entry
  <2>4. Kept(e)
    BY <2>1, <1>0 DEF Cached
  <2>5. QED
    BY <2>1, <2>3, <2>4
<1>6. d \in Seq(Places)
  <2>1. CASE o.gen = passes
    BY <1>5, <2>1
  <2>2. CASE o.gen # passes
    <3>1. d = <<>>
      BY <2>2
    <3>2. <<>> \in Seq(Places)
      OBVIOUS
    <3>3. QED
      BY <3>1, <3>2
  <2>3. QED
    BY <2>1, <2>2
<1>7. d = (IF o.gen = passes THEN e.bytes ELSE <<>>) /\ b = ServedFrom(d, o.pos, o.asked)
  OBVIOUS
<1> HIDE DEF d, b
<1>8. /\ b \in Seq(Places) /\ Len(b) = o.asked
      /\ \A i \in 1..o.asked : o.pos + i <= Len(d) => b[i] = d[o.pos + i]
  <2>1. /\ ServedFrom(d, o.pos, o.asked) \in Seq(Places)
        /\ Len(ServedFrom(d, o.pos, o.asked)) = o.asked
        /\ \A i \in 1..o.asked : o.pos + i <= Len(d)
             => ServedFrom(d, o.pos, o.asked)[i] = d[o.pos + i]
    BY <1>4, <1>6, ServedAre
  <2>2. QED
    BY <1>7, <2>1, Zenon
<1>9. ASSUME o.gen = passes, ~o.spoiled, Begun(o) PROVE Served(o, b)
  <2>1. d = e.bytes /\ e.sound /\ e.file = o.file /\ Kept(e)
    BY <1>5, <1>7, <1>9
  <2>2. Len(d) = Dirlist[o.file].size
    BY <2>1 DEF Kept
  <2>3. Len(d) \in Nat
    BY <1>6
  <2>4. Starts(o.file, 0, Len(d))
    <3>1. /\ Extents(o.file) # <<>> /\ First(o.file).length > 0
          /\ o.pos < Span(First(o.file)) /\ 0 < o.asked
      BY <1>9 DEF Begun, Starts
    <3>2. Span(First(o.file)) \in Nat
      <4>1. 1 \in 1..Len(Extents(o.file))
        BY <1>4, <3>1, FileTypes
      <4>2. QED
        BY <1>4, <4>1, SpansAre DEF First
    <3>3. 0 < Span(First(o.file)) /\ 0 < Len(d)
      BY <1>4, <2>2, <2>3, <3>1, <3>2
    <3>4. QED
      BY <3>1, <3>3 DEF Starts
  <2>5. \A p \in 1..Len(d) : p <= Span(First(o.file)) => d[p] = Place(o.file, p - 1)
    BY <2>1, <2>4 DEF Kept
  <2>6. ASSUME NEW i \in 1..Len(b), o.pos + i <= Span(First(o.file))
        PROVE  b[i] = Place(o.file, o.pos + i - 1)
    <3>1. i \in 1..o.asked /\ o.pos + i \in 1..Len(d) /\ o.pos + i <= Len(d)
      BY <1>4, <1>8, <2>2, <2>3
    <3>2. PICK p \in 1..Len(d) : p = o.pos + i
      BY <3>1
    <3>3. d[p] = Place(o.file, p - 1)
      BY <2>5, <2>6, <3>2
    <3>4. d[o.pos + i] = Place(o.file, o.pos + i - 1)
      BY <1>4, <3>2, <3>3
    <3>5. QED
      BY <1>8, <3>1, <3>4
  <2>7. QED
    BY <2>6 DEF Served
<1>10. op' = [op EXCEPT ![t] = o] /\ EntriesKept /\ Cached' /\ Shared' /\ BuffersKept(t)
  BY <1>0, <1>1 DEF EntriesKept, Cached, Values, Shared, BuffersKept
<1>11. Goes(t, "return", o, b) /\ Turns(t, "return") /\ "return" \in Labels
  BY <1>0, <1>1, <1>10 DEF Goes, Turns, Reading, Labels
<1>12. LocalAt("return", o, b)
  BY <1>3, <1>4, <1>8 DEF LocalAt, Ranging, Serving, RawSteps
<1>13. StageAt("return", o, b)
  <2>1. o.matched => o.pos % SectorSize # 0
    BY <1>0, Zenon DEF StageAt
  <2>2. QED
    BY <1>3, <2>1 DEF StageAt
<1>14. Found(t)'
  BY <1>0, <1>1 DEF Found, Values
<1>15. Hands(t, "return", o)
  BY <1>0, <1>1 DEF Hands
<1>16. calm'[t] => calm[t] /\ CalmAt("return", o, b, buf', chunk')
  <2> SUFFICES ASSUME calm[t] PROVE CalmAt("return", o, b, buf', chunk')
    BY <1>1
  <2>1. o.gen = passes
    BY <1>0, <1>2 DEF Calm
  <2>2. ~o.spoiled /\ Begun(o) => Served(o, b)
    BY <1>9, <2>1
  <2>3. QED
    BY <1>3, <2>2 DEF CalmAt
<1>17. /\ quiet' => quiet
       /\ \A u \in Threads \ {t} : calm'[u] = calm[u]
  BY <1>1
<1>18. QED
  BY <1>0, <1>2, <1>8, <1>10, <1>11, <1>12, <1>13, <1>14, <1>15, <1>16, <1>17, GoesOn

\* A buffer that was not filled keeps its length.
LEMMA Padded ==
  ASSUME NEW b \in Seq(Places), NEW n \in Nat, Len(b) <= n
  PROVE  /\ b \o [j \in 1..(n - Len(b)) |-> NoPlace] \in Seq(Places)
         /\ Len(b \o [j \in 1..(n - Len(b)) |-> NoPlace]) = n
         /\ \A i \in 1..Len(b) : (b \o [j \in 1..(n - Len(b)) |-> NoPlace])[i] = b[i]
<1> DEFINE pad == [j \in 1..(n - Len(b)) |-> NoPlace]
<1>1. Len(b) \in Nat /\ n - Len(b) \in Nat
  BY SeqIs
<1>2. NoPlace \in Places
  BY DEF Places
<1>3. pad \in [1..(n - Len(b)) -> Places]
  BY <1>2
<1>4. pad \in Seq(Places) /\ Len(pad) = n - Len(b)
  BY <1>1, <1>3, MakeSeq
<1> HIDE DEF pad
<1>5. /\ b \o pad \in Seq(Places) /\ Len(b \o pad) = Len(b) + Len(pad)
      /\ \A i \in 1..Len(b) : (b \o pad)[i] = b[i]
  BY <1>4, Concats
<1>6. Len(b \o pad) = n
  BY <1>1, <1>4, <1>5
<1>7. QED
  BY <1>5, <1>6 DEF pad

\* A file starts at the start of a sector.
LEMMA ZeroIs == 0 % SectorSize = 0
<1>1. SectorSize \in Nat \ {0}
  BY SizeAssumption
<1>2. 0 \in 0..(SectorSize - 1) /\ 0 = 0 * SectorSize + 0
  BY <1>1
<1>3. QED
  BY <1>2, DivIs

\* A file read from its start is right as far as the first extent has it.
LEMMA ReadFromStart ==
  ASSUME NEW o \in Call, NEW b \in Seq(Places), FromFile(o), ~o.cached, o.kind = "cache",
         Begun(o), Past(o, Len(b)), Good(o, b), o.matched => o.pos % SectorSize # 0,
         NEW p \in 1..o.asked, p <= Span(First(o.file))
  PROVE  p \in 1..Len(b) /\ b[p] = Place(o.file, p - 1)
<1>1. o.pos = 0 /\ o.asked \in Nat /\ o.file \in Files
  BY CallIs DEF FromFile
<1>2. ~o.matched
  BY <1>1, ZeroIs
<1>3. Hole(o) = {}
  BY <1>2 DEF Hole
<1>4. Starts(o.file, 0, o.asked)
  BY <1>1 DEF Begun
<1>5. /\ Capacity(o.file, 0, o.asked) \in Nat
      /\ Capacity(o.file, 0, o.asked) > Room(o.file, 0, o.asked)
  BY <1>1, <1>4, CapIs, ZeroIs
<1>6. Span(First(o.file)) \in Nat
  <2>1. Extents(o.file) # <<>>
    BY <1>4 DEF Starts
  <2>2. 1 \in 1..Len(Extents(o.file))
    BY <1>1, <2>1, FileTypes
  <2>3. QED
    BY <1>1, <2>2, SpansAre DEF First
<1>7. p <= Room(o.file, 0, o.asked) /\ Room(o.file, 0, o.asked) \in Nat
  BY <1>1, <1>6 DEF Room, Least
<1>8. Cap(o) = Capacity(o.file, 0, o.asked)
  BY <1>1 DEF Cap
<1>9. p < Cap(o) /\ Cap(o) \in Nat
  BY <1>5, <1>7, <1>8
<1>10. Len(b) = o.asked \/ Len(b) >= Cap(o)
  BY DEF Past
<1>11. p \in 1..Len(b)
  BY <1>1, <1>9, <1>10
<1>12. b[p] = Place(o.file, o.pos + p - 1)
  BY <1>3, <1>9, <1>11 DEF Good
<1>13. QED
  BY <1>1, <1>11, <1>12

\* What a caching pass read becomes an entry.
LEMMA LoadStep ==
  ASSUME UdfInv, NEW t \in Threads, Load(t)
  PROVE  UdfInv'
<1> DEFINE o == op[t]
           e == Loaded(t)
           bytes == out[t] \o [j \in 1..(o.asked - Len(out[t])) |-> NoPlace]
<1>0. /\ Values /\ Locked /\ Local /\ Cached /\ Quiet /\ Undisturbed
      /\ o \in Call /\ out[t] \in Seq(Places) /\ pc[t] = "return" /\ o.kind = "cache"
      /\ LocalAt("return", o, out[t]) /\ StageAt("return", o, out[t]) /\ Calm(t)
  BY InCall DEF Load, At
<1>1. /\ disc' = disc /\ calls' = calls /\ reading' = Unlocked(t)
      /\ broken' = broken /\ session' = session /\ handle' = handle /\ buf' = buf
      /\ chunk' = chunk /\ cached' = cached /\ indexed' = indexed
      /\ passes' = passes /\ looked' = looked /\ calm' = calm /\ quiet' = quiet
      /\ faults' = faults /\ op' = op /\ entries' = Append(entries, e)
      /\ pc' = [pc EXCEPT ![t] = "flag"] /\ out' = [out EXCEPT ![t] = <<>>]
  BY DEF Load, At, buffers, ghosts
<1>2. Busy(t)
  BY <1>0 DEF Busy
<1>3. /\ FromFile(o) /\ o.file \in Files /\ o.pos = 0 /\ o.asked = Dirlist[o.file].size
      /\ o.asked \in Nat /\ Len(out[t]) <= o.asked
  BY <1>0, CallIs DEF LocalAt, FromFile
<1>4. /\ bytes \in Seq(Places) /\ Len(bytes) = o.asked
      /\ \A i \in 1..Len(out[t]) : bytes[i] = out[t][i]
  BY <1>0, <1>3, Padded
<1>5. /\ e.file = o.file /\ e.bytes = bytes /\ e.sound = (calm[t] /\ ~o.cached) /\ e \in Entry
  <2>1. e = [file |-> o.file, bytes |-> bytes, sound |-> calm[t] /\ ~o.cached]
    BY DEF Loaded
  <2>2. (calm[t] /\ ~o.cached) \in BOOLEAN
    OBVIOUS
  <2> HIDE DEF bytes
  <2>3. QED
    BY <2>1, <2>2, <1>3, <1>4 DEF Entry
<1> HIDE DEF e, bytes
<1>6. Kept(e)
  <2>1. Len(e.bytes) = Dirlist[e.file].size
    BY <1>3, <1>4, <1>5
  <2>2. ASSUME e.sound, Starts(e.file, 0, Len(e.bytes)), NEW p \in 1..Len(e.bytes),
               p <= Span(First(e.file))
        PROVE  e.bytes[p] = Place(e.file, p - 1)
    <3>1. Begun(o) /\ calm[t] /\ ~o.cached /\ p \in 1..o.asked
      BY <1>3, <1>4, <1>5, <2>2 DEF Begun
    <3>2. Good(o, out[t])
      <4>1. CalmAt("return", o, out[t], buf, chunk)
        BY <1>0, <1>2, <3>1 DEF Calm
      <4>2. QED
        BY <1>0, <3>1, <4>1 DEF CalmAt
    <3>3. Past(o, Len(out[t]))
      BY <1>0, <3>1 DEF StageAt
    <3>4. o.matched => o.pos % SectorSize # 0
      BY <1>0, Zenon DEF StageAt
    <3>5. p \in 1..Len(out[t]) /\ out[t][p] = Place(o.file, p - 1)
      <4>1. p <= Span(First(o.file))
        BY <1>5, <2>2
      <4> HIDE DEF o
      <4>2. QED
        BY <1>0, <1>3, <3>1, <3>2, <3>3, <3>4, <4>1, ReadFromStart
    <3>6. QED
      BY <1>4, <1>5, <3>5
  <2>3. QED
    BY <2>1, <2>2 DEF Kept
<1>7. entries \in Seq(Entry)
  BY <1>0 DEF Values, Shared
<1>8. /\ entries' \in Seq(Entry)
      /\ DOMAIN entries = 1..Len(entries) /\ DOMAIN entries' = 1..(Len(entries) + 1)
      /\ \A i \in 1..Len(entries) : entries'[i] = entries[i]
      /\ entries'[Len(entries) + 1] = e /\ Len(entries) \in Nat
  BY <1>1, <1>5, <1>7
<1>9. Cached'
  <2> SUFFICES ASSUME NEW i \in DOMAIN entries' PROVE Kept(entries'[i])
    BY DEF Cached, Kept, Starts
  <2>1. CASE i \in DOMAIN entries
    BY <1>0, <1>8, <2>1 DEF Cached
  <2>2. CASE i \notin DOMAIN entries
    BY <1>6, <1>8, <2>2
  <2>3. QED
    BY <2>1, <2>2
<1>10. EntriesKept
  BY <1>1, <1>8 DEF EntriesKept
<1>11. Shared'
  <2>1. reading' \in Threads \cup {NoThread}
    BY <1>0, <1>1 DEF Values, Shared, Unlocked
  <2>2. QED
    BY <1>0, <1>1, <1>8, <2>1 DEF Values, Shared
<1>12. op' = [op EXCEPT ![t] = o] /\ BuffersKept(t)
  BY <1>0, <1>1 DEF Values, BuffersKept
<1>13. Goes(t, "flag", o, <<>>) /\ Turns(t, "flag") /\ "flag" \in Labels
       /\ <<>> \in Seq(Places)
  <2>1. <<>> \in Seq(Places)
    OBVIOUS
  <2>2. Goes(t, "flag", o, <<>>)
    BY <1>0, <1>1, <1>12 DEF Goes
  <2>3. Turns(t, "flag") /\ "flag" \in Labels
    BY <1>1 DEF Turns, Reading, Labels
  <2>4. QED
    BY <2>1, <2>2, <2>3
<1>14. LocalAt("flag", o, <<>>)
  BY <1>0, <1>3 DEF LocalAt, Ranging, Serving, RawSteps
<1>15. StageAt("flag", o, <<>>)
  <2>1. o.matched => o.pos % SectorSize # 0
    BY <1>0, Zenon DEF StageAt
  <2>2. QED
    BY <2>1 DEF StageAt, Ranging
<1>16. Found(t)'
  BY <1>0, <1>1 DEF Found, Values
<1>17. Hands(t, "flag", o)
  BY <1>0, <1>1 DEF Hands
<1>18. calm'[t] => calm[t] /\ CalmAt("flag", o, <<>>, buf', chunk')
  BY <1>0, <1>1 DEF CalmAt, Ranging
<1>19. /\ quiet' => quiet
       /\ \A u \in Threads \ {t} : calm'[u] = calm[u]
  BY <1>1
<1>20. QED
  BY <1>0, <1>2, <1>9, <1>10, <1>11, <1>12, <1>13, <1>14, <1>15, <1>16, <1>17, <1>18, <1>19,
     GoesOn

\* The file is flagged, and then its index set.
LEMMA FlagStep ==
  ASSUME UdfInv, NEW t \in Threads, Flag(t) \/ Index(t)
  PROVE  UdfInv'
<1> DEFINE o == op[t]
<1>0. /\ Values /\ Locked /\ Local /\ Cached /\ Quiet /\ Undisturbed
      /\ o \in Call /\ out[t] \in Seq(Places) /\ pc[t] \in {"flag", "index"}
      /\ LocalAt(pc[t], o, out[t]) /\ StageAt(pc[t], o, out[t]) /\ Found(t) /\ Calm(t)
  BY InCall DEF Flag, Index, At
<1>1. PICK p \in {"index", "next"} :
        /\ pc[t] = IF p = "index" THEN "flag" ELSE "index"
        /\ disc' = disc /\ calls' = calls /\ reading' = reading
        /\ broken' = broken /\ session' = session /\ handle' = handle /\ buf' = buf
        /\ chunk' = chunk /\ entries' = entries
        /\ passes' = passes /\ looked' = looked /\ calm' = calm /\ quiet' = quiet
        /\ faults' = faults /\ op' = op /\ out' = out
        /\ pc' = [pc EXCEPT ![t] = p]
        /\ \/ p = "index" /\ cached' = cached \cup {o.file} /\ indexed' = indexed
           \/ p = "next" /\ cached' = cached /\ indexed' = indexed \cup {o.file}
  BY DEF Flag, Index, At, buffers, ghosts, mutexes
<1>2. Busy(t)
  BY <1>0 DEF Busy
<1>3. o.file \in Files /\ o.kind = "cache" /\ out[t] = <<>> /\ Len(out[t]) <= o.asked
  BY <1>0 DEF LocalAt
<1>4. /\ cached \subseteq cached' /\ cached' \subseteq Files /\ indexed' \subseteq cached'
      /\ p = "index" => o.file \in cached'
  <2>1. cached \subseteq Files /\ indexed \subseteq cached
    BY <1>0 DEF Values, Shared
  <2>2. pc[t] = "index" => o.file \in cached
    BY <1>0 DEF Found
  <2>3. p = "next" => pc[t] = "index"
    BY <1>1
  <2>4. QED
    BY <1>1, <1>3, <2>1, <2>2, <2>3
<1>5. EntriesKept /\ Cached' /\ Shared' /\ BuffersKept(t) /\ op' = [op EXCEPT ![t] = o]
      /\ out' = [out EXCEPT ![t] = out[t]]
  BY <1>0, <1>1, <1>4 DEF EntriesKept, Cached, Values, Shared, BuffersKept
<1>6. Goes(t, p, o, out[t]) /\ Turns(t, p) /\ p \in Labels
  BY <1>0, <1>1, <1>3, <1>5 DEF Goes, Turns, Reading, Labels
<1>7. LocalAt(p, o, out[t])
  BY <1>1, <1>3 DEF LocalAt, Ranging, Serving, RawSteps
<1>8. StageAt(p, o, out[t])
  <2>1. o.matched => o.pos % SectorSize # 0
    BY <1>0, Zenon DEF StageAt
  <2>2. QED
    BY <1>1, <2>1 DEF StageAt, Ranging
<1>9. Found(t)'
  BY <1>0, <1>1, <1>4 DEF Found, Values
<1>10. Hands(t, p, o)
  BY <1>0, <1>1 DEF Hands
<1>11. /\ quiet' => quiet
       /\ calm'[t] => calm[t] /\ (p = "serve" => o.gen = passes)
                        /\ CalmAt(p, o, out[t], buf', chunk')
       /\ \A u \in Threads \ {t} : calm'[u] = calm[u]
  BY <1>1, <1>3 DEF CalmAt, Ranging
<1>12. QED
  BY <1>0, <1>2, <1>5, <1>6, <1>7, <1>8, <1>9, <1>10, <1>11, GoesOn

-----------------------------------------------------------------------------
(* Raw reads *)

\* A sector is read into the buffer, or is not.
LEMMA FetchStep ==
  ASSUME UdfInv, NEW t \in Threads, Fetch(t)
  PROVE  UdfInv'
<1> DEFINE o == op[t]
<1>0. /\ Values /\ Locked /\ Local /\ Cached /\ Quiet /\ Undisturbed
      /\ o \in Call /\ out[t] \in Seq(Places) /\ pc[t] = "fetch"
      /\ LocalAt("fetch", o, out[t]) /\ StageAt("fetch", o, out[t]) /\ Calm(t)
  BY InCall DEF Fetch, At
<1>1. /\ disc' = disc /\ calls' = calls /\ reading' = reading
      /\ broken' = broken /\ session' = session /\ handle' = handle
      /\ chunk' = chunk /\ entries' = entries /\ cached' = cached /\ indexed' = indexed
      /\ passes' = passes /\ looked' = looked /\ op' = op /\ out' = out
      /\ pc' = [pc EXCEPT ![t] = "number"]
  BY DEF Fetch, At, cache, mutexes
<1>2. \/ buf' = [buf EXCEPT !.holds = o.sector] /\ calm' = calm /\ quiet' = quiet
           /\ faults' = faults
      \/ /\ faults < MaxFaults /\ faults' = faults + 1
         /\ calm' = [calm EXCEPT ![t] = FALSE] /\ quiet' = FALSE
         /\ buf' = [buf EXCEPT !.holds = NoSector] \/ buf' = buf
  BY DEF Fetch, Fetched, ghosts
<1>3. Busy(t)
  BY <1>0 DEF Busy
<1>4. /\ buf \in [sector : Nat, holds : Nat \cup {NoSector}]
      /\ calm \in [Threads -> BOOLEAN] /\ quiet \in BOOLEAN /\ faults \in 0..MaxFaults
      /\ MaxFaults \in Nat /\ o.sector \in Nat
  BY <1>0, BoundAssumption, CallIs DEF Values, Shared
<1>5. /\ buf' \in [sector : Nat, holds : Nat \cup {NoSector}]
      /\ quiet' \/ calm'[t] => buf'.holds = o.sector
  <2> HIDE DEF o
  <2>1. QED
    BY <1>2, <1>4
<1>6. calm' \in [Threads -> BOOLEAN] /\ quiet' \in BOOLEAN /\ faults' \in 0..MaxFaults
  <2>1. calm' \in [Threads -> BOOLEAN] /\ quiet' \in BOOLEAN
    BY <1>2, <1>4, Zenon
  <2>2. faults' \in 0..MaxFaults
    BY <1>2, <1>4
  <2>3. QED
    BY <2>1, <2>2
<1>7. /\ quiet' => quiet
      /\ calm'[t] => calm[t]
      /\ \A u \in Threads \ {t} : calm'[u] = calm[u]
  BY <1>2, <1>4
<1>8. /\ EntriesKept /\ Cached' /\ BuffersKept(t) /\ op' = [op EXCEPT ![t] = o]
      /\ out' = [out EXCEPT ![t] = out[t]]
  BY <1>0, <1>1 DEF EntriesKept, Cached, BuffersKept, RawSteps, Values
<1>9. Shared'
  BY <1>0, <1>1, <1>5, <1>6 DEF Values, Shared
<1>10. o.kind = "raw"
  BY <1>0 DEF LocalAt, RawSteps
<1>11. Goes(t, "number", o, out[t]) /\ Turns(t, "number") /\ "number" \in Labels
  BY <1>0, <1>1, <1>8, <1>10 DEF Goes, Turns, Reading, Labels
<1>12. LocalAt("number", o, out[t])
  BY <1>0 DEF LocalAt, Ranging, Serving, RawSteps
<1>13. StageAt("number", o, out[t])
  <2>1. o.matched => o.pos % SectorSize # 0
    BY <1>0, Zenon DEF StageAt
  <2>2. QED
    BY <2>1 DEF StageAt, Ranging
<1>14. Found(t)'
  BY <1>0, <1>1 DEF Found, Values
<1>15. quiet' => Hands(t, "number", o)
  BY <1>5 DEF Hands
<1>16. calm'[t] => CalmAt("number", o, out[t], buf', chunk')
  <2> SUFFICES ASSUME calm'[t] PROVE CalmAt("number", o, out[t], buf', chunk')
    OBVIOUS
  <2>1. CalmAt("fetch", o, out[t], buf, chunk)
    BY <1>0, <1>3, <1>7 DEF Calm
  <2>2. QED
    BY <1>5, <1>10, <2>1 DEF CalmAt
<1>17. QED
  BY <1>0, <1>3, <1>7, <1>8, <1>9, <1>11, <1>12, <1>13, <1>14, <1>15, <1>16, GoesOn

\* The sector in the buffer gets its number.
LEMMA NumberStep ==
  ASSUME UdfInv, NEW t \in Threads, Number(t)
  PROVE  UdfInv'
<1> DEFINE o == op[t]
<1>0. /\ Values /\ Locked /\ Local /\ Cached /\ Quiet /\ Undisturbed
      /\ o \in Call /\ out[t] \in Seq(Places) /\ pc[t] = "number"
      /\ LocalAt("number", o, out[t]) /\ StageAt("number", o, out[t]) /\ Calm(t)
  BY InCall DEF Number, At
<1>1. /\ disc' = disc /\ calls' = calls /\ reading' = reading
      /\ broken' = broken /\ session' = session /\ handle' = handle
      /\ chunk' = chunk /\ entries' = entries /\ cached' = cached /\ indexed' = indexed
      /\ passes' = passes /\ looked' = looked /\ op' = op /\ out' = out
      /\ calm' = calm /\ quiet' = quiet /\ faults' = faults
      /\ pc' = [pc EXCEPT ![t] = "copy"] /\ buf' = [buf EXCEPT !.sector = o.sector]
  BY DEF Number, NumberOf, At, cache, mutexes, ghosts
<1>2. Busy(t)
  BY <1>0 DEF Busy
<1>3. /\ buf' \in [sector : Nat, holds : Nat \cup {NoSector}]
      /\ buf'.sector = o.sector /\ buf'.holds = buf.holds
  <2>1. buf \in [sector : Nat, holds : Nat \cup {NoSector}] /\ o.sector \in Nat
    BY <1>0, CallIs DEF Values, Shared
  <2> HIDE DEF o
  <2>2. QED
    BY <1>1, <2>1
<1>4. /\ EntriesKept /\ Cached' /\ BuffersKept(t) /\ op' = [op EXCEPT ![t] = o]
      /\ out' = [out EXCEPT ![t] = out[t]] /\ Shared'
  BY <1>0, <1>1, <1>3 DEF EntriesKept, Cached, BuffersKept, RawSteps, Values, Shared
<1>5. o.kind = "raw"
  BY <1>0 DEF LocalAt, RawSteps
<1>6. Goes(t, "copy", o, out[t]) /\ Turns(t, "copy") /\ "copy" \in Labels
  BY <1>0, <1>1, <1>4, <1>5 DEF Goes, Turns, Reading, Labels
<1>7. LocalAt("copy", o, out[t])
  BY <1>0 DEF LocalAt, Ranging, Serving, RawSteps
<1>8. StageAt("copy", o, out[t])
  <2>1. o.matched => o.pos % SectorSize # 0
    BY <1>0, Zenon DEF StageAt
  <2>2. QED
    BY <2>1 DEF StageAt, Ranging
<1>9. Found(t)'
  BY <1>0, <1>1 DEF Found, Values
<1>10. quiet' => Hands(t, "copy", o)
  BY <1>0, <1>1, <1>3 DEF Hands, Quiet
<1>11. calm'[t] => calm[t] /\ CalmAt("copy", o, out[t], buf', chunk')
  <2> SUFFICES ASSUME calm[t] PROVE CalmAt("copy", o, out[t], buf', chunk')
    BY <1>1
  <2>1. CalmAt("number", o, out[t], buf, chunk)
    BY <1>0, <1>2 DEF Calm
  <2>2. QED
    BY <1>3, <1>5, <2>1 DEF CalmAt
<1>12. /\ quiet' => quiet
       /\ \A u \in Threads \ {t} : calm'[u] = calm[u]
  BY <1>1
<1>13. QED
  BY <1>0, <1>2, <1>4, <1>6, <1>7, <1>8, <1>9, <1>10, <1>11, <1>12, GoesOn

Copied(o) == [o EXCEPT !.sector = @ + 1, !.blocks = @ - 1]

\* The record of a raw read one sector further on.
LEMMA CopiedIs ==
  ASSUME NEW o \in Call
  PROVE  /\ Copied(o) \in Call /\ SameRead(o, Copied(o))
         /\ Copied(o).sector = o.sector + 1 /\ Copied(o).blocks = o.blocks - 1
         /\ Copied(o).matched = o.matched
<1>1. o.sector \in Nat /\ o.blocks \in Int
  BY CallIs
<1>2. PICK y \in Nat, z \in Int : y = o.sector + 1 /\ z = o.blocks - 1
  BY <1>1
<1>3. Copied(o) = [o EXCEPT !.sector = y, !.blocks = z]
  BY <1>2, Zenon DEF Copied
<1>4. /\ Copied(o) \in Call /\ SameRead(o, Copied(o))
      /\ Copied(o).sector = y /\ Copied(o).blocks = z /\ Copied(o).matched = o.matched
  BY <1>3 DEF Call, SameRead
<1>5. QED
  BY <1>2, <1>4, Zenon

\* A raw read is so far: L bytes, and as many sectors to come.
RawSoFar(o, L) ==
  /\ L + o.blocks * SectorSize = o.asked
  /\ o.sector * SectorSize = o.pos * SectorSize + L

\* It goes on with one sector more.
LEMMA RawGrows ==
  ASSUME NEW o \in Call, NEW q \in Call, SameRead(o, q), q.sector = o.sector + 1,
         q.blocks = o.blocks - 1, NEW L \in Nat, RawSoFar(o, L), o.blocks >= 1
  PROVE  /\ RawSoFar(q, L + SectorSize) /\ L + SectorSize <= o.asked
         /\ o.blocks = 1 => L + SectorSize = o.asked
         /\ L + SectorSize \in Nat /\ q.blocks >= 0
<1>0. SectorSize \in Nat \ {0}
  BY SizeAssumption
<1>1. o.sector \in Nat /\ o.blocks \in Int /\ o.asked \in Nat /\ o.pos \in Int
  BY CallIs
<1>2. PICK n \in Int : n = o.blocks
  BY <1>1
<1>3. PICK s \in Nat : s = o.sector
  BY <1>1
<1>4. PICK x \in Int : x = o.pos * SectorSize
  BY <1>0, <1>1
<1>5. L + n * SectorSize = o.asked /\ s * SectorSize = x + L /\ n >= 1
  BY <1>2, <1>3, <1>4 DEF RawSoFar
<1>6. (n - 1) * SectorSize = n * SectorSize - SectorSize
      /\ (s + 1) * SectorSize = s * SectorSize + SectorSize
  BY <1>0, NextMultiple
<1>7. PICK m \in Int : m = n * SectorSize
  BY <1>0
<1>8. PICK r \in Int : r = s * SectorSize
  BY <1>0
<1>9. m >= SectorSize /\ (n = 1 => m = SectorSize)
  BY <1>0, <1>5, <1>7, Multiple
<1>10. /\ (L + SectorSize) + (n - 1) * SectorSize = o.asked
       /\ (s + 1) * SectorSize = x + (L + SectorSize)
  BY <1>0, <1>1, <1>5, <1>6, <1>7, <1>8
<1>11. q.asked = o.asked /\ q.pos = o.pos
  BY DEF SameRead
<1>12. RawSoFar(q, L + SectorSize)
  BY <1>2, <1>3, <1>4, <1>10, <1>11, Zenon DEF RawSoFar
<1>13. /\ L + SectorSize <= o.asked /\ L + SectorSize \in Nat
       /\ n = 1 => L + SectorSize = o.asked
  BY <1>0, <1>1, <1>5, <1>7, <1>9
<1>14. QED
  BY <1>1, <1>2, <1>12, <1>13

\* A sector of a raw read is copied.
LEMMA CopySectorStep ==
  ASSUME UdfInv, NEW t \in Threads, CopySector(t)
  PROVE  UdfInv'
<1> DEFINE o == op[t]
           q == Copied(o)
           c == Bytes(buf.holds, 0, SectorSize)
           b == out[t] \o c
           p == IF o.blocks = 1 THEN "return" ELSE "fetch"
<1>0. /\ Values /\ Locked /\ Local /\ Cached /\ Quiet /\ Undisturbed
      /\ o \in Call /\ out[t] \in Seq(Places) /\ pc[t] = "copy"
      /\ LocalAt("copy", o, out[t]) /\ StageAt("copy", o, out[t]) /\ Calm(t)
  BY InCall DEF CopySector, At
<1>1. /\ disc' = disc /\ calls' = calls /\ reading' = reading
      /\ broken' = broken /\ session' = session /\ handle' = handle /\ buf' = buf
      /\ chunk' = chunk /\ entries' = entries /\ cached' = cached /\ indexed' = indexed
      /\ passes' = passes /\ looked' = looked
      /\ calm' = calm /\ quiet' = quiet /\ faults' = faults
  BY DEF CopySector, At, cache, mutexes, ghosts, buffers
<1>2. /\ pc' = [pc EXCEPT ![t] = p] /\ op' = [op EXCEPT ![t] = q] /\ out' = [out EXCEPT ![t] = b]
  BY <1>0 DEF CopySector, Copied, Values
<1>3. Busy(t)
  BY <1>0 DEF Busy
<1>4. /\ o.kind = "raw" /\ o.pos >= 0 /\ o.blocks >= 1 /\ RawSoFar(o, Len(out[t]))
  BY <1>0 DEF LocalAt, RawSteps, RawSoFar
<1>5. /\ q \in Call /\ SameRead(o, q) /\ q.sector = o.sector + 1 /\ q.blocks = o.blocks - 1
      /\ q.matched = o.matched
  BY <1>0, CopiedIs
<1>6. p \in {"return", "fetch"} /\ p \in Labels /\ (p = "return" <=> o.blocks = 1)
  BY DEF Labels
<1>7. /\ buf.holds \in Nat \cup {NoSector} /\ SectorSize \in Nat \ {0} /\ 0 \in Nat
      /\ SectorSize \in Nat
  BY <1>0, SizeAssumption DEF Values, Shared
<1>8. b = out[t] \o c /\ c = Bytes(buf.holds, 0, SectorSize) /\ o = op[t]
  OBVIOUS
<1> HIDE DEF b, c, p, q, o
<1>9. /\ c \in Seq(Places) /\ Len(c) = SectorSize
      /\ \A i \in 1..SectorSize : buf.holds \in Nat /\ 0 + i <= SectorSize
           => c[i] = buf.holds * SectorSize + 0 + i - 1
  BY <1>7, <1>8, BytesAre, ZenonT(30)
<1>10. /\ b \in Seq(Places) /\ Len(b) = Len(out[t]) + SectorSize
       /\ \A i \in 1..Len(out[t]) : b[i] = out[t][i]
       /\ \A i \in 1..SectorSize : b[Len(out[t]) + i] = c[i]
  <2>1. /\ out[t] \o c \in Seq(Places) /\ Len(out[t] \o c) = Len(out[t]) + Len(c)
        /\ \A i \in 1..Len(out[t]) : (out[t] \o c)[i] = out[t][i]
        /\ \A i \in 1..Len(c) : (out[t] \o c)[Len(out[t]) + i] = c[i]
    <3>1. out[t] \in Seq(Places) /\ c \in Seq(Places)
      BY <1>0, <1>9, Zenon
    <3>2. QED
      BY SMTT(20), <3>1, Concats
  <2>2. Len(c) = SectorSize
    BY <1>9, Zenon
  <2>3. QED
    BY <1>8, <2>1, <2>2, Zenon
<1>11. PICK L \in Nat : L = Len(out[t])
  BY <1>0
<1>12. /\ RawSoFar(q, Len(b)) /\ Len(b) <= o.asked /\ (o.blocks = 1 => Len(b) = o.asked)
       /\ q.blocks >= 0
  <2>1. RawSoFar(o, L) /\ Len(b) = L + SectorSize
    BY <1>4, <1>10, <1>11
  <2>2. /\ RawSoFar(q, L + SectorSize) /\ L + SectorSize <= o.asked
        /\ o.blocks = 1 => L + SectorSize = o.asked
        /\ q.blocks >= 0
    BY <1>0, <1>4, <1>5, <2>1, RawGrows
  <2>3. QED
    BY <2>1, <2>2, Zenon
<1>13. EntriesKept /\ Cached' /\ BuffersKept(t) /\ Shared'
  BY <1>0, <1>1 DEF EntriesKept, Cached, BuffersKept, Values, Shared
<1>14. Goes(t, p, q, b) /\ Turns(t, p)
  BY <1>1, <1>2, <1>4, <1>5, <1>6, <1>8 DEF Goes, Turns, Reading, SameRead
<1>15. LocalAt(p, q, b)
  <2>1. q.kind = "raw" /\ q.pos >= 0 /\ q.asked = o.asked
    BY <1>4, <1>5 DEF SameRead
  <2>2. Len(b) <= q.asked /\ (p = "return" => Len(b) = q.asked)
    BY <1>6, <1>12, <2>1
  <2>3. p = "fetch" => q.blocks >= 1
    <3>1. o.blocks \in Int
      BY <1>0, CallIs
    <3>2. QED
      BY <1>4, <1>5, <1>6, <3>1
  <2>4. Len(b) + q.blocks * SectorSize = q.asked
        /\ q.sector * SectorSize = q.pos * SectorSize + Len(b)
    BY <1>12, Zenon DEF RawSoFar
  <2>5. QED
    BY <1>6, <2>1, <2>2, <2>3, <2>4, Zenon DEF LocalAt, Ranging, Serving, RawSteps
<1>16. StageAt(p, q, b)
  <2>1. q.matched => q.pos % SectorSize # 0
    BY <1>0, <1>5, Zenon DEF StageAt, SameRead
  <2>2. q.kind = "raw"
    BY <1>4, <1>5 DEF SameRead
  <2>3. QED
    BY <2>1, <2>2 DEF StageAt
<1>17. Found(t)'
  BY <1>0, <1>2, <1>6 DEF Found, Values
<1>18. Hands(t, p, q)
  BY <1>0, <1>1, <1>6 DEF Hands
<1>19. calm'[t] => calm[t] /\ CalmAt(p, q, b, buf', chunk')
  <2> SUFFICES ASSUME calm[t] PROVE CalmAt(p, q, b, buf, chunk)
    BY <1>1
  <2>1. CalmAt("copy", o, out[t], buf, chunk)
    BY <1>0, <1>3, <1>8 DEF Calm
  <2>2. /\ buf.holds = o.sector
        /\ \A i \in 1..Len(out[t]) : out[t][i] = o.pos * SectorSize + i - 1
    BY <1>4, <2>1 DEF CalmAt
  <2>3. q.kind = "raw" /\ q.pos = o.pos
    BY <1>4, <1>5 DEF SameRead
  <2>4. PICK x \in Int : x = o.pos * SectorSize
    BY <1>0, <1>7, CallIs
  <2>5. PICK r \in Int : r = o.sector * SectorSize
    BY <1>0, <1>7, CallIs
  <2>6. r = x + L
    BY <1>4, <1>11, <2>4, <2>5 DEF RawSoFar
  <2>7. ASSUME NEW i \in 1..Len(b) PROVE b[i] = x + i - 1
    <3>1. CASE i <= L
      BY <1>10, <1>11, <2>2, <2>4, <2>7, <3>1
    <3>2. CASE i > L
      <4>1. PICK j \in 1..SectorSize : i = L + j
        <5>1. Len(b) = L + SectorSize /\ SectorSize \in Nat
          BY <1>7, <1>10, <1>11, Zenon
        <5>2. i - L \in 1..SectorSize /\ i = L + (i - L)
          BY <5>1, <3>2
        <5>3. QED
          BY <5>2
      <4>2. b[i] = c[j]
        BY <1>10, <1>11, <4>1
      <4>3. buf.holds \in Nat /\ 0 + j <= SectorSize
        BY <1>0, <1>7, <2>2, CallIs
      <4>4. c[j] = buf.holds * SectorSize + 0 + j - 1
        BY <1>9, <4>3
      <4>5. c[j] = r + 0 + j - 1
        BY <2>2, <2>5, <4>4, Zenon
      <4>6. QED
        BY <2>6, <4>1, <4>2, <4>5
    <3>3. QED
      BY <1>10, <1>7, <1>11, <3>1, <3>2
  <2>8. \A i \in 1..Len(b) : b[i] = q.pos * SectorSize + i - 1
    BY <2>3, <2>4, <2>7, Zenon
  <2>9. QED
    BY <1>6, <2>3, <2>8, Zenon DEF CalmAt, Ranging
<1>20. /\ quiet' => quiet
       /\ p # "serve"
       /\ \A u \in Threads \ {t} : calm'[u] = calm[u]
  BY <1>1, <1>6
<1>21. QED
  BY <1>0, <1>3, <1>5, <1>6, <1>10, <1>13, <1>14, <1>15, <1>16, <1>17, <1>18, <1>19, <1>20,
     GoesOn

-----------------------------------------------------------------------------
(* Calls begin and end *)

\* No call.
LEMMA NoCallIs ==
  /\ NoCall \in Call /\ NoCall.kind = "none" /\ NoCall.asked = 0
  /\ NoCall.rem = 0 /\ NoCall.off = 0
  /\ ~NoCall.cached /\ ~NoCall.spoiled /\ ~NoCall.matched
<1>1. /\ NoCall \in Call /\ NoCall.kind = "none" /\ NoCall.asked = 0
      /\ NoCall.rem = 0 /\ NoCall.off = 0
  BY DEF NoCall, Call
<1>2. ~NoCall.cached /\ ~NoCall.spoiled /\ ~NoCall.matched
  BY DEF NoCall
<1>3. QED
  BY <1>1, <1>2

\* The record of a read or of a caching pass's read.
LEMMA ReadCallIs ==
  ASSUME NEW kind \in {"read", "cache"}, NEW f \in Files, NEW pos \in Nat, NEW n \in Nat
  PROVE  /\ ReadCall(kind, f, pos, n) \in Call /\ ReadCall(kind, f, pos, n).kind = kind
         /\ ReadCall(kind, f, pos, n).file = f /\ ReadCall(kind, f, pos, n).pos = pos
         /\ ReadCall(kind, f, pos, n).asked = n /\ ReadCall(kind, f, pos, n).rem = n
         /\ ReadCall(kind, f, pos, n).off = 0
         /\ (ReadCall(kind, f, pos, n).cached <=> f \in cached)
         /\ ~ReadCall(kind, f, pos, n).matched /\ ~ReadCall(kind, f, pos, n).spoiled
<1> DEFINE r == ReadCall(kind, f, pos, n)
<1> DEFINE b == f \in cached
<1>1. b \in BOOLEAN
  OBVIOUS
<1>2. r = [NoCall EXCEPT !.kind = kind, !.file = f, !.pos = pos, !.asked = n, !.rem = n,
                         !.cached = b]
  BY Zenon DEF ReadCall
<1> HIDE DEF r, b
<1> DEFINE a == [NoCall EXCEPT !.kind = kind, !.file = f, !.pos = pos, !.asked = n, !.rem = n]
<1>3. /\ a \in Call /\ a.kind = kind /\ a.file = f /\ a.pos = pos /\ a.asked = n
      /\ a.rem = n /\ a.off = NoCall.off /\ a.matched = NoCall.matched
      /\ a.spoiled = NoCall.spoiled
  <2>1. /\ kind \in {"none", "read", "raw", "cache"} /\ f \in Files \cup {0} /\ pos \in Int
        /\ n \in Nat
    OBVIOUS
  <2>2. NoCall \in Call
    BY NoCallIs
  <2>3. QED
    BY <2>1, <2>2 DEF Call
<1>4. r = [a EXCEPT !.cached = b]
  <2>1. NoCall \in Call
    BY NoCallIs
  <2>2. QED
    BY <1>2, <2>1 DEF Call
<1> HIDE DEF a
<1>5. /\ r \in Call /\ r.kind = a.kind /\ r.file = a.file /\ r.pos = a.pos
      /\ r.asked = a.asked /\ r.rem = a.rem /\ r.off = a.off /\ r.matched = a.matched
      /\ r.spoiled = a.spoiled /\ (r.cached <=> b)
  BY <1>1, <1>3, <1>4 DEF Call
<1>6. QED
  <2>1. r.cached <=> f \in cached
    BY <1>5 DEF b
  <2>2. ~r.matched /\ ~r.spoiled /\ r.off = 0
    BY <1>3, <1>5, NoCallIs
  <2>3. QED
    BY <1>3, <1>5, <2>1, <2>2 DEF r

\* The call of thread t ends: the handle of a read moves on.
Ended(t) ==
  /\ pc' = [pc EXCEPT ![t] = "idle"] /\ op' = [op EXCEPT ![t] = NoCall]
  /\ out' = [out EXCEPT ![t] = <<>>]
  /\ disc' = disc /\ broken' = broken /\ calls' = calls /\ faults' = faults /\ buf' = buf
  /\ chunk' = chunk /\ cached' = cached /\ indexed' = indexed /\ entries' = entries
  /\ passes' = passes /\ looked' = looked /\ calm' = calm /\ quiet' = quiet
  /\ session' = IF op[t].kind = "read" THEN NoThread ELSE session
  /\ reading' = reading \/ reading' = Unlocked(t)
  /\ \A u \in Threads \ {t} : handle'[u] = handle[u]

\* A call that ends leaves the others as they are.
LEMMA Ends ==
  ASSUME UdfInv, NEW t \in Threads, Busy(t), pc[t] \notin {"mark", "number"}, Ended(t),
         handle' \in [Threads -> Handle], Handled(t)'
  PROVE  UdfInv'
<1>0. Values /\ Locked /\ Local /\ Cached /\ Quiet /\ Undisturbed
  BY InCall
<1>1. /\ disc' = disc /\ broken' = broken /\ calls' = calls /\ faults' = faults /\ buf' = buf
      /\ chunk' = chunk /\ cached' = cached /\ indexed' = indexed /\ entries' = entries
      /\ passes' = passes /\ looked' = looked /\ calm' = calm /\ quiet' = quiet
      /\ session' = IF op[t].kind = "read" THEN NoThread ELSE session
      /\ reading' = reading \/ reading' = Unlocked(t)
  BY DEF Ended
<1>2. /\ pc'[t] = "idle" /\ op'[t] = NoCall /\ out'[t] = <<>>
      /\ \A u \in Threads \ {t} : Unseen(u)
  BY <1>0 DEF Ended, Values, Unseen
<1>3. ~Busy(t)' /\ \A u \in Threads \ {t} : Busy(u)' <=> Busy(u)
  BY <1>2 DEF Busy, Unseen
<1>4. Values'
  <2>1. /\ pc' \in [Threads -> Labels] /\ op' \in [Threads -> Call]
        /\ out' \in [Threads -> Seq(Places)]
    <3>1. <<>> \in Seq(Places) /\ "idle" \in Labels
      BY DEF Labels
    <3>2. /\ pc' = [pc EXCEPT ![t] = "idle"] /\ op' = [op EXCEPT ![t] = NoCall]
          /\ out' = [out EXCEPT ![t] = <<>>]
      BY DEF Ended
    <3>3. QED
      BY <1>0, <3>1, <3>2, NoCallIs DEF Values
  <2>2. session' \in Threads \cup {NoThread} /\ reading' \in Threads \cup {NoThread}
    BY <1>0, <1>1 DEF Values, Shared, Unlocked
  <2>3. QED
    BY <1>0, <1>1, <2>1, <2>2 DEF Values, Shared
<1>5. Locked'
  <2>1. ASSUME NEW u \in Threads
        PROVE  (Busy(u)' /\ op'[u].kind = "read") <=> session' = u
    <3>1. CASE u = t
      <4>1. session' # t
        BY <1>0, <1>1, ThreadAssumption DEF Locked
      <4>2. QED
        BY <1>3, <3>1, <4>1
    <3>2. CASE u # t
      <4>1. (Busy(u)' /\ op'[u].kind = "read") <=> session = u
        BY <1>0, <1>2, <1>3, <3>2 DEF Locked, Unseen
      <4>2. session' = u <=> session = u
        BY <1>0, <1>1, <3>2, ThreadAssumption DEF Locked
      <4>3. QED
        BY <4>1, <4>2
    <3>3. QED
      BY <3>1, <3>2
  <2>2. ASSUME NEW u \in Threads, pc'[u] \in Reading PROVE reading' = u
    <3>1. u # t
      BY <1>2, <2>2 DEF Reading
    <3>2. reading = u
      BY <1>0, <1>2, <2>2, <3>1 DEF Locked, Unseen
    <3>3. QED
      BY <1>1, <3>1, <3>2 DEF Unlocked
  <2>3. QED
    BY <2>1, <2>2 DEF Locked
<1>6. Cached'
  BY <1>0, <1>1 DEF Cached
<1>7. Quiet'
  <2> SUFFICES ASSUME quiet'
               PROVE  /\ \A u \in Threads : Busy(u)' /\ op'[u].kind = "raw" => Alone(u)'
                      /\ \A u \in Threads : pc'[u] = "mark" => buf'.holds = LastOfChunk(u)'
                      /\ \A u \in Threads : pc'[u] = "number" => buf'.holds = op'[u].sector
                      /\ (\A u \in Threads : pc'[u] \notin {"mark", "number"})
                           => Honest' \/ buf'.sector = 0
    BY Zenon DEF Quiet
  <2>1. /\ \A u \in Threads : Busy(u) /\ op[u].kind = "raw" => Alone(u)
        /\ \A u \in Threads : pc[u] = "mark" => buf.holds = LastOfChunk(u)
        /\ \A u \in Threads : pc[u] = "number" => buf.holds = op[u].sector
        /\ (\A u \in Threads : pc[u] \notin {"mark", "number"}) => Honest \/ buf.sector = 0
    BY <1>0, <1>1, Zenon DEF Quiet
  <2>2. ASSUME NEW u \in Threads, Busy(u)', op'[u].kind = "raw" PROVE Alone(u)'
    <3>1. u # t
      BY <1>3, <2>2
    <3>2. Alone(u)
      BY <1>2, <1>3, <2>1, <2>2, <3>1 DEF Unseen
    <3>3. QED
      BY <1>3, <3>2 DEF Alone
  <2>3. ASSUME NEW u \in Threads, pc'[u] = "mark" PROVE buf'.holds = LastOfChunk(u)'
    BY <1>1, <1>2, <2>1, <2>3 DEF Unseen, LastOfChunk, BlocksNow
  <2>4. ASSUME NEW u \in Threads, pc'[u] = "number" PROVE buf'.holds = op'[u].sector
    BY <1>1, <1>2, <2>1, <2>4 DEF Unseen
  <2>5. ASSUME \A u \in Threads : pc'[u] \notin {"mark", "number"}
        PROVE  Honest' \/ buf'.sector = 0
    <3>1. \A u \in Threads : pc[u] \notin {"mark", "number"}
      BY <1>2, <2>5 DEF Unseen
    <3>2. QED
      BY <1>1, <2>1, <3>1 DEF Honest
  <2>6. QED
    BY <2>2, <2>3, <2>4, <2>5
<1>8. LocalTo(t)' /\ Calm(t)'
  <2>1. LocalAt("idle", NoCall, <<>>) /\ StageAt("idle", NoCall, <<>>)
    BY NoCallIs DEF LocalAt, StageAt, Ranging, Serving, RawSteps
  <2>2. LocalAt(pc'[t], op'[t], out'[t]) /\ StageAt(pc'[t], op'[t], out'[t])
    BY <1>2, <2>1, Zenon
  <2>3. Found(t)' /\ Calm(t)'
    BY <1>2, <1>3 DEF Found, Calm
  <2>4. QED
    BY <2>2, <2>3 DEF LocalTo
<1>9. ASSUME NEW u \in Threads \ {t} PROVE LocalTo(u)' /\ Calm(u)'
  <2>1. EntriesKept /\ BuffersKept(t) /\ Unseen(u) /\ (calm'[u] => calm[u])
    BY <1>1, <1>2 DEF EntriesKept, BuffersKept
  <2>2. LocalTo(u)'
    BY <1>0, <2>1, OthersLocal
  <2>3. Calm(u)'
    BY <1>0, <1>1, <1>2, <1>3, <2>1, OthersCalm
  <2>4. QED
    BY <2>2, <2>3
<1>10. QED
  BY <1>4, <1>5, <1>6, <1>7, <1>8, <1>9, Complete

\* A call returns.
LEMMA ReturnStep ==
  ASSUME UdfInv, NEW t \in Threads, Return(t)
  PROVE  UdfInv'
<1> DEFINE o == op[t]
<1>0. /\ Values /\ o \in Call /\ pc[t] = "return" /\ Handled(t) /\ Busy(t)
  BY InCall DEF Return, At, Busy
<1>1. /\ handle \in [Threads -> Handle] /\ handle[t] \in Handle
      /\ handle[t].offset \in Int /\ o.asked \in Nat
  BY <1>0, CallIs DEF Values, Handle
<1>2. PICK h \in Handle :
        handle' = [handle EXCEPT ![t] = h] /\ h.file = handle[t].file
          /\ (h = handle[t] \/ o.kind = "read")
  <2>1. CASE o.kind = "read"
    <3>1. PICK x \in Int : x = handle[t].offset + o.asked
      BY <1>1
    <3>2. handle' = [handle EXCEPT ![t] = [handle[t] EXCEPT !.offset = x]]
      BY <1>1, <2>1, <3>1 DEF Return
    <3>3. [handle[t] EXCEPT !.offset = x] \in Handle
          /\ [handle[t] EXCEPT !.offset = x].file = handle[t].file
      BY <1>1 DEF Handle
    <3>4. QED
      BY <2>1, <3>2, <3>3
  <2>2. CASE o.kind # "read"
    <3>1. handle' = handle
      BY <2>2 DEF Return
    <3>2. QED
      BY <1>1, <3>1
  <2>3. QED
    BY <2>1, <2>2
<1>3. handle' \in [Threads -> Handle] /\ \A u \in Threads \ {t} : handle'[u] = handle[u]
  BY <1>1, <1>2
<1>4. Handled(t)'
  <2>1. handle'[t] = h /\ ~Busy(t)'
    BY <1>0, <1>1, <1>2 DEF Return, Busy, Values
  <2>2. handle[t] # Closed => h.file \in Files
    BY <1>0, <1>2 DEF Handled
  <2>3. handle[t] = Closed => h = Closed
    BY <1>0, <1>2 DEF Handled
  <2>4. QED
    BY <2>1, <2>2, <2>3 DEF Handled
<1>5. Ended(t)
  BY <1>3 DEF Return, At, Ended, buffers, cache, ghosts
<1>6. pc[t] \notin {"mark", "number"}
  BY <1>0
<1>7. QED
  BY <1>0, <1>3, <1>4, <1>5, <1>6, Ends

\* A caching pass comes to its next small file, or ends.
LEMMA CacheNextStep ==
  ASSUME UdfInv, NEW t \in Threads, CacheNext(t)
  PROVE  UdfInv'
<1> DEFINE o == op[t]
<1>0. /\ Values /\ o \in Call /\ pc[t] = "next" /\ LocalAt("next", o, out[t]) /\ Handled(t)
      /\ Cached /\ Calm(t) /\ out[t] \in Seq(Places)
  BY InCall DEF CacheNext, At
<1>1. /\ disc' = disc /\ calls' = calls /\ broken' = broken /\ session' = session
      /\ reading' = reading /\ handle' = handle /\ buf' = buf /\ chunk' = chunk
      /\ cached' = cached /\ indexed' = indexed /\ entries' = entries /\ passes' = passes
      /\ calm' = calm /\ quiet' = quiet /\ faults' = faults /\ out' = out
  BY DEF CacheNext, At, mutexes, buffers, cache, ghosts
<1>2. Busy(t) /\ pc[t] \notin {"mark", "number"}
  BY <1>0 DEF Busy
<1>3. o.kind = "cache" /\ out[t] = <<>>
  BY <1>0 DEF LocalAt
<1>4. out' = [out EXCEPT ![t] = <<>>]
  BY <1>0, <1>1, <1>3 DEF Values
<1>5. CASE /\ pc' = [pc EXCEPT ![t] = "idle"] /\ op' = [op EXCEPT ![t] = NoCall]
           /\ looked' = looked
  <2>1. Ended(t)
    BY <1>1, <1>3, <1>4, <1>5 DEF Ended
  <2>2. handle' \in [Threads -> Handle] /\ Handled(t)'
    <3>1. ~Busy(t)'
      BY <1>0, <1>5 DEF Busy, Values
    <3>2. QED
      BY <1>0, <1>1, <3>1 DEF Values, Handled
  <2>3. QED
    BY <1>2, <2>1, <2>2, Ends
<1>6. CASE \E f \in Remaining(t) :
             /\ looked' = [looked EXCEPT ![t] = f]
             /\ op' = [op EXCEPT ![t] = ReadCall("cache", f, 0, Dirlist[f].size)]
             /\ pc' = [pc EXCEPT ![t] = IF Dirlist[f].size = 0 THEN "return" ELSE "enter"]
  <2>1. PICK f \in Remaining(t) :
          /\ looked' = [looked EXCEPT ![t] = f]
          /\ op' = [op EXCEPT ![t] = ReadCall("cache", f, 0, Dirlist[f].size)]
          /\ pc' = [pc EXCEPT ![t] = IF Dirlist[f].size = 0 THEN "return" ELSE "enter"]
    BY <1>6
  <2>2. f \in Files /\ Dirlist[f].size \in Nat
    BY FileTypes DEF Remaining
  <2>3. PICK n \in Nat : n = Dirlist[f].size
    BY <2>2
  <2>4. PICK p \in {"return", "enter"} : p = IF n = 0 THEN "return" ELSE "enter"
    OBVIOUS
  <2> DEFINE q == ReadCall("cache", f, 0, n)
  <2>5. /\ q \in Call /\ q.kind = "cache" /\ q.file = f /\ q.pos = 0 /\ q.asked = n
        /\ q.rem = n /\ q.off = 0 /\ ~q.matched
    BY <2>2, ReadCallIs
  <2>6. op' = [op EXCEPT ![t] = q] /\ pc' = [pc EXCEPT ![t] = p]
    BY <2>1, <2>3, <2>4
  <2> HIDE DEF q
  <2>7. Goes(t, p, q, <<>>)
    BY <1>1, <1>3, <1>4, <2>5, <2>6 DEF Goes
  <2>8. Turns(t, p) /\ p \in Labels /\ <<>> \in Seq(Places)
    BY <1>1 DEF Turns, Reading, Labels
  <2>9. Shared'
    <3>1. looked' \in [Threads -> Files \cup {0}]
      BY <1>0, <2>1, <2>2 DEF Values, Shared
    <3>2. QED
      BY <1>0, <1>1, <3>1 DEF Values, Shared
  <2>10. BuffersKept(t) /\ EntriesKept /\ Cached'
    BY <1>0, <1>1 DEF BuffersKept, EntriesKept, Cached
  <2>11. Hands(t, p, q)
    BY <1>0, <1>1 DEF Hands
  <2>12. FromFile(q)
    BY <2>2, <2>3, <2>5 DEF FromFile
  <2>13. 0 < SectorSize /\ Len(<<>>) = 0
    BY SizeAssumption
  <2>14. LocalAt(p, q, <<>>)
    BY <2>5, <2>12, <2>13 DEF LocalAt, Ranging, Serving, RawSteps
  <2>15. p = "return" => ~Begun(q)
    BY <2>4, <2>5 DEF Begun, Starts
  <2>16. StageAt(p, q, <<>>)
    BY <2>5, <2>15 DEF StageAt, Ranging
  <2>17. Found(t)'
    BY <1>0, <2>6 DEF Found, Values
  <2>18. calm'[t] => calm[t] /\ (p = "serve" => q.gen = passes)
                       /\ CalmAt(p, q, <<>>, buf', chunk')
    BY <1>1, <2>5, <2>15 DEF CalmAt, Ranging
  <2>19. /\ quiet' => quiet
         /\ \A u \in Threads \ {t} : calm'[u] = calm[u]
    BY <1>1
  <2>20. QED
    BY <1>2, <2>5, <2>7, <2>8, <2>9, <2>10, <2>11, <2>14, <2>16, <2>17, <2>18, <2>19, GoesOn
<1>7. QED
  BY <1>5, <1>6 DEF CacheNext

\* Calls that do not clash may be under way together.
LEMMA ClashApart ==
  ASSUME NEW o, NEW p, ~Clash(o, p)
  PROVE  Apart(o, p) /\ Apart(p, o)
  BY DEF Clash, Apart

(* An idle thread begins the call r, at step p.  A caching pass frees the  *)
(* entries.                                                                *)
Starting(t, p, r) ==
  /\ pc' = [pc EXCEPT ![t] = p] /\ op' = [op EXCEPT ![t] = r] /\ out' = out
  /\ disc' = disc /\ broken' = broken /\ reading' = reading /\ handle' = handle /\ buf' = buf
  /\ chunk' = chunk /\ cached' = cached /\ indexed' = indexed /\ faults' = faults
  /\ Disturb(t, r)
  /\ session' = IF r.kind = "read" THEN t ELSE session
  /\ r.kind = "read" => session = NoThread /\ handle[t] # Closed
  /\ \/ r.kind # "cache" /\ entries' = entries /\ passes' = passes
     \/ /\ r.kind = "cache" /\ entries' = <<>> /\ passes' = passes + 1
        /\ \A u \in Threads : op[u].kind # "cache"

\* Whom a call that begins disturbs, and who disturbs it.
LEMMA Disturbed ==
  ASSUME Values, NEW t \in Threads, NEW r, Disturb(t, r)
  PROVE  /\ calm' \in [Threads -> BOOLEAN] /\ quiet' \in BOOLEAN
         /\ calm'[t] => \A u \in Threads \ {t} : Busy(u) => ~Clash(r, op[u])
         /\ \A u \in Threads \ {t} : calm'[u] => calm[u] /\ (Busy(u) => ~Clash(r, op[u]))
         /\ quiet' => quiet /\ \A u \in Threads \ {t} : Busy(u) => ~Clash(r, op[u])
<1> DEFINE clashing == {u \in Threads \ {t} : Busy(u) /\ Clash(r, op[u])}
           fit(u) == IF u = t THEN clashing = {} ELSE calm[u] /\ u \notin clashing
<1>1. calm' = [u \in Threads |-> fit(u)] /\ quiet' = (quiet /\ clashing = {})
  BY DEF Disturb
<1>2. ASSUME NEW u \in Threads PROVE fit(u) \in BOOLEAN
  <2>1. (clashing = {}) \in BOOLEAN /\ (calm[u] /\ u \notin clashing) \in BOOLEAN
    BY Zenon
  <2>2. QED
    BY <2>1, Zenon
<1>3. clashing = {} => \A u \in Threads \ {t} : Busy(u) => ~Clash(r, op[u])
  OBVIOUS
<1>4. ASSUME NEW u \in Threads, u \notin clashing, u # t PROVE Busy(u) => ~Clash(r, op[u])
  BY <1>4
<1>5. fit(t) <=> clashing = {}
  OBVIOUS
<1>6. ASSUME NEW u \in Threads \ {t} PROVE fit(u) <=> calm[u] /\ u \notin clashing
  OBVIOUS
<1> HIDE DEF clashing, fit
<1>7. calm' \in [Threads -> BOOLEAN]
  BY <1>1, <1>2, Zenon
<1>8. quiet' \in BOOLEAN
  BY <1>1, Zenon
<1>9. \A u \in Threads : calm'[u] = fit(u)
  BY <1>1, Zenon
<1>10. QED
  BY <1>1, <1>3, <1>4, <1>5, <1>6, <1>7, <1>8, <1>9, Zenon

\* A call that begins.
LEMMA Begins ==
  ASSUME UdfInv, NEW t \in Threads, ~Busy(t), NEW p \in {"enter", "fetch", "next"},
         NEW r \in Call, Starting(t, p, r), ~r.matched, LocalAt(p, r, <<>>),
         calls' \in 0..MaxCalls, looked' \in [Threads -> Files \cup {0}]
  PROVE  UdfInv'
<1>0. /\ Values /\ Locked /\ Local /\ Cached /\ Quiet /\ Undisturbed
      /\ LocalAt(pc[t], op[t], out[t]) /\ Handled(t)
  BY InCall
<1>1. /\ disc' = disc /\ broken' = broken /\ reading' = reading /\ handle' = handle
      /\ buf' = buf /\ chunk' = chunk /\ cached' = cached /\ indexed' = indexed
      /\ faults' = faults /\ session' = IF r.kind = "read" THEN t ELSE session
      /\ r.kind = "read" => session = NoThread /\ handle[t] # Closed
  BY DEF Starting
<1>2. /\ r.kind # "cache" /\ entries' = entries /\ passes' = passes
      \/ /\ r.kind = "cache" /\ entries' = <<>> /\ passes' = passes + 1
         /\ \A u \in Threads : op[u].kind # "cache"
  BY DEF Starting
<1>3. /\ pc'[t] = p /\ op'[t] = r /\ out'[t] = out[t]
      /\ \A u \in Threads \ {t} : Unseen(u)
  BY <1>0, <1>1 DEF Starting, Values, Unseen
<1>4. out'[t] = <<>> /\ pc[t] = "idle"
  BY <1>0, <1>3 DEF LocalAt, Busy
<1>5. Busy(t)' /\ \A u \in Threads \ {t} : Busy(u)' <=> Busy(u)
  BY <1>3 DEF Busy, Unseen
<1>6. Disturb(t, r)
  BY DEF Starting
<1>7. /\ calm' \in [Threads -> BOOLEAN] /\ quiet' \in BOOLEAN
      /\ calm'[t] => \A u \in Threads \ {t} : Busy(u) => ~Clash(r, op[u])
      /\ \A u \in Threads \ {t} : calm'[u] => calm[u] /\ (Busy(u) => ~Clash(r, op[u]))
      /\ quiet' => quiet /\ \A u \in Threads \ {t} : Busy(u) => ~Clash(r, op[u])
  BY <1>0, <1>6, Disturbed
<1>8. Values'
  <2>1. /\ pc' \in [Threads -> Labels] /\ op' \in [Threads -> Call]
        /\ out' \in [Threads -> Seq(Places)]
    BY <1>0 DEF Starting, Values, Labels
  <2>2. session' \in Threads \cup {NoThread}
    BY <1>0, <1>1 DEF Values
  <2>3. passes \in Nat /\ entries \in Seq(Entry) /\ <<>> \in Seq(Entry)
    BY <1>0 DEF Values, Shared
  <2>4. passes' \in Nat
    BY <1>2, <2>3
  <2>5. entries' \in Seq(Entry)
    BY <1>2, <2>3, Zenon
  <2>6. QED
    BY <1>0, <1>1, <1>7, <2>1, <2>2, <2>4, <2>5 DEF Values, Shared
<1>9. Locked'
  <2>1. ASSUME NEW u \in Threads
        PROVE  (Busy(u)' /\ op'[u].kind = "read") <=> session' = u
    <3>1. CASE u = t
      <4>1. session # t
        BY <1>0, <1>4 DEF Locked, Busy
      <4>2. QED
        BY <1>1, <1>3, <1>5, <3>1, <4>1
    <3>2. CASE u # t
      <4>1. (Busy(u)' /\ op'[u].kind = "read") <=> session = u
        BY <1>0, <1>3, <1>5, <3>2 DEF Locked, Unseen
      <4>2. session' = u <=> session = u
        BY <1>1, <3>2, ThreadAssumption
      <4>3. QED
        BY <4>1, <4>2
    <3>3. QED
      BY <3>1, <3>2
  <2>2. ASSUME NEW u \in Threads, pc'[u] \in Reading PROVE reading' = u
    <3>1. u # t
      BY <1>3, <2>2 DEF Reading
    <3>2. QED
      BY <1>0, <1>1, <1>3, <2>2, <3>1 DEF Locked, Unseen
  <2>3. QED
    BY <2>1, <2>2 DEF Locked
<1>10. Cached'
  <2>1. CASE entries' = entries
    BY <1>0, <2>1 DEF Cached
  <2>2. CASE entries' = <<>>
    BY <2>2 DEF Cached
  <2>3. QED
    BY <1>2, <2>1, <2>2
<1>11. EntriesKept
  BY <1>1, <1>2 DEF EntriesKept
<1>12. Quiet'
  <2> SUFFICES ASSUME quiet'
               PROVE  /\ \A u \in Threads : Busy(u)' /\ op'[u].kind = "raw" => Alone(u)'
                      /\ \A u \in Threads : pc'[u] = "mark" => buf'.holds = LastOfChunk(u)'
                      /\ \A u \in Threads : pc'[u] = "number" => buf'.holds = op'[u].sector
                      /\ (\A u \in Threads : pc'[u] \notin {"mark", "number"})
                           => Honest' \/ buf'.sector = 0
    BY Zenon DEF Quiet
  <2>1. /\ \A u \in Threads : Busy(u) /\ op[u].kind = "raw" => Alone(u)
        /\ \A u \in Threads : pc[u] = "mark" => buf.holds = LastOfChunk(u)
        /\ \A u \in Threads : pc[u] = "number" => buf.holds = op[u].sector
        /\ (\A u \in Threads : pc[u] \notin {"mark", "number"}) => Honest \/ buf.sector = 0
    BY <1>0, <1>7, Zenon DEF Quiet
  <2>2. \A u \in Threads \ {t} : Busy(u) => r.kind # "raw" /\ op[u].kind # "raw"
    BY <1>7 DEF Clash
  <2>3. ASSUME NEW u \in Threads, Busy(u)', op'[u].kind = "raw" PROVE Alone(u)'
    <3>1. u = t
      BY <1>3, <1>5, <2>2, <2>3 DEF Unseen
    <3>2. r.kind = "raw"
      BY <1>3, <2>3, <3>1
    <3>3. QED
      BY <1>5, <2>2, <3>1, <3>2 DEF Alone
  <2>4. ASSUME NEW u \in Threads, pc'[u] = "mark" PROVE buf'.holds = LastOfChunk(u)'
    <3>1. u # t
      BY <1>3, <2>4
    <3>2. QED
      BY <1>1, <1>3, <2>1, <2>4, <3>1 DEF Unseen, LastOfChunk, BlocksNow
  <2>5. ASSUME NEW u \in Threads, pc'[u] = "number" PROVE buf'.holds = op'[u].sector
    <3>1. u # t
      BY <1>3, <2>5
    <3>2. QED
      BY <1>1, <1>3, <2>1, <2>5, <3>1 DEF Unseen
  <2>6. ASSUME \A u \in Threads : pc'[u] \notin {"mark", "number"}
        PROVE  Honest' \/ buf'.sector = 0
    <3>1. \A u \in Threads : pc[u] \notin {"mark", "number"}
      BY <1>3, <1>4, <2>6 DEF Unseen
    <3>2. QED
      BY <1>1, <2>1, <3>1 DEF Honest
  <2>7. QED
    BY <2>3, <2>4, <2>5, <2>6
<1>13. LocalTo(t)'
  <2>1. StageAt(p, r, <<>>)
    BY DEF StageAt, Ranging
  <2>2. LocalAt(pc'[t], op'[t], out'[t]) /\ StageAt(pc'[t], op'[t], out'[t])
    BY <1>3, <1>4, <2>1, Zenon
  <2>3. Found(t)' /\ Handled(t)'
    BY <1>0, <1>1, <1>3 DEF Found, Handled
  <2>4. QED
    BY <2>2, <2>3 DEF LocalTo
<1>14. Calm(t)'
  <2> SUFFICES ASSUME calm'[t]
               PROVE  /\ \A u \in Threads \ {t} : Busy(u)' => Apart(op'[t], op'[u])
                      /\ pc'[t] = "serve" => op'[t].gen = passes'
                      /\ CalmAt(pc'[t], op'[t], out'[t], buf', chunk')
    BY Zenon DEF Calm
  <2>1. ASSUME NEW u \in Threads \ {t}, Busy(u)' PROVE Apart(op'[t], op'[u])
    <3>1. ~Clash(r, op[u])
      BY <1>5, <1>7, <2>1
    <3>2. Apart(r, op[u])
      BY <3>1, ClashApart
    <3>3. QED
      BY <1>3, <3>2 DEF Unseen
  <2>2. CalmAt(p, r, <<>>, buf', chunk')
    BY DEF CalmAt, Ranging
  <2>3. QED
    BY <1>3, <1>4, <2>1, <2>2
<1>15. ASSUME NEW u \in Threads \ {t} PROVE LocalTo(u)' /\ Calm(u)'
  <2>1. Unseen(u)
    BY <1>3
  <2>2. LocalTo(u)'
    BY <1>0, <1>11, <2>1, OthersLocal
  <2>3. ASSUME calm'[u], Busy(u)'
        PROVE  /\ \A v \in Threads \ {u} : Busy(v)' => Apart(op'[u], op'[v])
               /\ pc'[u] = "serve" => op'[u].gen = passes'
               /\ CalmAt(pc'[u], op'[u], out'[u], buf', chunk')
    <3>1. calm[u] /\ Busy(u) /\ ~Clash(r, op[u])
      BY <1>5, <1>7, <2>3
    <3>2. /\ \A v \in Threads \ {u} : Busy(v) => Apart(op[u], op[v])
          /\ pc[u] = "serve" => op[u].gen = passes
          /\ CalmAt(pc[u], op[u], out[u], buf, chunk)
      BY <1>0, <3>1 DEF Undisturbed, Calm
    <3>3. ASSUME NEW v \in Threads \ {u}, Busy(v)' PROVE Apart(op'[u], op'[v])
      <4>1. CASE v = t
        <5>1. Apart(op[u], r)
          BY <3>1, ClashApart
        <5>2. QED
          BY <1>3, <2>1, <4>1, <5>1 DEF Unseen
      <4>2. CASE v # t
        <5>1. Busy(v) /\ Unseen(v)
          BY <1>3, <1>5, <3>3, <4>2
        <5>2. Apart(op[u], op[v])
          BY <3>2, <3>3, <5>1
        <5>3. QED
          BY <2>1, <5>1, <5>2, Zenon DEF Unseen
      <4>3. QED
        BY <4>1, <4>2
    <3>4. pc[u] = "serve" => passes' = passes
      <4>1. LocalAt(pc[u], op[u], out[u])
        BY <1>0 DEF Local
      <4>2. ASSUME pc[u] = "serve" PROVE op[u].kind \in {"read", "cache"} /\ op[u].cached
        BY <4>1, <4>2 DEF LocalAt, FromFile, Serving
      <4>3. ASSUME pc[u] = "serve", r.kind = "cache" PROVE op[u].kind = "cache"
        BY <3>1, <4>2, <4>3 DEF Clash
      <4>4. QED
        BY <1>2, <4>3
    <3>5. CalmAt(pc'[u], op'[u], out'[u], buf', chunk')
      BY <1>1, <2>1, <3>2, Zenon DEF Unseen
    <3>6. pc'[u] = "serve" => op'[u].gen = passes'
      BY <2>1, <3>2, <3>4 DEF Unseen
    <3>7. QED
      BY <3>3, <3>5, <3>6
  <2>4. Calm(u)'
    BY <2>3, Zenon DEF Calm
  <2>5. QED
    BY <2>2, <2>4
<1>16. QED
  BY <1>8, <1>9, <1>10, <1>12, <1>13, <1>14, <1>15, Complete

\* What is known of an idle thread.
LEMMA IdleIs ==
  ASSUME UdfInv, NEW t \in Threads, Called(t)
  PROVE  /\ ~Busy(t) /\ disc' = disc /\ broken' = broken /\ faults' = faults
         /\ calls' \in 0..MaxCalls /\ handle[t] \in Handle
         /\ handle[t] # Closed => handle[t].file \in Files
<1>1. Values /\ Handled(t)
  BY InCall
<1>2. calls' \in 0..MaxCalls
  BY <1>1, BoundAssumption DEF Values, Called
<1>3. QED
  BY <1>1, <1>2 DEF Called, Values, Handled

\* What is left of a read when its length is clamped to the file.
LEMMA Clamped ==
  ASSUME NEW f \in Files, NEW pos \in Int, NEW len \in Nat, Clamp(f, pos, len) > 0
  PROVE  /\ pos \in Nat /\ Clamp(f, pos, len) \in Nat
         /\ pos + Clamp(f, pos, len) <= Dirlist[f].size
<1>1. Dirlist[f].size \in Nat
  BY FileTypes
<1>2. ~(pos < 0 \/ pos >= Dirlist[f].size)
  BY DEF Clamp
<1>3. Clamp(f, pos, len) = IF len <= Dirlist[f].size - pos THEN len ELSE Dirlist[f].size - pos
  BY <1>2 DEF Clamp, Least
<1>4. QED
  BY <1>1, <1>2, <1>3

\* A read begins.
LEMMA ReadStep ==
  ASSUME UdfInv, NEW t \in Threads, Read(t)
  PROVE  UdfInv'
<1>1. /\ Called(t) /\ handle[t] # Closed /\ session = NoThread /\ session' = t
      /\ pc' = [pc EXCEPT ![t] = "enter"]
      /\ reading' = reading /\ handle' = handle /\ buf' = buf /\ chunk' = chunk
      /\ cached' = cached /\ indexed' = indexed /\ entries' = entries /\ passes' = passes
      /\ out' = out /\ looked' = looked
  BY DEF Read, buffers, cache
<1>2. /\ ~Busy(t) /\ disc' = disc /\ broken' = broken /\ faults' = faults
      /\ calls' \in 0..MaxCalls /\ handle[t] \in Handle /\ handle[t].file \in Files
  BY <1>1, IdleIs
<1>3. PICK f \in Files, pos \in Int : f = handle[t].file /\ pos = handle[t].offset
  BY <1>2 DEF Handle
<1>4. PICK len \in Lengths :
        /\ Clamp(f, pos, len) > 0
        /\ op' = [op EXCEPT ![t] = ReadCall("read", f, pos, Clamp(f, pos, len))]
        /\ Disturb(t, ReadCall("read", f, pos, Clamp(f, pos, len)))
  BY <1>3 DEF Read
<1>5. len \in Nat
  BY BoundAssumption
<1>6. /\ pos \in Nat /\ Clamp(f, pos, len) \in Nat
      /\ pos + Clamp(f, pos, len) <= Dirlist[f].size
  BY <1>4, <1>5, Clamped
<1>7. PICK n \in Nat : n = Clamp(f, pos, len)
  BY <1>6
<1> DEFINE r == ReadCall("read", f, pos, n)
<1>8. op' = [op EXCEPT ![t] = r] /\ Disturb(t, r)
  BY <1>4, <1>7
<1>9. /\ r \in Call /\ r.kind = "read" /\ r.file = f /\ r.pos = pos /\ r.asked = n
      /\ r.rem = n /\ r.off = 0 /\ ~r.matched
  BY <1>6, ReadCallIs
<1> HIDE DEF r
<1>10. Starting(t, "enter", r)
  BY <1>1, <1>2, <1>8, <1>9 DEF Starting
<1>11. FromFile(r)
  BY <1>6, <1>7, <1>9 DEF FromFile
<1>12. 0 < SectorSize /\ Len(<<>>) = 0
  BY SizeAssumption
<1>13. LocalAt("enter", r, <<>>)
  BY <1>9, <1>11, <1>12 DEF LocalAt, Ranging, Serving, RawSteps
<1>14. looked' \in [Threads -> Files \cup {0}]
  <2>1. Values
    BY InCall
  <2>2. QED
    BY <1>1, <2>1 DEF Values, Shared
<1>15. "enter" \in {"enter", "fetch", "next"}
  OBVIOUS
<1>16. QED
  BY <1>2, <1>9, <1>10, <1>13, <1>14, <1>15, Begins

\* The call of a raw read of m sectors from s on.
RawRead(s, m, n) ==
  [NoCall EXCEPT !.kind = "raw", !.pos = s, !.sector = s, !.asked = n, !.blocks = m]

\* The record of a raw read.
LEMMA RawReadIs ==
  ASSUME NEW s \in Nat, NEW m \in Nat, NEW n \in Nat, NEW r, r = RawRead(s, m, n)
  PROVE  /\ r \in Call /\ ~r.matched /\ r.kind = "raw" /\ r.pos = s /\ r.sector = s
         /\ r.asked = n /\ r.blocks = m
<1> DEFINE k == "raw"
<1>1. r = [NoCall EXCEPT !.kind = k, !.pos = s, !.sector = s, !.asked = n, !.blocks = m]
  BY DEF RawRead
<1>2. k \in {"none", "read", "raw", "cache"} /\ s \in Int /\ m \in Int
  OBVIOUS
<1> HIDE DEF k
<1>3. r \in Call
  <2>1. PICK c \in Call : c = [NoCall EXCEPT !.kind = k, !.pos = s, !.sector = s]
    BY <1>2, NoCallIs DEF Call
  <2>2. r = [c EXCEPT !.asked = n, !.blocks = m]
    BY <1>1, <2>1, Zenon
  <2>3. QED
    BY <1>2, <2>2 DEF Call
<1>4. /\ r.matched = NoCall.matched /\ r.kind = k /\ r.pos = s /\ r.sector = s
      /\ r.asked = n /\ r.blocks = m
  BY <1>1, <1>2, NoCallIs DEF Call
<1>5. QED
  BY <1>3, <1>4, NoCallIs DEF k

\* A raw read begins.
LEMMA ReadRawStep ==
  ASSUME UdfInv, NEW t \in Threads, ReadRaw(t)
  PROVE  UdfInv'
<1>1. /\ Called(t) /\ pc' = [pc EXCEPT ![t] = "fetch"]
      /\ session' = session /\ reading' = reading /\ handle' = handle /\ buf' = buf
      /\ chunk' = chunk /\ cached' = cached /\ indexed' = indexed /\ entries' = entries
      /\ passes' = passes /\ out' = out /\ looked' = looked
  BY DEF ReadRaw, mutexes, buffers, cache
<1>2. /\ ~Busy(t) /\ disc' = disc /\ broken' = broken /\ faults' = faults
      /\ calls' \in 0..MaxCalls
  BY <1>1, IdleIs
<1>3. PICK x \in RawReads :
        LET o == [NoCall EXCEPT !.kind = "raw", !.pos = x[1], !.sector = x[1],
                                !.asked = x[2] * SectorSize, !.blocks = x[2]]
        IN op' = [op EXCEPT ![t] = o] /\ Disturb(t, o)
  BY DEF ReadRaw
<1>4. x[1] \in Nat /\ x[2] \in Nat \ {0}
  BY BoundAssumption
<1>5. PICK n : n = x[2] * SectorSize
  OBVIOUS
<1>6. PICK r : r = RawRead(x[1], x[2], n)
  OBVIOUS
<1>7. n \in Nat
  BY <1>4, <1>5, SizeAssumption
<1>8. op' = [op EXCEPT ![t] = r] /\ Disturb(t, r)
  BY <1>3, <1>5, <1>6, Zenon DEF RawRead
<1>9. /\ r \in Call /\ ~r.matched /\ r.kind = "raw" /\ r.pos = x[1] /\ r.sector = x[1]
      /\ r.asked = n /\ r.blocks = x[2]
  <2>1. x[1] \in Nat /\ x[2] \in Nat
    BY <1>4
  <2>2. QED
    BY <1>6, <1>7, <2>1, RawReadIs
<1>10. Starting(t, "fetch", r)
  BY <1>1, <1>2, <1>8, <1>9 DEF Starting
<1>11. LocalAt("fetch", r, <<>>)
  <2>1. /\ r.sector * SectorSize = r.pos * SectorSize + 0
        /\ 0 + r.blocks * SectorSize = r.asked
    <3>1. x[1] * SectorSize \in Nat /\ x[2] * SectorSize \in Nat
      BY <1>4, SizeAssumption
    <3>2. x[1] * SectorSize = x[1] * SectorSize + 0 /\ 0 + x[2] * SectorSize = n
      BY <1>5, <3>1
    <3>3. QED
      BY <1>9, <3>2, Zenon
  <2>2. Len(<<>>) = 0
    OBVIOUS
  <2>3. /\ r.sector * SectorSize = r.pos * SectorSize + Len(<<>>)
        /\ Len(<<>>) + r.blocks * SectorSize = r.asked
    BY <2>1, <2>2, Zenon
  <2>4. Len(<<>>) <= r.asked /\ r.blocks >= 1 /\ r.pos >= 0
    BY <1>4, <1>7, <1>9, <2>2
  <2>5. r.kind # "none" /\ r.kind = "raw"
    BY <1>9
  <2>6. "fetch" \notin {"idle", "enter", "next", "flag", "index", "take", "mark", "chunk", "return"}
          \cup Serving \cup Ranging
    BY DEF Serving, Ranging
  <2>7. QED
    BY <2>3, <2>4, <2>5, <2>6, Zenon DEF LocalAt
<1>12. looked' \in [Threads -> Files \cup {0}]
  <2>1. Values
    BY InCall
  <2>2. QED
    BY <1>1, <2>1 DEF Values, Shared
<1>13. "fetch" \in {"enter", "fetch", "next"}
  OBVIOUS
<1>14. QED
  BY <1>2, <1>9, <1>10, <1>11, <1>12, <1>13, Begins

\* A caching pass begins.
LEMMA CacheSmallFilesStep ==
  ASSUME UdfInv, NEW t \in Threads, CacheSmallFiles(t)
  PROVE  UdfInv'
<1> DEFINE r == [NoCall EXCEPT !.kind = "cache"]
<1>1. /\ Called(t) /\ pc' = [pc EXCEPT ![t] = "next"] /\ op' = [op EXCEPT ![t] = r]
      /\ Disturb(t, r) /\ session' = session /\ reading' = reading /\ handle' = handle
      /\ buf' = buf /\ chunk' = chunk /\ cached' = cached /\ indexed' = indexed
      /\ entries' = <<>> /\ passes' = passes + 1 /\ out' = out
      /\ looked' = [looked EXCEPT ![t] = 0]
      /\ \A u \in Threads : op[u].kind # "cache"
  BY DEF CacheSmallFiles, mutexes, buffers
<1>2. /\ ~Busy(t) /\ disc' = disc /\ broken' = broken /\ faults' = faults
      /\ calls' \in 0..MaxCalls
  BY <1>1, IdleIs
<1>3. r \in Call /\ r.kind = "cache" /\ ~r.matched /\ r.asked = 0
  <2>1. NoCall \in Call /\ ~NoCall.matched /\ NoCall.asked = 0
    BY NoCallIs
  <2>2. r \in Call /\ r.kind = "cache" /\ r.matched = NoCall.matched
        /\ r.asked = NoCall.asked
    BY <2>1 DEF Call
  <2>3. QED
    BY <2>1, <2>2
<1> HIDE DEF r
<1>4. Starting(t, "next", r)
  BY <1>1, <1>2, <1>3 DEF Starting
<1>5. Len(<<>>) = 0
  OBVIOUS
<1>6. LocalAt("next", r, <<>>)
  BY <1>3, <1>5 DEF LocalAt, Ranging, Serving, RawSteps
<1>7. looked' \in [Threads -> Files \cup {0}]
  <2>1. Values
    BY InCall
  <2>2. QED
    BY <1>1, <2>1 DEF Values, Shared
<1>8. "next" \in {"enter", "fetch", "next"}
  OBVIOUS
<1>9. QED
  BY <1>2, <1>3, <1>4, <1>6, <1>7, <1>8, Begins

-----------------------------------------------------------------------------
(* Handles *)

\* All that a step of a handle leaves as it was.
HandleOnly ==
  /\ disc' = disc /\ broken' = broken /\ session' = session /\ reading' = reading
  /\ buf' = buf /\ chunk' = chunk /\ cached' = cached /\ indexed' = indexed
  /\ entries' = entries /\ passes' = passes /\ pc' = pc /\ op' = op /\ out' = out
  /\ looked' = looked /\ calm' = calm /\ quiet' = quiet /\ faults' = faults

\* A step of the handles touches no call.
LEMMA HandlesMove ==
  ASSUME UdfInv, HandleOnly, calls' \in 0..MaxCalls, handle' \in [Threads -> Handle],
         \A u \in Threads : Handled(u)'
  PROVE  UdfInv'
<1>0. Values /\ Locked /\ Local /\ Cached /\ Quiet /\ Undisturbed
  BY Typing DEF UdfInv
<1>1. /\ disc' = disc /\ broken' = broken /\ session' = session /\ reading' = reading
      /\ buf' = buf /\ chunk' = chunk /\ cached' = cached /\ indexed' = indexed
      /\ entries' = entries /\ passes' = passes /\ pc' = pc /\ op' = op /\ out' = out
      /\ looked' = looked /\ calm' = calm /\ quiet' = quiet /\ faults' = faults
  BY DEF HandleOnly
<1>2. \A u \in Threads : Busy(u)' <=> Busy(u)
  BY <1>1 DEF Busy
<1>3. Values'
  BY <1>0, <1>1 DEF Values, Shared
<1>4. Locked'
  BY <1>0, <1>1, <1>2 DEF Locked
<1>5. Cached'
  BY <1>0, <1>1 DEF Cached
<1>6. Quiet'
  BY <1>0, <1>1, <1>2 DEF Quiet, Alone, Honest, LastOfChunk, BlocksNow
<1>7. ASSUME NEW u \in Threads PROVE LocalTo(u)' /\ Calm(u)'
  <2>1. LocalTo(u) /\ Calm(u)
    BY <1>0 DEF Local, LocalTo, Undisturbed
  <2>2. Handled(u)'
    OBVIOUS
  <2>3. LocalAt(pc'[u], op'[u], out'[u]) /\ StageAt(pc'[u], op'[u], out'[u])
    BY <1>1, <2>1, Zenon DEF LocalTo
  <2>4. Found(u)'
    BY <1>1, <2>1 DEF LocalTo, Found
  <2>5. Calm(u)'
    <3> SUFFICES ASSUME calm'[u], Busy(u)'
                 PROVE  /\ \A v \in Threads \ {u} : Busy(v)' => Apart(op'[u], op'[v])
                        /\ pc'[u] = "serve" => op'[u].gen = passes'
                        /\ CalmAt(pc'[u], op'[u], out'[u], buf', chunk')
      BY Zenon DEF Calm
    <3>1. /\ \A v \in Threads \ {u} : Busy(v) => Apart(op[u], op[v])
          /\ pc[u] = "serve" => op[u].gen = passes
          /\ CalmAt(pc[u], op[u], out[u], buf, chunk)
      BY <1>1, <1>2, <2>1 DEF Calm
    <3>2. CalmAt(pc'[u], op'[u], out'[u], buf', chunk')
      BY <1>1, <3>1, Zenon
    <3>3. QED
      BY <1>1, <1>2, <3>1, <3>2
  <2>6. QED
    BY <2>2, <2>3, <2>4, <2>5 DEF LocalTo
<1>8. QED
  BY <1>3, <1>4, <1>5, <1>6, <1>7, Complete

\* The handle of an idle thread moves.
LEMMA HandleStep ==
  ASSUME UdfInv, NEW t \in Threads, ~Busy(t), NEW h \in Handle, HandleOnly,
         h # Closed => h.file \in Files, calls' \in 0..MaxCalls,
         handle' = [handle EXCEPT ![t] = h]
  PROVE  UdfInv'
<1>0. Values /\ Local /\ op' = op /\ pc' = pc
  BY InCall DEF HandleOnly
<1>1. handle' \in [Threads -> Handle]
  BY <1>0 DEF Values
<1>2. ASSUME NEW u \in Threads PROVE Handled(u)'
  <2>1. CASE u = t
    <3>1. handle'[u] = h /\ ~Busy(u)'
      BY <1>0, <2>1 DEF Values, Busy
    <3>2. QED
      BY <3>1 DEF Handled
  <2>2. CASE u # t
    <3>1. handle'[u] = handle[u] /\ Handled(u)
      BY <1>0, <2>2 DEF Values, Local
    <3>2. QED
      BY <1>0, <3>1 DEF Handled, Busy
  <2>3. QED
    BY <2>1, <2>2
<1>3. QED
  BY <1>1, <1>2, HandlesMove

\* A handle that is not open.
LEMMA ClosedIs == Closed \in Handle
  BY DEF Closed, Handle

\* A handle is opened.
LEMMA OpenStep ==
  ASSUME UdfInv, NEW t \in Threads, Open(t)
  PROVE  UdfInv'
<1>1. PICK f \in Files :
        /\ Called(t)
        /\ handle' = [handle EXCEPT ![t] = [file |-> f, offset |-> 0]]
        /\ UNCHANGED <<mutexes, buffers, cache, local, ghosts>>
  BY DEF Open
<1> DEFINE h == [file |-> f, offset |-> 0]
<1>2. h \in Handle /\ h.file \in Files /\ handle' = [handle EXCEPT ![t] = h]
  BY <1>1 DEF Handle
<1> HIDE DEF h
<1>3. ~Busy(t) /\ calls' \in 0..MaxCalls /\ disc' = disc /\ broken' = broken
      /\ faults' = faults
  BY <1>1, IdleIs
<1>4. HandleOnly
  BY <1>1, <1>3 DEF HandleOnly, mutexes, buffers, cache, local, ghosts
<1>5. QED
  BY <1>2, <1>3, <1>4, HandleStep

\* A handle is closed.
LEMMA CloseStep ==
  ASSUME UdfInv, NEW t \in Threads, Close(t)
  PROVE  UdfInv'
<1>1. Called(t) /\ handle' = [handle EXCEPT ![t] = Closed]
  BY DEF Close
<1>2. ~Busy(t) /\ calls' \in 0..MaxCalls /\ disc' = disc /\ broken' = broken
      /\ faults' = faults
  BY <1>1, IdleIs
<1>3. HandleOnly
  BY <1>2 DEF Close, HandleOnly, mutexes, buffers, cache, local, ghosts
<1>4. QED
  BY <1>1, <1>2, <1>3, ClosedIs, HandleStep

\* A handle is moved.
LEMMA SeekStep ==
  ASSUME UdfInv, NEW t \in Threads, Seek(t)
  PROVE  UdfInv'
<1>1. Called(t) /\ handle[t] # Closed
  BY DEF Seek
<1>2. /\ ~Busy(t) /\ calls' \in 0..MaxCalls /\ disc' = disc /\ broken' = broken
      /\ faults' = faults /\ handle[t] \in Handle /\ handle[t].file \in Files
  BY <1>1, IdleIs
<1>3. PICK base \in {0, handle[t].offset, Dirlist[handle[t].file].size}, d \in Moves :
        handle' = [handle EXCEPT ![t].offset = base + d]
  BY DEF Seek
<1>4. base + d \in Int
  <2>1. handle[t].offset \in Int
    BY <1>2 DEF Handle
  <2>2. Dirlist[handle[t].file].size \in Nat
    BY <1>2, FileTypes
  <2>3. d \in Int
    BY BoundAssumption
  <2>4. QED
    BY <2>1, <2>2, <2>3
<1> DEFINE h == [handle[t] EXCEPT !.offset = base + d]
<1>5. handle' = [handle EXCEPT ![t] = h]
  <2>1. handle \in [Threads -> Handle]
    BY InCall DEF Values
  <2>2. QED
    BY <1>3, <2>1
<1>6. h \in Handle /\ h.file = handle[t].file
  BY <1>2, <1>4 DEF Handle
<1> HIDE DEF h
<1>7. HandleOnly
  BY <1>2 DEF Seek, HandleOnly, mutexes, buffers, cache, local, ghosts
<1>8. h.file \in Files
  BY <1>2, <1>6
<1>9. QED
  BY <1>2, <1>5, <1>6, <1>7, <1>8, HandleStep

\* A read of nothing leaves the handle where it is.
LEMMA ReadNothingStep ==
  ASSUME UdfInv, NEW t \in Threads, ReadNothing(t)
  PROVE  UdfInv'
<1>1. Called(t) /\ handle' = handle
  BY DEF ReadNothing
<1>2. /\ ~Busy(t) /\ calls' \in 0..MaxCalls /\ disc' = disc /\ broken' = broken
      /\ faults' = faults /\ handle[t] \in Handle
      /\ handle[t] # Closed => handle[t].file \in Files
  BY <1>1, IdleIs
<1>3. handle' = [handle EXCEPT ![t] = handle[t]]
  BY <1>1, InCall DEF Values
<1>4. HandleOnly
  BY <1>2 DEF ReadNothing, HandleOnly, mutexes, buffers, cache, local, ghosts
<1>5. QED
  BY <1>2, <1>3, <1>4, HandleStep

-----------------------------------------------------------------------------
(* Every step *)

\* No call is under way, and the buffer holds nothing.
LEMMA UdfStart == Init => UdfInv
<1> SUFFICES ASSUME Init PROVE UdfInv
  OBVIOUS
<1>1. /\ disc \in Discs /\ broken = FALSE /\ session = NoThread /\ reading = NoThread
      /\ handle = [t \in Threads |-> Closed] /\ buf = [sector |-> 0, holds |-> NoSector]
      /\ chunk = [i \in 1..ChunkSectors |-> NoSector]
      /\ cached = {} /\ indexed = {} /\ entries = <<>> /\ passes = 0
      /\ pc = [t \in Threads |-> "idle"] /\ op = [t \in Threads |-> NoCall]
      /\ out = [t \in Threads |-> <<>>] /\ looked = [t \in Threads |-> 0]
      /\ calm = [t \in Threads |-> TRUE] /\ quiet = TRUE /\ calls = 0 /\ faults = 0
  BY DEF Init
<1>2. \A t \in Threads : ~Busy(t) /\ pc[t] = "idle"
  BY <1>1 DEF Busy
<1>3. Values
  <2>1. handle \in [Threads -> Handle]
    BY <1>1, ClosedIs
  <2>2. /\ buf \in [sector : Nat, holds : Nat \cup {NoSector}]
        /\ chunk \in [1..ChunkSectors -> Nat \cup {NoSector}]
    BY <1>1
  <2>3. entries \in Seq(Entry) /\ passes \in Nat /\ cached \subseteq Files
        /\ indexed \subseteq cached
    BY <1>1
  <2>4. pc \in [Threads -> Labels] /\ op \in [Threads -> Call] /\ out \in [Threads -> Seq(Places)]
    <3>1. <<>> \in Seq(Places)
      OBVIOUS
    <3>2. QED
      BY <1>1, <3>1, NoCallIs DEF Labels
  <2>5. calm \in [Threads -> BOOLEAN] /\ quiet \in BOOLEAN /\ broken \in BOOLEAN
    BY <1>1, Zenon
  <2>6. calls \in 0..MaxCalls /\ faults \in 0..MaxFaults
    BY <1>1, BoundAssumption
  <2>7. looked \in [Threads -> Files \cup {0}]
    BY <1>1
  <2>8. QED
    BY <1>1, <2>1, <2>2, <2>3, <2>4, <2>5, <2>6, <2>7 DEF Values, Shared
<1>4. Locked
  BY <1>1, <1>2, ThreadAssumption DEF Locked, Reading
<1>5. Local
  <2> SUFFICES ASSUME NEW t \in Threads PROVE LocalTo(t)
    BY DEF Local, LocalTo
  <2>1. pc[t] = "idle" /\ op[t] = NoCall /\ out[t] = <<>> /\ handle[t] = Closed
    BY <1>1
  <2>2. LocalAt("idle", NoCall, <<>>) /\ StageAt("idle", NoCall, <<>>)
    BY NoCallIs DEF LocalAt, StageAt, Ranging, Serving, RawSteps
  <2>3. LocalAt(pc[t], op[t], out[t]) /\ StageAt(pc[t], op[t], out[t])
    BY <2>1, <2>2, Zenon
  <2>4. Handled(t) /\ Found(t)
    BY <1>2, <2>1 DEF Handled, Found
  <2>5. QED
    BY <2>3, <2>4 DEF LocalTo
<1>6. Cached
  BY <1>1 DEF Cached
<1>7. Quiet
  BY <1>1, <1>2 DEF Quiet
<1>8. Undisturbed
  BY <1>2 DEF Undisturbed, Calm
<1>9. QED
  BY <1>3, <1>4, <1>5, <1>6, <1>7, <1>8, Typing DEF UdfInv

\* Every step keeps the invariant.
LEMMA UdfStep == UdfInv /\ [Next]_vars => UdfInv'
<1> SUFFICES ASSUME UdfInv, [Next]_vars PROVE UdfInv'
  OBVIOUS
<1>1. ASSUME NEW t \in Threads, Begin(t) PROVE UdfInv'
  <2>1. CASE Open(t)
    BY <2>1, OpenStep
  <2>2. CASE Close(t)
    BY <2>2, CloseStep
  <2>3. CASE Seek(t)
    BY <2>3, SeekStep
  <2>4. CASE ReadNothing(t)
    BY <2>4, ReadNothingStep
  <2>5. CASE Read(t)
    BY <2>5, ReadStep
  <2>6. CASE ReadRaw(t)
    BY <2>6, ReadRawStep
  <2>7. CASE CacheSmallFiles(t)
    BY <2>7, CacheSmallFilesStep
  <2>8. QED
    BY <1>1, <2>1, <2>2, <2>3, <2>4, <2>5, <2>6, <2>7 DEF Begin
<1>2. ASSUME NEW t \in Threads, Proceed(t) PROVE UdfInv'
  <2>1. CASE Lock(t)
    BY <2>1, LockStep
  <2>2. CASE NextRange(t)
    BY <2>2, NextRangeStep
  <2>3. CASE Take(t)
    BY <2>3, TakeStep
  <2>4. CASE ReadChunk(t)
    BY <2>4, ReadChunkStep
  <2>5. CASE Mark(t)
    BY <2>5, MarkStep
  <2>6. CASE Lookup(t)
    BY <2>6, LookupStep
  <2>7. CASE Serve(t)
    BY <2>7, ServeStep
  <2>8. CASE CacheNext(t)
    BY <2>8, CacheNextStep
  <2>9. CASE Load(t)
    BY <2>9, LoadStep
  <2>10. CASE Flag(t) \/ Index(t)
    BY <2>10, FlagStep
  <2>11. CASE Fetch(t)
    BY <2>11, FetchStep
  <2>12. CASE Number(t)
    BY <2>12, NumberStep
  <2>13. CASE CopySector(t)
    BY <2>13, CopySectorStep
  <2>14. CASE Return(t)
    BY <2>14, ReturnStep
  <2>15. QED
    BY <1>2, <2>1, <2>2, <2>3, <2>4, <2>5, <2>6, <2>7, <2>8, <2>9, <2>10, <2>11, <2>12, <2>13,
       <2>14 DEF Proceed
<1>3. CASE UNCHANGED vars
  <2>1. handle' = handle /\ calls' = calls /\ HandleOnly
    BY <1>3 DEF vars, HandleOnly, mutexes, buffers, cache, local, ghosts
  <2>2. Values /\ Local /\ pc' = pc /\ op' = op
    BY <2>1, Typing DEF UdfInv, HandleOnly
  <2>3. handle' \in [Threads -> Handle] /\ calls' \in 0..MaxCalls
    BY <2>1, <2>2 DEF Values
  <2>4. \A u \in Threads : Handled(u)'
    BY <2>1, <2>2 DEF Local, Handled, Busy
  <2>5. QED
    BY <2>1, <2>3, <2>4, HandlesMove
<1>4. QED
  BY <1>1, <1>2, <1>3 DEF Next

(* The invariant of the reads: types, each call, the cache, the buffer, and *)
(* what an undisturbed call may rely on.                                   *)
THEOREM UdfInvariant == Spec => []UdfInv
  BY UdfStart, UdfStep, PTL DEF Spec

\* The variables of the reads keep their types, and the mutexes belong to who is behind them.
THEOREM UdfTypeCorrect == Spec => []TypeOK
<1>1. UdfInv => TypeOK
  BY DEF UdfInv
<1>2. QED
  BY <1>1, UdfInvariant, PTL

\* What is known of a read that returns, if it was straight.
LEMMA Returned ==
  ASSUME UdfInv, NEW t \in Threads, Returns(t, "read"),
         Straight(op[t].file, op[t].pos, op[t].asked)
  PROVE  /\ op[t] \in Call /\ out[t] \in Seq(Places) /\ Len(out[t]) \in Nat
         /\ Len(out[t]) <= op[t].asked /\ op[t].pos \in Nat /\ op[t].asked \in Nat
         /\ Begun(op[t]) /\ FromFile(op[t])
         /\ Room(op[t].file, op[t].pos, op[t].asked) = op[t].asked
         /\ op[t].pos + op[t].asked <= Span(First(op[t].file)) /\ Len(All(op[t])) = 1
         /\ \A p \in op[t].pos .. op[t].pos + op[t].asked - 1 :
              PlaceOf(op[t].file, p) = Place(op[t].file, p)
         /\ ~op[t].cached => Past(op[t], Len(out[t]))
         /\ calm[t] => CalmAt("return", op[t], out[t], buf, chunk)
<1> DEFINE o == op[t]
<1>1. /\ o \in Call /\ out[t] \in Seq(Places) /\ pc[t] = "return" /\ o.kind = "read"
      /\ LocalAt("return", o, out[t]) /\ StageAt("return", o, out[t]) /\ Calm(t)
  BY InCall DEF Returns
<1>2. /\ FromFile(o) /\ Len(out[t]) <= o.asked
  BY <1>1 DEF LocalAt
<1>3. o.file \in Files /\ o.pos \in Nat /\ o.asked \in Nat
  BY <1>1, <1>2, CallIs DEF FromFile
<1>4. /\ Starts(o.file, o.pos, o.asked) /\ Room(o.file, o.pos, o.asked) = o.asked
      /\ o.pos + o.asked <= Span(First(o.file)) /\ Len(SectorRanges(o.file, o.pos, o.asked)) = 1
      /\ \A p \in o.pos .. o.pos + o.asked - 1 : PlaceOf(o.file, p) = Place(o.file, p)
  <2>1. Straight(o.file, o.pos, o.asked)
    OBVIOUS
  <2> HIDE DEF o
  <2>2. QED
    BY <1>3, <2>1, StraightIs
<1>5. Begun(o) /\ Len(All(o)) = 1
  BY <1>4 DEF Begun, All
<1>6. ~o.cached => Past(o, Len(out[t]))
  BY <1>1, <1>5 DEF StageAt
<1>7. calm[t] => CalmAt("return", o, out[t], buf, chunk)
  BY <1>1 DEF Calm, Busy
<1>8. Len(out[t]) \in Nat
  BY <1>1
<1>9. QED
  BY <1>1, <1>2, <1>3, <1>4, <1>5, <1>6, <1>7, <1>8

\* A byte within the range and not behind the sector buffer is among those of the range's sectors.
LEMMA NotBehind ==
  ASSUME NEW o \in Call, FromFile(o), Begun(o), Len(All(o)) = 1, NEW n \in Nat, Past(o, n),
         NEW i \in 1..n, i \notin Hole(o)
  PROVE  i <= Cap(o)
<1>1. /\ Cap(o) \in Nat /\ o.pos \in Nat /\ o.asked \in Nat /\ o.file \in Files
      /\ o.pos % SectorSize \in 0..(SectorSize - 1)
  BY BegunIs
<1>2. n <= Cap(o) \/ (o.matched /\ n <= SectorSize)
  BY DEF Past
<1>3. CASE n <= Cap(o)
  BY <1>1, <1>3
<1>4. CASE o.matched /\ n <= SectorSize
  <2>1. PICK r \in Nat : r = o.pos % SectorSize
    BY <1>1
  <2>2. SectorSize \in Nat \ {0}
    BY SizeAssumption
  <2>3. i <= SectorSize - r
    BY <1>4, <2>1, <2>2 DEF Hole
  <2>4. PICK m \in Nat \ {0} : m = SectorsFor(Room(o.file, o.pos, o.asked))
    BY <1>1, CapIs DEF Begun
  <2>5. Cap(o) = m * SectorSize - r
    BY <2>1, <2>4, Zenon DEF Cap, Capacity
  <2>6. m * SectorSize >= SectorSize /\ m * SectorSize \in Nat
    BY <2>2, Multiple
  <2>7. QED
    BY <2>2, <2>3, <2>5, <2>6
<1>5. QED
  BY <1>2, <1>3, <1>4

(* Every byte a read delivers is the file's: udffs_read over UDFReadData,  *)
(* of any length, from the drive, the sector buffer or the cache, through  *)
(* any split into chunks, whatever other threads do before it or at once   *)
(* behind read_mutex.                                                      *)
THEOREM UdfRightBytes == Spec => []RightBytes
<1>1. UdfInv => RightBytes
  <2> SUFFICES ASSUME UdfInv, NEW t \in Threads, Returns(t, "read"), calm[t],
                      ~op[t].spoiled, Straight(op[t].file, op[t].pos, op[t].asked),
                      NEW i \in DOMAIN out[t], i \notin Hole(op[t])
               PROVE  out[t][i] = PlaceOf(op[t].file, op[t].pos + i - 1)
    BY DEF RightBytes
  <2> DEFINE o == op[t]
             b == out[t]
  <2>1. /\ o \in Call /\ b \in Seq(Places) /\ Len(b) \in Nat
        /\ Len(b) <= o.asked /\ o.pos \in Nat /\ o.asked \in Nat
        /\ Begun(o) /\ FromFile(o) /\ Len(All(o)) = 1
        /\ o.pos + o.asked <= Span(First(o.file))
        /\ \A p \in o.pos .. o.pos + o.asked - 1 : PlaceOf(o.file, p) = Place(o.file, p)
        /\ ~o.cached => Past(o, Len(b))
        /\ CalmAt("return", o, b, buf, chunk)
    BY Returned
  <2>2. i \in 1..Len(b) /\ o.kind = "read" /\ i \notin Hole(o) /\ ~o.spoiled
    BY <2>1 DEF Returns
  <2>3. Span(First(o.file)) \in Nat
    <3>1. Extents(o.file) # <<>> /\ o.file \in Files
      BY <2>1 DEF Begun, Starts, FromFile
    <3> HIDE DEF o
    <3>2. 1 \in 1..Len(Extents(o.file))
      BY <3>1, FileTypes
    <3>3. QED
      BY <3>1, <3>2, SpansAre DEF First
  <2>4. /\ PlaceOf(o.file, o.pos + i - 1) = Place(o.file, o.pos + i - 1)
        /\ o.pos + i <= Span(First(o.file))
    <3> HIDE DEF o, b
    <3>1. i \in Nat /\ 1 <= i /\ i <= o.asked
      BY <2>1, <2>2
    <3>2. o.pos + i - 1 \in o.pos .. o.pos + o.asked - 1
      BY <2>1, <3>1
    <3>3. o.pos + i <= Span(First(o.file))
      BY <2>1, <2>3, <3>1
    <3>4. QED
      BY <2>1, <3>2, <3>3
  <2> HIDE DEF o, b
  <2>5. CASE o.cached
    <3>1. Served(o, b)
      BY <2>1, <2>2, <2>5 DEF CalmAt
    <3>2. b[i] = Place(o.file, o.pos + i - 1)
      BY <2>2, <2>4, <3>1 DEF Served
    <3>3. QED
      BY <2>4, <3>2 DEF o, b
  <2>6. CASE ~o.cached
    <3>1. Good(o, b)
      BY <2>1, <2>2, <2>6 DEF CalmAt
    <3>2. i <= Cap(o)
      BY <2>1, <2>2, <2>6, NotBehind
    <3>3. b[i] = Place(o.file, o.pos + i - 1)
      BY <2>2, <3>1, <3>2 DEF Good
    <3>4. QED
      BY <2>4, <3>3 DEF o, b
  <2>7. QED
    BY <2>5, <2>6
<1>2. QED
  BY <1>1, UdfInvariant, PTL

(* UDFReadData writes no byte beyond what the caller asked for; a read of  *)
(* one range delivers all it reports, unless it starts off a sector        *)
(* boundary its length does not reach across: then exactly that is short.  *)
THEOREM UdfDelivered == Spec => []Delivered
<1>1. UdfInv => Delivered
  <2> SUFFICES ASSUME UdfInv, NEW t \in Threads
               PROVE  /\ Len(out[t]) <= op[t].asked
                      /\ Returns(t, "read") /\ ~op[t].cached
                           /\ Straight(op[t].file, op[t].pos, op[t].asked)
                           => (Len(out[t]) = op[t].asked
                                <=> Covered(op[t].pos, op[t].asked)
                                      \/ (op[t].matched /\ op[t].asked <= SectorSize))
    BY DEF Delivered
  <2>1. Len(out[t]) <= op[t].asked
    BY InCall DEF LocalAt
  <2>2. ASSUME Returns(t, "read"), ~op[t].cached, Straight(op[t].file, op[t].pos, op[t].asked)
        PROVE  Len(out[t]) = op[t].asked
                 <=> Covered(op[t].pos, op[t].asked)
                       \/ (op[t].matched /\ op[t].asked <= SectorSize)
    <3> DEFINE o == op[t]
               n == Len(out[t])
    <3>1. /\ o \in Call /\ n \in Nat /\ n <= o.asked /\ o.pos \in Nat /\ o.asked \in Nat
          /\ Begun(o) /\ FromFile(o) /\ Len(All(o)) = 1
          /\ Room(o.file, o.pos, o.asked) = o.asked /\ Past(o, n)
      BY <2>2, Returned
    <3> HIDE DEF o, n
    <3>2. o.file \in Files /\ Starts(o.file, o.pos, o.asked)
      BY <3>1 DEF FromFile, Begun
    <3>3. /\ Cap(o) \in Nat
          /\ o.asked <= Cap(o) <=> Covered(o.pos, o.asked)
      BY <3>1, <3>2, CapIs DEF Cap
    <3>4. /\ n = o.asked \/ n >= Cap(o)
          /\ o.matched => n >= Least(o.asked, SectorSize)
          /\ n <= Cap(o) \/ (o.matched /\ n <= SectorSize)
      BY <3>1 DEF Past
    <3>5. SectorSize \in Nat
      BY SizeAssumption
    <3>6. n = o.asked <=> o.asked <= Cap(o) \/ (o.matched /\ o.asked <= SectorSize)
      BY <3>1, <3>3, <3>4, <3>5 DEF Least
    <3>7. n = o.asked <=> Covered(o.pos, o.asked) \/ (o.matched /\ o.asked <= SectorSize)
      BY <3>3, <3>6
    <3>8. QED
      BY <3>7, Zenon DEF o, n
  <2>3. QED
    BY <2>1, <2>2
<1>2. QED
  BY <1>1, UdfInvariant, PTL

\* Read_Raw_Sectors: a raw read nothing disturbed delivers the sectors it names, all of them.
THEOREM UdfRawBytes == Spec => []RawBytes
<1>1. UdfInv => RawBytes
  <2> SUFFICES ASSUME UdfInv, NEW t \in Threads, Returns(t, "raw"), calm[t]
               PROVE  out[t] = [i \in 1..op[t].asked |-> op[t].pos * SectorSize + i - 1]
    BY DEF RawBytes
  <2>1. /\ out[t] \in Seq(Places) /\ pc[t] = "return" /\ op[t].kind = "raw"
        /\ LocalAt("return", op[t], out[t]) /\ Calm(t)
    BY InCall DEF Returns
  <2>2. Len(out[t]) = op[t].asked
    BY <2>1 DEF LocalAt
  <2>3. \A i \in 1..Len(out[t]) : out[t][i] = op[t].pos * SectorSize + i - 1
    BY <2>1 DEF Calm, Busy, CalmAt
  <2>4. out[t] = [i \in 1..Len(out[t]) |-> out[t][i]]
    BY <2>1
  <2>5. QED
    BY <2>2, <2>3, <2>4
<1>2. QED
  BY <1>1, UdfInvariant, PTL

\* load_udf_small_by_index: a sound entry of the cache of small files is its file, all of it.
THEOREM UdfCacheSound == Spec => []CacheSound
<1>1. UdfInv => CacheSound
  <2> SUFFICES ASSUME UdfInv, NEW i \in DOMAIN entries, entries[i].sound,
                      Straight(entries[i].file, 0, Dirlist[entries[i].file].size)
               PROVE  entries[i].bytes
                        = [p \in 1..Dirlist[entries[i].file].size |->
                             PlaceOf(entries[i].file, p - 1)]
    BY DEF CacheSound
  <2>1. entries \in Seq(Entry) /\ Kept(entries[i])
    BY DEF UdfInv, TypeOK, Cached
  <2>2. PICK e \in Entry : e = entries[i]
    BY <2>1
  <2>3. e.file \in Files /\ e.bytes \in Seq(Places) /\ Kept(e)
    BY <2>1, <2>2 DEF Entry
  <2>4. PICK n \in Nat : n = Dirlist[e.file].size
    BY <2>3, FileTypes
  <2>5. /\ Starts(e.file, 0, n) /\ 0 + n <= Span(First(e.file))
        /\ \A p \in 0 .. 0 + n - 1 : PlaceOf(e.file, p) = Place(e.file, p)
    <3>1. Straight(e.file, 0, n) /\ 0 \in Nat
      BY <2>2, <2>4
    <3>2. QED
      BY <2>3, <3>1, StraightIs
  <2>6. Len(e.bytes) = n
    BY <2>3, <2>4 DEF Kept
  <2>7. Span(First(e.file)) \in Nat
    <3>1. Extents(e.file) # <<>>
      BY <2>5 DEF Starts
    <3>2. 1 \in 1..Len(Extents(e.file))
      BY <2>3, <3>1, FileTypes
    <3>3. QED
      BY <2>3, <3>2, SpansAre DEF First
  <2>8. ASSUME NEW p \in 1..n PROVE e.bytes[p] = PlaceOf(e.file, p - 1)
    <3>1. p <= Span(First(e.file)) /\ p - 1 \in 0 .. 0 + n - 1
      BY <2>5, <2>7
    <3>2. e.sound /\ Starts(e.file, 0, Len(e.bytes))
      BY <2>2, <2>5, <2>6
    <3>3. e.bytes[p] = Place(e.file, p - 1)
      BY <2>3, <2>6, <3>1, <3>2 DEF Kept
    <3>4. QED
      BY <2>5, <3>1, <3>3
  <2>9. e.bytes = [p \in 1..n |-> e.bytes[p]]
    BY <2>3, <2>6
  <2>10. e.bytes = [p \in 1..n |-> PlaceOf(e.file, p - 1)]
    BY <2>8, <2>9
  <2>11. QED
    BY <2>2, <2>4, <2>10
<1>2. QED
  BY <1>1, UdfInvariant, PTL

(* read_sector names what drive_readbuffer holds, while no sector failed   *)
(* and no raw read got in another call's way, unless a call is between the *)
(* two.                                                                    *)
THEOREM UdfBufferHonest == Spec => []BufferHonest
<1>1. UdfInv => BufferHonest
  BY DEF UdfInv, Quiet, BufferHonest
<1>2. QED
  BY <1>1, UdfInvariant, PTL
=============================================================================
