--------------------------- MODULE IsoFilesProofs ---------------------------
(***************************************************************************)
(* The properties of IsoFiles for any disc, sector size, threads and reads *)
(* of any length.  None is inductive: the invariant follows each call from *)
(* sector to sector, and the buffer as a call nothing disturbed sees it.   *)
(***************************************************************************)
EXTENDS IsoFiles, WellFoundedInduction, TLAPS

(* A call, by its record o: its sectors are counted from Base, where its   *)
(* next byte is At.                                                        *)
Base(o)    == IF o.kind = "raw" THEN o.pos ELSE Dirlist[o.file].lba
Reached(o) == o.asked - o.rem
At(o)      == StartOf(o) + Reached(o)

\* The text a call is to deliver sector s in: as it is on the disc, or in the clear.
DueText(css, o, s) == IF o.kind = "raw" THEN OnDisc(css, s).text ELSE "clear"

\* The first n bytes a call is to deliver.
Due(css, o, n) ==
  [i \in 1..n |-> [sector |-> Base(o) + (StartOf(o) + i - 1) \div SectorSize,
                   off    |-> (StartOf(o) + i - 1) % SectorSize,
                   text   |-> DueText(css, o, Base(o) + (StartOf(o) + i - 1) \div SectorSize)]]

Looping  == {"fetch", "mark", "test", "copy"}
Cacheful == {"lookup", "serve"}

\* What is asked for is there: whole sectors, or a part of the file.
Sensible(o) ==
  IF o.kind = "raw" THEN o.asked = (o.asked \div SectorSize) * SectorSize
  ELSE o.pos + o.asked <= Dirlist[o.file].size
FromFile(o) ==
  /\ o.file \in Files /\ o.pos >= 0
  /\ o.kind = "cache" => /\ o.pos = 0 /\ o.asked = Dirlist[o.file].size
                         /\ Dirlist[o.file].ifo

\* The next byte is the first of its sector, or the first of the read.
InPlace(o) ==
  /\ 0 < o.rem /\ o.rem <= o.asked
  /\ o.sector = Base(o) + At(o) \div SectorSize
  /\ o.sector <= Last(o)
  /\ Reached(o) = 0 \/ At(o) % SectorSize = 0

\* What a call is, by its step p, its record o and the bytes b delivered so far.
LocalAt(p, o, b) ==
  /\ p # "idle" => o.kind # "none"
  /\ p \in Looping => ~o.cached /\ InPlace(o) /\ Len(b) = Reached(o)
  /\ p \in Looping \cup Cacheful => Sensible(o)
  /\ p \in Looping \cup Cacheful \cup {"return"} /\ o.kind # "raw" => FromFile(o)
  /\ p = "test" => o.kind # "raw"
  /\ p \in Cacheful => o.kind # "raw" /\ o.cached /\ b = <<>>
  /\ p = "return" => Len(b) <= o.asked
  /\ p = "return" /\ ~o.cached
       => (Len(b) = o.asked <=> o.kind = "raw" \/ Covered(o.pos, o.asked))
  /\ p = "next" => o.kind = "cache"
  /\ o.kind = "raw" => o.pos >= 0 /\ o.key = NoTitle /\ ~o.spoiled /\ ~o.cached

\* A handle belongs to a file, and a read to its handle.
Handled(t) ==
  /\ handle[t] # Closed => handle[t].file \in Files /\ handle[t].key = KeyOf(handle[t].file)
  /\ Busy(t) /\ op[t].kind = "read" => /\ handle[t] # Closed
                                       /\ handle[t].file = op[t].file
                                       /\ handle[t].offset = op[t].pos

\* A lookup found an entry of its file.
Found(t) ==
  pc[t] = "serve" =>
    /\ op[t].gen <= passes
    /\ op[t].gen = passes => /\ op[t].found \in DOMAIN entries
                             /\ entries[op[t].found].file = op[t].file
                             /\ op[t].spoiled = ~entries[op[t].found].sound

Keyed(t) == op[t].key # NoTitle => Css

Local == \A t \in Threads : LocalAt(pc[t], op[t], out[t]) /\ Handled(t) /\ Found(t) /\ Keyed(t)

-----------------------------------------------------------------------------
(* What the threads share                                                  *)

\* Only CSS scrambles: what else is in the buffer is in the clear.
Clear(css, c) == c = Nothing \/ (css /\ IsScrambled(c.of)) \/ c.text = "clear"

\* An entry holds as many bytes as its file, which is an IFO file.
Full(e) == Len(e.bytes) = Dirlist[e.file].size /\ Dirlist[e.file].ifo

Cached == Clear(Css, buf.content) /\ (\A i \in DOMAIN entries : Full(entries[i])) /\ CacheSound

\* While calls do not overlap, only a sector just read is not marked yet.
Quiet ==
  quiet => /\ \A t, u \in Threads : Busy(t) /\ Busy(u) => t = u
           /\ \A t \in Threads : pc[t] = "mark" => buf.content.of = op[t].sector
           /\ (\A t \in Threads : pc[t] # "mark") => Honest

-----------------------------------------------------------------------------
(* A call nothing disturbed                                                *)

\* c is sector o.sector, as the disc has it unless o is spoiled.
Held(css, c, o) ==
  /\ c.of = o.sector
  /\ c = OnDisc(css, o.sector) \/ (o.spoiled /\ css /\ IsScrambled(o.sector))

\* Whether the call's bytes are those it is to deliver.
Sure(o) == o.kind = "raw" \/ (KeyFits(o.file) /\ (o.spoiled => o.kind = "cache"))

\* What the call finds in the buffer f and as the current key, at its step p.
CalmAt(css, p, o, b, f, key) ==
  /\ css /\ o.kind \in {"read", "cache"} /\ p # "next" => key = Dirlist[o.file].title
  /\ p = "fetch" /\ o.kind # "raw" /\ f.sector = o.sector
       => Reached(o) = 0 /\ Held(css, f.content, o)
  /\ p \in {"mark", "test", "copy"} => Held(css, f.content, o)
  /\ p \in {"test", "copy"} => f.sector = o.sector
  /\ p = "copy" => o.key = IF css /\ o.kind # "raw" THEN Dirlist[o.file].title ELSE NoTitle
  /\ p \in Looping \cup {"return"} /\ ~o.cached /\ Sure(o) => b = Due(css, o, Len(b))
  /\ p = "return" /\ o.kind = "read" /\ o.cached /\ ~o.spoiled /\ KeyFits(o.file)
       => b = Due(css, o, Len(b))

Alone(t) == \A u \in Threads \ {t} : ~Busy(u)
Calm(t) ==
  calm[t] /\ Busy(t) => /\ Alone(t)
                        /\ pc[t] = "serve" => op[t].gen = passes
                        /\ CalmAt(Css, pc[t], op[t], out[t], buf, currKey)

Undisturbed == \A t \in Threads : Calm(t)

IsoInv == TypeOK /\ Local /\ Cached /\ Quiet /\ Undisturbed

-----------------------------------------------------------------------------
(* Sectors and bytes *)

LEMMA Ordered ==
  ASSUME NEW x \in Int, NEW y \in Int, x <= y, NEW n \in Nat
  PROVE  x * n <= y * n
  OBVIOUS

LEMMA Quotient ==
  ASSUME NEW a \in Int, NEW n \in Int, n > 0,
         NEW q \in Int, NEW r \in Int, q = a \div n, r = a % n
  PROVE  a = q * n + r
  OBVIOUS

\* A place is a sector and an offset in it.
LEMMA DivMod ==
  ASSUME NEW a \in Int
  PROVE  \E q \in Int, r \in 0..(SectorSize - 1) :
           q = a \div SectorSize /\ r = a % SectorSize /\ a = q * SectorSize + r
<1>1. PICK q \in Int : q = a \div SectorSize
  BY SizeAssumption
<1>2. PICK r \in 0..(SectorSize - 1) : r = a % SectorSize
  BY SizeAssumption
<1>3. r \in Int /\ SectorSize \in Int /\ SectorSize > 0
  BY SizeAssumption
<1>4. a = q * SectorSize + r
  BY <1>1, <1>2, <1>3, Quotient
<1>5. QED
  BY <1>1, <1>2, <1>4, Zenon

\* And no other sector and offset.
LEMMA DivIs ==
  ASSUME NEW a \in Int, NEW q \in Int, NEW r \in 0..(SectorSize - 1),
         a = q * SectorSize + r
  PROVE  a \div SectorSize = q /\ a % SectorSize = r
<1>0. SectorSize \in Nat \ {0}
  BY SizeAssumption
<1>1. PICK d \in Int, m \in 0..(SectorSize - 1) :
        d = a \div SectorSize /\ m = a % SectorSize /\ a = d * SectorSize + m
  BY DivMod
<1>2. ~(q < d)
  <2> SUFFICES ASSUME q < d PROVE FALSE
    OBVIOUS
  <2>1. (q + 1) * SectorSize <= d * SectorSize
    BY <1>0, Ordered
  <2>2. (q + 1) * SectorSize = q * SectorSize + SectorSize
    BY <1>0
  <2>3. m \in Int /\ m >= 0 /\ r \in Int /\ r < SectorSize
    BY <1>0
  <2>4. q * SectorSize + r = d * SectorSize + m
    BY <1>1
  <2>5. QED
    BY <2>1, <2>2, <2>3, <2>4, <1>0
<1>3. ~(d < q)
  <2> SUFFICES ASSUME d < q PROVE FALSE
    OBVIOUS
  <2>1. (d + 1) * SectorSize <= q * SectorSize
    BY <1>0, Ordered
  <2>2. (d + 1) * SectorSize = d * SectorSize + SectorSize
    BY <1>0
  <2>3. r \in Int /\ r >= 0 /\ m \in Int /\ m < SectorSize
    BY <1>0
  <2>4. q * SectorSize + r = d * SectorSize + m
    BY <1>1
  <2>5. QED
    BY <2>1, <2>2, <2>3, <2>4, <1>0
<1>4. d = q
  BY <1>2, <1>3
<1>5. m = r
  <2>1. d * SectorSize = q * SectorSize
    BY <1>4
  <2>2. d * SectorSize \in Int /\ m \in Int /\ r \in Int
    BY <1>0
  <2>3. QED
    BY <1>1, <2>1, <2>2
<1>6. QED
  BY <1>1, <1>4, <1>5, Zenon

LEMMA FileTypes ==
  ASSUME NEW f \in Files
  PROVE  /\ Dirlist[f].lba \in Nat \ {0} /\ Dirlist[f].size \in Nat
         /\ Dirlist[f].title \in Nat \cup {NoTitle}
         /\ Dirlist[f].scrambled \in BOOLEAN /\ Dirlist[f].ifo \in BOOLEAN
         /\ f \in Nat \ {0}
<1>1. Dirlist[f] \in DirEntry /\ f \in Nat \ {0}
  BY DirAssumption DEF Files
<1>2. Dirlist[f].scrambled \in BOOLEAN /\ Dirlist[f].ifo \in BOOLEAN
  BY <1>1, Zenon DEF DirEntry
<1>3. QED
  BY <1>1, <1>2 DEF DirEntry, NoTitle

\* Where a read starts.
LEMMA Starts ==
  ASSUME NEW o \in Call, o.pos >= 0, o.kind # "raw" => o.file \in Files
  PROVE  /\ StartOf(o) \in Nat /\ Base(o) \in Nat
         /\ First(o) = Base(o) + StartOf(o) \div SectorSize
         /\ o.kind # "raw" => StartOf(o) = o.pos /\ Base(o) = Dirlist[o.file].lba
         /\ o.kind = "raw" => /\ StartOf(o) = 0 /\ StartOf(o) \div SectorSize = 0
                              /\ First(o) = o.pos /\ Base(o) = o.pos
<1>0. o.pos \in Nat
  BY DEF Call
<1>1. CASE o.kind = "raw"
  <2>1. SectorSize \in Nat \ {0}
    BY SizeAssumption
  <2>2. 0 \in 0..(SectorSize - 1) /\ 0 = 0 * SectorSize + 0
    BY <2>1
  <2>3. 0 \div SectorSize = 0
    BY <2>2, DivIs
  <2>4. StartOf(o) = 0 /\ Base(o) = o.pos /\ First(o) = o.pos
    BY <1>1 DEF StartOf, Base, First
  <2>5. QED
    BY <1>0, <2>3, <2>4, <1>1
<1>2. CASE o.kind # "raw"
  <2>1. Dirlist[o.file].lba \in Nat
    BY <1>2, FileTypes
  <2>2. StartOf(o) = o.pos /\ Base(o) = Dirlist[o.file].lba
    BY <1>2 DEF StartOf, Base
  <2>3. First(o) = Base(o) + StartOf(o) \div SectorSize
    BY <1>2, <2>2 DEF First, FirstSector
  <2>4. QED
    BY <1>0, <1>2, <2>1, <2>2, <2>3
<1>3. QED
  BY <1>1, <1>2

(* A copy goes on from the place it is at, to the end of the read or of    *)
(* the sector.                                                             *)
LEMMA Copied ==
  ASSUME NEW o \in Call, o.pos >= 0, o.kind # "raw" => o.file \in Files, InPlace(o)
  PROVE  LET off == OffsetIn(First(o), StartOf(o), o.sector)
             n == ToRead(First(o), StartOf(o), o.sector, o.rem)
         IN  /\ off \in 0..(SectorSize - 1)
             /\ At(o) \in Nat
             /\ At(o) = (o.sector - Base(o)) * SectorSize + off
             /\ n \in 1..o.rem /\ n <= SectorSize - off
             /\ n = o.rem \/ n = SectorSize - off
<1>1. SectorSize \in Nat \ {0}
  BY SizeAssumption
<1>2. StartOf(o) \in Nat /\ Base(o) \in Nat /\ First(o) = Base(o) + StartOf(o) \div SectorSize
  BY Starts
<1>3. o.rem \in Nat /\ o.asked \in Nat /\ 0 < o.rem /\ o.rem <= o.asked /\ o.sector \in Nat
  BY DEF InPlace, Call
<1>4. Reached(o) \in Nat /\ At(o) \in Nat /\ At(o) = StartOf(o) + Reached(o)
  BY <1>2, <1>3 DEF Reached, At
<1>5. PICK q \in Int, r \in 0..(SectorSize - 1) :
        q = At(o) \div SectorSize /\ r = At(o) % SectorSize /\ At(o) = q * SectorSize + r
  BY <1>4, DivMod
<1>6. PICK q0 \in Int, r0 \in 0..(SectorSize - 1) :
        /\ q0 = StartOf(o) \div SectorSize /\ r0 = StartOf(o) % SectorSize
        /\ StartOf(o) = q0 * SectorSize + r0
  BY <1>2, DivMod
<1>7. o.sector = Base(o) + q /\ First(o) = Base(o) + q0 /\ (Reached(o) = 0 \/ r = 0)
  BY <1>2, <1>5, <1>6 DEF InPlace
<1>8. OffsetIn(First(o), StartOf(o), o.sector) = r
  <2>1. CASE Reached(o) = 0
    <3>1. At(o) = StartOf(o)
      BY <1>2, <1>4, <2>1
    <3>2. q = q0 /\ r = r0
      BY <3>1, <1>5, <1>6, Zenon
    <3>3. QED
      BY <3>2, <1>6, <1>7 DEF OffsetIn
  <2>2. CASE Reached(o) # 0
    <3>1. r = 0 /\ At(o) > StartOf(o)
      BY <2>2, <1>2, <1>4, <1>7
    <3>2. q # q0
      <4> SUFFICES ASSUME q = q0 PROVE FALSE
        OBVIOUS
      <4>1. q * SectorSize = q0 * SectorSize
        OBVIOUS
      <4>2. q * SectorSize \in Int /\ r0 \in Nat
        BY <1>1
      <4>3. QED
        BY <4>1, <4>2, <3>1, <1>5, <1>6
    <3>3. o.sector # First(o)
      BY <3>2, <1>2, <1>7
    <3>4. QED
      BY <3>1, <3>3 DEF OffsetIn
  <2>3. QED
    BY <2>1, <2>2
<1>9. o.sector - Base(o) = q
  BY <1>2, <1>7
<1>10. r \in 0..(SectorSize - 1) /\ At(o) = (o.sector - Base(o)) * SectorSize + r
  BY <1>5, <1>9
<1>11. Least(o.rem, SectorSize - r) \in 1..o.rem /\ Least(o.rem, SectorSize - r) <= SectorSize - r
       /\ (Least(o.rem, SectorSize - r) = o.rem \/ Least(o.rem, SectorSize - r) = SectorSize - r)
  BY <1>1, <1>3 DEF Least
<1>12. QED
  BY <1>4, <1>8, <1>10, <1>11 DEF ToRead

\* The record after a copy of n bytes.
Onward(o, o2, n) ==
  /\ o2.kind = o.kind /\ o2.file = o.file /\ o2.pos = o.pos /\ o2.asked = o.asked
  /\ o2.sector = o.sector + 1 /\ o2.rem = o.rem - n

LEMMA SameRead ==
  ASSUME NEW o \in Call, NEW o2 \in Call, NEW n \in Nat, Onward(o, o2, n)
  PROVE  /\ Base(o2) = Base(o) /\ StartOf(o2) = StartOf(o) /\ Last(o2) = Last(o)
         /\ First(o2) = First(o)
         /\ Reached(o2) = Reached(o) + n /\ Reached(o2) \in Int
<1>1. o.asked \in Nat /\ o.rem \in Nat /\ n \in Nat
  BY DEF Call
<1>2. Reached(o2) = Reached(o) + n /\ Reached(o2) \in Int
  BY <1>1 DEF Onward, Reached
<1>3. QED
  BY <1>2 DEF Onward, Base, StartOf, Last, First

(* After a copy that does not end the read, its next byte is the first of  *)
(* the next sector.                                                        *)
LEMMA GoesOn ==
  ASSUME NEW o \in Call, o.pos >= 0, o.kind # "raw" => o.file \in Files, InPlace(o),
         NEW o2 \in Call, NEW n,
         n = ToRead(First(o), StartOf(o), o.sector, o.rem), Onward(o, o2, n),
         o.sector + 1 <= Last(o), o.rem > n
  PROVE  InPlace(o2)
<1> DEFINE off == OffsetIn(First(o), StartOf(o), o.sector)
<1>1. SectorSize \in Nat \ {0} /\ o.rem \in Nat /\ o.asked \in Nat /\ o.sector \in Nat
  BY SizeAssumption DEF Call
<1>2. /\ off \in 0..(SectorSize - 1) /\ At(o) \in Nat
      /\ At(o) = (o.sector - Base(o)) * SectorSize + off
      /\ n \in 1..o.rem /\ n = SectorSize - off
  BY Copied, <1>1
<1>3. StartOf(o) \in Nat /\ Base(o) \in Nat
  BY Starts
<1>4. n \in Nat
  BY <1>1, <1>2
<1>5. /\ Base(o2) = Base(o) /\ StartOf(o2) = StartOf(o) /\ Last(o2) = Last(o)
      /\ Reached(o2) = Reached(o) + n
  BY <1>4, SameRead
<1>6. Reached(o) \in Nat /\ o.rem <= o.asked
  BY <1>1 DEF InPlace, Reached
<1> HIDE DEF off
<1>7. At(o2) = At(o) + n
  BY <1>3, <1>4, <1>5, <1>6 DEF At
<1> DEFINE q == o.sector - Base(o)
<1>8. q \in Int /\ At(o) = q * SectorSize + off
  BY <1>1, <1>2, <1>3
<1> HIDE DEF q
<1>9. (q + 1) * SectorSize = q * SectorSize + SectorSize
  BY <1>1, <1>8
<1>10. q * SectorSize \in Int /\ off \in Int
  BY <1>1, <1>2, <1>8
<1>11. At(o2) = (q + 1) * SectorSize + 0
  BY <1>1, <1>2, <1>7, <1>8, <1>9, <1>10
<1>12. q + 1 \in Int /\ 0 \in 0..(SectorSize - 1) /\ At(o2) \in Int
  BY <1>1, <1>2, <1>4, <1>7, <1>8
<1>13. At(o2) \div SectorSize = q + 1 /\ At(o2) % SectorSize = 0
  BY <1>11, <1>12, DivIs
<1>14. o2.sector = Base(o2) + (q + 1)
  BY <1>1, <1>3, <1>5 DEF Onward, q
<1>15. 0 < o2.rem /\ o2.rem <= o2.asked /\ o2.sector <= Last(o2)
  BY <1>1, <1>4, <1>5, <1>6 DEF Onward
<1>16. QED
  BY <1>13, <1>14, <1>15 DEF InPlace

(* A read that ends has delivered all that was asked for, unless it is a   *)
(* file's and its sectors do not hold it.                                  *)
LEMMA Ends ==
  ASSUME NEW o \in Call, o.pos >= 0, o.kind # "raw" => o.file \in Files, InPlace(o),
         Sensible(o), NEW o2 \in Call, NEW n,
         n = ToRead(First(o), StartOf(o), o.sector, o.rem), Onward(o, o2, n),
         ~(o.sector + 1 <= Last(o) /\ o.rem > n)
  PROVE  /\ Reached(o2) <= o2.asked
         /\ Reached(o2) = o2.asked <=> o2.kind = "raw" \/ Covered(o2.pos, o2.asked)
<1> DEFINE off == OffsetIn(First(o), StartOf(o), o.sector)
           q == o.sector - Base(o)
<1>1. SectorSize \in Nat \ {0} /\ o.rem \in Nat /\ o.asked \in Nat /\ o.sector \in Nat
  BY SizeAssumption DEF Call
<1>2. /\ off \in 0..(SectorSize - 1) /\ At(o) \in Nat /\ At(o) = q * SectorSize + off
      /\ n \in 1..o.rem /\ n <= SectorSize - off
      /\ n = o.rem \/ n = SectorSize - off
  BY Copied
<1>3. /\ StartOf(o) \in Nat /\ Base(o) \in Nat
      /\ First(o) = Base(o) + StartOf(o) \div SectorSize
  BY Starts
<1>4. q \in Int /\ o.sector = Base(o) + q
  BY <1>1, <1>3
<1> HIDE DEF off, q
<1>5. n \in Nat /\ off \in Nat
  BY <1>1, <1>2
<1>6. Reached(o2) = Reached(o) + n /\ Reached(o) = o.asked - o.rem /\ o2.asked = o.asked
  BY <1>5, SameRead DEF Reached, Onward
<1>7. StartOf(o) + o.asked = At(o) + o.rem
  BY <1>1, <1>3 DEF At, Reached
<1>8. PICK q0 \in Int, r0 \in 0..(SectorSize - 1) :
        /\ q0 = StartOf(o) \div SectorSize /\ r0 = StartOf(o) % SectorSize
        /\ StartOf(o) = q0 * SectorSize + r0
  BY <1>3, DivMod
<1>9. PICK qa \in Int, ra \in 0..(SectorSize - 1) :
        /\ qa = o.asked \div SectorSize /\ ra = o.asked % SectorSize
        /\ o.asked = qa * SectorSize + ra
  <2>1. o.asked \in Int
    BY <1>1
  <2>2. QED
    BY <2>1, DivMod, Zenon
<1>10. r0 \in Nat /\ ra \in Nat /\ r0 < SectorSize /\ ra < SectorSize
  BY <1>1
<1>11. (q0 + qa) * SectorSize = q0 * SectorSize + qa * SectorSize
  BY <1>1
<1>12. q0 * SectorSize \in Int /\ qa * SectorSize \in Int /\ q * SectorSize \in Int
  BY <1>1, <1>4
<1>13. (q + 1) * SectorSize = q * SectorSize + SectorSize
  BY <1>1, <1>4
<1>14. q * SectorSize + off + o.rem = (q0 + qa) * SectorSize + r0 + ra
  BY <1>1, <1>2, <1>5, <1>7, <1>8, <1>9, <1>10, <1>11, <1>12
<1>15. CASE o.kind = "raw"
  <2>1. StartOf(o) = 0 /\ q0 = 0 /\ First(o) = o.pos /\ Base(o) = o.pos
    BY <1>8, <1>15, Starts
  <2>2. o.asked = qa * SectorSize
    BY <1>9, <1>15, Zenon DEF Sensible
  <2>3. ra = 0 /\ r0 = 0
    <3>1. q0 * SectorSize = 0
      BY <2>1, <1>1
    <3>2. qa * SectorSize \in Int /\ ra \in Int /\ r0 \in Int
      BY <1>10, <1>12
    <3>3. o.asked = qa * SectorSize + ra /\ StartOf(o) = q0 * SectorSize + r0
      BY <1>8, <1>9
    <3>4. QED
      BY <3>1, <3>2, <3>3, <2>1, <2>2
  <2>4. Last(o) = Base(o) + qa - 1 /\ q <= qa - 1
    <3>1. Last(o) = o.pos + qa - 1
      BY <1>9, <1>15 DEF Last
    <3>2. o.sector <= Last(o)
      BY DEF InPlace
    <3>3. Base(o) = o.pos /\ Base(o) \in Nat
      BY <2>1, <1>3
    <3>4. QED
      BY <3>1, <3>2, <3>3, <1>4
  <2>5. n = o.rem
    <3>1. SUFFICES ASSUME n # o.rem PROVE FALSE
      OBVIOUS
    <3>2. o.rem > n /\ n = SectorSize - off
      BY <3>1, <1>1, <1>2
    <3>3. q = qa - 1
      BY <3>2, <2>4, <1>3, <1>4
    <3>4. (q + 1) * SectorSize = qa * SectorSize
      BY <3>3
    <3>5. QED
      BY <3>2, <3>4, <2>1, <2>3, <1>1, <1>5, <1>11, <1>12, <1>13, <1>14
  <2>6. QED
    BY <2>5, <1>1, <1>6, <1>15 DEF Onward
<1>16. CASE o.kind # "raw"
  <2>1. StartOf(o) = o.pos
    BY <1>16, Starts
  <2>2. Last(o) = Base(o) + (q0 + qa) /\ q <= q0 + qa
    <3>1. Last(o) = Base(o) + q0 + qa
      BY <1>3, <1>8, <1>9, <1>16, <2>1 DEF Last, LastSector, First
    <3>2. o.sector <= Last(o)
      BY DEF InPlace
    <3>3. QED
      BY <3>1, <3>2, <1>3, <1>4
  <2>3. Covered(o2.pos, o2.asked) <=> r0 + ra <= SectorSize
    BY <1>8, <1>9, <2>1 DEF Covered, Onward
  <2>4. CASE n = o.rem
    <3>1. (q + 1) * SectorSize <= (q0 + qa + 1) * SectorSize
      BY <2>2, <1>1, <1>4, Ordered
    <3>2. (q0 + qa + 1) * SectorSize = (q0 + qa) * SectorSize + SectorSize
      BY <1>1
    <3>3. r0 + ra <= SectorSize
      BY <3>1, <3>2, <2>4, <1>1, <1>2, <1>5, <1>10, <1>11, <1>12, <1>13, <1>14
    <3>4. Reached(o2) = o2.asked
      BY <2>4, <1>1, <1>6
    <3>5. Covered(o2.pos, o2.asked)
      BY <2>3, <3>3, Zenon
    <3>6. \A x \in Int : x <= x
      OBVIOUS
    <3>7. o2.asked \in Int
      BY DEF Call
    <3>8. Reached(o2) <= o2.asked
      BY <3>4, <3>6, <3>7, Zenon
    <3>9. QED
      BY <3>4, <3>5, <3>8, Zenon
  <2>5. CASE n # o.rem
    <3>1. o.rem > n /\ n = SectorSize - off
      BY <2>5, <1>1, <1>2
    <3>2. q = q0 + qa
      BY <3>1, <2>2, <1>3, <1>4
    <3>3. q * SectorSize = (q0 + qa) * SectorSize
      BY <3>2
    <3>4. r0 + ra > SectorSize
      BY <3>1, <3>3, <1>1, <1>5, <1>10, <1>12, <1>14
    <3>5. Reached(o2) < o2.asked
      BY <3>1, <1>1, <1>5, <1>6
    <3>6. o2.kind # "raw"
      BY <1>16 DEF Onward
    <3>7. QED
      BY <3>4, <3>5, <3>6, <2>3, <1>1, <1>5, <1>6, <1>10
  <2>6. QED
    BY <2>4, <2>5
<1>17. QED
  BY <1>15, <1>16

-----------------------------------------------------------------------------
(* Bytes *)

LEMMA MakeSeq ==
  ASSUME NEW S, NEW n \in Nat, NEW f \in [1..n -> S]
  PROVE  f \in Seq(S) /\ Len(f) = n
  OBVIOUS

LEMMA SeqIs ==
  ASSUME NEW S, NEW f \in Seq(S)
  PROVE  Len(f) \in Nat /\ DOMAIN f = 1..Len(f) /\ \A i \in 1..Len(f) : f[i] \in S
  OBVIOUS

LEMMA Same ==
  ASSUME NEW S, NEW a \in Seq(S), NEW b \in Seq(S), Len(a) = Len(b),
         \A i \in 1..Len(a) : a[i] = b[i]
  PROVE  a = b
  OBVIOUS

LEMMA Concats ==
  ASSUME NEW S, NEW a \in Seq(S), NEW b \in Seq(S)
  PROVE  /\ a \o b \in Seq(S) /\ Len(a \o b) = Len(a) + Len(b)
         /\ \A i \in 1..Len(a) : (a \o b)[i] = a[i]
         /\ \A i \in 1..Len(b) : (a \o b)[Len(a) + i] = b[i]
  OBVIOUS

LEMMA Joined ==
  ASSUME NEW S, NEW a \in Seq(S), NEW b \in Seq(S), NEW c \in Seq(S),
         Len(c) = Len(a) + Len(b),
         \A i \in 1..Len(a) : c[i] = a[i],
         \A j \in 1..Len(b) : c[Len(a) + j] = b[j]
  PROVE  c = a \o b
<1>1. Len(a) \in Nat /\ Len(b) \in Nat
  BY SeqIs
<1>2. a \o b \in Seq(S) /\ Len(a \o b) = Len(c)
  BY Concats
<1>3. ASSUME NEW i \in 1..Len(c) PROVE c[i] = (a \o b)[i]
  <2>1. CASE i \in 1..Len(a)
    BY <2>1, Concats
  <2>2. CASE i \notin 1..Len(a)
    <3>1. i - Len(a) \in 1..Len(b) /\ Len(a) + (i - Len(a)) = i
      BY <1>1, <1>3, <2>2
    <3>2. c[Len(a) + (i - Len(a))] = b[i - Len(a)]
      BY <3>1
    <3>3. (a \o b)[Len(a) + (i - Len(a))] = b[i - Len(a)]
      BY <3>1, Concats
    <3>4. QED
      BY <3>1, <3>2, <3>3
  <2>3. QED
    BY <2>1, <2>2
<1>4. QED
  BY <1>2, <1>3, Same

LEMMA SliceIs ==
  ASSUME NEW c \in Content, NEW off \in Nat, NEW n \in Nat
  PROVE  /\ Slice(c, off, n) \in Seq(Byte) /\ Len(Slice(c, off, n)) = n
         /\ \A i \in 1..n :
              Slice(c, off, n)[i] = [sector |-> c.of, off |-> off + i - 1, text |-> c.text]
<1>1. ASSUME NEW i \in 1..n
      PROVE  [sector |-> c.of, off |-> off + i - 1, text |-> c.text] \in Byte
  BY DEF Content, Byte
<1>2. Slice(c, off, n) \in [1..n -> Byte]
  BY <1>1 DEF Slice
<1>3. QED
  BY <1>2, MakeSeq DEF Slice

\* One byte a call is to deliver.
DueByte(css, o, i) ==
  [sector |-> Base(o) + (StartOf(o) + i - 1) \div SectorSize,
   off    |-> (StartOf(o) + i - 1) % SectorSize,
   text   |-> DueText(css, o, Base(o) + (StartOf(o) + i - 1) \div SectorSize)]

LEMMA DueIs ==
  ASSUME NEW css \in BOOLEAN, NEW o \in Call, o.pos >= 0,
         o.kind # "raw" => o.file \in Files, NEW n \in Nat
  PROVE  /\ Due(css, o, n) \in Seq(Byte) /\ Len(Due(css, o, n)) = n
         /\ \A i \in 1..n : Due(css, o, n)[i] = DueByte(css, o, i)
<1>1. StartOf(o) \in Nat /\ Base(o) \in Nat
  BY Starts
<1>2. ASSUME NEW i \in 1..n PROVE DueByte(css, o, i) \in Byte
  <2>1. StartOf(o) + i - 1 \in Nat
    BY <1>1
  <2>2. (StartOf(o) + i - 1) \div SectorSize \in Nat /\ (StartOf(o) + i - 1) % SectorSize \in Nat
    BY <2>1, SizeAssumption
  <2>3. \A s : DueText(css, o, s) \in Texts
    BY DEF DueText, OnDisc, Texts
  <2>4. QED
    BY <1>1, <2>2, <2>3 DEF DueByte, Byte
<1>3. Due(css, o, n) = [i \in 1..n |-> DueByte(css, o, i)]
  BY DEF Due, DueByte
<1>4. Due(css, o, n) \in [1..n -> Byte]
  BY <1>2, <1>3
<1>5. QED
  BY <1>3, <1>4, MakeSeq

(* The part of its sector that a copy takes, if the sector is held in the  *)
(* text it is due in, is the part of the call's bytes that comes next.     *)
LEMMA DueNext ==
  ASSUME NEW css \in BOOLEAN, NEW o \in Call, o.pos >= 0,
         o.kind # "raw" => o.file \in Files, InPlace(o),
         NEW o2 \in Call, NEW n, n = ToRead(First(o), StartOf(o), o.sector, o.rem),
         Onward(o, o2, n),
         NEW c \in Content, c.of = o.sector, c.text = DueText(css, o, o.sector)
  PROVE  Due(css, o2, Reached(o) + n)
           = Due(css, o, Reached(o)) \o Slice(c, OffsetIn(First(o), StartOf(o), o.sector), n)
<1> DEFINE off == OffsetIn(First(o), StartOf(o), o.sector)
           q == o.sector - Base(o)
<1>1. SectorSize \in Nat \ {0} /\ o.rem \in Nat /\ o.asked \in Nat /\ o.sector \in Nat
  BY SizeAssumption DEF Call
<1>2. /\ off \in 0..(SectorSize - 1) /\ At(o) \in Nat /\ At(o) = q * SectorSize + off
      /\ n \in 1..o.rem /\ n <= SectorSize - off
  BY Copied
<1>3. StartOf(o) \in Nat /\ Base(o) \in Nat
  BY Starts
<1>4. q \in Int /\ o.sector = Base(o) + q
  BY <1>1, <1>3
<1>5. n \in Nat /\ off \in Nat
  BY <1>1, <1>2
<1>6. Reached(o) \in Nat
  BY <1>1 DEF InPlace, Reached
<1>7. o2.pos >= 0 /\ (o2.kind # "raw" => o2.file \in Files)
  BY DEF Onward
<1>8. Reached(o) + n \in Nat
  BY <1>5, <1>6
<1>9. \A i \in Nat : DueByte(css, o2, i) = DueByte(css, o, i)
  <2>1. Base(o2) = Base(o) /\ StartOf(o2) = StartOf(o) /\ o2.kind = o.kind
    BY <1>5, SameRead DEF Onward
  <2>2. QED
    BY <2>1, Zenon DEF DueByte, DueText
<1> DEFINE whole == Due(css, o2, Reached(o) + n)
           old == Due(css, o, Reached(o))
           new == Slice(c, off, n)
<1>10. whole \in Seq(Byte) /\ Len(whole) = Reached(o) + n
       /\ \A i \in 1..(Reached(o) + n) : whole[i] = DueByte(css, o2, i)
  BY <1>7, <1>8, DueIs
<1>11. old \in Seq(Byte) /\ Len(old) = Reached(o)
       /\ \A i \in 1..Reached(o) : old[i] = DueByte(css, o, i)
  BY <1>6, DueIs
<1>12. new \in Seq(Byte) /\ Len(new) = n
       /\ \A i \in 1..n : new[i] = [sector |-> c.of, off |-> off + i - 1, text |-> c.text]
  BY <1>5, SliceIs, ZenonT(40)
<1> HIDE DEF whole, old, new, off, q
<1>13. ASSUME NEW i \in 1..Reached(o) PROVE whole[i] = old[i]
  <2>1. i \in Nat /\ i \in 1..(Reached(o) + n)
    BY <1>5, <1>6, <1>13
  <2>2. QED
    BY <2>1, <1>9, <1>10, <1>11
<1>14. ASSUME NEW j \in 1..n PROVE whole[Reached(o) + j] = new[j]
  <2>1. Reached(o) + j \in Nat /\ Reached(o) + j \in 1..(Reached(o) + n)
    BY <1>5, <1>6, <1>14
  <2>2. off + j - 1 \in 0..(SectorSize - 1)
    BY <1>1, <1>2, <1>5, <1>14
  <2>3. StartOf(o) + (Reached(o) + j) - 1 = q * SectorSize + (off + j - 1)
    <3>1. q * SectorSize \in Int
      BY <1>1, <1>4
    <3>2. At(o) = StartOf(o) + Reached(o)
      BY DEF At
    <3>3. QED
      BY <3>1, <3>2, <1>2, <1>3, <1>5, <1>6, <1>14
  <2>4. StartOf(o) + (Reached(o) + j) - 1 \in Int
    BY <1>3, <2>1
  <2>5. /\ (StartOf(o) + (Reached(o) + j) - 1) \div SectorSize = q
        /\ (StartOf(o) + (Reached(o) + j) - 1) % SectorSize = off + j - 1
    BY <1>4, <2>2, <2>3, <2>4, DivIs
  <2>6. DueByte(css, o, Reached(o) + j)
          = [sector |-> o.sector, off |-> off + j - 1, text |-> DueText(css, o, o.sector)]
    BY <2>5, <1>4, Zenon DEF DueByte
  <2>7. new[j] = [sector |-> o.sector, off |-> off + j - 1, text |-> DueText(css, o, o.sector)]
    BY <1>12, Zenon
  <2>8. whole[Reached(o) + j] = DueByte(css, o, Reached(o) + j)
    BY <1>9, <1>10, <2>1
  <2>9. QED
    BY <2>6, <2>7, <2>8
<1>15. whole = old \o new
  <2>1. whole \in Seq(Byte) /\ old \in Seq(Byte) /\ new \in Seq(Byte)
    BY <1>10, <1>11, <1>12
  <2>2. Len(whole) = Len(old) + Len(new)
    BY <1>10, <1>11, <1>12
  <2>3. \A i \in 1..Len(old) : whole[i] = old[i]
    BY <1>11, <1>13
  <2>4. \A j \in 1..Len(new) : whole[Len(old) + j] = new[j]
    BY <1>11, <1>12, <1>14
  <2>5. QED
    BY <2>1, <2>2, <2>3, <2>4, Joined
<1>16. QED
  BY <1>15 DEF whole, old, new, off

\* What is due of a file is what a caller of ReadData wants.
LEMMA WantedIsDue ==
  ASSUME NEW css \in BOOLEAN, NEW o \in Call, o.kind # "raw", NEW n \in Nat
  PROVE  Due(css, o, n) = Wanted(o.file, o.pos, n)
  BY DEF Due, DueText, Wanted, Base, StartOf

LEMMA RawIsDue ==
  ASSUME NEW css \in BOOLEAN, NEW o \in Call, o.kind = "raw", o.pos >= 0, NEW n \in Nat
  PROVE  Due(css, o, n) =
           [i \in 1..n |-> [sector |-> o.pos + (i - 1) \div SectorSize,
                            off    |-> (i - 1) % SectorSize,
                            text   |-> OnDisc(css, o.pos + (i - 1) \div SectorSize).text]]
<1>1. Base(o) = o.pos /\ StartOf(o) = 0
  BY DEF Base, StartOf
<1>2. ASSUME NEW i \in 1..n PROVE 0 + i - 1 = i - 1
  OBVIOUS
<1>3. \A s : DueText(css, o, s) = OnDisc(css, s).text
  BY DEF DueText
<1>4. Due(css, o, n) =
        [i \in 1..n |-> [sector |-> o.pos + (0 + i - 1) \div SectorSize,
                         off    |-> (0 + i - 1) % SectorSize,
                         text   |-> OnDisc(css, o.pos + (0 + i - 1) \div SectorSize).text]]
  BY <1>1, <1>3, Zenon DEF Due
<1>5. QED
  BY <1>2, <1>4

LEMMA SubSeqIs ==
  ASSUME NEW S, NEW s \in Seq(S), NEW m \in Nat, NEW n \in Nat, m + n <= Len(s)
  PROVE  /\ SubSeq(s, m + 1, m + n) \in Seq(S) /\ Len(SubSeq(s, m + 1, m + n)) = n
         /\ \A i \in 1..n : SubSeq(s, m + 1, m + n)[i] = s[m + i]
<1>1. Len(s) \in Nat
  BY SeqIs
<1>2. Len(SubSeq(s, m + 1, m + n)) = n
  BY <1>1
<1>3. \A i \in 1..n : SubSeq(s, m + 1, m + n)[i] = s[m + i]
  BY <1>1
<1>4. \A i \in (m + 1)..(m + n) : s[i] \in S
  BY <1>1, SeqIs
<1>5. SubSeq(s, m + 1, m + n) \in Seq(S)
  BY <1>1, <1>4
<1>6. QED
  BY <1>2, <1>3, <1>5

\* A part of a whole file is the part of it a read wants.
LEMMA PartOfFile ==
  ASSUME NEW f \in Files, NEW pos \in Nat, NEW n \in Nat, pos + n <= Dirlist[f].size
  PROVE  SubSeq(Wanted(f, 0, Dirlist[f].size), pos + 1, pos + n) = Wanted(f, pos, n)
<1> DEFINE W(p, l) == Wanted(f, p, l)
           size == Dirlist[f].size
<1>1. size \in Nat /\ Dirlist[f].lba \in Nat
  BY FileTypes
<1>2. ASSUME NEW p \in Nat, NEW l \in Nat
      PROVE  /\ W(p, l) \in Seq(Byte) /\ Len(W(p, l)) = l
             /\ \A i \in 1..l : W(p, l)[i] =
                  [sector |-> Dirlist[f].lba + (p + i - 1) \div SectorSize,
                   off    |-> (p + i - 1) % SectorSize, text |-> "clear"]
  <2>1. ASSUME NEW i \in 1..l
        PROVE  [sector |-> Dirlist[f].lba + (p + i - 1) \div SectorSize,
                off    |-> (p + i - 1) % SectorSize, text |-> "clear"] \in Byte
    <3>1. p + i - 1 \in Nat
      OBVIOUS
    <3>2. (p + i - 1) \div SectorSize \in Nat /\ (p + i - 1) % SectorSize \in Nat
      BY <3>1, SizeAssumption
    <3>3. QED
      BY <3>2, <1>1 DEF Byte, Texts
  <2>2. W(p, l) \in [1..l -> Byte]
    BY <2>1 DEF Wanted
  <2>3. QED
    BY <2>2, MakeSeq DEF Wanted
<1> DEFINE all == W(0, size)
           part == SubSeq(all, pos + 1, pos + n)
<1>3. all \in Seq(Byte) /\ Len(all) = size
  BY <1>1, <1>2
<1> HIDE DEF all
<1>4. /\ part \in Seq(Byte) /\ Len(part) = n
      /\ \A i \in 1..n : part[i] = all[pos + i]
  BY <1>1, <1>3, SubSeqIs
<1> HIDE DEF part
<1>5. ASSUME NEW i \in 1..n PROVE part[i] = W(pos, n)[i]
  <2>1. pos + i \in 1..size /\ 0 + (pos + i) - 1 = pos + i - 1
    BY <1>1, <1>5
  <2>2. all[pos + i] =
          [sector |-> Dirlist[f].lba + (0 + (pos + i) - 1) \div SectorSize,
           off    |-> (0 + (pos + i) - 1) % SectorSize, text |-> "clear"]
    BY <1>1, <1>2, <2>1 DEF all
  <2>3. W(pos, n)[i] =
          [sector |-> Dirlist[f].lba + (pos + i - 1) \div SectorSize,
           off    |-> (pos + i - 1) % SectorSize, text |-> "clear"]
    BY <1>2
  <2>4. QED
    BY <1>4, <2>1, <2>2, <2>3, Zenon
<1>6. W(pos, n) \in Seq(Byte) /\ Len(W(pos, n)) = n
  BY <1>2
<1>7. part = W(pos, n)
  BY <1>4, <1>5, <1>6, Same
<1>8. QED
  BY <1>7 DEF part, all

-----------------------------------------------------------------------------
(* Scrambled sectors *)

LEMMA DivLe ==
  ASSUME NEW a \in Int, NEW b \in Int, a <= b
  PROVE  a \div SectorSize <= b \div SectorSize
<1>0. SectorSize \in Nat \ {0}
  BY SizeAssumption
<1>1. PICK q \in Int, r \in 0..(SectorSize - 1) :
        q = a \div SectorSize /\ r = a % SectorSize /\ a = q * SectorSize + r
  BY DivMod
<1>2. PICK d \in Int, m \in 0..(SectorSize - 1) :
        d = b \div SectorSize /\ m = b % SectorSize /\ b = d * SectorSize + m
  BY DivMod
<1>3. q <= d
  <2> SUFFICES ASSUME d < q PROVE FALSE
    OBVIOUS
  <2>1. (d + 1) * SectorSize <= q * SectorSize
    BY <1>0, Ordered
  <2>2. (d + 1) * SectorSize = d * SectorSize + SectorSize
    BY <1>0
  <2>3. /\ m \in Int /\ m < SectorSize /\ r \in Int /\ r >= 0
        /\ d * SectorSize \in Int /\ q * SectorSize \in Int
    BY <1>0
  <2>4. q * SectorSize + r <= d * SectorSize + m
    BY <1>1, <1>2, Zenon
  <2>5. QED
    BY <1>0, <2>1, <2>2, <2>3, <2>4
<1>4. QED
  BY <1>1, <1>2, <1>3, Zenon

\* A read is at sectors of its file.
LEMMA OwnSector ==
  ASSUME NEW o \in Call, o.kind # "raw", o.file \in Files, o.pos >= 0, InPlace(o), Sensible(o)
  PROVE  o.sector \in SectorsOf(o.file)
<1> DEFINE size == Dirlist[o.file].size
           lba == Dirlist[o.file].lba
<1>1. size \in Nat /\ lba \in Nat
  BY FileTypes
<1>2. o.pos \in Nat /\ o.asked \in Nat /\ o.rem \in Nat /\ o.rem > 0 /\ o.rem <= o.asked
      /\ o.sector \in Nat
  BY DEF Call, InPlace
<1>3. At(o) = o.pos + (o.asked - o.rem) /\ Base(o) = lba
  BY DEF At, StartOf, Reached, Base
<1>4. o.pos + o.asked <= size
  BY DEF Sensible
<1>5. At(o) \in Nat /\ At(o) <= size - 1 /\ size - 1 \in Int
  BY <1>1, <1>2, <1>3, <1>4
<1>6. At(o) \div SectorSize <= (size - 1) \div SectorSize
  BY <1>5, DivLe
<1>7. At(o) \div SectorSize \in Nat /\ (size - 1) \div SectorSize \in Int
  BY <1>5, SizeAssumption
<1>8. o.sector = lba + At(o) \div SectorSize
  BY <1>3 DEF InPlace
<1>9. o.sector >= lba /\ o.sector <= lba + (size - 1) \div SectorSize
  BY <1>1, <1>6, <1>7, <1>8
<1>10. QED
  BY <1>1, <1>2, <1>7, <1>9 DEF SectorsOf

\* A file one of whose sectors is scrambled is scrambled, with its title's key.
LEMMA ScrambledFile ==
  ASSUME NEW f \in Files, NEW s \in SectorsOf(f), IsScrambled(s)
  PROVE  /\ Dirlist[f].scrambled /\ TitleOf(s) = Dirlist[f].title
         /\ Dirlist[f].title \in Nat /\ ~Dirlist[f].ifo
<1> DEFINE g == CHOOSE h \in Files : Dirlist[h].scrambled /\ s \in SectorsOf(h)
<1>1. g \in Files /\ Dirlist[g].scrambled /\ s \in SectorsOf(g)
  BY DEF IsScrambled
<1>2. TitleOf(s) = Dirlist[g].title
  BY DEF TitleOf
<1> HIDE DEF g
<1>3. SectorsOf(g) \cap SectorsOf(f) # {}
  BY <1>1
<1>4. Dirlist[f].scrambled /\ Dirlist[f].title = Dirlist[g].title
  BY <1>1, <1>3, LayoutAssumption
<1>5. Dirlist[f].title >= 0 /\ ~Dirlist[f].ifo
  BY <1>4, ScrambledAssumption DEF Files
<1>6. Dirlist[f].title \in Nat
  BY <1>5, FileTypes DEF NoTitle
<1>7. QED
  BY <1>2, <1>4, <1>5, <1>6

LEMMA OnDiscIs ==
  ASSUME NEW css \in BOOLEAN, NEW s \in Nat
  PROVE  /\ OnDisc(css, s) \in Content /\ OnDisc(css, s).of = s
         /\ OnDisc(css, s).text = IF css /\ IsScrambled(s) THEN "scrambled" ELSE "clear"
         /\ Clear(css, OnDisc(css, s))
<1>1. /\ OnDisc(css, s) \in Content /\ OnDisc(css, s).of = s
      /\ OnDisc(css, s).text = IF css /\ IsScrambled(s) THEN "scrambled" ELSE "clear"
  BY DEF OnDisc, Content, Texts
<1>2. QED
  BY <1>1 DEF Clear

LEMMA UnscrambleIs ==
  ASSUME NEW c \in Content, NEW k \in Nat \cup {NoTitle}
  PROVE  /\ Unscramble(k, c) \in Content /\ Unscramble(k, c).of = c.of
         /\ ~IsScrambled(c.of) => Unscramble(k, c) = c
         /\ IsScrambled(c.of) /\ c.text = "scrambled" /\ k + 1 \in DOMAIN TitleKeys
              /\ TitleKeys[k + 1] = TitleOf(c.of) => Unscramble(k, c).text = "clear"
  BY DEF Unscramble, Content, Texts

\* The key a file's sectors are unscrambled with.
FileKey(css, f) == IF css THEN Dirlist[f].title ELSE NoTitle

(* What a copy delivers of a sector that is held, with the file's key, is  *)
(* in the clear.                                                           *)
LEMMA Unscrambled ==
  ASSUME NEW css \in BOOLEAN, NEW o \in Call, o.kind # "raw", FromFile(o), InPlace(o),
         Sensible(o), NEW c \in Content, Held(css, c, o), Sure(o),
         NEW k, k = FileKey(css, o.file)
  PROVE  (IF k = NoTitle THEN c ELSE Unscramble(k, c)).text = "clear"
<1>1. o.file \in Files /\ o.pos >= 0 /\ o.sector \in Nat /\ (o.kind = "cache" => Dirlist[o.file].ifo)
  BY DEF FromFile, Call
<1>2. k \in Nat \cup {NoTitle}
  BY <1>1, FileTypes DEF FileKey
<1>3. c.of = o.sector /\ (c = OnDisc(css, o.sector) \/ (o.spoiled /\ css /\ IsScrambled(o.sector)))
  BY DEF Held
<1>4. CASE ~(css /\ IsScrambled(o.sector))
  <2>1. c.text = "clear"
    BY <1>1, <1>3, <1>4, OnDiscIs
  <2>2. ~css => k = NoTitle
    BY DEF FileKey
  <2>3. css => Unscramble(k, c) = c
    BY <1>2, <1>3, <1>4, UnscrambleIs
  <2>4. QED
    BY <2>1, <2>2, <2>3
<1>5. CASE css /\ IsScrambled(o.sector)
  <2>1. o.sector \in SectorsOf(o.file)
    BY <1>1, OwnSector
  <2>2. /\ Dirlist[o.file].scrambled /\ TitleOf(o.sector) = Dirlist[o.file].title
        /\ Dirlist[o.file].title \in Nat /\ ~Dirlist[o.file].ifo
    BY <1>1, <1>5, <2>1, ScrambledFile
  <2>3. KeyFits(o.file) /\ ~o.spoiled
    BY <1>1, <2>2 DEF Sure
  <2>4. c = OnDisc(css, o.sector)
    BY <1>3, <2>3
  <2>5. c.text = "scrambled"
    BY <1>1, <1>5, <2>4, OnDiscIs
  <2>6. k = Dirlist[o.file].title /\ k # NoTitle
    BY <1>5, <2>2 DEF FileKey, NoTitle
  <2>7. k + 1 \in DOMAIN TitleKeys /\ TitleKeys[k + 1] = TitleOf(c.of)
    BY <1>3, <2>2, <2>3, <2>6 DEF KeyFits
  <2>8. Unscramble(k, c).text = "clear"
    BY <1>2, <1>3, <1>5, <2>5, <2>7, UnscrambleIs
  <2>9. QED
    BY <2>6, <2>8
<1>6. QED
  BY <1>4, <1>5

-----------------------------------------------------------------------------
(* Steps *)

\* The session's reader is the thread that is in a read.
Session == \A t \in Threads : (Busy(t) /\ op[t].kind = "read") <=> session = t

Values ==
  /\ disc \in {"css", "plain", "image"}
  /\ session \in Threads \cup {NoThread}
  /\ handle \in [Threads -> Handle]
  /\ buf \in [sector : Nat, content : Content]
  /\ currKey \in Nat \cup {NoTitle}
  /\ cached \subseteq Files /\ entries \in Seq(Entry) /\ passes \in Nat
  /\ pc \in [Threads -> Labels]
  /\ op \in [Threads -> Call]
  /\ out \in [Threads -> Seq(Byte)]
  /\ looked \in [Threads -> Files \cup {0}]
  /\ calm \in [Threads -> BOOLEAN] /\ quiet \in BOOLEAN
  /\ calls \in 0..MaxCalls /\ faults \in 0..MaxFaults

LEMMA Typing == TypeOK <=> Values /\ Session
  BY DEF TypeOK, Values, Session

LEMMA Bytes ==
  ASSUME Values
  PROVE  /\ buf.sector \in Nat /\ buf.content \in Content
         /\ buf.content.of \in Nat /\ buf.content.text \in Texts
  BY DEF Values, Content

LEMMA CallIs ==
  ASSUME NEW o \in Call
  PROVE  /\ o.kind \in {"none", "read", "raw", "cache"} /\ o.file \in Files \cup {0}
         /\ o.pos \in Int /\ o.asked \in Nat /\ o.sector \in Nat /\ o.rem \in Nat
         /\ o.key \in Nat \cup {NoTitle} /\ o.found \in Nat /\ o.gen \in Nat
  BY DEF Call

LEMMA CallFlags ==
  ASSUME NEW o \in Call
  PROVE  o.cached \in BOOLEAN /\ o.spoiled \in BOOLEAN
  BY Zenon DEF Call

\* What a step of thread t leaves to the others.
Unseen(u) == pc'[u] = pc[u] /\ op'[u] = op[u] /\ out'[u] = out[u] /\ handle'[u] = handle[u]

\* The cache grows, or is freed.
EntriesKept ==
  \/ passes' = passes /\ \A i \in DOMAIN entries : i \in DOMAIN entries' /\ entries'[i] = entries[i]
  \/ passes' = passes + 1

LocalTo(u) == LocalAt(pc[u], op[u], out[u]) /\ Handled(u) /\ Found(u) /\ Keyed(u)

LEMMA FoundKept ==
  ASSUME Values, NEW u \in Threads, EntriesKept, Found(u), pc'[u] = pc[u], op'[u] = op[u]
  PROVE  Found(u)'
<1>1. passes \in Nat /\ op[u].gen \in Nat
  BY CallIs DEF Values
<1>2. CASE pc[u] # "serve"
  BY <1>2 DEF Found
<1>3. CASE passes' = passes + 1
  BY <1>1, <1>3 DEF Found
<1>4. CASE passes' = passes /\ \A i \in DOMAIN entries : i \in DOMAIN entries' /\ entries'[i] = entries[i]
  BY <1>1, <1>4 DEF Found
<1>5. QED
  BY <1>2, <1>3, <1>4 DEF EntriesKept

LEMMA OthersLocal ==
  ASSUME Values, Local, NEW u \in Threads, disc' = disc, Unseen(u), EntriesKept
  PROVE  LocalTo(u)'
<1>1. LocalTo(u)
  BY DEF Local, LocalTo
<1>2. LocalAt(pc'[u], op'[u], out'[u])
  BY <1>1, Zenon DEF LocalTo, Unseen
<1>3. Handled(u)'
  BY <1>1 DEF LocalTo, Unseen, Handled, Busy, KeyOf, Css
<1>4. Found(u)'
  BY <1>1, FoundKept DEF LocalTo, Unseen
<1>5. Keyed(u)'
  BY <1>1 DEF LocalTo, Unseen, Keyed, Css
<1>6. QED
  BY <1>2, <1>3, <1>4, <1>5 DEF LocalTo

\* A step of a call disturbs no call that is calm, for there is none.
LEMMA OthersCalm ==
  ASSUME Undisturbed, NEW t \in Threads, Busy(t), NEW u \in Threads \ {t},
         calm'[u] => calm[u], pc'[u] = pc[u]
  PROVE  Calm(u)'
<1>1. Calm(u)
  BY DEF Undisturbed
<1>2. ~(calm[u] /\ Busy(u))
  BY <1>1 DEF Calm, Alone
<1>3. QED
  BY <1>2 DEF Calm, Busy

LEMMA Complete ==
  ASSUME Values', Session', Cached', Quiet',
         \A u \in Threads : LocalTo(u)' /\ Calm(u)'
  PROVE  IsoInv'
<1>1. TypeOK'
  BY DEF TypeOK, Values, Session
<1>2. Local'
  BY DEF Local, LocalTo
<1>3. QED
  BY <1>1, <1>2 DEF IsoInv, Undisturbed

\* What is known of a call that is under way.
LEMMA InCall ==
  ASSUME IsoInv, NEW t \in Threads
  PROVE  /\ Values /\ Session /\ Local /\ Cached /\ Quiet /\ Undisturbed
         /\ op[t] \in Call /\ out[t] \in Seq(Byte) /\ pc[t] \in Labels
         /\ LocalAt(pc[t], op[t], out[t]) /\ Handled(t) /\ Found(t) /\ Keyed(t)
         /\ Calm(t) /\ Css \in BOOLEAN
<1>1. Values /\ Session /\ Local /\ Cached /\ Quiet /\ Undisturbed
  BY Typing DEF IsoInv
<1>2. Css \in BOOLEAN
  BY DEF Css
<1>3. QED
  BY <1>1, <1>2 DEF Values, Local, Undisturbed

LEMMA SessionKept ==
  ASSUME Session, NEW t \in Threads, session' = session,
         \A u \in Threads : op'[u].kind = op[u].kind /\ (Busy(u)' <=> Busy(u))
  PROVE  Session'
  BY DEF Session

\* Calls that are under way and that are not.
LEMMA BusyKept ==
  ASSUME NEW t \in Threads, Values, Busy(t), pc' = [pc EXCEPT ![t] = pc'[t]], pc'[t] # "idle"
  PROVE  \A u \in Threads : Busy(u)' <=> Busy(u)
<1> TAKE u \in Threads
<1>1. CASE u = t
  BY <1>1 DEF Busy
<1>2. CASE u # t
  <2>1. pc'[u] = pc[u]
    BY <1>2 DEF Values
  <2>2. QED
    BY <2>1 DEF Busy
<1>3. QED
  BY <1>1, <1>2

LEMMA CachedKept ==
  ASSUME Cached, disc' = disc, entries' = entries, Clear(Css, buf'.content)
  PROVE  Cached'
<1>1. Clear(Css, buf.content)'
  BY DEF Clear, Css
<1>2. (\A i \in DOMAIN entries : Full(entries[i]))'
  BY DEF Cached
<1>3. CacheSound'
  BY DEF Cached, CacheSound
<1>4. QED
  BY <1>1, <1>2, <1>3 DEF Cached

\* Whether the buffer is honest, by what no call has left to mark.
Marking(t) == pc[t] = "mark"
Single     == \A t, u \in Threads : Busy(t) /\ Busy(u) => t = u

\* While calls do not overlap, a step of one is a step of the only one.
LEMMA QuietStep ==
  ASSUME Quiet, NEW t \in Threads, Busy(t), quiet' => quiet,
         \A u \in Threads \ {t} : pc'[u] = pc[u],
         pc'[t] = "mark" => buf'.content.of = op'[t].sector,
         pc'[t] # "mark" => buf'.content.of = buf'.sector \/ ~quiet'
  PROVE  Quiet'
<1> SUFFICES ASSUME quiet'
             PROVE  /\ \A u, v \in Threads : (Busy(u) /\ Busy(v))' => u = v
                    /\ \A u \in Threads : pc'[u] = "mark" => buf'.content.of = op'[u].sector
                    /\ (\A u \in Threads : pc'[u] # "mark") => buf'.content.of = buf'.sector
  BY Zenon DEF Quiet, Honest
<1>1. \A u \in Threads \ {t} : pc[u] = "idle"
  BY DEF Quiet, Busy
<1>2. \A u \in Threads \ {t} : pc'[u] = "idle"
  BY <1>1
<1>3. \A u, v \in Threads : (Busy(u) /\ Busy(v))' => u = v
  BY <1>2 DEF Busy
<1>4. \A u \in Threads : pc'[u] = "mark" => buf'.content.of = op'[u].sector
  BY <1>2
<1>5. QED
  BY <1>3, <1>4

\* A step changes no other thread's call.
Steps(t) ==
  /\ pc' = [pc EXCEPT ![t] = pc'[t]] /\ op' = [op EXCEPT ![t] = op'[t]]
  /\ out' = [out EXCEPT ![t] = out'[t]] /\ handle' = [handle EXCEPT ![t] = handle'[t]]

LEMMA OthersStep ==
  ASSUME Values, Local, Undisturbed, NEW t \in Threads, Busy(t), disc' = disc, EntriesKept,
         Steps(t), \A u \in Threads \ {t} : calm'[u] = calm[u]
  PROVE  \A u \in Threads \ {t} : LocalTo(u)' /\ Calm(u)'
<1> TAKE u \in Threads \ {t}
<1>1. Unseen(u)
  BY DEF Unseen, Steps, Values
<1>2. LocalTo(u)'
  BY <1>1, OthersLocal
<1>3. calm'[u] => calm[u]
  OBVIOUS
<1>4. Calm(u)'
  BY <1>1, <1>3, OthersCalm DEF Unseen
<1>5. QED
  BY <1>2, <1>4

LEMMA FetchStep ==
  ASSUME IsoInv, NEW t \in Threads, Fetch(t)
  PROVE  IsoInv'
<1> DEFINE o == op[t]
<1>0. /\ Values /\ Session /\ Local /\ Cached /\ Quiet /\ Undisturbed
      /\ o \in Call /\ out[t] \in Seq(Byte) /\ pc[t] = "fetch"
      /\ LocalAt("fetch", o, out[t]) /\ Handled(t) /\ Found(t) /\ Keyed(t)
      /\ Calm(t) /\ Css \in BOOLEAN
  BY InCall DEF Fetch
<1>1. /\ disc' = disc /\ calls' = calls /\ handle' = handle /\ session' = session
      /\ currKey' = currKey /\ cached' = cached /\ entries' = entries /\ passes' = passes
      /\ op' = op /\ out' = out /\ looked' = looked
  BY DEF Fetch, Inside, cache
<1>2. Busy(t)
  BY <1>0 DEF Busy
<1>3. /\ ~o.cached /\ InPlace(o) /\ Len(out[t]) = Reached(o) /\ Sensible(o)
      /\ o.kind # "none" /\ (o.kind # "raw" => FromFile(o))
  BY <1>0 DEF LocalAt, Looping, Cacheful
<1>4. o.sector \in Nat
  BY <1>0 DEF Call
<1>5. /\ OnDisc(Css, o.sector) \in Content /\ OnDisc(Css, o.sector).of = o.sector
      /\ Clear(Css, OnDisc(Css, o.sector))
  BY <1>0, <1>4, OnDiscIs
<1>6. buf \in [sector : Nat, content : Content]
  BY <1>0 DEF Values
<1>7. \/ /\ ~Needed(t) /\ pc' = [pc EXCEPT ![t] = "test"] /\ buf' = buf
         /\ calm' = calm /\ quiet' = quiet /\ faults' = faults
      \/ /\ Needed(t) /\ buf' = [buf EXCEPT !.content = OnDisc(Css, o.sector)]
         /\ pc' = [pc EXCEPT ![t] = "mark"]
         /\ calm' = calm /\ quiet' = quiet /\ faults' = faults
      \/ /\ Needed(t) /\ faults' \in 0..MaxFaults
         /\ calm' = [calm EXCEPT ![t] = FALSE] /\ quiet' = FALSE
         /\ pc' = [pc EXCEPT ![t] = "mark"]
         /\ buf' = IF disc = "image" THEN [buf EXCEPT !.content = Nothing] ELSE buf
  <2>1. faults \in 0..MaxFaults /\ MaxFaults \in Nat
    BY <1>0, BoundAssumption DEF Values
  <2>2. faults < MaxFaults => faults + 1 \in 0..MaxFaults
    BY <2>1
  <2>3. QED
    BY <2>2 DEF Fetch, ghosts
<1>8. pc'[t] \in {"test", "mark"} /\ pc' = [pc EXCEPT ![t] = pc'[t]] /\ pc \in [Threads -> Labels]
  BY <1>0, <1>7 DEF Values
<1>9. Nothing \in Content /\ Nothing.of = 0 /\ Clear(Css, Nothing)
  BY DEF Nothing, Content, Texts, Clear
<1>10. Values'
  <2>1. pc' \in [Threads -> Labels]
    BY <1>8 DEF Labels
  <2>2. buf' \in [sector : Nat, content : Content]
    BY <1>5, <1>6, <1>7, <1>9
  <2>3. calm' \in [Threads -> BOOLEAN] /\ quiet' \in BOOLEAN
    BY <1>0, <1>7, Zenon DEF Values
  <2>4. faults' \in 0..MaxFaults
    BY <1>0, <1>7 DEF Values
  <2>5. QED
    BY <1>0, <1>1, <2>1, <2>2, <2>3, <2>4 DEF Values
<1>11. \A u \in Threads : Busy(u)' <=> Busy(u)
  BY <1>0, <1>2, <1>8, BusyKept
<1>12. Session'
  BY <1>0, <1>1, <1>11, SessionKept
<1>13. Clear(Css, buf'.content) /\ (calm'[t] => calm[t])
  <2>1. Clear(Css, buf.content)
    BY <1>0 DEF Cached
  <2>2. Clear(Css, buf'.content)
    BY <2>1, <1>5, <1>6, <1>7, <1>9
  <2>3. calm'[t] => calm[t]
    BY <1>0, <1>7 DEF Values
  <2>4. QED
    BY <2>2, <2>3
<1>14. Cached'
  BY <1>0, <1>1, <1>13, CachedKept
<1>15. Quiet'
  <2>1. pc'[t] = "mark" => buf'.content.of = op'[t].sector \/ ~quiet'
    BY <1>1, <1>5, <1>6, <1>7, <1>8
  <2>2. pc'[t] # "mark" => buf'.content.of = buf'.sector \/ ~quiet'
    <3> SUFFICES ASSUME pc'[t] # "mark", quiet' PROVE buf'.content.of = buf'.sector
      OBVIOUS
    <3>1. buf' = buf /\ quiet
      BY <1>0, <1>7 DEF Values
    <3>2. \A u \in Threads : pc[u] # "mark"
      BY <3>1, <1>0, <1>2 DEF Quiet, Busy
    <3>3. QED
      BY <3>1, <3>2, <1>0 DEF Quiet, Honest
  <2>3. \A u \in Threads \ {t} : pc'[u] = pc[u]
    BY <1>8
  <2>4. quiet' => quiet
    BY <1>7
  <2>5. CASE quiet'
    BY <2>1, <2>2, <2>3, <2>4, <2>5, <1>0, <1>2, QuietStep
  <2>6. CASE ~quiet'
    BY <2>6 DEF Quiet
  <2>7. QED
    BY <2>5, <2>6
<1>16. LocalTo(t)'
  <2>1. Len(out[t]) = Reached(o) /\ ~o.cached /\ InPlace(o)
    BY <1>3
  <2>2. pc'[t] = "test" => o.kind # "raw"
    BY <1>0, <1>7 DEF Needed, Values
  <2>3. LocalAt(pc'[t], op'[t], out'[t])
    BY <1>0, <1>1, <1>3, <1>8, <2>2 DEF LocalAt, Looping, Cacheful
  <2>4. Handled(t)'
    BY <1>0, <1>1, <1>11 DEF Handled, KeyOf, Css
  <2>5. Found(t)' /\ Keyed(t)'
    BY <1>0, <1>1, <1>8 DEF Found, Keyed, Css
  <2>6. QED
    BY <2>3, <2>4, <2>5 DEF LocalTo
<1>17. Calm(t)'
  <2> SUFFICES ASSUME calm'[t]
               PROVE  /\ Alone(t)' /\ (pc'[t] = "serve" => op'[t].gen = passes')
                      /\ CalmAt(Css', pc'[t], op'[t], out'[t], buf', currKey')
    BY DEF Calm
  <2>1. /\ Alone(t) /\ CalmAt(Css, "fetch", o, out[t], buf, currKey)
    BY <1>0, <1>2, <1>13 DEF Calm
  <2>2. Alone(t)'
    BY <2>1, <1>11 DEF Alone
  <2>3. Css' = Css
    BY <1>1 DEF Css
  <2>4. Held(Css, buf'.content, o)
    <3>1. CASE Needed(t)
      <4>1. buf'.content = OnDisc(Css, o.sector)
        BY <3>1, <1>0, <1>6, <1>7 DEF Values
      <4>2. QED
        BY <4>1, <1>5 DEF Held
    <3>2. CASE ~Needed(t)
      <4>1. o.kind # "raw" /\ o.sector = buf.sector /\ buf' = buf
        BY <3>2, <1>7 DEF Needed
      <4>2. QED
        BY <4>1, <2>1 DEF CalmAt
    <3>3. QED
      BY <3>1, <3>2
  <2>5. pc'[t] = "test" => buf'.sector = o.sector
    BY <1>0, <1>7 DEF Needed, Values
  <2>6. CalmAt(Css, pc'[t], o, out[t], buf', currKey)
    BY <2>1, <2>4, <2>5, <1>8 DEF CalmAt, Looping
  <2>7. QED
    BY <2>2, <2>3, <2>6, <1>1, <1>8
<1>18. \A u \in Threads \ {t} : LocalTo(u)' /\ Calm(u)'
  <2>1. \A u \in Threads \ {t} : calm'[u] = calm[u]
    BY <1>0, <1>7 DEF Values
  <2>2. EntriesKept
    BY <1>1 DEF EntriesKept
  <2>3. Steps(t)
    BY <1>0, <1>1, <1>8 DEF Steps, Values
  <2>4. QED
    BY <2>1, <2>2, <2>3, <1>0, <1>1, <1>2, OthersStep
<1>19. QED
  BY <1>10, <1>12, <1>14, <1>15, <1>16, <1>17, <1>18, Complete

LEMMA MarkStep ==
  ASSUME IsoInv, NEW t \in Threads, Mark(t)
  PROVE  IsoInv'
<1> DEFINE o == op[t]
<1>0. /\ Values /\ Session /\ Local /\ Cached /\ Quiet /\ Undisturbed
      /\ o \in Call /\ out[t] \in Seq(Byte) /\ pc[t] = "mark"
      /\ LocalAt("mark", o, out[t]) /\ Handled(t) /\ Found(t) /\ Keyed(t)
      /\ Calm(t) /\ Css \in BOOLEAN
  BY InCall DEF Mark
<1>1. /\ disc' = disc /\ calls' = calls /\ handle' = handle /\ session' = session
      /\ currKey' = currKey /\ cached' = cached /\ entries' = entries /\ passes' = passes
      /\ op' = op /\ out' = out /\ looked' = looked /\ calm' = calm /\ quiet' = quiet
      /\ faults' = faults
      /\ buf' = [buf EXCEPT !.sector = o.sector]
      /\ pc' = [pc EXCEPT ![t] = IF o.kind # "raw" THEN "test" ELSE "copy"]
  BY DEF Mark, Inside, cache, ghosts, Marked, Unscrambles
<1>2. Busy(t) /\ o.sector \in Nat
  BY <1>0 DEF Busy, Call
<1>3. buf'.sector = o.sector /\ buf'.content = buf.content
      /\ buf' \in [sector : Nat, content : Content]
  BY <1>0, <1>1, <1>2 DEF Values
<1>4. /\ pc'[t] = IF o.kind # "raw" THEN "test" ELSE "copy"
      /\ pc' = [pc EXCEPT ![t] = pc'[t]]
  BY <1>0, <1>1 DEF Values
<1>5. Values'
  <2>1. pc' \in [Threads -> Labels]
    BY <1>0, <1>4 DEF Values, Labels
  <2>2. QED
    BY <1>0, <1>1, <1>3, <2>1 DEF Values
<1>6. \A u \in Threads : Busy(u)' <=> Busy(u)
  BY <1>0, <1>2, <1>4, BusyKept
<1>7. Session'
  BY <1>0, <1>1, <1>6, SessionKept
<1>8. Cached'
  <2>1. Clear(Css, buf'.content)
    BY <1>0, <1>3 DEF Cached
  <2>2. QED
    BY <2>1, <1>0, <1>1, CachedKept
<1>9. Quiet'
  <2>1. quiet' => buf'.content.of = buf'.sector
    BY <1>0, <1>1, <1>3 DEF Quiet
  <2>2. pc'[t] # "mark" /\ \A u \in Threads \ {t} : pc'[u] = pc[u]
    BY <1>0, <1>4 DEF Values
  <2>3. CASE quiet'
    BY <2>1, <2>2, <2>3, <1>0, <1>1, <1>2, QuietStep
  <2>4. CASE ~quiet'
    BY <2>4 DEF Quiet
  <2>5. QED
    BY <2>3, <2>4
<1>10. LocalTo(t)'
  <2>1. LocalAt(pc'[t], op'[t], out'[t])
    BY <1>0, <1>1, <1>4 DEF LocalAt, Looping, Cacheful
  <2>2. Handled(t)'
    BY <1>0, <1>1, <1>6 DEF Handled, KeyOf, Css
  <2>3. Found(t)' /\ Keyed(t)'
    BY <1>0, <1>1, <1>4 DEF Found, Keyed, Css
  <2>4. QED
    BY <2>1, <2>2, <2>3 DEF LocalTo
<1>11. Calm(t)'
  <2> SUFFICES ASSUME calm'[t]
               PROVE  /\ Alone(t)' /\ (pc'[t] = "serve" => op'[t].gen = passes')
                      /\ CalmAt(Css', pc'[t], op'[t], out'[t], buf', currKey')
    BY DEF Calm
  <2>1. /\ Alone(t) /\ CalmAt(Css, "mark", o, out[t], buf, currKey)
    BY <1>0, <1>1, <1>2 DEF Calm
  <2>2. Alone(t)' /\ Css' = Css
    BY <2>1, <1>1, <1>6 DEF Alone, Css
  <2>3. o.kind = "raw" => o.key = NoTitle
    BY <1>0 DEF LocalAt
  <2>4. CalmAt(Css, pc'[t], o, out[t], buf', currKey)
    BY <2>1, <2>3, <1>3, <1>4 DEF CalmAt, Looping
  <2>5. QED
    BY <2>2, <2>4, <1>1, <1>4
<1>12. \A u \in Threads \ {t} : LocalTo(u)' /\ Calm(u)'
  <2>1. EntriesKept
    BY <1>1 DEF EntriesKept
  <2>2. Steps(t)
    BY <1>0, <1>1, <1>4 DEF Steps, Values
  <2>3. QED
    BY <2>1, <2>2, <1>0, <1>1, <1>2, OthersStep
<1>13. QED
  BY <1>5, <1>7, <1>8, <1>9, <1>10, <1>11, <1>12, Complete

\* A call that differs only in its key.
LEMMA KeyOnly ==
  ASSUME NEW o \in Call, NEW k \in Nat \cup {NoTitle}, NEW o2, o2 = [o EXCEPT !.key = k]
  PROVE  /\ o2 \in Call /\ o2.key = k
         /\ o2.kind = o.kind /\ o2.file = o.file /\ o2.pos = o.pos /\ o2.asked = o.asked
         /\ o2.sector = o.sector /\ o2.rem = o.rem /\ o2.cached = o.cached
         /\ o2.spoiled = o.spoiled /\ o2.gen = o.gen /\ o2.found = o.found
         /\ Base(o2) = Base(o) /\ StartOf(o2) = StartOf(o) /\ Reached(o2) = Reached(o)
         /\ First(o2) = First(o) /\ Last(o2) = Last(o)
<1>1. o2.key = k
  BY DEF Call
<1>2. /\ o2.kind = o.kind /\ o2.file = o.file /\ o2.pos = o.pos /\ o2.asked = o.asked
      /\ o2.sector = o.sector /\ o2.rem = o.rem /\ o2.cached = o.cached
      /\ o2.spoiled = o.spoiled /\ o2.gen = o.gen /\ o2.found = o.found
  BY DEF Call
<1>3. o2 \in Call
  BY DEF Call
<1>4. QED
  BY <1>1, <1>2, <1>3 DEF Base, StartOf, Reached, First, Last

LEMMA TestStep ==
  ASSUME IsoInv, NEW t \in Threads, Test(t)
  PROVE  IsoInv'
<1> DEFINE o == op[t]
           k == IF Css THEN currKey ELSE NoTitle
           o2 == [o EXCEPT !.key = k]
<1>0. /\ Values /\ Session /\ Local /\ Cached /\ Quiet /\ Undisturbed
      /\ o \in Call /\ out[t] \in Seq(Byte) /\ pc[t] = "test"
      /\ LocalAt("test", o, out[t]) /\ Handled(t) /\ Found(t) /\ Keyed(t)
      /\ Calm(t) /\ Css \in BOOLEAN
  BY InCall DEF Test
<1>1. /\ disc' = disc /\ calls' = calls /\ handle' = handle /\ session' = session
      /\ currKey' = currKey /\ cached' = cached /\ entries' = entries /\ passes' = passes
      /\ out' = out /\ looked' = looked /\ calm' = calm /\ quiet' = quiet
      /\ faults' = faults /\ buf' = buf
      /\ op' = [op EXCEPT ![t] = o2]
      /\ pc' = [pc EXCEPT ![t] = "copy"]
  BY DEF Test, Inside, cache, ghosts, shared
<1>2. Busy(t)
  BY <1>0 DEF Busy
<1>3. k \in Nat \cup {NoTitle}
  BY <1>0 DEF Values
<1>4. pc'[t] = "copy" /\ op'[t] = o2 /\ op' = [op EXCEPT ![t] = op'[t]]
      /\ pc' = [pc EXCEPT ![t] = pc'[t]]
  BY <1>0, <1>1 DEF Values
<1>5. /\ o2 \in Call /\ o2.key = k
      /\ o2.kind = o.kind /\ o2.file = o.file /\ o2.pos = o.pos /\ o2.asked = o.asked
      /\ o2.sector = o.sector /\ o2.rem = o.rem /\ o2.cached = o.cached
      /\ o2.spoiled = o.spoiled /\ o2.gen = o.gen /\ o2.found = o.found
      /\ Base(o2) = Base(o) /\ StartOf(o2) = StartOf(o) /\ Reached(o2) = Reached(o)
      /\ First(o2) = First(o) /\ Last(o2) = Last(o)
  <2>1. o2 = [o EXCEPT !.key = k]
    OBVIOUS
  <2> HIDE DEF o2, k, o
  <2>2. QED
    BY <2>1, <1>0, <1>3, KeyOnly
<1>6. /\ o.kind \in {"read", "cache"} /\ ~o.cached /\ InPlace(o) /\ Sensible(o) /\ FromFile(o)
      /\ Len(out[t]) = Reached(o)
  BY <1>0, CallIs DEF LocalAt, Looping, Cacheful
<1> HIDE DEF o2
<1>7. Values'
  <2>1. pc' \in [Threads -> Labels] /\ op' \in [Threads -> Call]
    BY <1>0, <1>1, <1>5 DEF Values, Labels
  <2>2. QED
    BY <1>0, <1>1, <2>1 DEF Values
<1>8. \A u \in Threads : Busy(u)' <=> Busy(u)
  BY <1>0, <1>2, <1>4, BusyKept
<1>9. \A u \in Threads : op'[u].kind = op[u].kind
  BY <1>0, <1>1, <1>5 DEF Values
<1>10. Session'
  BY <1>0, <1>1, <1>8, <1>9, SessionKept
<1>11. Cached'
  <2>1. Clear(Css, buf'.content)
    BY <1>0, <1>1 DEF Cached
  <2>2. QED
    BY <2>1, <1>0, <1>1, CachedKept
<1>12. Quiet'
  <2>1. quiet => buf.content.of = buf.sector
    BY <1>0, <1>2 DEF Quiet, Busy, Honest
  <2>2. pc'[t] # "mark" /\ \A u \in Threads \ {t} : pc'[u] = pc[u]
    BY <1>0, <1>4 DEF Values
  <2>3. QED
    BY <2>1, <2>2, <1>0, <1>1, <1>2, QuietStep
<1>13. LocalTo(t)'
  <2>1. InPlace(o2) /\ Sensible(o2) /\ FromFile(o2)
    BY <1>5, <1>6 DEF InPlace, Sensible, FromFile, At
  <2>2. LocalAt("copy", o2, out[t])
    BY <2>1, <1>5, <1>6 DEF LocalAt, Looping, Cacheful
  <2>3. LocalAt(pc'[t], op'[t], out'[t])
    BY <2>2, <1>1, <1>4
  <2>4. Handled(t)'
    BY <1>0, <1>1, <1>4, <1>5, <1>8 DEF Handled, KeyOf, Css
  <2>5. Found(t)' /\ Keyed(t)'
    BY <1>0, <1>1, <1>4, <1>5 DEF Found, Keyed, Css
  <2>6. QED
    BY <2>3, <2>4, <2>5 DEF LocalTo
<1>14. Calm(t)'
  <2> SUFFICES ASSUME calm'[t]
               PROVE  /\ Alone(t)' /\ (pc'[t] = "serve" => op'[t].gen = passes')
                      /\ CalmAt(Css', pc'[t], op'[t], out'[t], buf', currKey')
    BY DEF Calm
  <2>1. /\ Alone(t) /\ CalmAt(Css, "test", o, out[t], buf, currKey)
    BY <1>0, <1>1, <1>2 DEF Calm
  <2>2. Alone(t)' /\ Css' = Css
    BY <2>1, <1>1, <1>8 DEF Alone, Css
  <2>3. Css => currKey = Dirlist[o.file].title
    BY <2>1, <1>6 DEF CalmAt
  <2>4. Held(Css, buf.content, o2)
    BY <2>1, <1>5 DEF CalmAt, Held
  <2>5. Sure(o2) => out[t] = Due(Css, o2, Len(out[t]))
    <3>1. Sure(o) => out[t] = Due(Css, o, Len(out[t]))
      BY <2>1, <1>6 DEF CalmAt, Looping
    <3>2. Sure(o2) <=> Sure(o)
      BY <1>5 DEF Sure
    <3>3. Due(Css, o2, Len(out[t])) = Due(Css, o, Len(out[t]))
      BY <1>5, Zenon DEF Due, DueText
    <3>4. QED
      BY <3>1, <3>2, <3>3
  <2>6. buf.sector = o2.sector
    BY <2>1, <1>5 DEF CalmAt
  <2>7. CalmAt(Css, "copy", o2, out[t], buf, currKey)
    BY <2>3, <2>4, <2>5, <2>6, <1>5, <1>6 DEF CalmAt, Looping
  <2>8. QED
    BY <2>2, <2>7, <1>1, <1>4
<1>15. \A u \in Threads \ {t} : LocalTo(u)' /\ Calm(u)'
  <2>1. EntriesKept
    BY <1>1 DEF EntriesKept
  <2>2. Steps(t)
    BY <1>0, <1>1, <1>4 DEF Steps, Values
  <2>3. QED
    BY <2>1, <2>2, <1>0, <1>1, <1>2, OthersStep
<1>16. QED
  BY <1>7, <1>10, <1>11, <1>12, <1>13, <1>14, <1>15, Complete

LEMMA OnwardIs ==
  ASSUME NEW o \in Call, NEW n \in 0..o.rem, NEW o2,
         o2 = [o EXCEPT !.sector = @ + 1, !.rem = @ - n]
  PROVE  /\ o2 \in Call /\ Onward(o, o2, n)
         /\ o2.cached = o.cached /\ o2.spoiled = o.spoiled /\ o2.key = o.key
         /\ o2.gen = o.gen /\ o2.found = o.found
<1>1. o.sector + 1 \in Nat /\ o.rem - n \in Nat
  BY DEF Call
<1>2. /\ o2.kind = o.kind /\ o2.file = o.file /\ o2.pos = o.pos /\ o2.asked = o.asked
      /\ o2.cached = o.cached /\ o2.spoiled = o.spoiled /\ o2.key = o.key
      /\ o2.gen = o.gen /\ o2.found = o.found
  BY DEF Call
<1>3. o2.sector = o.sector + 1 /\ o2.rem = o.rem - n
  BY DEF Call
<1>4. o2 \in Call
  BY <1>1 DEF Call
<1>5. QED
  BY <1>2, <1>3, <1>4 DEF Onward

\* What an undisturbed copy copies is in the text its bytes are due in.
LEMMA CopiedText ==
  ASSUME NEW css \in BOOLEAN, NEW o \in Call, NEW b, NEW f, NEW key,
         LocalAt("copy", o, b), CalmAt(css, "copy", o, b, f, key), Sure(o),
         f.content \in Content, NEW k \in {o.key, key}
  PROVE  (IF o.key = NoTitle THEN f.content ELSE Unscramble(k, f.content)).text
           = DueText(css, o, o.sector)
<1>1. /\ ~o.cached /\ InPlace(o) /\ Sensible(o) /\ o.kind # "none"
      /\ (o.kind # "raw" => FromFile(o))
      /\ (o.kind = "raw" => o.key = NoTitle /\ ~o.spoiled)
  BY DEF LocalAt, Looping, Cacheful
<1>2. Held(css, f.content, o)
  BY DEF CalmAt
<1>3. CASE o.kind = "raw"
  <2>1. f.content = OnDisc(css, o.sector)
    BY <1>1, <1>2, <1>3 DEF Held
  <2>2. QED
    BY <2>1, <1>1, <1>3 DEF DueText
<1>4. CASE o.kind # "raw"
  <2>1. o.kind \in {"read", "cache"}
    BY <1>1, <1>4, CallIs
  <2>2. o.key = FileKey(css, o.file)
    BY <1>4 DEF CalmAt, FileKey
  <2>3. css => key = Dirlist[o.file].title
    BY <2>1 DEF CalmAt
  <2>4. o.key # NoTitle => k = FileKey(css, o.file)
    BY <2>2, <2>3 DEF FileKey
  <2>5. (IF o.key = NoTitle THEN f.content ELSE Unscramble(o.key, f.content)).text = "clear"
    BY <1>1, <1>2, <1>4, <2>2, Unscrambled
  <2>6. QED
    BY <2>2, <2>4, <2>5, <1>4 DEF DueText
<1>5. QED
  BY <1>3, <1>4

LEMMA CopyStep ==
  ASSUME IsoInv, NEW t \in Threads, Copy(t)
  PROVE  IsoInv'
<1> DEFINE o == op[t]
           off == OffsetIn(First(o), StartOf(o), o.sector)
           n == ToRead(First(o), StartOf(o), o.sector, o.rem)
           more == o.sector + 1 <= Last(o) /\ o.rem > n
           o2 == [o EXCEPT !.sector = @ + 1, !.rem = @ - n]
           C(k) == IF o.key = NoTitle THEN buf.content ELSE Unscramble(k, buf.content)
<1>0. /\ Values /\ Session /\ Local /\ Cached /\ Quiet /\ Undisturbed
      /\ o \in Call /\ out[t] \in Seq(Byte) /\ pc[t] = "copy"
      /\ LocalAt("copy", o, out[t]) /\ Handled(t) /\ Found(t) /\ Keyed(t)
      /\ Calm(t) /\ Css \in BOOLEAN
  BY InCall DEF Copy
<1>1. PICK k \in {o.key, currKey} :
        /\ buf' = [buf EXCEPT !.content = C(k)]
        /\ out' = [out EXCEPT ![t] = @ \o Slice(C(k), off, n)]
        /\ op' = [op EXCEPT ![t].sector = @ + 1, ![t].rem = @ - n]
        /\ pc' = [pc EXCEPT ![t] = IF more THEN "fetch" ELSE "return"]
  BY Zenon DEF Copy
<1>2. /\ disc' = disc /\ calls' = calls /\ handle' = handle /\ session' = session
      /\ currKey' = currKey /\ cached' = cached /\ entries' = entries /\ passes' = passes
      /\ looked' = looked /\ calm' = calm /\ quiet' = quiet /\ faults' = faults
  BY DEF Copy, Inside, cache, ghosts
<1>3. Busy(t)
  BY <1>0 DEF Busy
<1>4. /\ ~o.cached /\ InPlace(o) /\ Sensible(o) /\ o.kind # "none"
      /\ Len(out[t]) = Reached(o)
      /\ (o.kind # "raw" => FromFile(o)) /\ o.pos >= 0
      /\ (o.kind # "raw" => o.file \in Files)
  BY <1>0 DEF LocalAt, Looping, Cacheful, FromFile
<1>5. /\ off \in 0..(SectorSize - 1) /\ n \in 1..o.rem
  BY <1>0, <1>4, Copied
<1>6. n \in Nat /\ n \in 0..o.rem /\ off \in Nat /\ o.rem \in Nat /\ o.sector \in Nat
  BY <1>0, <1>5, SizeAssumption, CallIs
<1> DEFINE c == C(k)
<1>7. /\ c \in Content /\ c.of = buf.content.of /\ Clear(Css, c)
  <2>1. buf.content \in Content /\ currKey \in Nat \cup {NoTitle} /\ o.key \in Nat \cup {NoTitle}
    BY <1>0, Bytes, CallIs DEF Values
  <2>2. Clear(Css, buf.content)
    BY <1>0 DEF Cached
  <2>3. o.key # NoTitle => Css
    BY <1>0 DEF Keyed
  <2>4. k \in Nat \cup {NoTitle}
    BY <2>1
  <2>5. /\ Unscramble(k, buf.content) \in Content
        /\ Unscramble(k, buf.content).of = buf.content.of
        /\ ~IsScrambled(buf.content.of) => Unscramble(k, buf.content) = buf.content
    BY <2>1, <2>4, UnscrambleIs
  <2>6. CASE o.key = NoTitle
    BY <2>1, <2>2, <2>6
  <2>7. CASE o.key # NoTitle
    <3>1. c = Unscramble(k, buf.content) /\ Css
      BY <2>3, <2>7
    <3>2. Clear(Css, c)
      BY <3>1, <2>2, <2>5 DEF Clear
    <3>3. QED
      BY <3>1, <3>2, <2>5
  <2>8. QED
    BY <2>6, <2>7
<1> HIDE DEF c, C
<1>8. /\ buf' = [buf EXCEPT !.content = c]
      /\ buf'.content = c /\ buf'.sector = buf.sector
      /\ buf' \in [sector : Nat, content : Content]
  BY <1>0, <1>1, <1>7 DEF Values, c
<1>9. /\ out'[t] = out[t] \o Slice(c, off, n) /\ out' = [out EXCEPT ![t] = out'[t]]
      /\ out'[t] \in Seq(Byte) /\ Len(out'[t]) = Reached(o) + n
  <2>1. out'[t] = out[t] \o Slice(c, off, n) /\ out' = [out EXCEPT ![t] = out'[t]]
    BY <1>0, <1>1 DEF Values, c
  <2>2. Slice(c, off, n) \in Seq(Byte) /\ Len(Slice(c, off, n)) = n
    BY <1>6, <1>7, SliceIs
  <2> DEFINE new == Slice(c, off, n)
  <2> HIDE DEF new
  <2>3. out[t] \in Seq(Byte) /\ new \in Seq(Byte) /\ Len(new) = n
    BY <2>2, <1>0 DEF new
  <2>4. out[t] \o new \in Seq(Byte) /\ Len(out[t] \o new) = Len(out[t]) + Len(new)
    BY <2>3, Concats, ZenonT(40)
  <2>5. out'[t] = out[t] \o new
    BY <2>1 DEF new
  <2>6. out'[t] \in Seq(Byte)
    BY <2>4, <2>5, Zenon
  <2>7. Len(out'[t]) = Reached(o) + n
    BY <2>3, <2>4, <2>5, <1>4, Zenon
  <2>8. QED
    BY <2>1, <2>6, <2>7, Zenon
<1>10. /\ op'[t] = o2 /\ op' = [op EXCEPT ![t] = op'[t]]
  BY <1>0, <1>1 DEF Values
<1>11. /\ pc'[t] = (IF more THEN "fetch" ELSE "return") /\ pc' = [pc EXCEPT ![t] = pc'[t]]
  BY <1>0, <1>1 DEF Values
<1>12. /\ o2 \in Call /\ Onward(o, o2, n)
       /\ o2.cached = o.cached /\ o2.spoiled = o.spoiled /\ o2.key = o.key
       /\ o2.gen = o.gen /\ o2.found = o.found
  <2>1. o2 = [o EXCEPT !.sector = @ + 1, !.rem = @ - n]
    OBVIOUS
  <2> HIDE DEF o2, n, o
  <2>2. QED
    BY <2>1, <1>0, <1>6, OnwardIs, ZenonT(40)
<1> HIDE DEF o2
<1>13. /\ Base(o2) = Base(o) /\ StartOf(o2) = StartOf(o) /\ First(o2) = First(o)
       /\ Reached(o2) = Reached(o) + n
  BY <1>0, <1>6, <1>12, SameRead
<1>14. pc'[t] \in {"fetch", "return"}
  BY <1>11
<1>15. Values'
  <2>1. pc' \in [Threads -> Labels] /\ op' \in [Threads -> Call] /\ out' \in [Threads -> Seq(Byte)]
    BY <1>0, <1>9, <1>10, <1>11, <1>12, <1>14, ZenonT(40) DEF Values, Labels
  <2>2. QED
    BY <1>0, <1>2, <1>8, <2>1 DEF Values
<1>16. \A u \in Threads : Busy(u)' <=> Busy(u)
  BY <1>0, <1>3, <1>11, <1>14, BusyKept
<1>17. \A u \in Threads : op'[u].kind = op[u].kind
  BY <1>0, <1>10, <1>12 DEF Values, Onward
<1>18. Session'
  BY <1>0, <1>2, <1>16, <1>17, SessionKept
<1>19. Cached'
  BY <1>0, <1>2, <1>7, <1>8, CachedKept
<1>20. Quiet'
  <2>1. quiet => buf.content.of = buf.sector
    BY <1>0, <1>3 DEF Quiet, Busy, Honest
  <2>2. pc'[t] # "mark" /\ \A u \in Threads \ {t} : pc'[u] = pc[u]
    BY <1>0, <1>11, <1>14 DEF Values
  <2>3. quiet' => buf'.content.of = buf'.sector
    BY <2>1, <1>2, <1>7, <1>8
  <2>4. QED
    BY <2>2, <2>3, <1>0, <1>2, <1>3, QuietStep
<1>21. LocalTo(t)'
  <2>1. Sensible(o2) /\ (o2.kind # "raw" => FromFile(o2)) /\ ~o2.cached /\ o2.kind # "none"
        /\ (o2.kind = "raw" => o2.pos >= 0 /\ o2.key = NoTitle /\ ~o2.spoiled)
    BY <1>0, <1>4, <1>12 DEF Onward, Sensible, FromFile, LocalAt
  <2>2. ASSUME more PROVE LocalAt(pc'[t], op'[t], out'[t])
    <3>1. InPlace(o2)
      BY <2>2, <1>0, <1>4, <1>12, GoesOn
    <3>2. LocalAt("fetch", o2, out'[t])
      BY <2>1, <3>1, <1>9, <1>13 DEF LocalAt, Looping, Cacheful
    <3>3. pc'[t] = "fetch"
      BY <2>2, <1>11, Zenon
    <3>4. QED
      BY <3>2, <3>3, <1>10, Zenon
  <2>3. ASSUME ~more PROVE LocalAt(pc'[t], op'[t], out'[t])
    <3>1. /\ Reached(o2) <= o2.asked
          /\ Reached(o2) = o2.asked <=> o2.kind = "raw" \/ Covered(o2.pos, o2.asked)
      BY <2>3, <1>0, <1>4, <1>12, Ends
    <3>2. LocalAt("return", o2, out'[t])
      BY <2>1, <3>1, <1>9, <1>13 DEF LocalAt, Looping, Cacheful
    <3>3. pc'[t] = "return"
      BY <2>3, <1>11, Zenon
    <3>4. QED
      BY <3>2, <3>3, <1>10, Zenon
  <2>4. LocalAt(pc'[t], op'[t], out'[t])
    BY <2>2, <2>3, Zenon
  <2>5. Handled(t)'
    BY <1>0, <1>2, <1>10, <1>12, <1>16 DEF Handled, KeyOf, Css, Onward
  <2>6. Found(t)' /\ Keyed(t)'
    BY <1>0, <1>2, <1>10, <1>12, <1>14 DEF Found, Keyed, Css
  <2>7. QED
    BY <2>4, <2>5, <2>6 DEF LocalTo
<1>22. Calm(t)'
  <2> SUFFICES ASSUME calm'[t]
               PROVE  /\ Alone(t)' /\ (pc'[t] = "serve" => op'[t].gen = passes')
                      /\ CalmAt(Css', pc'[t], op'[t], out'[t], buf', currKey')
    BY DEF Calm
  <2>1. /\ Alone(t) /\ CalmAt(Css, "copy", o, out[t], buf, currKey)
    BY <1>0, <1>2, <1>3 DEF Calm
  <2>2. Alone(t)' /\ Css' = Css
    BY <2>1, <1>2, <1>16 DEF Alone, Css
  <2>3. Css /\ o2.kind \in {"read", "cache"} => currKey = Dirlist[o2.file].title
    BY <2>1, <1>12 DEF CalmAt, Onward
  <2>4. buf'.sector # o2.sector
    <3>1. buf.sector = o.sector /\ o2.sector = o.sector + 1
      BY <2>1, <1>12 DEF CalmAt, Onward
    <3>2. QED
      BY <3>1, <1>6, <1>8
  <2>5. ASSUME Sure(o2) PROVE out'[t] = Due(Css, o2, Len(out'[t]))
    <3>1. Sure(o)
      BY <2>5, <1>12 DEF Sure, Onward
    <3>2. out[t] = Due(Css, o, Reached(o))
      BY <2>1, <3>1, <1>4 DEF CalmAt, Looping
    <3>3. buf.content \in Content
      BY <1>0, Bytes
    <3>4. c.text = DueText(Css, o, o.sector)
      BY <2>1, <3>1, <3>3, <1>0, CopiedText DEF c, C
    <3>5. c.of = o.sector
      BY <2>1, <1>7 DEF CalmAt, Held
    <3>6. Due(Css, o2, Reached(o) + n) = Due(Css, o, Reached(o)) \o Slice(c, off, n)
      BY <3>4, <3>5, <1>0, <1>4, <1>7, <1>12, DueNext, ZenonT(40)
    <3>7. QED
      BY <3>2, <3>6, <1>9
  <2>6. CalmAt(Css, pc'[t], o2, out'[t], buf', currKey)
    BY <2>3, <2>4, <2>5, <1>4, <1>12, <1>14 DEF CalmAt, Looping
  <2>7. QED
    BY <2>2, <2>6, <1>2, <1>10, <1>14
<1>23. \A u \in Threads \ {t} : LocalTo(u)' /\ Calm(u)'
  <2>1. EntriesKept
    BY <1>2 DEF EntriesKept
  <2>2. Steps(t)
    BY <1>0, <1>2, <1>9, <1>10, <1>11 DEF Steps, Values
  <2>3. QED
    BY <2>1, <2>2, <1>0, <1>2, <1>3, OthersStep
<1>24. QED
  BY <1>15, <1>18, <1>19, <1>20, <1>21, <1>22, <1>23, Complete

LEMMA LeastIs ==
  ASSUME NEW M, M \subseteq Nat, M # {}
  PROVE  \E m \in M : \A k \in M : m <= k
<1> DEFINE R == {ss \in Nat \X Nat : ss[1] < ss[2]}
<1>1. IsWellFoundedOn(R, Nat)
  BY NatLessThanWellFounded, Zenon DEF OpToRel
<1> HIDE DEF R
<1>2. PICK m \in M : \A k \in M : ~(<<k, m>> \in R)
  BY <1>1, WFMin
<1>3. ASSUME NEW k \in M, k < m PROVE FALSE
  <2>1. <<k, m>> \in R
    BY <1>3 DEF R
  <2>2. QED
    BY <2>1, <1>2
<1>4. m \in Nat /\ \A k \in M : k \in Nat
  OBVIOUS
<1>5. QED
  BY <1>3, <1>4

\* get_ifo_data finds an entry of the file, or none.
LEMMA EntryIs ==
  ASSUME entries \in Seq(Entry), NEW f
  PROVE  \/ EntryOf(f) = 0
         \/ EntryOf(f) \in DOMAIN entries /\ EntryOf(f) \in Nat \ {0}
              /\ entries[EntryOf(f)].file = f
<1> DEFINE M == {i \in DOMAIN entries : entries[i].file = f}
<1>1. DOMAIN entries = 1..Len(entries) /\ Len(entries) \in Nat
  BY SeqIs
<1>2. CASE M = {}
  BY <1>2 DEF EntryOf
<1>3. CASE M # {}
  <2>1. M \subseteq Nat
    BY <1>1
  <2>2. PICK m \in M : \A k \in M : m <= k
    BY <2>1, <1>3, LeastIs
  <2>3. \A j \in 1..(m - 1) : entries[j].file # f
    <3>1. SUFFICES ASSUME NEW j \in 1..(m - 1), entries[j].file = f PROVE FALSE
      OBVIOUS
    <3>2. j \in M /\ j < m /\ m \in Nat
      BY <1>1, <2>2, <3>1
    <3>3. QED
      BY <2>2, <3>2
  <2>4. \E i \in DOMAIN entries : entries[i].file = f /\ \A j \in 1..(i - 1) : entries[j].file # f
    BY <2>2, <2>3
  <2>5. \E i \in DOMAIN entries : entries[i].file = f
    BY <1>3
  <2>6. EntryOf(f) = CHOOSE i \in DOMAIN entries :
                       entries[i].file = f /\ \A j \in 1..(i - 1) : entries[j].file # f
    BY <2>5, Zenon DEF EntryOf
  <2>7. EntryOf(f) \in DOMAIN entries /\ entries[EntryOf(f)].file = f
    BY <2>4, <2>6
  <2>8. QED
    BY <2>7, <1>1
<1>4. QED
  BY <1>2, <1>3

LEMMA LookupStep ==
  ASSUME IsoInv, NEW t \in Threads, Lookup(t)
  PROVE  IsoInv'
<1> DEFINE o == op[t]
           i == EntryOf(o.file)
           s == IF i = 0 THEN TRUE ELSE ~entries[i].sound
           o2 == [o EXCEPT !.found = i, !.gen = passes, !.spoiled = s]
<1>0. /\ Values /\ Session /\ Local /\ Cached /\ Quiet /\ Undisturbed
      /\ o \in Call /\ out[t] \in Seq(Byte) /\ pc[t] = "lookup"
      /\ LocalAt("lookup", o, out[t]) /\ Handled(t) /\ Found(t) /\ Keyed(t)
      /\ Calm(t) /\ Css \in BOOLEAN
  BY InCall DEF Lookup
<1>1. /\ disc' = disc /\ calls' = calls /\ handle' = handle /\ session' = session
      /\ currKey' = currKey /\ cached' = cached /\ entries' = entries /\ passes' = passes
      /\ out' = out /\ looked' = looked /\ calm' = calm /\ quiet' = quiet
      /\ faults' = faults /\ buf' = buf
      /\ op' = [op EXCEPT ![t].found = i, ![t].gen = passes, ![t].spoiled = s]
      /\ pc' = [pc EXCEPT ![t] = IF i = 0 THEN "return" ELSE "serve"]
  BY DEF Lookup, Inside, cache, ghosts, shared
<1>2. Busy(t)
  BY <1>0 DEF Busy
<1>3. entries \in Seq(Entry) /\ passes \in Nat
  BY <1>0 DEF Values
<1>4. i = 0 \/ (i \in DOMAIN entries /\ i \in Nat \ {0} /\ entries[i].file = o.file)
  BY <1>3, EntryIs
<1>5. i \in Nat
  BY <1>4
<1>6. s \in BOOLEAN
  OBVIOUS
<1>7. /\ pc'[t] = (IF i = 0 THEN "return" ELSE "serve") /\ op'[t] = o2
      /\ op' = [op EXCEPT ![t] = op'[t]] /\ pc' = [pc EXCEPT ![t] = pc'[t]]
  BY <1>0, <1>1 DEF Values
<1>8. /\ o2 \in Call /\ o2.found = i /\ o2.gen = passes /\ o2.spoiled = s
      /\ o2.kind = o.kind /\ o2.file = o.file /\ o2.pos = o.pos /\ o2.asked = o.asked
      /\ o2.key = o.key /\ o2.cached = o.cached
  <2>1. o2 = [o EXCEPT !.found = i, !.gen = passes, !.spoiled = s]
    OBVIOUS
  <2>2. o \in Call /\ i \in Nat /\ passes \in Nat /\ s \in BOOLEAN
    BY <1>0, <1>3, <1>5, <1>6
  <2> HIDE DEF o2, i, s, o
  <2>3. o2 \in Call
    BY <2>1, <2>2 DEF Call
  <2>4. o2.found = i /\ o2.gen = passes /\ o2.spoiled = s
    BY <2>1, <2>2 DEF Call
  <2>5. /\ o2.kind = o.kind /\ o2.file = o.file /\ o2.pos = o.pos /\ o2.asked = o.asked
        /\ o2.key = o.key /\ o2.cached = o.cached
    BY <2>1, <2>2 DEF Call
  <2>6. QED
    BY <2>3, <2>4, <2>5
<1>9. /\ o.kind \in {"read", "cache"} /\ o.cached /\ Sensible(o) /\ FromFile(o)
      /\ out[t] = <<>> /\ o.asked \in Nat
  BY <1>0, CallIs DEF LocalAt, Looping, Cacheful
<1> HIDE DEF o2, i, s
<1>10. pc'[t] \in {"return", "serve"} /\ (pc'[t] = "return" <=> i = 0)
  BY <1>7
<1>11. Values'
  <2>1. pc' \in [Threads -> Labels] /\ op' \in [Threads -> Call]
    BY <1>0, <1>7, <1>8, <1>10, ZenonT(40) DEF Values, Labels
  <2>2. QED
    BY <1>0, <1>1, <2>1 DEF Values
<1>12. \A u \in Threads : Busy(u)' <=> Busy(u)
  BY <1>0, <1>2, <1>7, <1>10, BusyKept
<1>13. \A u \in Threads : op'[u].kind = op[u].kind
  BY <1>0, <1>7, <1>8 DEF Values
<1>14. Session'
  BY <1>0, <1>1, <1>12, <1>13, SessionKept
<1>15. Cached'
  <2>1. Clear(Css, buf'.content)
    BY <1>0, <1>1 DEF Cached
  <2>2. QED
    BY <2>1, <1>0, <1>1, CachedKept
<1>16. Quiet'
  <2>1. quiet => buf.content.of = buf.sector
    BY <1>0, <1>2 DEF Quiet, Busy, Honest
  <2>2. pc'[t] # "mark" /\ \A u \in Threads \ {t} : pc'[u] = pc[u]
    BY <1>0, <1>7, <1>10 DEF Values
  <2>3. QED
    BY <2>1, <2>2, <1>0, <1>1, <1>2, QuietStep
<1>17. LocalTo(t)'
  <2>1. Sensible(o2) /\ FromFile(o2) /\ o2.cached /\ o2.kind \in {"read", "cache"}
    BY <1>8, <1>9 DEF Sensible, FromFile
  <2>2. Len(out[t]) = 0
    BY <1>9
  <2>3. LocalAt(pc'[t], o2, out[t])
    BY <2>1, <2>2, <1>8, <1>9, <1>10 DEF LocalAt, Looping, Cacheful
  <2>4. LocalAt(pc'[t], op'[t], out'[t])
    BY <2>3, <1>1, <1>7
  <2>5. Handled(t)'
    BY <1>0, <1>1, <1>7, <1>8, <1>12 DEF Handled, KeyOf, Css
  <2>6. Keyed(t)'
    BY <1>0, <1>1, <1>7, <1>8 DEF Keyed, Css
  <2>7. Found(t)'
    <3>1. pc'[t] = "serve" => i # 0
      BY <1>10
    <3>2. passes <= passes
      BY <1>3
    <3>3. i # 0 => s = ~entries[i].sound
      BY DEF s
    <3>4. QED
      BY <3>1, <3>2, <3>3, <1>1, <1>4, <1>7, <1>8 DEF Found
  <2>8. QED
    BY <2>4, <2>5, <2>6, <2>7 DEF LocalTo
<1>18. Calm(t)'
  <2> SUFFICES ASSUME calm'[t]
               PROVE  /\ Alone(t)' /\ (pc'[t] = "serve" => op'[t].gen = passes')
                      /\ CalmAt(Css', pc'[t], op'[t], out'[t], buf', currKey')
    BY DEF Calm
  <2>1. /\ Alone(t) /\ CalmAt(Css, "lookup", o, out[t], buf, currKey)
    BY <1>0, <1>1, <1>2 DEF Calm
  <2>2. Alone(t)' /\ Css' = Css
    BY <2>1, <1>1, <1>12 DEF Alone, Css
  <2>3. Css => currKey = Dirlist[o.file].title
    BY <2>1, <1>9 DEF CalmAt
  <2>4. i = 0 => s
    BY DEF s
  <2>5. CalmAt(Css, pc'[t], o2, out[t], buf, currKey)
    BY <2>3, <2>4, <1>8, <1>9, <1>10 DEF CalmAt, Looping
  <2>6. QED
    BY <2>2, <2>5, <1>1, <1>7, <1>8
<1>19. \A u \in Threads \ {t} : LocalTo(u)' /\ Calm(u)'
  <2>1. EntriesKept
    BY <1>1 DEF EntriesKept
  <2>2. Steps(t)
    BY <1>0, <1>1, <1>7 DEF Steps, Values
  <2>3. QED
    BY <2>1, <2>2, <1>0, <1>1, <1>2, OthersStep
<1>20. QED
  BY <1>11, <1>14, <1>15, <1>16, <1>17, <1>18, <1>19, Complete

LEMMA ServeStep ==
  ASSUME IsoInv, NEW t \in Threads, Serve(t)
  PROVE  IsoInv'
<1> DEFINE o == op[t]
           e == entries[o.found]
           b == IF o.gen = passes THEN ServedFrom(t) ELSE [j \in 1..o.asked |-> NoByte]
<1>0. /\ Values /\ Session /\ Local /\ Cached /\ Quiet /\ Undisturbed
      /\ o \in Call /\ out[t] \in Seq(Byte) /\ pc[t] = "serve"
      /\ LocalAt("serve", o, out[t]) /\ Handled(t) /\ Found(t) /\ Keyed(t)
      /\ Calm(t) /\ Css \in BOOLEAN
  BY InCall DEF Serve
<1>1. /\ disc' = disc /\ calls' = calls /\ handle' = handle /\ session' = session
      /\ currKey' = currKey /\ cached' = cached /\ entries' = entries /\ passes' = passes
      /\ op' = op /\ looked' = looked /\ calm' = calm /\ quiet' = quiet
      /\ faults' = faults /\ buf' = buf
      /\ out' = [out EXCEPT ![t] = b]
      /\ pc' = [pc EXCEPT ![t] = "return"]
  BY DEF Serve, Inside, cache, ghosts, shared
<1>2. Busy(t)
  BY <1>0 DEF Busy
<1>3. /\ pc'[t] = "return" /\ out'[t] = b
      /\ out' = [out EXCEPT ![t] = out'[t]] /\ pc' = [pc EXCEPT ![t] = pc'[t]]
  BY <1>0, <1>1 DEF Values
<1>4. /\ o.kind \in {"read", "cache"} /\ o.cached /\ Sensible(o) /\ FromFile(o)
      /\ o.asked \in Nat /\ o.pos \in Nat /\ o.file \in Files
      /\ o.pos + o.asked <= Dirlist[o.file].size
  BY <1>0, CallIs DEF LocalAt, Looping, Cacheful, Sensible, FromFile
<1>5. ASSUME o.gen = passes
      PROVE  /\ o.found \in DOMAIN entries /\ e.file = o.file /\ o.spoiled = ~e.sound
             /\ e.bytes \in Seq(Byte) /\ Len(e.bytes) = Dirlist[o.file].size
             /\ e.sound /\ KeyFits(o.file) => e.bytes = Wanted(o.file, 0, Dirlist[o.file].size)
  <2>1. o.found \in DOMAIN entries /\ e.file = o.file /\ o.spoiled = ~e.sound
    BY <1>0, <1>5 DEF Found
  <2>2. e \in Entry
    BY <2>1, <1>0, SeqIs DEF Values
  <2>3. e.bytes \in Seq(Byte)
    BY <2>2 DEF Entry
  <2>4. Len(e.bytes) = Dirlist[o.file].size
    BY <2>1, <1>0 DEF Cached, Full
  <2>5. e.sound /\ KeyFits(o.file) => e.bytes = Wanted(o.file, 0, Dirlist[o.file].size)
    BY <2>1, <1>0 DEF Cached, CacheSound
  <2>6. QED
    BY <2>1, <2>3, <2>4, <2>5
<1>6. b \in Seq(Byte) /\ Len(b) = o.asked
  <2>1. CASE o.gen = passes
    <3>1. b = SubSeq(e.bytes, o.pos + 1, o.pos + o.asked)
      BY <2>1 DEF ServedFrom
    <3>2. e.bytes \in Seq(Byte) /\ o.pos + o.asked <= Len(e.bytes)
      BY <2>1, <1>4, <1>5
    <3>3. /\ SubSeq(e.bytes, o.pos + 1, o.pos + o.asked) \in Seq(Byte)
          /\ Len(SubSeq(e.bytes, o.pos + 1, o.pos + o.asked)) = o.asked
      <4> HIDE DEF e, o
      <4>1. QED
        BY <3>2, <1>4, SubSeqIs, SMTT(30)
    <3>4. QED
      BY <3>1, <3>3, Zenon
  <2>2. CASE o.gen # passes
    <3>1. NoByte \in Byte
      BY DEF NoByte, Byte, Texts
    <3>2. [j \in 1..o.asked |-> NoByte] \in [1..o.asked -> Byte]
      BY <3>1
    <3>3. QED
      BY <2>2, <3>2, <1>4, MakeSeq
  <2>3. QED
    BY <2>1, <2>2
<1>7. ASSUME o.gen = passes, ~o.spoiled, KeyFits(o.file)
      PROVE  b = Due(Css, o, Len(b))
  <2>1. b = SubSeq(e.bytes, o.pos + 1, o.pos + o.asked)
    BY <1>7 DEF ServedFrom
  <2>2. e.bytes = Wanted(o.file, 0, Dirlist[o.file].size)
    BY <1>5, <1>7
  <2>3. b = Wanted(o.file, o.pos, o.asked)
    <3>1. SubSeq(Wanted(o.file, 0, Dirlist[o.file].size), o.pos + 1, o.pos + o.asked)
            = Wanted(o.file, o.pos, o.asked)
      BY <1>4, PartOfFile
    <3>2. QED
      BY <2>1, <2>2, <3>1, Zenon
  <2>4. Due(Css, o, o.asked) = Wanted(o.file, o.pos, o.asked)
    BY <1>0, <1>4, WantedIsDue
  <2>5. QED
    BY <2>3, <2>4, <1>6
<1> HIDE DEF b, e
<1>8. Values'
  <2>1. pc' \in [Threads -> Labels] /\ out' \in [Threads -> Seq(Byte)]
    BY <1>0, <1>1, <1>6 DEF Values, Labels
  <2>2. QED
    BY <1>0, <1>1, <2>1 DEF Values
<1>9. \A u \in Threads : Busy(u)' <=> Busy(u)
  BY <1>0, <1>2, <1>3, BusyKept
<1>10. Session'
  BY <1>0, <1>1, <1>9, SessionKept
<1>11. Cached'
  <2>1. Clear(Css, buf'.content)
    BY <1>0, <1>1 DEF Cached
  <2>2. QED
    BY <2>1, <1>0, <1>1, CachedKept
<1>12. Quiet'
  <2>1. quiet => buf.content.of = buf.sector
    BY <1>0, <1>2 DEF Quiet, Busy, Honest
  <2>2. pc'[t] # "mark" /\ \A u \in Threads \ {t} : pc'[u] = pc[u]
    BY <1>0, <1>3 DEF Values
  <2>3. QED
    BY <2>1, <2>2, <1>0, <1>1, <1>2, QuietStep
<1>13. LocalTo(t)'
  <2>1. Len(b) <= o.asked
    BY <1>4, <1>6
  <2>2. LocalAt("return", o, b)
    BY <2>1, <1>4 DEF LocalAt, Looping, Cacheful
  <2>3. LocalAt(pc'[t], op'[t], out'[t])
    BY <2>2, <1>1, <1>3
  <2>4. Handled(t)'
    BY <1>0, <1>1, <1>9 DEF Handled, KeyOf, Css
  <2>5. Found(t)' /\ Keyed(t)'
    BY <1>0, <1>1, <1>3 DEF Found, Keyed, Css
  <2>6. QED
    BY <2>3, <2>4, <2>5 DEF LocalTo
<1>14. Calm(t)'
  <2> SUFFICES ASSUME calm'[t]
               PROVE  /\ Alone(t)' /\ (pc'[t] = "serve" => op'[t].gen = passes')
                      /\ CalmAt(Css', pc'[t], op'[t], out'[t], buf', currKey')
    BY DEF Calm
  <2>1. /\ Alone(t) /\ CalmAt(Css, "serve", o, out[t], buf, currKey) /\ o.gen = passes
    BY <1>0, <1>1, <1>2 DEF Calm
  <2>2. Alone(t)' /\ Css' = Css
    BY <2>1, <1>1, <1>9 DEF Alone, Css
  <2>3. Css => currKey = Dirlist[o.file].title
    BY <2>1, <1>4 DEF CalmAt
  <2>4. CalmAt(Css, "return", o, b, buf, currKey)
    BY <2>1, <2>3, <1>4, <1>7 DEF CalmAt, Looping
  <2>5. QED
    BY <2>2, <2>4, <1>1, <1>3
<1>15. \A u \in Threads \ {t} : LocalTo(u)' /\ Calm(u)'
  <2>1. EntriesKept
    BY <1>1 DEF EntriesKept
  <2>2. Steps(t)
    BY <1>0, <1>1, <1>3 DEF Steps, Values
  <2>3. QED
    BY <2>1, <2>2, <1>0, <1>1, <1>2, OthersStep
<1>16. QED
  BY <1>8, <1>10, <1>11, <1>12, <1>13, <1>14, <1>15, Complete

LEMMA Padded ==
  ASSUME NEW b \in Seq(Byte), NEW n \in Nat, Len(b) <= n
  PROVE  /\ b \o [j \in 1..(n - Len(b)) |-> NoByte] \in Seq(Byte)
         /\ Len(b \o [j \in 1..(n - Len(b)) |-> NoByte]) = n
         /\ Len(b) = n => b \o [j \in 1..(n - Len(b)) |-> NoByte] = b
<1> DEFINE pad == [j \in 1..(n - Len(b)) |-> NoByte]
<1>1. Len(b) \in Nat /\ n - Len(b) \in Nat
  BY SeqIs
<1>2. NoByte \in Byte
  BY DEF NoByte, Byte, Texts
<1>3. pad \in [1..(n - Len(b)) -> Byte]
  BY <1>2
<1>4. pad \in Seq(Byte) /\ Len(pad) = n - Len(b)
  BY <1>1, <1>3, MakeSeq
<1> HIDE DEF pad
<1>5. /\ b \o pad \in Seq(Byte) /\ Len(b \o pad) = Len(b) + Len(pad)
      /\ \A i \in 1..Len(b) : (b \o pad)[i] = b[i]
  BY <1>4, Concats
<1>6. Len(b \o pad) = n
  BY <1>1, <1>4, <1>5
<1>7. Len(b) = n => b \o pad = b
  BY <1>5, <1>6, Same
<1>8. QED
  BY <1>5, <1>6, <1>7 DEF pad

\* A read from the start of a file is covered.
LEMMA FromStart ==
  ASSUME NEW n \in Nat
  PROVE  Covered(0, n)
<1>1. SectorSize \in Nat \ {0}
  BY SizeAssumption
<1>2. 0 \in 0..(SectorSize - 1) /\ 0 = 0 * SectorSize + 0
  BY <1>1
<1>3. 0 % SectorSize = 0
  BY <1>2, DivIs
<1>4. PICK q \in Int, r \in 0..(SectorSize - 1) :
        q = n \div SectorSize /\ r = n % SectorSize /\ n = q * SectorSize + r
  <2>1. n \in Int
    OBVIOUS
  <2>2. QED
    BY <2>1, DivMod, Zenon
<1>5. 0 + r <= SectorSize
  BY <1>1
<1>6. (0 % SectorSize) + (n % SectorSize) = 0 + r
  BY <1>3, <1>4, Zenon
<1>7. QED
  BY <1>5, <1>6, Zenon DEF Covered

LEMMA LoadStep ==
  ASSUME IsoInv, NEW t \in Threads, Load(t)
  PROVE  IsoInv'
<1> DEFINE o == op[t]
           e == Loaded(t)
           bytes == out[t] \o [j \in 1..(o.asked - Len(out[t])) |-> NoByte]
<1>0. /\ Values /\ Session /\ Local /\ Cached /\ Quiet /\ Undisturbed
      /\ o \in Call /\ out[t] \in Seq(Byte) /\ pc[t] = "return" /\ o.kind = "cache"
      /\ LocalAt("return", o, out[t]) /\ Handled(t) /\ Found(t) /\ Keyed(t)
      /\ Calm(t) /\ Css \in BOOLEAN
  BY InCall DEF Load
<1>1. /\ disc' = disc /\ calls' = calls /\ handle' = handle /\ session' = session
      /\ currKey' = currKey /\ passes' = passes
      /\ op' = op /\ out' = out /\ looked' = looked /\ calm' = calm /\ quiet' = quiet
      /\ faults' = faults /\ buf' = buf
      /\ cached' = cached \cup {o.file} /\ entries' = Append(entries, e)
      /\ pc' = [pc EXCEPT ![t] = "next"]
  BY DEF Load, Inside, ghosts, shared
<1>2. Busy(t)
  BY <1>0 DEF Busy
<1>3. pc'[t] = "next" /\ pc' = [pc EXCEPT ![t] = pc'[t]]
  BY <1>0, <1>1 DEF Values
<1>4. /\ o.file \in Files /\ o.pos = 0 /\ o.asked = Dirlist[o.file].size /\ Dirlist[o.file].ifo
      /\ o.asked \in Nat /\ Len(out[t]) <= o.asked
      /\ ~o.cached => (Len(out[t]) = o.asked <=> Covered(o.pos, o.asked))
  BY <1>0, CallIs DEF LocalAt, Looping, Cacheful, FromFile
<1>5. /\ bytes \in Seq(Byte) /\ Len(bytes) = o.asked
      /\ Len(out[t]) = o.asked => bytes = out[t]
  BY <1>0, <1>4, Padded
<1>6. ASSUME calm[t], ~o.cached, KeyFits(o.file)
      PROVE  bytes = Wanted(o.file, 0, Dirlist[o.file].size)
  <2>1. Sure(o)
    BY <1>0, <1>6 DEF Sure
  <2>2. CalmAt(Css, "return", o, out[t], buf, currKey)
    BY <1>0, <1>2, <1>6 DEF Calm
  <2>3. out[t] = Due(Css, o, Len(out[t]))
    BY <2>1, <2>2, <1>6 DEF CalmAt, Looping
  <2>4. Len(out[t]) = o.asked
    BY <1>4, <1>6, FromStart
  <2>5. Due(Css, o, o.asked) = Wanted(o.file, o.pos, o.asked)
    BY <1>0, <1>4, WantedIsDue
  <2>6. QED
    BY <2>3, <2>4, <2>5, <1>4, <1>5
<1> HIDE DEF bytes
<1>7. e.file = o.file /\ e.bytes = bytes /\ e.sound = (calm[t] /\ ~o.cached)
      /\ e \in Entry
  <2>1. e = [file |-> o.file, bytes |-> bytes, sound |-> calm[t] /\ ~o.cached]
    BY DEF Loaded, bytes
  <2>2. (calm[t] /\ ~o.cached) \in BOOLEAN
    OBVIOUS
  <2>3. QED
    BY <2>1, <2>2, <1>4, <1>5 DEF Entry
<1> HIDE DEF e
<1>8. entries \in Seq(Entry) /\ cached \subseteq Files
  BY <1>0 DEF Values
<1>9. /\ entries' \in Seq(Entry) /\ Len(entries') = Len(entries) + 1
      /\ DOMAIN entries = 1..Len(entries) /\ DOMAIN entries' = 1..(Len(entries) + 1)
      /\ \A i \in 1..Len(entries) : entries'[i] = entries[i]
      /\ entries'[Len(entries) + 1] = e /\ Len(entries) \in Nat
  BY <1>1, <1>7, <1>8
<1>10. Values'
  <2>1. pc' \in [Threads -> Labels] /\ cached' \subseteq Files
    BY <1>0, <1>1, <1>4, <1>8 DEF Values, Labels
  <2>2. QED
    BY <1>0, <1>1, <1>9, <2>1 DEF Values
<1>11. \A u \in Threads : Busy(u)' <=> Busy(u)
  BY <1>0, <1>2, <1>3, BusyKept
<1>12. Session'
  BY <1>0, <1>1, <1>11, SessionKept
<1>13. Cached'
  <2>1. Clear(Css, buf.content)'
    BY <1>0, <1>1 DEF Cached, Clear, Css
  <2>2. ASSUME NEW i \in DOMAIN entries'
        PROVE  /\ Full(entries'[i])
               /\ entries'[i].sound /\ KeyFits(entries'[i].file)
                    => entries'[i].bytes = Wanted(entries'[i].file, 0, Dirlist[entries'[i].file].size)
    <3>1. CASE i \in DOMAIN entries
      <4>1. entries'[i] = entries[i]
        BY <3>1, <1>9
      <4>2. QED
        BY <3>1, <4>1, <1>0 DEF Cached, CacheSound
    <3>2. CASE i \notin DOMAIN entries
      <4>1. entries'[i] = e
        BY <3>2, <1>9
      <4>2. Full(e)
        BY <1>4, <1>5, <1>7 DEF Full
      <4>3. e.sound /\ KeyFits(e.file) => e.bytes = Wanted(e.file, 0, Dirlist[e.file].size)
        BY <1>6, <1>7
      <4>4. QED
        BY <4>1, <4>2, <4>3
    <3>3. QED
      BY <3>1, <3>2
  <2>3. QED
    BY <2>1, <2>2 DEF Cached, CacheSound
<1>14. Quiet'
  <2>1. quiet => buf.content.of = buf.sector
    BY <1>0, <1>2 DEF Quiet, Busy, Honest
  <2>2. pc'[t] # "mark" /\ \A u \in Threads \ {t} : pc'[u] = pc[u]
    BY <1>0, <1>3 DEF Values
  <2>3. QED
    BY <2>1, <2>2, <1>0, <1>1, <1>2, QuietStep
<1>15. LocalTo(t)'
  <2>1. LocalAt("next", o, out[t])
    BY <1>0 DEF LocalAt, Looping, Cacheful
  <2>2. LocalAt(pc'[t], op'[t], out'[t])
    BY <2>1, <1>1, <1>3
  <2>3. Handled(t)'
    BY <1>0, <1>1, <1>11 DEF Handled, KeyOf, Css
  <2>4. Found(t)' /\ Keyed(t)'
    BY <1>0, <1>1, <1>3 DEF Found, Keyed, Css
  <2>5. QED
    BY <2>2, <2>3, <2>4 DEF LocalTo
<1>16. Calm(t)'
  <2> SUFFICES ASSUME calm'[t]
               PROVE  /\ Alone(t)' /\ (pc'[t] = "serve" => op'[t].gen = passes')
                      /\ CalmAt(Css', pc'[t], op'[t], out'[t], buf', currKey')
    BY DEF Calm
  <2>1. Alone(t) /\ CalmAt(Css, "return", o, out[t], buf, currKey)
    BY <1>0, <1>1, <1>2 DEF Calm
  <2>2. Alone(t)' /\ Css' = Css
    BY <2>1, <1>1, <1>11 DEF Alone, Css
  <2>3. CalmAt(Css, "next", o, out[t], buf, currKey)
    BY <1>0 DEF CalmAt, Looping
  <2>4. QED
    BY <2>2, <2>3, <1>1, <1>3
<1>17. \A u \in Threads \ {t} : LocalTo(u)' /\ Calm(u)'
  <2>1. EntriesKept
    BY <1>1, <1>9 DEF EntriesKept
  <2>2. Steps(t)
    BY <1>0, <1>1, <1>3 DEF Steps, Values
  <2>3. QED
    BY <2>1, <2>2, <1>0, <1>1, <1>2, OthersStep
<1>18. QED
  BY <1>10, <1>12, <1>13, <1>14, <1>15, <1>16, <1>17, Complete

LEMMA NoCallIs ==
  /\ NoCall \in Call /\ NoCall.kind = "none" /\ NoCall.key = NoTitle
  /\ ~NoCall.cached /\ ~NoCall.spoiled
<1>1. NoCall \in Call /\ NoCall.kind = "none" /\ NoCall.key = NoTitle
  BY DEF NoCall, Call
<1>2. ~NoCall.cached /\ ~NoCall.spoiled
  BY DEF NoCall
<1>3. QED
  BY <1>1, <1>2

LEMMA ReturnStep ==
  ASSUME IsoInv, NEW t \in Threads, Return(t)
  PROVE  IsoInv'
<1> DEFINE o == op[t]
<1>0. /\ Values /\ Session /\ Local /\ Cached /\ Quiet /\ Undisturbed
      /\ o \in Call /\ out[t] \in Seq(Byte) /\ pc[t] = "return" /\ o.kind \in {"read", "raw"}
      /\ LocalAt("return", o, out[t]) /\ Handled(t) /\ Found(t) /\ Keyed(t)
      /\ Calm(t) /\ Css \in BOOLEAN
  BY InCall DEF Return
<1>1. /\ disc' = disc /\ calls' = calls
      /\ currKey' = currKey /\ cached' = cached /\ entries' = entries /\ passes' = passes
      /\ looked' = looked /\ calm' = calm /\ quiet' = quiet
      /\ faults' = faults /\ buf' = buf
      /\ op' = [op EXCEPT ![t] = NoCall] /\ out' = [out EXCEPT ![t] = <<>>]
      /\ pc' = [pc EXCEPT ![t] = "idle"]
  BY DEF Return, Inside, ghosts, cache
<1>2. IF o.kind = "read"
      THEN session' = NoThread /\ handle' = [handle EXCEPT ![t].offset = @ + o.asked]
      ELSE session' = session /\ handle' = handle
  BY DEF Return
<1>3. Busy(t) /\ o.asked \in Nat
  BY <1>0, CallIs DEF Busy
<1>4. /\ pc'[t] = "idle" /\ op'[t] = NoCall /\ out'[t] = <<>>
      /\ pc' = [pc EXCEPT ![t] = pc'[t]] /\ op' = [op EXCEPT ![t] = op'[t]]
      /\ out' = [out EXCEPT ![t] = out'[t]]
  BY <1>0, <1>1 DEF Values
<1>5. /\ handle' \in [Threads -> Handle] /\ handle' = [handle EXCEPT ![t] = handle'[t]]
      /\ handle'[t].file = handle[t].file /\ handle'[t].key = handle[t].key
      /\ handle'[t] # Closed => handle[t] # Closed
  <2>1. handle \in [Threads -> Handle] /\ handle[t] \in Handle
    BY <1>0 DEF Values
  <2>2. CASE o.kind = "read"
    <3>1. handle' = [handle EXCEPT ![t].offset = @ + o.asked]
      BY <1>2, <2>2
    <3>2. handle'[t] = [handle[t] EXCEPT !.offset = @ + o.asked]
      BY <2>1, <3>1
    <3>3. handle[t].offset + o.asked \in Int
      BY <2>1, <1>3 DEF Handle
    <3>4. handle'[t] \in Handle /\ handle'[t].file = handle[t].file /\ handle'[t].key = handle[t].key
      BY <2>1, <3>2, <3>3 DEF Handle
    <3>5. handle' = [handle EXCEPT ![t] = handle'[t]]
      BY <2>1, <3>1
    <3>6. handle[t] # Closed
      BY <1>0, <1>3, <2>2 DEF Handled
    <3>7. QED
      BY <2>1, <3>4, <3>5, <3>6
  <2>3. CASE o.kind # "read"
    BY <2>1, <2>3, <1>2
  <2>4. QED
    BY <2>2, <2>3
<1>6. Values'
  <2>1. pc' \in [Threads -> Labels] /\ op' \in [Threads -> Call]
    BY <1>0, <1>1, NoCallIs DEF Values, Labels
  <2>2. out' \in [Threads -> Seq(Byte)]
    <3>1. <<>> \in Seq(Byte)
      OBVIOUS
    <3>2. QED
      BY <3>1, <1>0, <1>1 DEF Values
  <2>3. session' \in Threads \cup {NoThread}
    BY <1>0, <1>2 DEF Values
  <2>4. QED
    BY <1>0, <1>1, <1>5, <2>1, <2>2, <2>3 DEF Values
<1>7. /\ ~Busy(t)' /\ \A u \in Threads \ {t} :
           pc'[u] = pc[u] /\ op'[u] = op[u] /\ (Busy(u)' <=> Busy(u))
  BY <1>0, <1>1, <1>4 DEF Values, Busy
<1>8. Session'
  <2>1. t # NoThread
    BY ThreadAssumption
  <2>2. CASE o.kind = "read"
    <3>1. session = t /\ session' = NoThread
      BY <1>0, <1>2, <1>3, <2>2 DEF Session
    <3>2. \A u \in Threads \ {t} : ~(Busy(u) /\ op[u].kind = "read")
      BY <3>1, <1>0 DEF Session
    <3>3. NoThread \notin Threads
      BY ThreadAssumption
    <3>4. QED
      BY <3>1, <3>2, <3>3, <1>7 DEF Session
  <2>3. CASE o.kind # "read"
    <3>1. session # t /\ session' = session
      BY <1>0, <1>2, <2>3 DEF Session
    <3>2. QED
      BY <3>1, <1>0, <1>7 DEF Session
  <2>4. QED
    BY <2>2, <2>3
<1>9. Cached'
  <2>1. Clear(Css, buf'.content)
    BY <1>0, <1>1 DEF Cached
  <2>2. QED
    BY <2>1, <1>0, <1>1, CachedKept
<1>10. Quiet'
  <2>1. quiet => buf.content.of = buf.sector
    BY <1>0, <1>3 DEF Quiet, Busy, Honest
  <2>2. pc'[t] # "mark" /\ \A u \in Threads \ {t} : pc'[u] = pc[u]
    BY <1>4, <1>7
  <2>3. QED
    BY <2>1, <2>2, <1>0, <1>1, <1>3, QuietStep
<1>11. LocalTo(t)'
  <2>1. LocalAt("idle", NoCall, <<>>)
    BY NoCallIs DEF LocalAt, Looping, Cacheful
  <2>2. LocalAt(pc'[t], op'[t], out'[t])
    BY <2>1, <1>4
  <2>3. Handled(t)'
    BY <1>0, <1>1, <1>5, <1>7 DEF Handled, KeyOf, Css
  <2>4. Found(t)' /\ Keyed(t)'
    BY <1>0, <1>1, <1>4, NoCallIs DEF Found, Keyed, Css
  <2>5. QED
    BY <2>2, <2>3, <2>4 DEF LocalTo
<1>12. Calm(t)'
  BY <1>7 DEF Calm
<1>13. \A u \in Threads \ {t} : LocalTo(u)' /\ Calm(u)'
  <2>1. EntriesKept
    BY <1>1 DEF EntriesKept
  <2>2. Steps(t)
    BY <1>0, <1>1, <1>4, <1>5 DEF Steps, Values
  <2>3. QED
    BY <2>1, <2>2, <1>0, <1>1, <1>3, OthersStep
<1>14. QED
  BY <1>6, <1>8, <1>9, <1>10, <1>11, <1>12, <1>13, Complete

-----------------------------------------------------------------------------
(* Calls begin *)

LEMMA ReadCallIs ==
  ASSUME Values, NEW kind \in {"read", "cache"}, NEW f \in Files, NEW pos \in Nat,
         NEW n \in Nat, NEW r, r = ReadCall(kind, f, pos, n)
  PROVE  /\ r \in Call /\ r.kind = kind /\ r.file = f /\ r.pos = pos /\ r.asked = n
         /\ r.rem = n /\ r.sector = FirstSector(f, pos) /\ r.key = NoTitle
         /\ r.cached = (f \in cached)
         /\ r.spoiled = (Css /\ f \notin cached /\ buf.sector = FirstSector(f, pos))
<1> DEFINE b == f \in cached
           s == Css /\ f \notin cached /\ buf.sector = FirstSector(f, pos)
           m == FirstSector(f, pos)
<1>1. m \in Nat
  <2>1. pos \div SectorSize \in Nat
    BY SizeAssumption
  <2>2. QED
    BY <2>1, FileTypes DEF FirstSector
<1>2. b \in BOOLEAN /\ s \in BOOLEAN
  BY DEF Css
<1>3. r = [NoCall EXCEPT !.kind = kind, !.file = f, !.pos = pos, !.asked = n, !.rem = n,
                         !.sector = m, !.cached = b, !.spoiled = s]
  BY Zenon DEF ReadCall
<1> HIDE DEF b, s, m
<1>4. r = [kind |-> kind, file |-> f, pos |-> pos, asked |-> n, sector |-> m, rem |-> n,
           key |-> NoTitle, cached |-> b, found |-> 0, gen |-> 0, spoiled |-> s]
  BY ZenonT(30), <1>3 DEF NoCall
<1>5. r \in Call
  BY <1>1, <1>2, <1>4 DEF Call
<1>6. /\ r.kind = kind /\ r.file = f /\ r.pos = pos /\ r.asked = n
      /\ r.rem = n /\ r.sector = m /\ r.key = NoTitle /\ r.cached = b /\ r.spoiled = s
  BY <1>4
<1>7. QED
  BY <1>5, <1>6 DEF b, s, m

\* The part of a file a read may ask for; the caching pass asks for all of it.
Askable(kind, f, pos, n) ==
  /\ n > 0 /\ pos + n <= Dirlist[f].size
  /\ kind = "cache" => pos = 0 /\ n = Dirlist[f].size /\ Dirlist[f].ifo

LEMMA ReadLocal ==
  ASSUME Values, NEW kind \in {"read", "cache"}, NEW f \in Files, NEW pos \in Nat,
         NEW n \in Nat, Askable(kind, f, pos, n), NEW r, r = ReadCall(kind, f, pos, n)
  PROVE  LocalAt(Entrance(f), r, <<>>) /\ Reached(r) = 0 /\ FromFile(r)
<1>1. /\ r \in Call /\ r.kind = kind /\ r.file = f /\ r.pos = pos /\ r.asked = n
      /\ r.rem = n /\ r.sector = FirstSector(f, pos) /\ r.key = NoTitle
      /\ r.cached = (f \in cached)
  BY ReadCallIs
<1>2. Reached(r) = 0
  BY <1>1 DEF Reached
<1>3. Base(r) = Dirlist[f].lba /\ StartOf(r) = pos /\ At(r) = pos
  BY <1>1, <1>2 DEF Base, StartOf, At
<1>4. Sensible(r) /\ FromFile(r)
  BY <1>1 DEF Sensible, FromFile, Askable
<1>5. InPlace(r)
  <2>1. r.sector = Base(r) + At(r) \div SectorSize
    BY <1>1, <1>3 DEF FirstSector
  <2>2. Last(r) = FirstSector(f, pos) + n \div SectorSize
    BY <1>1 DEF Last, LastSector
  <2>3. n \div SectorSize \in Nat /\ FirstSector(f, pos) \in Nat
    BY <1>1, SizeAssumption DEF Call
  <2>4. r.sector <= Last(r)
    BY <2>2, <2>3, <1>1
  <2>5. 0 < r.rem /\ r.rem <= r.asked
    BY <1>1 DEF Askable
  <2>6. QED
    BY <2>1, <2>4, <2>5, <1>2 DEF InPlace
<1>6. Len(<<>>) = 0
  OBVIOUS
<1>7. Entrance(f) = IF r.cached THEN "lookup" ELSE "fetch"
  BY <1>1 DEF Entrance
<1>8. LocalAt(Entrance(f), r, <<>>)
  BY <1>1, <1>2, <1>4, <1>5, <1>6, <1>7 DEF LocalAt, Looping, Cacheful
<1>9. QED
  BY <1>2, <1>4, <1>8

(* A read begins undisturbed if the buffer is honest, or another sector's; *)
(* if the sector it begins with is buffered and may have been unscrambled, *)
(* the read is spoiled.                                                    *)
LEMMA ReadCalm ==
  ASSUME Values, Clear(Css, buf.content), NEW kind \in {"read", "cache"}, NEW f \in Files,
         NEW pos \in Nat, NEW n \in Nat, Askable(kind, f, pos, n),
         NEW r, r = ReadCall(kind, f, pos, n),
         Honest \/ buf.sector # FirstSector(f, pos),
         NEW key, Css => key = Dirlist[f].title
  PROVE  CalmAt(Css, Entrance(f), r, <<>>, buf, key)
<1>1. /\ r \in Call /\ r.kind = kind /\ r.file = f /\ r.pos = pos /\ r.asked = n
      /\ r.rem = n /\ r.sector = FirstSector(f, pos) /\ r.key = NoTitle
      /\ r.cached = (f \in cached)
      /\ r.spoiled = (Css /\ f \notin cached /\ buf.sector = FirstSector(f, pos))
  BY ReadCallIs
<1>2. Entrance(f) = IF r.cached THEN "lookup" ELSE "fetch"
  BY <1>1 DEF Entrance
<1>3. Reached(r) = 0 /\ FromFile(r)
  BY ReadLocal
<1>4. <<>> = Due(Css, r, Len(<<>>))
  BY DEF Due
<1>5. ASSUME ~r.cached, buf.sector = r.sector PROVE Held(Css, buf.content, r)
  <2>1. buf.content.of = r.sector
    BY <1>1, <1>5 DEF Honest
  <2>2. r.sector \in Nat \ {0}
    <3>1. pos \div SectorSize \in Nat
      BY SizeAssumption
    <3>2. QED
      BY <3>1, <1>1, FileTypes DEF FirstSector
  <2>3. CASE Css /\ IsScrambled(r.sector)
    <3>1. r.spoiled
      BY <2>3, <1>1, <1>5
    <3>2. QED
      BY <2>1, <2>3, <3>1 DEF Held
  <2>4. CASE ~(Css /\ IsScrambled(r.sector))
    <3>1. buf.content # Nothing
      BY <2>1, <2>2 DEF Nothing
    <3>2. buf.content.text = "clear"
      BY <2>1, <2>4, <3>1 DEF Clear
    <3>3. buf.content = OnDisc(Css, r.sector)
      <4>1. buf.content \in Content
        BY Bytes
      <4>2. QED
        BY <4>1, <2>1, <2>4, <3>2 DEF OnDisc, Content
    <3>4. QED
      BY <2>1, <3>3 DEF Held
  <2>5. QED
    BY <2>3, <2>4
<1>6. QED
  BY <1>1, <1>2, <1>3, <1>4, <1>5 DEF CalmAt, Looping


\* The caching pass goes on to file f, or past it if it is empty.
LEMMA TakeStep ==
  ASSUME IsoInv, NEW t \in Threads, pc[t] = "next", NEW f \in Files, Dirlist[f].ifo,
         NEW r, r = ReadCall("cache", f, 0, Dirlist[f].size),
         disc' = disc, calls' = calls, handle' = handle, session' = session, buf' = buf,
         cached' = cached, entries' = entries, passes' = passes, faults' = faults,
         quiet' = quiet,
         looked' = [looked EXCEPT ![t] = f],
         currKey' = IF Css THEN KeyOf(f) ELSE currKey,
         op' = [op EXCEPT ![t] = r],
         out' = [out EXCEPT ![t] = <<>>],
         pc' = [pc EXCEPT ![t] = IF Dirlist[f].size = 0 THEN "return" ELSE Entrance(f)],
         calm' = [calm EXCEPT ![t] = @ /\ (Honest \/ buf.sector # FirstSector(f, 0))]
  PROVE  IsoInv'
<1> DEFINE o == op[t]
           n == Dirlist[f].size
           p == IF n = 0 THEN "return" ELSE Entrance(f)
<1>0. /\ Values /\ Session /\ Local /\ Cached /\ Quiet /\ Undisturbed
      /\ o \in Call /\ out[t] \in Seq(Byte)
      /\ LocalAt("next", o, out[t]) /\ Handled(t) /\ Found(t) /\ Keyed(t)
      /\ Calm(t) /\ Css \in BOOLEAN
  BY InCall
<1>1. Busy(t) /\ o.kind = "cache"
  BY <1>0 DEF Busy, LocalAt
<1>2. /\ n \in Nat /\ Dirlist[f].title \in Nat \cup {NoTitle} /\ 0 \in Nat
      /\ "cache" \in {"read", "cache"}
  BY FileTypes
<1>3. /\ r \in Call /\ r.kind = "cache" /\ r.file = f /\ r.pos = 0 /\ r.asked = n
      /\ r.key = NoTitle /\ r.cached = (f \in cached)
  <2> HIDE DEF n
  <2>1. r = ReadCall("cache", f, 0, n)
    BY DEF n
  <2>2. QED
    BY <1>0, <1>2, <2>1, ReadCallIs
<1>4. p \in {"lookup", "fetch", "return"}
  BY DEF Entrance
<1>5. /\ pc'[t] = p /\ op'[t] = r /\ out'[t] = <<>>
      /\ pc' = [pc EXCEPT ![t] = pc'[t]] /\ op' = [op EXCEPT ![t] = op'[t]]
      /\ out' = [out EXCEPT ![t] = out'[t]]
  BY <1>0 DEF Values
<1>6. n # 0 => Askable("cache", f, 0, n)
  BY <1>2 DEF Askable
<1>7. KeyOf(f) \in Nat \cup {NoTitle} /\ (Css => currKey' = Dirlist[f].title)
  BY <1>2 DEF KeyOf, NoTitle
<1>8. FromFile(r)
  BY <1>3 DEF FromFile
<1>9. n # 0 => LocalAt(p, r, <<>>)
  <2> HIDE DEF n
  <2>1. SUFFICES ASSUME n # 0 PROVE LocalAt(Entrance(f), r, <<>>)
    OBVIOUS
  <2>2. r = ReadCall("cache", f, 0, n)
    BY DEF n
  <2>3. QED
    BY <1>0, <1>2, <1>6, <2>1, <2>2, ReadLocal
<1>10. ASSUME n # 0, Honest \/ buf.sector # FirstSector(f, 0)
       PROVE  CalmAt(Css, p, r, <<>>, buf, currKey')
  <2> HIDE DEF n
  <2>1. r = ReadCall("cache", f, 0, n)
    BY DEF n
  <2>2. Clear(Css, buf.content)
    BY <1>0 DEF Cached
  <2>3. CalmAt(Css, Entrance(f), r, <<>>, buf, currKey')
    BY <1>0, <1>2, <1>6, <1>7, <1>10, <2>1, <2>2, ReadCalm
  <2>4. QED
    BY <2>3, <1>10
<1>11. Len(<<>>) = 0 /\ \A css \in BOOLEAN : <<>> = Due(css, r, 0)
  BY DEF Due
<1> HIDE DEF p
<1>12. n = 0 => p = "return"
  BY DEF p
<1>13. LocalAt(p, r, <<>>)
  <2>1. CASE n = 0
    <3>1. Covered(0, 0)
      BY FromStart
    <3>2. QED
      BY <2>1, <3>1, <1>3, <1>8, <1>11, <1>12 DEF LocalAt, Looping, Cacheful
  <2>2. QED
    BY <2>1, <1>9
<1>14. Values'
  <2>1. pc' \in [Threads -> Labels] /\ op' \in [Threads -> Call]
    BY <1>0, <1>3, <1>4, <1>5 DEF Values, Labels
  <2>2. out' \in [Threads -> Seq(Byte)]
    <3>1. <<>> \in Seq(Byte)
      OBVIOUS
    <3>2. QED
      BY <3>1, <1>0 DEF Values
  <2>3. calm' \in [Threads -> BOOLEAN]
    <3>1. (calm[t] /\ (Honest \/ buf.sector # FirstSector(f, 0))) \in BOOLEAN
      OBVIOUS
    <3>2. QED
      BY <3>1, <1>0, Zenon DEF Values
  <2>4. currKey' \in Nat \cup {NoTitle} /\ looked' \in [Threads -> Files \cup {0}]
    BY <1>0, <1>7 DEF Values
  <2>5. QED
    BY <1>0, <2>1, <2>2, <2>3, <2>4 DEF Values
<1>15. \A u \in Threads : Busy(u)' <=> Busy(u)
  BY <1>0, <1>1, <1>4, <1>5, BusyKept
<1>16. \A u \in Threads : op'[u].kind = op[u].kind
  BY <1>0, <1>1, <1>3 DEF Values
<1>17. Session'
  BY <1>0, <1>15, <1>16, SessionKept
<1>18. Cached'
  <2>1. Clear(Css, buf'.content)
    BY <1>0 DEF Cached
  <2>2. QED
    BY <2>1, <1>0, CachedKept
<1>19. Quiet'
  <2>1. quiet => buf.content.of = buf.sector
    BY <1>0, <1>1 DEF Quiet, Busy, Honest
  <2>2. pc'[t] # "mark" /\ \A u \in Threads \ {t} : pc'[u] = pc[u]
    BY <1>0, <1>4, <1>5 DEF Values
  <2>3. QED
    BY <2>1, <2>2, <1>0, <1>1, QuietStep
<1>20. LocalTo(t)'
  <2>1. LocalAt(pc'[t], op'[t], out'[t])
    BY <1>5, <1>13
  <2>2. Handled(t)'
    BY <1>0, <1>3, <1>5 DEF Handled, KeyOf, Css
  <2>3. Found(t)' /\ Keyed(t)'
    BY <1>3, <1>4, <1>5 DEF Found, Keyed
  <2>4. QED
    BY <2>1, <2>2, <2>3 DEF LocalTo
<1>21. Calm(t)'
  <2> SUFFICES ASSUME calm'[t]
               PROVE  /\ Alone(t)' /\ (pc'[t] = "serve" => op'[t].gen = passes')
                      /\ CalmAt(Css', pc'[t], op'[t], out'[t], buf', currKey')
    BY DEF Calm
  <2>1. calm[t] /\ (Honest \/ buf.sector # FirstSector(f, 0))
    BY <1>0, Zenon DEF Values
  <2>2. Alone(t)' /\ Css' = Css
    BY <2>1, <1>0, <1>1, <1>15 DEF Calm, Alone, Css
  <2>3. CalmAt(Css, p, r, <<>>, buf, currKey')
    <3>1. CASE n = 0
      BY <3>1, <1>0, <1>3, <1>7, <1>11, <1>12 DEF CalmAt, Looping
    <3>2. CASE n # 0
      BY <3>2, <2>1, <1>10
    <3>3. QED
      BY <3>1, <3>2
  <2>4. QED
    BY <2>2, <2>3, <1>4, <1>5
<1>22. \A u \in Threads \ {t} : LocalTo(u)' /\ Calm(u)'
  <2>1. EntriesKept
    BY DEF EntriesKept
  <2>2. Steps(t)
    BY <1>0, <1>5 DEF Steps, Values
  <2>3. \A u \in Threads \ {t} : calm'[u] = calm[u]
    BY <1>0 DEF Values
  <2>4. QED
    BY <2>1, <2>2, <2>3, <1>0, <1>1, OthersStep
<1>23. QED
  BY <1>14, <1>17, <1>18, <1>19, <1>20, <1>21, <1>22, Complete

\* The caching pass ends.
LEMMA PassStep ==
  ASSUME IsoInv, NEW t \in Threads, pc[t] = "next",
         disc' = disc, calls' = calls, handle' = handle, session' = session, buf' = buf,
         cached' = cached, entries' = entries, passes' = passes, faults' = faults,
         quiet' = quiet, looked' = looked, currKey' = currKey, op' = op, out' = out,
         calm' = calm, pc' = [pc EXCEPT ![t] = "idle"]
  PROVE  IsoInv'
<1> DEFINE o == op[t]
<1>0. /\ Values /\ Session /\ Local /\ Cached /\ Quiet /\ Undisturbed
      /\ o \in Call /\ out[t] \in Seq(Byte)
      /\ LocalAt("next", o, out[t]) /\ Handled(t) /\ Found(t) /\ Keyed(t)
      /\ Calm(t) /\ Css \in BOOLEAN
  BY InCall
<1>1. Busy(t) /\ o.kind = "cache"
  BY <1>0 DEF Busy, LocalAt
<1>2. pc'[t] = "idle" /\ pc' = [pc EXCEPT ![t] = pc'[t]]
  BY <1>0 DEF Values
<1>3. /\ ~Busy(t)' /\ \A u \in Threads \ {t} : pc'[u] = pc[u] /\ (Busy(u)' <=> Busy(u))
  BY <1>0, <1>2 DEF Values, Busy
<1>4. Values'
  BY <1>0 DEF Values, Labels
<1>5. Session'
  BY <1>0, <1>1, <1>3 DEF Session
<1>6. Cached'
  <2>1. Clear(Css, buf'.content)
    BY <1>0 DEF Cached
  <2>2. QED
    BY <2>1, <1>0, CachedKept
<1>7. Quiet'
  <2>1. quiet => buf.content.of = buf.sector
    BY <1>0, <1>1 DEF Quiet, Busy, Honest
  <2>2. pc'[t] # "mark" /\ \A u \in Threads \ {t} : pc'[u] = pc[u]
    BY <1>2, <1>3
  <2>3. QED
    BY <2>1, <2>2, <1>0, <1>1, QuietStep
<1>8. LocalTo(t)'
  <2>1. LocalAt("idle", o, out[t])
    BY <1>1 DEF LocalAt, Looping, Cacheful
  <2>2. LocalAt(pc'[t], op'[t], out'[t])
    BY <2>1, <1>2
  <2>3. Handled(t)'
    BY <1>0, <1>3 DEF Handled, KeyOf, Css
  <2>4. Found(t)' /\ Keyed(t)'
    BY <1>0, <1>2 DEF Found, Keyed, Css
  <2>5. QED
    BY <2>2, <2>3, <2>4 DEF LocalTo
<1>9. Calm(t)'
  BY <1>3 DEF Calm
<1>10. \A u \in Threads \ {t} : LocalTo(u)' /\ Calm(u)'
  <2>1. EntriesKept
    BY DEF EntriesKept
  <2>2. Steps(t)
    BY <1>0, <1>2 DEF Steps, Values
  <2>3. QED
    BY <2>1, <2>2, <1>0, <1>1, OthersStep
<1>11. QED
  BY <1>4, <1>5, <1>6, <1>7, <1>8, <1>9, <1>10, Complete

LEMMA CacheNextStep ==
  ASSUME IsoInv, NEW t \in Threads, CacheNext(t)
  PROVE  IsoInv'
<1>1. /\ pc[t] = "next" /\ disc' = disc /\ calls' = calls /\ handle' = handle
      /\ session' = session /\ buf' = buf /\ cached' = cached /\ entries' = entries
      /\ passes' = passes /\ faults' = faults
  BY DEF CacheNext, Inside, cache
<1>2. \/ /\ pc' = [pc EXCEPT ![t] = "idle"]
         /\ currKey' = currKey /\ looked' = looked /\ op' = op /\ out' = out
         /\ calm' = calm /\ quiet' = quiet
      \/ \E f \in Remaining(t) :
          /\ looked' = [looked EXCEPT ![t] = f]
          /\ currKey' = IF Css THEN KeyOf(f) ELSE currKey
          /\ op' = [op EXCEPT ![t] = ReadCall("cache", f, 0, Dirlist[f].size)]
          /\ out' = [out EXCEPT ![t] = <<>>]
          /\ pc' = [pc EXCEPT ![t] = IF Dirlist[f].size = 0 THEN "return" ELSE Entrance(f)]
          /\ calm' = [calm EXCEPT ![t] = @ /\ (Honest \/ buf.sector # FirstSector(f, 0))]
          /\ quiet' = quiet
  BY Zenon DEF CacheNext, ghosts
<1>3. CASE /\ pc' = [pc EXCEPT ![t] = "idle"]
           /\ currKey' = currKey /\ looked' = looked /\ op' = op /\ out' = out
           /\ calm' = calm /\ quiet' = quiet
  BY <1>1, <1>3, PassStep
<1>4. ASSUME NEW f \in Remaining(t),
             looked' = [looked EXCEPT ![t] = f],
             currKey' = IF Css THEN KeyOf(f) ELSE currKey,
             op' = [op EXCEPT ![t] = ReadCall("cache", f, 0, Dirlist[f].size)],
             out' = [out EXCEPT ![t] = <<>>],
             pc' = [pc EXCEPT ![t] = IF Dirlist[f].size = 0 THEN "return" ELSE Entrance(f)],
             calm' = [calm EXCEPT ![t] = @ /\ (Honest \/ buf.sector # FirstSector(f, 0))],
             quiet' = quiet
      PROVE  IsoInv'
  <2>1. f \in Files /\ Dirlist[f].ifo
    BY DEF Remaining
  <2>2. PICK r : r = ReadCall("cache", f, 0, Dirlist[f].size)
    OBVIOUS
  <2>3. op' = [op EXCEPT ![t] = r]
    BY <1>4, <2>2
  <2>4. QED
    BY <1>1, <1>4, <2>1, <2>2, <2>3, TakeStep
<1>5. QED
  BY <1>2, <1>3, <1>4

-----------------------------------------------------------------------------
(* An idle thread's steps *)

(* A step that leaves the calls alone: of a handle, or of the current key, *)
(* which disturbs the calls of a CSS disc.                                 *)
LEMMA HandleStep ==
  ASSUME IsoInv, NEW t \in Threads, ~Busy(t), NEW h \in Handle,
         h # Closed => h.file \in Files /\ h.key = KeyOf(h.file),
         disc' = disc, session' = session, buf' = buf, cached' = cached,
         entries' = entries, passes' = passes, pc' = pc, op' = op, out' = out,
         looked' = looked, quiet' = quiet, faults' = faults, calls' \in 0..MaxCalls,
         handle' = [handle EXCEPT ![t] = h], currKey' \in Nat \cup {NoTitle},
         calm' \in [Threads -> BOOLEAN],
         \A u \in Threads : calm'[u] => calm[u] /\ (Css /\ Busy(u) => currKey' = currKey)
  PROVE  IsoInv'
<1>0. /\ Values /\ Session /\ Local /\ Cached /\ Quiet /\ Undisturbed
  BY InCall
<1>1. \A u \in Threads : Busy(u)' <=> Busy(u)
  BY DEF Busy
<1>2. Values'
  BY <1>0 DEF Values
<1>3. Session'
  BY <1>0, <1>1 DEF Session
<1>4. Cached'
  <2>1. Clear(Css, buf'.content)
    BY <1>0 DEF Cached
  <2>2. QED
    BY <2>1, <1>0, CachedKept
<1>5. Quiet'
  BY <1>0, <1>1 DEF Quiet, Honest
<1>6. ASSUME NEW u \in Threads PROVE LocalTo(u)' /\ Calm(u)'
  <2>1. LocalTo(u) /\ Calm(u)
    BY <1>0 DEF Local, LocalTo, Undisturbed
  <2>2. Handled(u)'
    <3>1. CASE u = t
      <4>1. handle'[u] = h
        BY <3>1, <1>0 DEF Values
      <4>2. QED
        BY <4>1, <3>1, <1>1 DEF Handled, KeyOf, Css
    <3>2. CASE u # t
      <4>1. handle'[u] = handle[u]
        BY <3>2, <1>0 DEF Values
      <4>2. QED
        BY <4>1, <2>1, <1>1 DEF LocalTo, Handled, KeyOf, Css
    <3>3. QED
      BY <3>1, <3>2
  <2>3. LocalTo(u)'
    BY <2>1, <2>2 DEF LocalTo, Found, Keyed, Css
  <2>4. Calm(u)'
    <3> SUFFICES ASSUME calm'[u], Busy(u)'
                 PROVE  /\ Alone(u)' /\ (pc'[u] = "serve" => op'[u].gen = passes')
                        /\ CalmAt(Css', pc'[u], op'[u], out'[u], buf', currKey')
      BY DEF Calm
    <3>1. /\ Alone(u) /\ (pc[u] = "serve" => op[u].gen = passes)
          /\ CalmAt(Css, pc[u], op[u], out[u], buf, currKey)
      BY <2>1, <1>1 DEF Calm
    <3>2. Alone(u)' /\ Css' = Css
      BY <3>1, <1>1 DEF Alone, Css
    <3>3. Css => currKey' = currKey
      BY <1>1
    <3>4. CalmAt(Css, pc[u], op[u], out[u], buf, currKey')
      BY <3>1, <3>3 DEF CalmAt
    <3>5. QED
      BY <3>1, <3>2, <3>4
  <2>5. QED
    BY <2>3, <2>4
<1>7. QED
  BY <1>2, <1>3, <1>4, <1>5, <1>6, Complete

\* What is known of an idle thread.
LEMMA IdleIs ==
  ASSUME IsoInv, NEW t \in Threads, Called(t)
  PROVE  /\ ~Busy(t) /\ disc' = disc /\ faults' = faults /\ calls' \in 0..MaxCalls
         /\ handle[t] \in Handle
         /\ handle[t] # Closed => /\ handle[t].file \in Files
                                  /\ handle[t].key = KeyOf(handle[t].file)
<1>1. Values /\ Handled(t)
  BY InCall
<1>2. calls' \in 0..MaxCalls
  BY <1>1, BoundAssumption DEF Values, Called
<1>3. QED
  BY <1>1, <1>2 DEF Called, Values, Handled

LEMMA ClosedIs == Closed \in Handle /\ NoTitle \in Nat \cup {NoTitle}
  BY DEF Closed, Handle

LEMMA OpenStep ==
  ASSUME IsoInv, NEW t \in Threads, Open(t)
  PROVE  IsoInv'
<1>1. PICK f \in Files :
        /\ Called(t)
        /\ handle' = [handle EXCEPT ![t] = [file |-> f, offset |-> 0, key |-> KeyOf(f)]]
        /\ UNCHANGED <<shared, cache, local, ghosts>>
  BY DEF Open
<1> DEFINE h == [file |-> f, offset |-> 0, key |-> KeyOf(f)]
<1>2. KeyOf(f) \in Nat \cup {NoTitle}
  BY FileTypes DEF KeyOf, NoTitle
<1>3. h \in Handle /\ h.file \in Files /\ h.key = KeyOf(h.file)
  BY <1>2 DEF Handle
<1>4. handle' = [handle EXCEPT ![t] = h]
  BY <1>1
<1> HIDE DEF h
<1>5. /\ session' = session /\ buf' = buf /\ currKey' = currKey /\ cached' = cached
      /\ entries' = entries /\ passes' = passes /\ pc' = pc /\ op' = op /\ out' = out
      /\ looked' = looked /\ calm' = calm /\ quiet' = quiet
  BY <1>1 DEF shared, cache, local, ghosts
<1>6. ~Busy(t) /\ disc' = disc /\ faults' = faults /\ calls' \in 0..MaxCalls
  BY <1>1, IdleIs
<1>7. calm' \in [Threads -> BOOLEAN] /\ currKey' \in Nat \cup {NoTitle}
  BY <1>5, InCall DEF Values
<1>8. QED
  BY <1>3, <1>4, <1>5, <1>6, <1>7, HandleStep

LEMMA CloseStep ==
  ASSUME IsoInv, NEW t \in Threads, Close(t)
  PROVE  IsoInv'
<1>1. /\ Called(t) /\ handle' = [handle EXCEPT ![t] = Closed] /\ currKey' = NoTitle
      /\ calm' = [u \in Threads |-> calm[u] /\ (Css => ~Busy(u))]
      /\ session' = session /\ buf' = buf /\ cached' = cached
      /\ entries' = entries /\ passes' = passes /\ pc' = pc /\ op' = op /\ out' = out
      /\ looked' = looked /\ quiet' = quiet
  BY DEF Close, cache, local
<1>2. ~Busy(t) /\ disc' = disc /\ faults' = faults /\ calls' \in 0..MaxCalls
  BY <1>1, IdleIs
<1>3. ASSUME NEW u \in Threads PROVE (calm[u] /\ (Css => ~Busy(u))) \in BOOLEAN
  OBVIOUS
<1>4. calm' \in [Threads -> BOOLEAN]
  BY <1>1, <1>3, Zenon
<1>5. \A u \in Threads : calm'[u] => calm[u] /\ ~(Css /\ Busy(u))
  BY <1>1
<1>6. QED
  BY <1>1, <1>2, <1>4, <1>5, ClosedIs, HandleStep

LEMMA SeekStep ==
  ASSUME IsoInv, NEW t \in Threads, Seek(t)
  PROVE  IsoInv'
<1>1. /\ Called(t) /\ handle[t] # Closed
      /\ session' = session /\ buf' = buf /\ currKey' = currKey /\ cached' = cached
      /\ entries' = entries /\ passes' = passes /\ pc' = pc /\ op' = op /\ out' = out
      /\ looked' = looked /\ calm' = calm /\ quiet' = quiet
  BY DEF Seek, shared, cache, local, ghosts
<1>2. /\ ~Busy(t) /\ disc' = disc /\ faults' = faults /\ calls' \in 0..MaxCalls
      /\ handle[t] \in Handle /\ handle[t].file \in Files
      /\ handle[t].key = KeyOf(handle[t].file)
  BY <1>1, IdleIs
<1>3. PICK base \in {0, handle[t].offset, Dirlist[handle[t].file].size}, d \in Moves :
        handle' = [handle EXCEPT ![t].offset = base + d]
  BY DEF Seek
<1>4. base + d \in Int
  <2>1. handle[t].offset \in Int
    BY <1>2 DEF Handle
  <2>2. Dirlist[handle[t].file].size \in Nat
    BY <1>2, FileTypes
  <2>3. d \in Int
    BY BoundAssumption
  <2>4. QED
    BY <2>1, <2>2, <2>3
<1> DEFINE h == [handle[t] EXCEPT !.offset = base + d]
<1>5. handle' = [handle EXCEPT ![t] = h]
  <2>1. handle \in [Threads -> Handle]
    BY InCall DEF Values
  <2>2. QED
    BY <1>3, <2>1
<1>6. h \in Handle /\ h.file = handle[t].file /\ h.key = handle[t].key
  BY <1>2, <1>4 DEF Handle
<1> HIDE DEF h
<1>7. h.file \in Files /\ h.key = KeyOf(h.file)
  BY <1>2, <1>6, Zenon
<1>8. calm' \in [Threads -> BOOLEAN] /\ currKey' \in Nat \cup {NoTitle}
  BY <1>1, InCall DEF Values
<1>9. QED
  BY <1>1, <1>2, <1>5, <1>6, <1>7, <1>8, HandleStep

LEMMA ReadNothingStep ==
  ASSUME IsoInv, NEW t \in Threads, ReadNothing(t)
  PROVE  IsoInv'
<1>1. /\ Called(t) /\ handle' = handle
      /\ session' = session /\ buf' = buf /\ currKey' = currKey /\ cached' = cached
      /\ entries' = entries /\ passes' = passes /\ pc' = pc /\ op' = op /\ out' = out
      /\ looked' = looked /\ calm' = calm /\ quiet' = quiet
  BY DEF ReadNothing, shared, cache, local, ghosts
<1>2. /\ ~Busy(t) /\ disc' = disc /\ faults' = faults /\ calls' \in 0..MaxCalls
      /\ handle[t] \in Handle
      /\ handle[t] # Closed => /\ handle[t].file \in Files
                               /\ handle[t].key = KeyOf(handle[t].file)
  BY <1>1, IdleIs
<1>3. /\ handle' = [handle EXCEPT ![t] = handle[t]]
      /\ calm' \in [Threads -> BOOLEAN] /\ currKey' \in Nat \cup {NoTitle}
  BY <1>1, InCall DEF Values
<1>4. QED
  BY <1>1, <1>2, <1>3, HandleStep

(* A call that begins disturbs all that are under way, and is disturbed by *)
(* any; it is calm only if it is the only one.                             *)
LEMMA BeginStep ==
  ASSUME IsoInv, NEW t \in Threads, ~Busy(t),
         NEW r \in Call, NEW p \in {"lookup", "fetch", "next"}, NEW b \in Seq(Byte),
         NEW fit \in BOOLEAN, Disturb(t, fit),
         disc' = disc, handle' = handle, buf' = buf, cached' = cached, faults' = faults,
         op' = [op EXCEPT ![t] = r], pc' = [pc EXCEPT ![t] = p], out' = [out EXCEPT ![t] = b],
         calls' \in 0..MaxCalls, looked' \in [Threads -> Files \cup {0}],
         currKey' \in Nat \cup {NoTitle}, passes' \in Nat, entries' \in Seq(Entry),
         session' \in Threads \cup {NoThread}, EntriesKept, Cached',
         IF r.kind = "read" THEN session = NoThread /\ session' = t ELSE session' = session,
         r.kind = "read" => handle[t] # Closed /\ handle[t].file = r.file
                              /\ handle[t].offset = r.pos,
         r.key = NoTitle, LocalAt(p, r, b),
         fit => CalmAt(Css, p, r, b, buf, currKey')
  PROVE  IsoInv'
<1>0. /\ Values /\ Session /\ Local /\ Cached /\ Quiet /\ Undisturbed
      /\ Handled(t)
  BY InCall
<1>1. /\ pc'[t] = p /\ op'[t] = r /\ out'[t] = b
      /\ \A u \in Threads \ {t} : pc'[u] = pc[u] /\ op'[u] = op[u] /\ out'[u] = out[u]
  BY <1>0 DEF Values
<1>2. /\ calm' \in [Threads -> BOOLEAN]
      /\ calm'[t] => fit /\ \A v \in Threads \ {t} : ~Busy(v)
      /\ \A u \in Threads \ {t} : calm'[u] => ~Busy(u)
  <2>1. calm' = [u \in Threads |-> IF u = t THEN fit /\ \A v \in Threads \ {t} : ~Busy(v)
                                   ELSE calm[u] /\ ~Busy(u)]
    BY DEF Disturb
  <2>2. ASSUME NEW u \in Threads
        PROVE  (IF u = t THEN fit /\ \A v \in Threads \ {t} : ~Busy(v)
                ELSE calm[u] /\ ~Busy(u)) \in BOOLEAN
    BY Zenon
  <2>3. calm' \in [Threads -> BOOLEAN]
    BY <2>1, <2>2, Zenon
  <2>4. calm'[t] => fit /\ \A v \in Threads \ {t} : ~Busy(v)
    BY <2>1
  <2>5. \A u \in Threads \ {t} : calm'[u] => ~Busy(u)
    BY <2>1
  <2>6. QED
    BY <2>3, <2>4, <2>5
<1>3. quiet' = (quiet /\ \A v \in Threads \ {t} : ~Busy(v))
  BY DEF Disturb
<1>4. Values'
  <2>1. pc' \in [Threads -> Labels] /\ op' \in [Threads -> Call] /\ out' \in [Threads -> Seq(Byte)]
    BY <1>0 DEF Values, Labels
  <2>2. quiet' \in BOOLEAN
    BY <1>3, Zenon
  <2>3. QED
    BY <1>0, <1>2, <2>1, <2>2 DEF Values
<1>5. Busy(t)' /\ \A u \in Threads \ {t} : Busy(u)' <=> Busy(u)
  BY <1>1 DEF Busy
<1>6. Session'
  <2>1. t # NoThread
    BY ThreadAssumption
  <2>2. CASE r.kind = "read"
    <3>1. session = NoThread /\ session' = t
      BY <2>2
    <3>2. \A u \in Threads \ {t} : ~(Busy(u) /\ op[u].kind = "read")
      BY <3>1, <1>0, ThreadAssumption DEF Session
    <3>3. QED
      BY <3>1, <3>2, <2>2, <1>1, <1>5 DEF Session
  <2>3. CASE r.kind # "read"
    <3>1. session' = session /\ session # t
      BY <2>3, <1>0 DEF Session
    <3>2. QED
      BY <3>1, <2>3, <1>0, <1>1, <1>5 DEF Session
  <2>4. QED
    BY <2>2, <2>3
<1>7. Quiet'
  <2> SUFFICES ASSUME quiet'
               PROVE  /\ \A u, v \in Threads : (Busy(u) /\ Busy(v))' => u = v
                      /\ \A u \in Threads : pc'[u] = "mark" => buf'.content.of = op'[u].sector
                      /\ (\A u \in Threads : pc'[u] # "mark") => Honest'
    BY Zenon DEF Quiet
  <2>1. quiet /\ \A v \in Threads : ~Busy(v)
    BY <1>3
  <2>2. \A u, v \in Threads : (Busy(u) /\ Busy(v))' => u = v
    BY <2>1, <1>5
  <2>3. \A u \in Threads : pc'[u] # "mark"
    BY <2>1, <1>1 DEF Busy
  <2>4. Honest
    BY <2>1, <1>0 DEF Quiet, Busy
  <2>5. QED
    BY <2>2, <2>3, <2>4 DEF Honest
<1>8. LocalTo(t)'
  <2>1. LocalAt(pc'[t], op'[t], out'[t])
    BY <1>1
  <2>2. Handled(t)'
    BY <1>0, <1>1 DEF Handled, KeyOf, Css
  <2>3. Found(t)' /\ Keyed(t)'
    BY <1>1 DEF Found, Keyed
  <2>4. QED
    BY <2>1, <2>2, <2>3 DEF LocalTo
<1>9. Calm(t)'
  <2> SUFFICES ASSUME calm'[t]
               PROVE  /\ Alone(t)' /\ (pc'[t] = "serve" => op'[t].gen = passes')
                      /\ CalmAt(Css', pc'[t], op'[t], out'[t], buf', currKey')
    BY DEF Calm
  <2>1. Alone(t)' /\ Css' = Css
    BY <1>2, <1>5 DEF Alone, Css
  <2>2. CalmAt(Css, p, r, b, buf, currKey')
    BY <1>2
  <2>3. QED
    BY <2>1, <2>2, <1>1
<1>10. ASSUME NEW u \in Threads \ {t} PROVE LocalTo(u)' /\ Calm(u)'
  <2>1. Unseen(u)
    BY <1>1 DEF Unseen
  <2>2. LocalTo(u)'
    BY <1>0, <2>1, OthersLocal
  <2>3. Calm(u)'
    BY <1>2, <1>5 DEF Calm
  <2>4. QED
    BY <2>2, <2>3
<1>11. QED
  BY <1>4, <1>6, <1>7, <1>8, <1>9, <1>10, Complete

\* What ReadData is left with of a read.
LEMMA Clamped ==
  ASSUME NEW f \in Files, NEW pos \in Int, NEW len \in Nat, Clamp(f, pos, len) > 0
  PROVE  /\ pos \in Nat /\ Clamp(f, pos, len) \in Nat
         /\ Askable("read", f, pos, Clamp(f, pos, len))
<1>1. Dirlist[f].size \in Nat
  BY FileTypes
<1>2. ~(pos < 0 \/ pos >= Dirlist[f].size)
  BY DEF Clamp
<1>3. Clamp(f, pos, len) = IF len <= Dirlist[f].size - pos THEN len ELSE Dirlist[f].size - pos
  BY <1>2 DEF Clamp, Least
<1>4. QED
  BY <1>1, <1>2, <1>3 DEF Askable

LEMMA ReadStep ==
  ASSUME IsoInv, NEW t \in Threads, Read(t)
  PROVE  IsoInv'
<1> DEFINE f == handle[t].file
           pos == handle[t].offset
<1>1. /\ Called(t) /\ handle[t] # Closed /\ session = NoThread /\ session' = t
      /\ currKey' = (IF Css THEN KeyFor(t) ELSE currKey)
      /\ out' = [out EXCEPT ![t] = <<>>]
      /\ handle' = handle /\ buf' = buf /\ cached' = cached /\ entries' = entries
      /\ passes' = passes /\ looked' = looked
  BY DEF Read, cache
<1>2. PICK len \in Lengths :
        /\ Clamp(f, pos, len) > 0
        /\ op' = [op EXCEPT ![t] = ReadCall("read", f, pos, Clamp(f, pos, len))]
        /\ pc' = [pc EXCEPT ![t] = Entrance(f)]
        /\ Disturb(t, Honest \/ buf.sector # FirstSector(f, pos))
  BY DEF Read
<1>3. /\ ~Busy(t) /\ disc' = disc /\ faults' = faults /\ calls' \in 0..MaxCalls
      /\ handle[t] \in Handle /\ f \in Files /\ handle[t].key = KeyOf(f)
  BY <1>1, IdleIs
<1>4. pos \in Int /\ len \in Nat
  BY <1>3, BoundAssumption DEF Handle
<1> DEFINE n == Clamp(f, pos, len)
           fit == Honest \/ buf.sector # FirstSector(f, pos)
           r == ReadCall("read", f, pos, n)
<1>5. pos \in Nat /\ n \in Nat /\ Askable("read", f, pos, n)
  <2> HIDE DEF f, pos
  <2>1. QED
    BY <1>2, <1>3, <1>4, Clamped
<1>6. Values /\ Cached /\ Clear(Css, buf.content) /\ Css \in BOOLEAN
  BY InCall DEF Cached
<1>7. "read" \in {"read", "cache"}
  OBVIOUS
<1>8. /\ r \in Call /\ r.kind = "read" /\ r.file = f /\ r.pos = pos /\ r.key = NoTitle
      /\ r.cached = (f \in cached)
  <2>1. r = ReadCall("read", f, pos, n)
    OBVIOUS
  <2> HIDE DEF f, pos, n, r
  <2>2. QED
    BY <2>1, <1>3, <1>5, <1>6, <1>7, ReadCallIs
<1>9. LocalAt(Entrance(f), r, <<>>)
  <2>1. r = ReadCall("read", f, pos, n)
    OBVIOUS
  <2> HIDE DEF f, pos, n, r
  <2>2. QED
    BY <2>1, <1>3, <1>5, <1>6, <1>7, ReadLocal
<1>10. Css => currKey' = Dirlist[f].title
  BY <1>1, <1>3 DEF KeyFor, KeyOf
<1>11. fit => CalmAt(Css, Entrance(f), r, <<>>, buf, currKey')
  <2>1. /\ r = ReadCall("read", f, pos, n)
        /\ fit => Honest \/ buf.sector # FirstSector(f, pos)
    OBVIOUS
  <2> HIDE DEF f, pos, n, r, fit
  <2>2. QED
    BY <2>1, <1>3, <1>5, <1>6, <1>7, <1>10, ReadCalm
<1>12. Entrance(f) \in {"lookup", "fetch", "next"} /\ fit \in BOOLEAN /\ <<>> \in Seq(Byte)
  BY DEF Entrance
<1>13. currKey' \in Nat \cup {NoTitle}
  <2>1. Dirlist[f].title \in Nat \cup {NoTitle} /\ currKey \in Nat \cup {NoTitle}
    BY <1>3, <1>6, FileTypes DEF Values
  <2>2. QED
    BY <2>1, <1>1, <1>10
<1>14. /\ op' = [op EXCEPT ![t] = r] /\ pc' = [pc EXCEPT ![t] = Entrance(f)] /\ Disturb(t, fit)
       /\ handle[t].file = f /\ handle[t].offset = pos
  BY <1>2
<1> HIDE DEF f, pos, n, r, fit
<1>15. /\ looked' \in [Threads -> Files \cup {0}] /\ passes' \in Nat /\ entries' \in Seq(Entry)
       /\ session' \in Threads \cup {NoThread}
  BY <1>1, <1>6 DEF Values
<1>16. EntriesKept
  BY <1>1 DEF EntriesKept
<1>17. Cached'
  BY <1>1, <1>3, <1>6, CachedKept
<1>18. QED
  BY <1>1, <1>3, <1>8, <1>9, <1>11, <1>12, <1>13, <1>14, <1>15, <1>16, <1>17, BeginStep

\* The call of a raw read of n bytes from sector s on.
RawRead(s, n) ==
  [NoCall EXCEPT !.kind = "raw", !.pos = s, !.sector = s, !.asked = n, !.rem = n]

LEMMA RawReadIs ==
  ASSUME NEW s \in Nat, NEW n \in Nat, NEW r, r = RawRead(s, n)
  PROVE  /\ r \in Call /\ r.key = NoTitle /\ ~r.cached /\ ~r.spoiled
         /\ r.kind = "raw" /\ r.pos = s /\ r.asked = n /\ r.rem = n /\ r.sector = s
<1> DEFINE k == "raw"
<1>1. r = [NoCall EXCEPT !.kind = k, !.pos = s, !.sector = s, !.asked = n, !.rem = n]
  BY DEF RawRead
<1>2. k \in {"none", "read", "raw", "cache"} /\ s \in Int
  OBVIOUS
<1> HIDE DEF k
<1>3. r \in Call
  BY <1>1, <1>2, NoCallIs DEF Call
<1>4. /\ r.key = NoCall.key /\ r.cached = NoCall.cached /\ r.spoiled = NoCall.spoiled
      /\ r.kind = k /\ r.pos = s /\ r.asked = n /\ r.rem = n /\ r.sector = s
  BY <1>1, <1>2, NoCallIs DEF Call
<1>5. QED
  BY <1>3, <1>4, NoCallIs DEF k

\* A raw read of m sectors from s on.
LEMMA RawCallIs ==
  ASSUME NEW s \in Nat, NEW m \in Nat \ {0}, NEW n, n = m * SectorSize,
         NEW r, r = RawRead(s, n)
  PROVE  /\ r \in Call /\ r.kind = "raw" /\ r.key = NoTitle
         /\ LocalAt("fetch", r, <<>>)
         /\ \A css \in BOOLEAN : \A f, k : CalmAt(css, "fetch", r, <<>>, f, k)
<1>1. SectorSize \in Nat \ {0} /\ n \in Nat /\ n > 0
  BY SizeAssumption
<1>2. m \in Int /\ 0 \in 0..(SectorSize - 1) /\ n = m * SectorSize + 0 /\ n \in Int
  BY <1>1
<1>3. n \div SectorSize = m
  BY <1>2, DivIs
<1>4. 0 \in 0..(SectorSize - 1) /\ 0 = 0 * SectorSize + 0
  BY <1>1
<1>5. 0 \div SectorSize = 0
  BY <1>4, DivIs
<1>6. n = (n \div SectorSize) * SectorSize
  BY <1>3, Zenon
<1>7. r \in Call /\ r.key = NoTitle /\ ~r.cached /\ ~r.spoiled
  BY <1>1, RawReadIs
<1>8. /\ r.kind = "raw" /\ r.pos = s /\ r.asked = n /\ r.rem = n /\ r.sector = s
  BY <1>1, RawReadIs
<1>9. Base(r) = s /\ StartOf(r) = 0 /\ Reached(r) = 0 /\ At(r) = 0
  BY <1>1, <1>8 DEF Base, StartOf, Reached, At
<1>10. Last(r) = s + m - 1
  BY <1>3, <1>8 DEF Last
<1>11. Sensible(r)
  BY <1>6, <1>8, Zenon DEF Sensible
<1>12. InPlace(r)
  <2>1. r.sector = Base(r) + At(r) \div SectorSize
    BY <1>5, <1>8, <1>9
  <2>2. QED
    BY <2>1, <1>1, <1>8, <1>9, <1>10 DEF InPlace
<1>13. Len(<<>>) = 0
  OBVIOUS
<1>14. LocalAt("fetch", r, <<>>)
  BY <1>7, <1>8, <1>9, <1>11, <1>12, <1>13 DEF LocalAt, Looping, Cacheful
<1>15. \A css \in BOOLEAN : <<>> = Due(css, r, Len(<<>>))
  BY DEF Due
<1>16. ASSUME NEW css \in BOOLEAN, NEW f, NEW k PROVE CalmAt(css, "fetch", r, <<>>, f, k)
  BY <1>7, <1>8, <1>15 DEF CalmAt, Looping
<1>17. QED
  BY <1>7, <1>8, <1>14, <1>16

LEMMA ReadRawStep ==
  ASSUME IsoInv, NEW t \in Threads, ReadRaw(t)
  PROVE  IsoInv'
<1>1. /\ Called(t) /\ pc' = [pc EXCEPT ![t] = "fetch"] /\ out' = [out EXCEPT ![t] = <<>>]
      /\ Disturb(t, TRUE) /\ handle' = handle /\ session' = session /\ buf' = buf
      /\ currKey' = currKey /\ cached' = cached /\ entries' = entries /\ passes' = passes
      /\ looked' = looked
  BY DEF ReadRaw, shared, cache
<1>2. PICK x \in RawReads :
        op' = [op EXCEPT ![t] = [NoCall EXCEPT !.kind = "raw", !.pos = x[1], !.sector = x[1],
                                   !.asked = x[2] * SectorSize, !.rem = x[2] * SectorSize]]
  BY DEF ReadRaw
<1>3. x[1] \in Nat /\ x[2] \in Nat \ {0}
  BY BoundAssumption
<1>4. PICK n, r : n = x[2] * SectorSize /\ r = RawRead(x[1], n)
  OBVIOUS
<1>5. op' = [op EXCEPT ![t] = r]
  BY <1>2, <1>4, Zenon DEF RawRead
<1>6. Values /\ Cached /\ Clear(Css, buf.content) /\ Css \in BOOLEAN
  BY InCall DEF Cached
<1>7. /\ r \in Call /\ r.kind = "raw" /\ r.key = NoTitle /\ LocalAt("fetch", r, <<>>)
      /\ CalmAt(Css, "fetch", r, <<>>, buf, currKey')
  BY <1>3, <1>4, <1>6, RawCallIs
<1>8. ~Busy(t) /\ disc' = disc /\ faults' = faults /\ calls' \in 0..MaxCalls
  BY <1>1, IdleIs
<1>9. "fetch" \in {"lookup", "fetch", "next"} /\ TRUE \in BOOLEAN /\ <<>> \in Seq(Byte)
  OBVIOUS
<1>10. /\ looked' \in [Threads -> Files \cup {0}] /\ passes' \in Nat /\ entries' \in Seq(Entry)
       /\ session' \in Threads \cup {NoThread} /\ currKey' \in Nat \cup {NoTitle}
  BY <1>1, <1>6 DEF Values
<1>11. EntriesKept
  BY <1>1 DEF EntriesKept
<1>12. Cached'
  BY <1>1, <1>6, <1>8, CachedKept
<1>13. r.kind # "read"
  BY <1>7
<1>14. QED
  BY <1>1, <1>5, <1>7, <1>8, <1>9, <1>10, <1>11, <1>12, <1>13, BeginStep

LEMMA CacheIfoFilesStep ==
  ASSUME IsoInv, NEW t \in Threads, CacheIfoFiles(t)
  PROVE  IsoInv'
<1> DEFINE r == [NoCall EXCEPT !.kind = "cache"]
<1>1. /\ Called(t) /\ pc' = [pc EXCEPT ![t] = "next"] /\ out' = out
      /\ Disturb(t, TRUE) /\ handle' = handle /\ session' = session /\ buf' = buf
      /\ currKey' = currKey /\ cached' = cached /\ entries' = <<>> /\ passes' = passes + 1
      /\ looked' = [looked EXCEPT ![t] = 0] /\ op' = [op EXCEPT ![t] = r]
  BY DEF CacheIfoFiles, shared
<1>2. r \in Call /\ r.kind = "cache" /\ r.key = NoTitle
  BY NoCallIs DEF Call
<1> HIDE DEF r
<1>3. Values /\ Cached /\ Clear(Css, buf.content) /\ Css \in BOOLEAN
  BY InCall DEF Cached
<1>4. ~Busy(t) /\ disc' = disc /\ faults' = faults /\ calls' \in 0..MaxCalls
  BY <1>1, IdleIs
<1>5. out[t] \in Seq(Byte) /\ out' = [out EXCEPT ![t] = out[t]]
  BY <1>1, <1>3 DEF Values
<1>6. "next" \in {"lookup", "fetch", "next"} /\ TRUE \in BOOLEAN
  OBVIOUS
<1>7. /\ looked' \in [Threads -> Files \cup {0}] /\ passes' \in Nat
      /\ session' \in Threads \cup {NoThread} /\ currKey' \in Nat \cup {NoTitle}
  BY <1>1, <1>3 DEF Values
<1>8. entries' \in Seq(Entry) /\ DOMAIN entries' = {}
  BY <1>1
<1>9. EntriesKept
  BY <1>1 DEF EntriesKept
<1>10. Cached'
  <2>1. Clear(Css, buf.content)'
    BY <1>1, <1>3, <1>4 DEF Clear, Css
  <2>2. QED
    BY <2>1, <1>8 DEF Cached, CacheSound
<1>11. LocalAt("next", r, out[t])
  BY <1>2 DEF LocalAt, Looping, Cacheful
<1>12. CalmAt(Css, "next", r, out[t], buf, currKey')
  BY <1>2, <1>3 DEF CalmAt, Looping
<1>13. r.kind # "read"
  BY <1>2
<1>14. QED
  BY <1>1, <1>2, <1>4, <1>5, <1>6, <1>7, <1>8, <1>9, <1>10, <1>11, <1>12, <1>13, BeginStep

-----------------------------------------------------------------------------
(* Every step *)

LEMMA IsoStart == Init => IsoInv
<1> SUFFICES ASSUME Init PROVE IsoInv
  OBVIOUS
<1>1. /\ disc \in {"css", "plain", "image"} /\ session = NoThread
      /\ handle = [t \in Threads |-> Closed]
      /\ buf = [sector |-> 0, content |-> Nothing] /\ currKey = NoTitle
      /\ cached = {} /\ entries = <<>> /\ passes = 0
      /\ pc = [t \in Threads |-> "idle"] /\ op = [t \in Threads |-> NoCall]
      /\ out = [t \in Threads |-> <<>>] /\ looked = [t \in Threads |-> 0]
      /\ calm = [t \in Threads |-> TRUE] /\ quiet = TRUE /\ calls = 0 /\ faults = 0
  BY DEF Init
<1>2. Nothing \in Content /\ Nothing.of = 0
  BY DEF Nothing, Content, Texts
<1>3. \A t \in Threads : ~Busy(t)
  BY <1>1 DEF Busy
<1>4. Values
  <2>1. handle \in [Threads -> Handle]
    BY <1>1, ClosedIs
  <2>2. buf \in [sector : Nat, content : Content]
    BY <1>1, <1>2
  <2>3. entries \in Seq(Entry) /\ passes \in Nat /\ cached \subseteq Files
    BY <1>1
  <2>4. pc \in [Threads -> Labels] /\ op \in [Threads -> Call] /\ out \in [Threads -> Seq(Byte)]
    <3>1. <<>> \in Seq(Byte)
      OBVIOUS
    <3>2. QED
      BY <3>1, <1>1, NoCallIs DEF Labels
  <2>5. calm \in [Threads -> BOOLEAN] /\ quiet \in BOOLEAN
    BY <1>1, Zenon
  <2>6. calls \in 0..MaxCalls /\ faults \in 0..MaxFaults
    BY <1>1, BoundAssumption
  <2>7. looked \in [Threads -> Files \cup {0}]
    BY <1>1
  <2>8. QED
    BY <1>1, <2>1, <2>2, <2>3, <2>4, <2>5, <2>6, <2>7 DEF Values
<1>5. Session
  BY <1>1, <1>3, ThreadAssumption DEF Session
<1>6. Local
  <2> SUFFICES ASSUME NEW t \in Threads PROVE LocalTo(t)
    BY DEF Local, LocalTo
  <2>1. pc[t] = "idle" /\ op[t] = NoCall /\ out[t] = <<>> /\ handle[t] = Closed
    BY <1>1
  <2>2. LocalAt("idle", NoCall, <<>>)
    BY NoCallIs DEF LocalAt, Looping, Cacheful
  <2>3. LocalAt(pc[t], op[t], out[t])
    BY <2>1, <2>2
  <2>4. Handled(t) /\ Found(t) /\ Keyed(t)
    BY <1>3, <2>1, NoCallIs DEF Handled, Found, Keyed
  <2>5. QED
    BY <2>3, <2>4 DEF LocalTo
<1>7. Cached
  BY <1>1 DEF Cached, Clear, CacheSound
<1>8. Quiet
  <2>1. Honest
    BY <1>1, <1>2 DEF Honest
  <2>2. QED
    BY <2>1, <1>1, <1>3 DEF Quiet
<1>9. Undisturbed
  BY <1>3 DEF Undisturbed, Calm
<1>10. QED
  BY <1>4, <1>5, <1>6, <1>7, <1>8, <1>9, Typing DEF IsoInv

LEMMA IsoStep == IsoInv /\ [Next]_vars => IsoInv'
<1> SUFFICES ASSUME IsoInv, [Next]_vars PROVE IsoInv'
  OBVIOUS
<1>1. ASSUME NEW t \in Threads, Begin(t) PROVE IsoInv'
  <2>1. CASE Open(t)
    BY <2>1, OpenStep
  <2>2. CASE Close(t)
    BY <2>2, CloseStep
  <2>3. CASE Seek(t)
    BY <2>3, SeekStep
  <2>4. CASE ReadNothing(t)
    BY <2>4, ReadNothingStep
  <2>5. CASE Read(t)
    BY <2>5, ReadStep
  <2>6. CASE ReadRaw(t)
    BY <2>6, ReadRawStep
  <2>7. CASE CacheIfoFiles(t)
    BY <2>7, CacheIfoFilesStep
  <2>8. QED
    BY <1>1, <2>1, <2>2, <2>3, <2>4, <2>5, <2>6, <2>7 DEF Begin
<1>2. ASSUME NEW t \in Threads, Proceed(t) PROVE IsoInv'
  <2>1. CASE CacheNext(t)
    BY <2>1, CacheNextStep
  <2>2. CASE Fetch(t)
    BY <2>2, FetchStep
  <2>3. CASE Mark(t)
    BY <2>3, MarkStep
  <2>4. CASE Test(t)
    BY <2>4, TestStep
  <2>5. CASE Copy(t)
    BY <2>5, CopyStep
  <2>6. CASE Lookup(t)
    BY <2>6, LookupStep
  <2>7. CASE Serve(t)
    BY <2>7, ServeStep
  <2>8. CASE Load(t)
    BY <2>8, LoadStep
  <2>9. CASE Return(t)
    BY <2>9, ReturnStep
  <2>10. QED
    BY <1>2, <2>1, <2>2, <2>3, <2>4, <2>5, <2>6, <2>7, <2>8, <2>9 DEF Proceed
<1>3. CASE UNCHANGED vars
  <2>1. /\ disc' = disc /\ handle' = handle /\ session' = session /\ buf' = buf
        /\ currKey' = currKey /\ cached' = cached /\ entries' = entries /\ passes' = passes
        /\ pc' = pc /\ op' = op /\ out' = out /\ looked' = looked /\ calm' = calm
        /\ quiet' = quiet /\ calls' = calls /\ faults' = faults
    BY <1>3 DEF vars, shared, cache, local, ghosts
  <2>2. TypeOK'
    BY <2>1 DEF IsoInv, TypeOK, Busy
  <2>3. Local'
    BY <2>1 DEF IsoInv, Local, Handled, Found, Keyed, Busy, KeyOf, Css
  <2>4. Cached' /\ Quiet'
    BY <2>1 DEF IsoInv, Cached, CacheSound, Quiet, Honest, Busy, Css
  <2>5. Undisturbed'
    BY <2>1 DEF IsoInv, Undisturbed, Calm, Alone, Busy, Css
  <2>6. QED
    BY <2>2, <2>3, <2>4, <2>5 DEF IsoInv
<1>4. QED
  BY <1>1, <1>2, <1>3 DEF Next

(* The invariant of the reads: types, each call, the cache, the buffer, and *)
(* what an undisturbed call may rely on.                                   *)
THEOREM IsoInvariant == Spec => []IsoInv
  BY IsoStart, IsoStep, PTL DEF Spec

-----------------------------------------------------------------------------
(* The properties *)

(* The variables keep their types, and the session belongs to the thread   *)
(* that is in a read: iso9660fs_read alone takes session_mutex.            *)
THEOREM IsoTypeCorrect == Spec => []TypeOK
<1>1. IsoInv => TypeOK
  BY DEF IsoInv
<1>2. QED
  BY <1>1, IsoInvariant, PTL

(* A read that nothing disturbed delivers the bytes of its file at its     *)
(* position, in the clear: for sectors of any size, files at any place     *)
(* that hold each its own sectors, and any number of threads.              *)
THEOREM IsoRightBytes == Spec => []RightBytes
<1>1. IsoInv => RightBytes
  <2> SUFFICES ASSUME IsoInv, NEW t \in Threads, Returns(t, "read"), calm[t],
                      ~op[t].spoiled, KeyFits(op[t].file)
               PROVE  out[t] = Wanted(op[t].file, op[t].pos, Len(out[t]))
    BY DEF RightBytes
  <2> DEFINE o == op[t]
  <2>1. /\ pc[t] = "return" /\ o.kind = "read" /\ o \in Call /\ out[t] \in Seq(Byte)
        /\ Calm(t) /\ Css \in BOOLEAN
    BY InCall DEF Returns
  <2>2. CalmAt(Css, "return", o, out[t], buf, currKey)
    BY <2>1 DEF Calm, Busy
  <2>3. Sure(o)
    BY <2>1 DEF Sure
  <2>4. out[t] = Due(Css, o, Len(out[t]))
    BY <2>1, <2>2, <2>3 DEF CalmAt, Looping
  <2>5. Len(out[t]) \in Nat /\ o.kind # "raw"
    BY <2>1, SeqIs
  <2>6. Due(Css, o, Len(out[t])) = Wanted(o.file, o.pos, Len(out[t]))
    BY <2>1, <2>5, WantedIsDue
  <2>7. QED
    BY <2>4, <2>6, Zenon
<1>2. QED
  BY <1>1, IsoInvariant, PTL

(* A raw read that nothing disturbed delivers its sectors as the disc has  *)
(* them, whatever was unscrambled in the buffer before it.                 *)
THEOREM IsoRawBytes == Spec => []RawBytes
<1>1. IsoInv => RawBytes
  <2> SUFFICES ASSUME IsoInv, NEW t \in Threads, Returns(t, "raw"), calm[t]
               PROVE  out[t] = [i \in 1..op[t].asked |->
                         [sector |-> op[t].pos + (i - 1) \div SectorSize,
                          off    |-> (i - 1) % SectorSize,
                          text   |-> OnDisc(Css, op[t].pos + (i - 1) \div SectorSize).text]]
    BY Zenon DEF RawBytes
  <2> DEFINE o == op[t]
  <2>1. /\ pc[t] = "return" /\ o.kind = "raw" /\ o \in Call /\ out[t] \in Seq(Byte)
        /\ LocalAt("return", o, out[t]) /\ Calm(t) /\ Css \in BOOLEAN
    BY InCall DEF Returns
  <2>2. CalmAt(Css, "return", o, out[t], buf, currKey)
    BY <2>1 DEF Calm, Busy
  <2>3. ~o.cached /\ o.pos >= 0 /\ Len(out[t]) = o.asked /\ o.asked \in Nat
    BY <2>1, CallIs DEF LocalAt
  <2>4. Sure(o)
    BY <2>1 DEF Sure
  <2>5. out[t] = Due(Css, o, o.asked)
    BY <2>2, <2>3, <2>4 DEF CalmAt, Looping
  <2>6. Due(Css, o, o.asked) =
          [i \in 1..o.asked |->
             [sector |-> o.pos + (i - 1) \div SectorSize,
              off    |-> (i - 1) % SectorSize,
              text   |-> OnDisc(Css, o.pos + (i - 1) \div SectorSize).text]]
    <3> HIDE DEF o
    <3>1. QED
      BY <2>1, <2>3, RawIsDue
  <2>7. QED
    BY <2>5, <2>6, Zenon
<1>2. QED
  BY <1>1, IsoInvariant, PTL

(* A read from the disc delivers all it reports exactly when its start and *)
(* its length cross no more sector boundaries than ReadData visits, for    *)
(* sectors of any size and reads of any length, failed ones too.           *)
THEOREM IsoDelivered == Spec => []Delivered
<1>1. IsoInv => Delivered
  <2> SUFFICES ASSUME IsoInv, NEW t \in Threads, Returns(t, "read"), ~op[t].cached
               PROVE  /\ Len(out[t]) <= op[t].asked
                      /\ Len(out[t]) = op[t].asked <=> Covered(op[t].pos, op[t].asked)
    BY Zenon DEF Delivered
  <2>1. pc[t] = "return" /\ op[t].kind = "read" /\ LocalAt("return", op[t], out[t])
    BY InCall DEF Returns
  <2>2. QED
    BY <2>1 DEF LocalAt
<1>2. QED
  BY <1>1, IsoInvariant, PTL

(* A sound entry of the IFO cache is its file, from the first byte to the  *)
(* last, however long the file is.                                         *)
THEOREM IsoCacheSound == Spec => []CacheSound
<1>1. IsoInv => CacheSound
  BY DEF IsoInv, Cached
<1>2. QED
  BY <1>1, IsoInvariant, PTL

(* Until a sector fails or two calls overlap, the buffer holds the sector  *)
(* read_sector names whenever no call is under way.                        *)
THEOREM IsoBufferHonest == Spec => []BufferHonest
<1>1. IsoInv => BufferHonest
  BY DEF IsoInv, Quiet, BufferHonest, Busy
<1>2. QED
  BY <1>1, IsoInvariant, PTL

(* The key in force during an undisturbed read of a CSS disc is its own    *)
(* handle's, whichever handle was opened, read or closed before.           *)
THEOREM IsoOwnKey == Spec => []OwnKey
<1>1. IsoInv => OwnKey
  <2> SUFFICES ASSUME IsoInv, NEW t \in Threads, Css, calm[t], Busy(t), op[t].kind = "read"
               PROVE  currKey = handle[t].key
    BY DEF OwnKey
  <2>1. LocalAt(pc[t], op[t], out[t]) /\ Handled(t) /\ Calm(t)
    BY InCall
  <2>2. pc[t] # "next"
    BY <2>1 DEF LocalAt
  <2>3. currKey = Dirlist[op[t].file].title
    BY <2>1, <2>2 DEF Calm, CalmAt
  <2>4. handle[t].key = KeyOf(op[t].file)
    BY <2>1 DEF Handled
  <2>5. QED
    BY <2>3, <2>4 DEF KeyOf
<1>2. QED
  BY <1>1, IsoInvariant, PTL

=============================================================================
