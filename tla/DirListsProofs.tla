--------------------------- MODULE DirListsProofs ---------------------------
(***************************************************************************)
(* Proofs about DirLists, for any discs, any number of iterations over any *)
(* directories and any reads that fail: types, what an iteration returns   *)
(* while no other disturbs it, and that what is listed of a disc the       *)
(* parsers can read, while no read fails, is what it holds.                *)
(***************************************************************************)
EXTENDS DirLists, FiniteSetTheorems, WellFoundedInduction, TLAPS

(* What the parsers keep: records of the disc's kind in every call and     *)
(* buffer, and the path of a call as long as the call is deep.             *)
RecordsOf(d) == CASE System[d] = "iso" -> Record
                  [] System[d] = "udf" -> FidsOf(Udf[d])
                  [] OTHER             -> {}

Items == [path : Seq(Names), isdir : BOOLEAN]
Listable(list) ==
  /\ list \in Seq(Items)
  /\ \A i \in 1..Len(list) : Len(list[i].path) \in 1..MaxDepth

Frame(d) == [of : Seq(RecordsOf(d)), next : Nat, path : Seq(Names), size : Nat,
             entry : Seq(Items)]
FrameAt(n, c) ==
  /\ c.next \in 1 .. Len(c.of) + 1
  /\ Len(c.path) = n - 1
  /\ Listable(c.entry)
Calls(d, s) ==
  /\ s \in Seq(Frame(d)) /\ Len(s) <= MaxDepth
  /\ \A n \in 1..Len(s) : FrameAt(n, s[n])

Reading(d, l, c, f) ==
  /\ l \in [1..MaxDepth -> Seq(RecordsOf(d))]
  /\ c \in BOOLEAN /\ f \in 0..MaxFaults /\ (c <=> f = 0)

Between == {"mount", "listed", "crashed"}

Parser ==
  /\ disc \in Discs /\ how \in {"drive", "image"}
  /\ pc \in {"mount", "parse", "walk", "entry", "listed", "crashed"}
  /\ Calls(disc, stack)
  /\ (stack = <<>>) <=> (pc \in Between)
  /\ Listable(dirlist)
  /\ Reading(disc, left, clean, faults)
  /\ isjoliet \in BOOLEAN /\ off \in Nat /\ name \in Names /\ fe \in FileEntry
  /\ pc = "walk" => System[disc] = "iso" /\ Top.next <= Len(Top.of)
  /\ pc = "entry" => System[disc] = "udf" /\ Top.next <= Len(Top.of)
  /\ pc = "parse" => System[disc] \in {"iso", "udf"}

-----------------------------------------------------------------------------
(* Calls, lists and buffers *)

\* What has a length of one is not empty.
LEMMA NotEmpty == \A s : Len(s) = 1 => s # <<>>
  OBVIOUS

\* Appending to a sequence keeps what is in it.
LEMMA Appends ==
  ASSUME NEW S, NEW s \in Seq(S), NEW e \in S
  PROVE  /\ Append(s, e) \in Seq(S) /\ Len(Append(s, e)) = Len(s) + 1
         /\ \A i \in 1..Len(s) : Append(s, e)[i] = s[i]
         /\ Append(s, e)[Len(s) + 1] = e
  OBVIOUS

\* So does appending a sequence.
LEMMA Concats ==
  ASSUME NEW S, NEW s \in Seq(S), NEW r \in Seq(S)
  PROVE  /\ s \o r \in Seq(S) /\ Len(s \o r) = Len(s) + Len(r)
         /\ \A i \in 1..Len(s) : (s \o r)[i] = s[i]
         /\ \A i \in 1..Len(r) : (s \o r)[Len(s) + i] = r[i]
  OBVIOUS

\* The innermost call, and what it parses.
LEMMA TopIs ==
  ASSUME Parser, pc \notin Between
  PROVE  /\ Len(stack) \in 1..MaxDepth /\ Top \in Frame(disc) /\ FrameAt(Len(stack), Top)
         /\ Top.of \in Seq(RecordsOf(disc)) /\ Top.path \in Seq(Names)
         /\ Len(Top.path) = Len(stack) - 1 /\ Top.next \in 1 .. Len(Top.of) + 1
         /\ Listable(Top.entry)
<1>1. stack \in Seq(Frame(disc)) /\ stack # <<>> /\ Len(stack) <= MaxDepth /\ MaxDepth \in Nat
  BY ListAssumption DEF Parser, Calls
<1>2. Len(stack) \in 1..MaxDepth
  BY <1>1
<1>3. Top \in Frame(disc) /\ FrameAt(Len(stack), Top)
  BY <1>1, <1>2 DEF Parser, Calls, Top
<1>4. QED
  BY <1>2, <1>3 DEF Frame, FrameAt

\* The record it is at is one of the disc's.
LEMMA HereIs ==
  ASSUME Parser, pc \notin Between, Top.next <= Len(Top.of)
  PROVE  Here \in RecordsOf(disc)
  BY TopIs DEF Here

\* Going on to the next record.
LEMMA AdvancedOk ==
  ASSUME Parser, pc \notin Between, Top.next <= Len(Top.of)
  PROVE  Calls(disc, Advanced) /\ Len(Advanced) = Len(stack) /\ Len(stack) \in 1..MaxDepth
<1> DEFINE n == Len(stack)
           c == [Top EXCEPT !.next = @ + 1]
<1>1. n \in 1..MaxDepth /\ Top \in Frame(disc) /\ FrameAt(n, Top)
      /\ Top.of \in Seq(RecordsOf(disc)) /\ Top.next \in 1 .. Len(Top.of) + 1
  BY TopIs
<1>2. stack \in Seq(Frame(disc)) /\ n \in DOMAIN stack /\ Len(stack) <= MaxDepth
      /\ \A i \in 1..Len(stack) : FrameAt(i, stack[i])
  BY <1>1 DEF Parser, Calls
<1>3. c \in Frame(disc) /\ c.of = Top.of /\ c.next = Top.next + 1 /\ c.path = Top.path
      /\ c.entry = Top.entry
  BY <1>1 DEF Frame
<1>4. c.next \in 1 .. Len(c.of) + 1
  BY <1>1, <1>3
<1>5. FrameAt(n, c)
  BY <1>1, <1>3, <1>4 DEF FrameAt
<1>6. Advanced = [stack EXCEPT ![n] = c]
  BY <1>2 DEF Advanced, Top
<1> HIDE DEF c, n
<1>7. /\ [stack EXCEPT ![n] = c] \in Seq(Frame(disc)) /\ Len([stack EXCEPT ![n] = c]) = Len(stack)
      /\ \A i \in 1..Len(stack) : [stack EXCEPT ![n] = c][i] = IF i = n THEN c ELSE stack[i]
  BY <1>2, <1>3
<1>8. QED
  BY <1>1, <1>2, <1>5, <1>6, <1>7 DEF Calls, n

\* A call more.
LEMMA CallOk ==
  ASSUME NEW d, NEW s, Calls(d, s), Len(s) < MaxDepth,
         NEW of \in Seq(RecordsOf(d)), NEW path \in Seq(Names), Len(path) = Len(s),
         NEW size \in Nat, NEW entry, Listable(entry)
  PROVE  Calls(d, Append(s, Call(of, path, size, entry)))
         /\ Append(s, Call(of, path, size, entry)) # <<>>
<1> DEFINE c == Call(of, path, size, entry)
<1>1. entry \in Seq(Items)
  BY DEF Listable
<1>2. c \in Frame(d) /\ c.of = of /\ c.next = 1 /\ c.path = path /\ c.entry = entry
  BY <1>1 DEF Call, Frame
<1>3. Len(of) \in Nat /\ Len(s) \in Nat /\ MaxDepth \in Nat
  BY ListAssumption DEF Calls
<1>4. FrameAt(Len(s) + 1, c)
  BY <1>2, <1>3 DEF FrameAt
<1> HIDE DEF c
<1>5. /\ Append(s, c) \in Seq(Frame(d)) /\ Len(Append(s, c)) = Len(s) + 1
      /\ \A i \in 1..Len(s) : Append(s, c)[i] = s[i]
      /\ Append(s, c)[Len(s) + 1] = c
  BY <1>2, Appends DEF Calls
<1>6. \A i \in 1..Len(Append(s, c)) : FrameAt(i, Append(s, c)[i])
  BY <1>3, <1>4, <1>5 DEF Calls
<1>7. Len(<<>>) = 0
  OBVIOUS
<1> DEFINE longer == Append(s, c)
<1>8. longer \in Seq(Frame(d)) /\ Len(longer) \in Nat /\ Len(longer) <= MaxDepth /\ longer # <<>>
  <2>1. Len(longer) = Len(s) + 1 /\ longer \in Seq(Frame(d))
    BY <1>5
  <2> HIDE DEF longer
  <2>2. QED
    BY <1>3, <1>7, <2>1
<1> HIDE DEF longer
<1>9. \A i \in 1..Len(longer) : FrameAt(i, longer[i])
  BY <1>6 DEF longer
<1>10. QED
  BY <1>8, <1>9 DEF Calls, longer, c

\* All but the last of a sequence.
LEMMA FrontIs ==
  ASSUME NEW S, NEW s \in Seq(S), Len(s) >= 1
  PROVE  /\ SubSeq(s, 1, Len(s) - 1) \in Seq(S) /\ Len(SubSeq(s, 1, Len(s) - 1)) = Len(s) - 1
         /\ \A i \in 1 .. Len(s) - 1 : SubSeq(s, 1, Len(s) - 1)[i] = s[i]
<1>1. PICK n \in Nat : n = Len(s) - 1
  OBVIOUS
<1>2. \A i \in 1..n : s[i] \in S
  BY <1>1
<1>3. Len(SubSeq(s, 1, n)) = n
  BY <1>1
<1>4. \A i \in 1..n : SubSeq(s, 1, n)[i] = s[i]
  BY <1>1
<1>5. SubSeq(s, 1, n) \in Seq(S)
  BY <1>2
<1>6. QED
  BY <1>1, <1>3, <1>4, <1>5, Zenon

\* A call less.
LEMMA PoppedOk ==
  ASSUME NEW d, NEW s, Calls(d, s), Len(s) >= 1
  PROVE  /\ Calls(d, SubSeq(s, 1, Len(s) - 1))
         /\ (SubSeq(s, 1, Len(s) - 1) = <<>>) <=> (Len(s) = 1)
<1> DEFINE r == SubSeq(s, 1, Len(s) - 1)
<1>1. s \in Seq(Frame(d)) /\ Len(s) \in Nat /\ MaxDepth \in Nat
  BY ListAssumption DEF Calls
<1>2. r \in Seq(Frame(d)) /\ Len(r) = Len(s) - 1 /\ \A i \in 1 .. Len(s) - 1 : r[i] = s[i]
  BY <1>1, FrontIs
<1> HIDE DEF r
<1>3. (r = <<>>) <=> (Len(s) = 1)
  BY <1>1, <1>2
<1>4. Calls(d, r)
  BY <1>1, <1>2 DEF Calls
<1>5. QED
  BY <1>3, <1>4 DEF r

\* No entry.
LEMMA NothingOk == Listable(<<>>)
  BY DEF Listable

\* The first call.
LEMMA FirstCallOk ==
  ASSUME NEW d, NEW of \in Seq(RecordsOf(d)), NEW size \in Nat
  PROVE  Calls(d, <<Call(of, <<>>, size, <<>>)>>) /\ <<Call(of, <<>>, size, <<>>)>> # <<>>
<1> DEFINE c == Call(of, <<>>, size, <<>>)
<1>1. c \in Frame(d) /\ c.of = of /\ c.next = 1 /\ c.path = <<>> /\ c.entry = <<>>
  <2>1. <<>> \in Seq(Names) /\ <<>> \in Seq(Items)
    OBVIOUS
  <2>2. PICK p \in Seq(Names), e \in Seq(Items) : p = <<>> /\ e = <<>>
    BY <2>1
  <2>3. c = [of |-> of, next |-> 1, path |-> p, size |-> size, entry |-> e]
    BY <2>2, Zenon DEF Call
  <2>4. c \in Frame(d) /\ c.of = of /\ c.next = 1 /\ c.path = p /\ c.entry = e
    BY <2>3 DEF Frame
  <2>5. QED
    BY <2>2, <2>4, Zenon
<1>2. Len(of) \in Nat /\ MaxDepth \in Nat \ {0}
  BY ListAssumption
<1> HIDE DEF c
<1>3. FrameAt(1, c)
  <2>1. Len(c.path) = 0 /\ Listable(c.entry) /\ c.next \in 1 .. Len(c.of) + 1
    <3>1. Len(<<>>) = 0
      OBVIOUS
    <3>2. Len(c.path) = 0 /\ Listable(c.entry)
      BY <1>1, <3>1, NothingOk, Zenon
    <3>3. c.next \in 1 .. Len(c.of) + 1
      BY <1>1, <1>2
    <3>4. QED
      BY <3>2, <3>3
  <2>2. QED
    BY <2>1 DEF FrameAt
<1>4. Calls(d, <<c>>) /\ <<c>> # <<>>
  BY <1>1, <1>2, <1>3 DEF Calls
<1>5. QED
  BY <1>4 DEF c

\* An entry more.
LEMMA ListedOk ==
  ASSUME NEW list, Listable(list), NEW path \in Seq(Names), Len(path) \in 1..MaxDepth,
         NEW b \in BOOLEAN
  PROVE  Listable(Append(list, Entry(path, b)))
<1> DEFINE e == Entry(path, b)
<1>1. e \in Items /\ e.path = path
  BY DEF Entry, Items
<1> HIDE DEF e
<1>2. list \in Seq(Items) /\ Len(list) \in Nat
  BY DEF Listable
<1>3. /\ Append(list, e) \in Seq(Items) /\ Len(Append(list, e)) = Len(list) + 1
      /\ \A i \in 1..Len(list) : Append(list, e)[i] = list[i]
      /\ Append(list, e)[Len(list) + 1] = e
  BY <1>1, <1>2, Appends
<1>4. \A i \in 1..Len(Append(list, e)) : Len(Append(list, e)[i].path) \in 1..MaxDepth
  BY <1>1, <1>2, <1>3 DEF Listable
<1>5. QED
  BY <1>3, <1>4 DEF Listable, e

\* Entries more.
LEMMA JoinedOk ==
  ASSUME NEW list, Listable(list), NEW more, Listable(more)
  PROVE  Listable(list \o more)
<1>1. list \in Seq(Items) /\ more \in Seq(Items) /\ Len(list) \in Nat /\ Len(more) \in Nat
  BY DEF Listable
<1>2. /\ list \o more \in Seq(Items) /\ Len(list \o more) = Len(list) + Len(more)
      /\ \A i \in 1..Len(list) : (list \o more)[i] = list[i]
      /\ \A i \in 1..Len(more) : (list \o more)[Len(list) + i] = more[i]
  BY <1>1, Concats
<1>3. ASSUME NEW i \in 1..Len(list \o more) PROVE Len((list \o more)[i].path) \in 1..MaxDepth
  <2>1. CASE i \in 1..Len(list)
    BY <1>2, <2>1 DEF Listable
  <2>2. CASE i \notin 1..Len(list)
    <3>1. i - Len(list) \in 1..Len(more) /\ i = Len(list) + (i - Len(list))
      BY <1>1, <1>2, <2>2
    <3>2. QED
      BY <1>2, <3>1 DEF Listable
  <2>3. QED
    BY <2>1, <2>2
<1>4. QED
  BY <1>2, <1>3 DEF Listable

\* A read that fails.
LEMMA FailedOk ==
  ASSUME Reading(disc, left, clean, faults), faults < MaxFaults, faults' = faults + 1
  PROVE  Reading(disc, left, FALSE, faults')
<1>1. MaxFaults \in Nat
  BY ListAssumption
<1>2. faults' \in 0..MaxFaults /\ faults' # 0
  BY <1>1 DEF Reading
<1>3. QED
  BY <1>2 DEF Reading

\* A read into the buffer of a call.
LEMMA ReadOk ==
  ASSUME Reading(disc, left, clean, faults), NEW n \in 1..MaxDepth,
         NEW of \in Seq(RecordsOf(disc)), NEW got \in Seq(RecordsOf(disc)), ReadInto(n, of, got)
  PROVE  Reading(disc, left', clean', faults')
<1>1. MaxFaults \in Nat
  BY ListAssumption
<1>2. left' \in [1..MaxDepth -> Seq(RecordsOf(disc))]
  <2>1. left' = [left EXCEPT ![n] = got] /\ left \in [1..MaxDepth -> Seq(RecordsOf(disc))]
    BY DEF Reading, ReadInto
  <2>2. QED
    BY <2>1
<1>3. clean' \in BOOLEAN /\ faults' \in 0..MaxFaults /\ (clean' <=> faults' = 0)
  <2>1. CASE UNCHANGED <<clean, faults>>
    BY <2>1 DEF Reading
  <2>2. CASE faults < MaxFaults /\ faults' = faults + 1 /\ clean' = FALSE
    BY <2>2, FailedOk DEF Reading
  <2>3. QED
    BY <2>1, <2>2 DEF ReadInto
<1>4. QED
  BY <1>2, <1>3 DEF Reading

-----------------------------------------------------------------------------
(* What a step of a parser keeps *)

\* What is left to show of a step that leads to a label with calls under way.
LEMMA Goes ==
  ASSUME Parser, disc' = disc, how' = how,
         pc' \in {"parse", "walk", "entry"}, Calls(disc, stack'), stack' # <<>>,
         Listable(dirlist'), Reading(disc, left', clean', faults'),
         isjoliet' \in BOOLEAN, off' \in Nat, name' \in Names, fe' \in FileEntry,
         pc' = "walk" => System[disc] = "iso" /\ Top'.next <= Len(Top'.of),
         pc' = "entry" => System[disc] = "udf" /\ Top'.next <= Len(Top'.of),
         pc' = "parse" => System[disc] \in {"iso", "udf"}
  PROVE  Parser'
<1>1. Calls(disc', stack') /\ Listable(dirlist') /\ Reading(disc', left', clean', faults')
  BY Zenon
<1>2. disc' \in Discs /\ how' \in {"drive", "image"}
  BY DEF Parser
<1>3. (stack' = <<>>) <=> (pc' \in Between)
  BY DEF Between
<1>4. QED
  BY <1>1, <1>2, <1>3 DEF Parser

\* And of one that ends it.
LEMMA Ends ==
  ASSUME Parser, disc' = disc, how' = how, pc' \in {"listed", "crashed"}, stack' = <<>>,
         Listable(dirlist'), Reading(disc, left', clean', faults'),
         isjoliet' \in BOOLEAN, off' \in Nat, name' \in Names, fe' \in FileEntry
  PROVE  Parser'
<1>1. Calls(disc', <<>>)
  BY ListAssumption DEF Calls
<1>2. Calls(disc', stack') /\ Listable(dirlist') /\ Reading(disc', left', clean', faults')
  BY <1>1, Zenon
<1>3. disc' \in Discs /\ how' \in {"drive", "image"}
  BY DEF Parser
<1>4. (stack' = <<>>) <=> (pc' \in Between)
  BY DEF Between
<1>5. QED
  BY <1>2, <1>3, <1>4 DEF Parser

\* A step that leaves the parser alone.
LEMMA Rests ==
  ASSUME Parser, UNCHANGED <<listvars, isovars, udfvars>>
  PROVE  Parser'
<1>1. /\ disc' = disc /\ how' = how /\ pc' = pc /\ stack' = stack /\ dirlist' = dirlist
      /\ left' = left /\ clean' = clean /\ faults' = faults
      /\ isjoliet' = isjoliet /\ off' = off /\ name' = name /\ fe' = fe
  BY DEF listvars, isovars, walkvars, udfvars
<1>2. Top' = Top
  BY <1>1 DEF Top
<1>3. QED
  BY <1>1, <1>2 DEF Parser

\* The innermost call returns.
LEMMA ReturnOk ==
  ASSUME Parser, pc = "parse", Return,
         isjoliet' = isjoliet, off' = off, name' = name, fe' = fe
  PROVE  Parser'
<1>1. /\ disc' = disc /\ how' = how /\ left' = left /\ clean' = clean /\ faults' = faults
      /\ stack' = SubSeq(stack, 1, Len(stack) - 1) /\ dirlist' = dirlist \o Top.entry
      /\ pc' = IF Len(stack) = 1 THEN "listed" ELSE "parse"
  BY DEF Return, shared, reads
<1>2. Len(stack) \in 1..MaxDepth /\ Listable(Top.entry) /\ Calls(disc, stack) /\ Listable(dirlist)
  BY TopIs DEF Parser, Between
<1>3. Calls(disc, stack') /\ (stack' = <<>> <=> Len(stack) = 1)
  BY <1>1, <1>2, PoppedOk
<1>4. Listable(dirlist')
  BY <1>1, <1>2, JoinedOk
<1>5. /\ Reading(disc, left', clean', faults') /\ System[disc] \in {"iso", "udf"}
      /\ isjoliet' \in BOOLEAN /\ off' \in Nat /\ name' \in Names /\ fe' \in FileEntry
  BY <1>1 DEF Parser
<1>6. CASE Len(stack) = 1
  BY <1>1, <1>3, <1>4, <1>5, <1>6, Ends
<1>7. CASE Len(stack) # 1
  BY <1>1, <1>3, <1>4, <1>5, <1>7, Goes
<1>8. QED
  BY <1>6, <1>7

-----------------------------------------------------------------------------
(* ISO9660 *)

\* An ISO disc's sectors hold records.
LEMMA SectorsOk ==
  ASSUME disc \in Discs, System[disc] = "iso", NEW lba
  PROVE  Sectors(disc, lba)[1] \in Seq(RecordsOf(disc)) /\ RecordsOf(disc) = Record
<1>1. disc \in DOMAIN Iso /\ Volume(Iso[disc])
  BY IsoAssumption
<1>2. CASE lba \in DOMAIN Iso[disc].sectors
  <2>1. Sectors(disc, lba) \in Seq(Seq(Record)) /\ Sectors(disc, lba) # <<>>
    BY <1>1, <1>2 DEF Volume, Sectors
  <2>2. QED
    BY <2>1 DEF RecordsOf
<1>3. CASE lba \notin DOMAIN Iso[disc].sectors
  <2>1. Sectors(disc, lba)[1] = <<>>
    BY <1>3 DEF Sectors
  <2>2. <<>> \in Seq(Record)
    OBVIOUS
  <2>3. QED
    BY <2>1, <2>2 DEF RecordsOf
<1>4. QED
  BY <1>2, <1>3

\* A record is listed, and its directory entered.
LEMMA ListOk ==
  ASSUME Parser, pc \notin Between, System[disc] = "iso", Top.next <= Len(Top.of),
         NEW r \in Record, NEW n \in Names, List(r, n),
         isjoliet' \in BOOLEAN, off' \in Nat, name' \in Names, fe' = fe
  PROVE  Parser'
<1> DEFINE path == Append(Top.path, n)
           of   == Sectors(disc, r.lba)[1]
<1>1. /\ disc' = disc /\ how' = how /\ pc' = "parse"
      /\ dirlist' = IF Unnamed(r, n) THEN dirlist ELSE Append(dirlist, Entry(path, r.dir))
  BY DEF List, shared
<1>2. /\ Calls(disc, Advanced) /\ Len(Advanced) = Len(stack) /\ Len(stack) \in 1..MaxDepth
      /\ Top.path \in Seq(Names) /\ Len(Top.path) = Len(stack) - 1
  BY TopIs, AdvancedOk
<1>3. path \in Seq(Names) /\ Len(path) = Len(stack)
  BY <1>2, Appends
<1>4. /\ of \in Seq(RecordsOf(disc)) /\ <<>> \in Seq(RecordsOf(disc)) /\ r.dir \in BOOLEAN
      /\ Listable(dirlist) /\ Reading(disc, left, clean, faults) /\ fe \in FileEntry
  BY SectorsOk DEF Record, Parser
<1> HIDE DEF path, of
<1>5. Listable(dirlist')
  BY <1>1, <1>2, <1>3, <1>4, ListedOk
<1>6. Calls(disc, stack') /\ stack' # <<>> /\ Reading(disc, left', clean', faults')
  <2>1. CASE stack' = Advanced /\ UNCHANGED reads
    BY <1>2, <1>4, <2>1 DEF reads
  <2>2. ASSUME NEW got \in {of, <<>>, left[Len(stack) + 1]}, Len(stack) < MaxDepth,
               ReadInto(Len(stack) + 1, of, got),
               stack' = Append(Advanced, Call(got, path, 0, <<>>))
        PROVE  Calls(disc, stack') /\ stack' # <<>> /\ Reading(disc, left', clean', faults')
    <3>1. Len(stack) + 1 \in 1..MaxDepth
      BY <1>2, <2>2, ListAssumption
    <3>2. left[Len(stack) + 1] \in Seq(RecordsOf(disc))
      BY <1>4, <3>1 DEF Reading
    <3>3. got \in Seq(RecordsOf(disc))
      BY <1>4, <2>2, <3>2
    <3>4. Reading(disc, left', clean', faults')
      BY <1>4, <2>2, <3>1, <3>3, ReadOk
    <3>5. Calls(disc, stack') /\ stack' # <<>>
      BY <1>2, <1>3, <2>2, <3>3, CallOk, NothingOk
    <3>6. QED
      BY <3>4, <3>5
  <2>3. QED
    BY <2>1, <2>2 DEF List, path, of
<1>7. QED
  BY <1>1, <1>4, <1>5, <1>6, Goes

\* The names that are made are names.
LEMMA NamesAre ==
  "" \in Names /\ "." \in Names /\ ".." \in Names /\ "garbled" \in Names /\ "nul" \in Names
  BY NameAssumption, Zenon

\* Of no bytes nothing is left, nor of the byte that ends a name.
LEMMA NothingStays ==
  ASSUME NEW ends
  PROVE  /\ UpTo(<<>>, ends) = <<>>
         /\ \A b \in ends : UpTo(<<b>>, ends) = <<>>
<1>1. Cardinality({}) = 0
  BY FS_EmptySet
<1>2. {k \in DOMAIN <<>> : \A i \in 1..k : <<>>[i] \notin ends} = {}
  OBVIOUS
<1>3. ASSUME NEW b \in ends
      PROVE  {k \in DOMAIN <<b>> : \A i \in 1..k : <<b>>[i] \notin ends} = {}
  OBVIOUS
<1>4. SubSeq(<<>>, 1, 0) = <<>> /\ \A b : SubSeq(<<b>>, 1, 0) = <<>>
  OBVIOUS
<1>5. QED
  BY <1>1, <1>2, <1>3, <1>4, Zenon DEF UpTo

\* A record's own name, cleaned, and the name a field gives it, are strings.
LEMMA CleanedIs ==
  ASSUME NEW r \in Record
  PROVE  Cleaned(r) \in Names
<1> DEFINE ends     == Stops \cup {Semicolon}
           stripped == Spelt[UpTo(Low(r.name), ends)]
           empty    == Spelt[UpTo(<<>>, ends)]
           bytes    == IF isjoliet /\ r.nlen = 1 THEN <<>> ELSE Low(r.name)
           first    == Len(UpTo(bytes, Stops)) + 1
           stop     == IF first > Len(bytes) THEN 0 ELSE bytes[first]
<1>1. stripped \in Names
  <2>1. r.name \in DOMAIN Chars
    BY DEF Record
  <2>2. QED
    BY <2>1, SpeltAssumption, Zenon
<1>2. empty \in Names
  <2>1. UpTo(<<>>, ends) = <<>>
    BY NothingStays, Zenon
  <2>2. QED
    BY <2>1, EmptyAssumption, NamesAre, Zenon
<1>3. Cleaned(r) = CASE stop = 1 -> "." [] stop = 2 -> ".." [] OTHER -> Spelt[UpTo(bytes, ends)]
  BY Zenon DEF Cleaned, CleanFileName
<1>4. Spelt[UpTo(bytes, ends)] \in Names
  BY <1>1, <1>2, Zenon
<1> HIDE DEF stop
<1>5. QED
  BY <1>3, <1>4, NamesAre

\* The volume is mounted.
LEMMA MountIsoOk ==
  ASSUME Parser, MountIso, fe' = fe
  PROVE  Parser'
<1> DEFINE of == Sectors(disc, RootSector(Vol))[1]
           plain == Sectors(disc, Vol.root)[1]
<1>1. /\ pc = "mount" /\ System[disc] = "iso" /\ pc' = "parse" /\ disc' = disc /\ how' = how
      /\ dirlist' = dirlist /\ off' = off /\ name' = name /\ isjoliet' \in BOOLEAN
  BY DEF MountIso, shared, walkvars
<1>2. /\ disc \in Discs /\ Listable(dirlist) /\ Reading(disc, left, clean, faults)
      /\ off' \in Nat /\ name' \in Names /\ fe' \in FileEntry
  BY <1>1 DEF Parser
<1>3. /\ of \in Seq(RecordsOf(disc)) /\ plain \in Seq(RecordsOf(disc))
      /\ <<>> \in Seq(RecordsOf(disc)) /\ 0 \in Nat /\ 1 \in 1..MaxDepth
  BY <1>1, <1>2, SectorsOk, ListAssumption
<1> HIDE DEF of, plain
<1>4. Calls(disc, stack') /\ stack' # <<>> /\ Reading(disc, left', clean', faults')
  <2>1. ASSUME NEW got \in {of, <<>>}, ReadInto(1, of, got), stack' = <<Call(got, <<>>, 0, <<>>)>>
        PROVE  Calls(disc, stack') /\ stack' # <<>> /\ Reading(disc, left', clean', faults')
    <3>1. got \in Seq(RecordsOf(disc))
      BY <1>3, <2>1
    <3>2. QED
      BY <1>2, <1>3, <2>1, <3>1, ReadOk, FirstCallOk
  <2>2. CASE /\ faults < MaxFaults /\ faults' = faults + 1 /\ clean' = FALSE
             /\ stack' = <<Call(plain, <<>>, 0, <<>>)>> /\ left' = [left EXCEPT ![1] = plain]
    <3>1. Calls(disc, stack') /\ stack' # <<>>
      BY <1>3, <2>2, FirstCallOk
    <3>2. Reading(disc, left, clean', faults')
      BY <1>2, <2>2, FailedOk
    <3>3. left' \in [1..MaxDepth -> Seq(RecordsOf(disc))]
      BY <1>2, <1>3, <2>2 DEF Reading
    <3>4. QED
      BY <3>1, <3>2, <3>3 DEF Reading
  <2>3. QED
    BY <2>1, <2>2 DEF MountIso, of, plain
<1>5. QED
  BY <1>1, <1>2, <1>4, Goes

\* A field's length, or what is taken for one.
LEMMA LengthIs ==
  ASSUME NEW of \in Seq(Record), NEW p, NEW len \in LengthAt(of, p)
  PROVE  len \in Nat
<1>1. CASE Within(of, p)
  BY <1>1, IsoAssumption DEF LengthAt
<1>2. CASE ~Within(of, p) /\ Begins(of, p) = {}
  BY <1>2 DEF LengthAt
<1>3. CASE ~Within(of, p) /\ Begins(of, p) # {}
  <2>1. PICK i \in DOMAIN of : len = of[i].lba % 256
    BY <1>3 DEF LengthAt, Begins
  <2>2. of[i] \in Record
    BY <2>1
  <2>3. of[i].lba \in Nat
    BY <2>2 DEF Record
  <2>4. QED
    BY <2>1, <2>3
<1>4. QED
  BY <1>1, <1>2, <1>3

\* A field's length and name.
LEMMA FieldIs ==
  ASSUME NEW f \in Field
  PROVE  f.len \in Nat /\ f.len > 0 /\ f.name \in Names
<1>1. f.len \in 4..255 /\ f.name \in Names
  BY DEF Field
<1>2. QED
  BY <1>1

\* A step of the walk over a record's fields.
LEMMA WalkFieldOk ==
  ASSUME Parser, WalkField, fe' = fe
  PROVE  Parser'
<1>1. /\ pc = "walk" /\ disc' = disc /\ how' = how /\ pc' = pc /\ stack' = stack
      /\ dirlist' = dirlist /\ left' = left /\ clean' = clean /\ faults' = faults
      /\ isjoliet' = isjoliet
  BY DEF WalkField, listvars
<1>2. /\ System[disc] = "iso" /\ disc \in Discs /\ Top.next <= Len(Top.of) /\ pc \notin Between
      /\ off \in Nat /\ name \in Names /\ isjoliet' \in BOOLEAN /\ fe' \in FileEntry
      /\ Calls(disc, stack') /\ stack' # <<>> /\ Listable(dirlist')
      /\ Reading(disc, left', clean', faults')
  BY <1>1 DEF Parser, Between
<1>3. Here \in Record /\ Top.of \in Seq(Record)
  BY <1>2, HereIs, TopIs, SectorsOk
<1>4. Here.rr \in Seq(Field)
  BY <1>3 DEF Record
<1>5. off' \in Nat /\ name' \in Names
  <2>1. ASSUME NEW k \in 2..Len(Here.rr),
               off' = off + Here.rr[k].len,
               name' = IF Here.rr[k].id = "NM" THEN NameFrom(Here, k) ELSE name
        PROVE  off' \in Nat /\ name' \in Names
    <3>1. Here.rr[k] \in Field
      BY <1>4
    <3>2. Here.rr[k].len \in Nat /\ Here.rr[k].name \in Names /\ "garbled" \in Names
      <4>1. Here.rr[k].len \in Nat /\ Here.rr[k].name \in Names
        BY <3>1, FieldIs
      <4>2. QED
        BY <4>1, NamesAre, Zenon
    <3>3. NameFrom(Here, k) \in Names
      BY <3>2, Zenon DEF NameFrom
    <3>4. name' \in Names
      BY <1>2, <2>1, <3>3, Zenon
    <3>5. off' \in Nat
      BY <1>2, <2>1, <3>2
    <3>6. QED
      BY <3>4, <3>5
  <2>2. ASSUME NEW p, NEW len \in LengthAt(Top.of, p), off' = off + len,
               name' \in {name} \cup (IF Within(Top.of, p) THEN {"garbled"} ELSE {})
        PROVE  off' \in Nat /\ name' \in Names
    <3>1. len \in Nat /\ "garbled" \in Names
      BY <1>3, <2>2, LengthIs, NamesAre
    <3>2. off' \in Nat
      BY <1>2, <2>2, <3>1
    <3>3. name' \in Names
      BY <1>2, <2>2, <3>1
    <3>4. QED
      BY <3>2, <3>3
  <2>3. CASE \E k \in 2..Len(Here.rr) : FieldAt(Here, k) = Place(Here, off)
    <3> DEFINE k == CHOOSE j \in 2..Len(Here.rr) : FieldAt(Here, j) = Place(Here, off)
    <3>1. k \in 2..Len(Here.rr)
      BY <2>3
    <3>2. /\ off' = off + Here.rr[k].len
          /\ name' = IF Here.rr[k].id = "NM" THEN NameFrom(Here, k) ELSE name
      BY <2>3, Zenon DEF WalkField
    <3> HIDE DEF k
    <3>3. QED
      BY <2>1, <3>1, <3>2
  <2>4. CASE ~\E k \in 2..Len(Here.rr) : FieldAt(Here, k) = Place(Here, off)
    <3>1. PICK p : /\ \E len \in LengthAt(Top.of, p) : off' = off + len
                   /\ name' \in {name} \cup (IF Within(Top.of, p) THEN {"garbled"} ELSE {})
      BY <2>4, Zenon DEF WalkField
    <3>2. QED
      BY <2>2, <3>1
  <2>5. QED
    BY <2>3, <2>4
<1>6. Top' = Top
  BY <1>1 DEF Top
<1>7. QED
  BY <1>1, <1>2, <1>5, <1>6, Goes

\* The parser of ISO9660 directories keeps to its types.
LEMMA ParseIsoOk ==
  ASSUME Parser, ParseIso, fe' = fe
  PROVE  Parser'
<1>1. ASSUME AtRecord
      PROVE  /\ pc = "parse" /\ pc \notin Between /\ System[disc] = "iso" /\ disc \in Discs
             /\ Top.next <= Len(Top.of) /\ Here \in Record
  <2>1. pc = "parse" /\ System[disc] = "iso" /\ Top.next <= Len(Top.of) /\ pc \notin Between
    BY <1>1 DEF AtRecord, Parsing, Between
  <2>2. disc \in Discs
    BY DEF Parser
  <2>3. QED
    BY <2>1, <2>2, HereIs, SectorsOk
<1>2. /\ isjoliet \in BOOLEAN /\ off \in Nat /\ name \in Names /\ fe' \in FileEntry
      /\ Calls(disc, stack) /\ Listable(dirlist) /\ Reading(disc, left, clean, faults)
      /\ (stack = <<>> <=> pc \in Between)
  BY DEF Parser
<1>3. CASE MountIso
  BY <1>3, MountIsoOk
<1>4. CASE SkipRecord
  <2>1. /\ AtRecord /\ stack' = Advanced /\ disc' = disc /\ how' = how /\ pc' = pc
        /\ dirlist' = dirlist /\ left' = left /\ clean' = clean /\ faults' = faults
        /\ isjoliet' = isjoliet /\ off' = off /\ name' = name
    BY <1>4 DEF SkipRecord, shared, reads, isovars, walkvars
  <2>2. Calls(disc, stack') /\ Len(stack') \in 1..MaxDepth
    BY <1>1, <2>1, AdvancedOk
  <2>3. stack' # <<>>
    BY <2>2
  <2>4. Reading(disc, left', clean', faults') /\ Listable(dirlist')
    BY <1>2, <2>1
  <2>5. QED
    BY <1>1, <1>2, <2>1, <2>2, <2>3, <2>4, Goes
<1>5. CASE ListRecord
  <2>1. AtRecord /\ List(Here, Cleaned(Here)) /\ isjoliet' = isjoliet /\ off' = off /\ name' = name
    BY <1>5 DEF ListRecord, isovars, walkvars
  <2>2. QED
    BY <1>1, <1>2, <2>1, CleanedIs, ListOk
<1>6. CASE ReturnIso
  <2>1. pc = "parse" /\ Return /\ isjoliet' = isjoliet /\ off' = off /\ name' = name
    BY <1>6 DEF ReturnIso, Parsing, isovars, walkvars
  <2>2. QED
    BY <2>1, ReturnOk
<1>7. CASE StartWalk
  <2>1. /\ AtRecord /\ pc' = "walk" /\ off' = 0 /\ name' = Cleaned(Here)
        /\ disc' = disc /\ how' = how /\ stack' = stack /\ isjoliet' = isjoliet
        /\ dirlist' = dirlist /\ left' = left /\ clean' = clean /\ faults' = faults
    BY <1>7 DEF StartWalk, shared, reads
  <2>2. Calls(disc, stack') /\ stack' # <<>> /\ name' \in Names /\ off' \in Nat
    BY <1>1, <1>2, <2>1, CleanedIs
  <2>3. Reading(disc, left', clean', faults') /\ Listable(dirlist')
    BY <1>2, <2>1
  <2>4. Top' = Top
    BY <2>1 DEF Top
  <2>5. QED
    BY <1>1, <1>2, <2>1, <2>2, <2>3, <2>4, Goes
<1>8. CASE WalkField
  BY <1>8, WalkFieldOk
<1>9. CASE EndWalk
  <2>1. pc = "walk" /\ List(Here, name) /\ off' = 0 /\ name' = "" /\ isjoliet' = isjoliet
    BY <1>9 DEF EndWalk
  <2>2. /\ pc \notin Between /\ System[disc] = "iso" /\ Top.next <= Len(Top.of) /\ disc \in Discs
    BY <2>1 DEF Parser, Between
  <2>3. Here \in Record
    BY <2>2, HereIs, SectorsOk
  <2>4. off' \in Nat /\ name' \in Names
    BY <2>1, NamesAre
  <2>5. QED
    BY <1>2, <2>1, <2>2, <2>3, <2>4, ListOk
<1>10. QED
  BY <1>3, <1>4, <1>5, <1>6, <1>7, <1>8, <1>9 DEF ParseIso

-----------------------------------------------------------------------------
(* UDF *)

\* A UDF disc's volume, and what its places hold.
LEMMA DiscIs ==
  ASSUME disc \in Discs, System[disc] = "udf"
  PROVE  /\ Disc.root \in DOMAIN Disc.fe
         /\ \A l \in DOMAIN Disc.fe : Disc.fe[l] \in FileEntry
         /\ RecordsOf(disc) = FidsOf(Disc)
         /\ \A at : Fids(Disc, at) \in Seq(RecordsOf(disc))
<1>1. disc \in DOMAIN Udf
  BY UdfAssumption
<1>2. /\ Disc.root \in DOMAIN Disc.fe
      /\ \A l \in DOMAIN Disc.fe : Disc.fe[l] \in FileEntry
      /\ \A l \in DOMAIN Disc.fids : Disc.fids[l] \in Seq(FidsOf(Disc))
  BY <1>1, UdfAssumption, Zenon DEF Disc
<1>3. RecordsOf(disc) = FidsOf(Disc)
  BY DEF RecordsOf, Disc
<1>4. ASSUME NEW at PROVE Fids(Disc, at) \in Seq(RecordsOf(disc))
  <2>1. <<>> \in Seq(RecordsOf(disc))
    OBVIOUS
  <2>2. QED
    BY <1>2, <1>3, <2>1, Zenon DEF Fids
<1>5. QED
  BY <1>2, <1>3, <1>4

\* What stands for no file entry is typed as one.
LEMMA NoEntryIs == NoEntry \in FileEntry
  BY DEF NoEntry, FileEntry

\* What is taken from a file entry is one.
LEMMA ParsedIs ==
  ASSUME NEW e \in FileEntry
  PROVE  Parsed(e) \in FileEntry
<1>1. PICK none \in Seq(Extent) : none = <<>>
  <2>1. <<>> \in Seq(Extent)
    OBVIOUS
  <2>2. QED
    BY <2>1, Zenon
<1>2. [e EXCEPT !.extents = none] \in FileEntry
  BY DEF FileEntry
<1>3. QED
  BY <1>1, <1>2, Zenon DEF Parsed

\* The records of UDF directories, and their names.
LEMMA FoundIs ==
  ASSUME Parser, pc \notin Between, System[disc] = "udf", Top.next <= Len(Top.of)
  PROVE  Here \in FID /\ Here.icb \in DOMAIN Disc.fe /\ Found \in Names
<1>1. disc \in Discs
  BY DEF Parser
<1>2. Here \in FidsOf(Disc)
  BY <1>1, HereIs, DiscIs
<1>3. Here \in FID /\ Here.icb \in DOMAIN Disc.fe
  BY <1>2 DEF FidsOf
<1>4. Here.name \in Names
  BY <1>3 DEF FID
<1>5. QED
  BY <1>3, <1>4, NamesAre, Zenon DEF Found, NameOf

\* The program ends.
LEMMA CrashOk ==
  ASSUME Parser, Crash, Reading(disc, left, clean', faults'),
         isjoliet' = isjoliet, off' = off, name' = name
  PROVE  Parser'
<1>1. /\ pc' = "crashed" /\ stack' = <<>> /\ disc' = disc /\ how' = how /\ dirlist' = dirlist
      /\ left' = left /\ fe' = fe
  BY DEF Crash, shared, udfvars
<1>2. Listable(dirlist') /\ isjoliet' \in BOOLEAN /\ off' \in Nat /\ name' \in Names
      /\ fe' \in FileEntry /\ Reading(disc, left', clean', faults')
  BY <1>1 DEF Parser
<1>3. QED
  BY <1>1, <1>2, Ends

\* A directory is entered.
LEMMA EnterOk ==
  ASSUME Parser, Directory, NEW got \in Seq(RecordsOf(disc)), NEW size \in Nat, Enter(got, size),
         Reading(disc, left', clean', faults'),
         isjoliet' = isjoliet, off' = off, name' = name
  PROVE  Parser'
<1> DEFINE path == Append(Top.path, Found)
           entry == <<Entry(path, TRUE)>>
<1>1. pc = "entry"
  BY DEF Directory
<1>2. pc \notin Between /\ System[disc] = "udf" /\ Top.next <= Len(Top.of)
  BY <1>1 DEF Parser, Between
<1>3. /\ Len(stack) < MaxDepth /\ disc' = disc /\ how' = how /\ dirlist' = dirlist
      /\ pc' = "parse" /\ fe' = NoEntry
      /\ stack' = Append(Advanced, Call(got, path, size, entry))
  BY Zenon DEF Enter, shared, SubPath
<1>4. /\ Calls(disc, Advanced) /\ Len(Advanced) = Len(stack) /\ Len(stack) \in 1..MaxDepth
      /\ Top.path \in Seq(Names) /\ Len(Top.path) = Len(stack) - 1
  BY <1>2, TopIs, AdvancedOk
<1>5. path \in Seq(Names) /\ Len(path) = Len(stack)
  BY <1>2, <1>4, FoundIs, Appends
<1> HIDE DEF path
<1>6. Listable(entry)
  <2>1. Listable(Append(<<>>, Entry(path, TRUE)))
    BY <1>4, <1>5, NothingOk, ListedOk
  <2>2. Append(<<>>, Entry(path, TRUE)) = entry
    OBVIOUS
  <2>3. QED
    BY <2>1, <2>2, Zenon
<1> HIDE DEF entry
<1>7. Calls(disc, stack') /\ stack' # <<>>
  BY <1>3, <1>4, <1>5, <1>6, CallOk
<1>8. /\ Listable(dirlist') /\ isjoliet' \in BOOLEAN /\ off' \in Nat /\ name' \in Names
      /\ fe' \in FileEntry
  BY <1>3, NoEntryIs DEF Parser
<1>9. QED
  BY <1>2, <1>3, <1>7, <1>8, Goes

\* The volume is mounted, or is not.
LEMMA MountUdfOk ==
  ASSUME Parser, MountUdf \/ FailToMount \/ LoseMetadata,
         isjoliet' = isjoliet, off' = off, name' = name
  PROVE  Parser'
<1>1. /\ disc \in Discs /\ Listable(dirlist) /\ Reading(disc, left, clean, faults)
      /\ isjoliet' \in BOOLEAN /\ off' \in Nat /\ name' \in Names /\ fe \in FileEntry
  BY DEF Parser
<1>2. CASE MountUdf
  <2>1. /\ System[disc] = "udf" /\ pc' = "parse" /\ disc' = disc /\ how' = how
        /\ dirlist' = dirlist /\ fe' = fe
    BY <1>2 DEF MountUdf, shared, udfvars
  <2>2. PICK got \in {RootFids(Disc), <<>>} :
          ReadInto(1, RootFids(Disc), got) /\ stack' = <<Call(got, <<>>, SectorSize, <<>>)>>
    BY <1>2 DEF MountUdf
  <2>3. <<>> \in Seq(RecordsOf(disc))
    OBVIOUS
  <2>4. RootFids(Disc) \in Seq(RecordsOf(disc))
    <3>1. \A at : Fids(Disc, at) \in Seq(RecordsOf(disc))
      BY <1>1, <2>1, DiscIs
    <3>2. QED
      BY <2>3, <3>1, Zenon DEF RootFids
  <2>5. got \in Seq(RecordsOf(disc)) /\ 1 \in 1..MaxDepth /\ SectorSize \in Nat
    <3>1. got \in Seq(RecordsOf(disc))
      BY <2>2, <2>3, <2>4
    <3>2. SectorSize \in Nat
      BY UdfAssumption
    <3>3. QED
      BY <3>1, <3>2, ListAssumption
  <2>6. Calls(disc, stack') /\ stack' # <<>>
    BY <2>2, <2>5, FirstCallOk
  <2>7. Reading(disc, left', clean', faults')
    BY <1>1, <2>2, <2>4, <2>5, ReadOk
  <2>8. QED
    BY <1>1, <2>1, <2>6, <2>7, Goes
<1>3. CASE FailToMount
  <2>1. Crash /\ clean' = clean /\ faults' = faults
    BY <1>3 DEF FailToMount
  <2>2. QED
    BY <1>1, <2>1, CrashOk
<1>4. CASE LoseMetadata
  <2>1. Crash /\ clean' = FALSE /\ faults < MaxFaults /\ faults' = faults + 1
    BY <1>4 DEF LoseMetadata
  <2>2. Reading(disc, left, clean', faults')
    BY <1>1, <2>1, FailedOk
  <2>3. QED
    BY <2>1, <2>2, CrashOk
<1>5. QED
  BY <1>2, <1>3, <1>4

\* A file entry is read.
LEMMA ReadEntryOk ==
  ASSUME Parser, ReadEntry, isjoliet' = isjoliet, off' = off, name' = name
  PROVE  Parser'
<1>1. /\ pc = "parse" /\ pc \notin Between /\ System[disc] = "udf" /\ Top.next <= Len(Top.of)
      /\ pc' = "entry" /\ disc' = disc /\ how' = how /\ stack' = stack /\ dirlist' = dirlist
      /\ left' = left
  BY DEF ReadEntry, ParsingUdf, More, shared, Between
<1>2. /\ disc \in Discs /\ Listable(dirlist) /\ Reading(disc, left, clean, faults)
      /\ Calls(disc, stack) /\ (stack = <<>> <=> pc \in Between)
      /\ isjoliet' \in BOOLEAN /\ off' \in Nat /\ name' \in Names
  BY <1>1 DEF Parser
<1>3. /\ \A l \in DOMAIN Disc.fe : Disc.fe[l] \in FileEntry
      /\ RecordsOf(disc) = FidsOf(Disc)
  BY <1>1, <1>2, DiscIs
<1>4. \A f \in FidsOf(Disc) : Parsed(Disc.fe[f.icb]) \in FileEntry
  BY <1>3, ParsedIs DEF FidsOf
<1>5. /\ Here \in FidsOf(Disc) /\ Top.of \in Seq(FidsOf(Disc)) /\ Top.next \in 1 .. Len(Top.of) + 1
  BY <1>1, <1>3, HereIs, TopIs
<1>6. Before \subseteq FileEntry
  <2>1. ASSUME NEW i \in 1 .. Top.next - 1 PROVE Top.of[i] \in FidsOf(Disc)
    BY <1>5
  <2>2. QED
    BY <1>4, <2>1 DEF Before
<1>7. fe' \in FileEntry /\ Reading(disc, left', clean', faults')
  <2>1. CASE fe' = Parsed(Disc.fe[Here.icb]) /\ UNCHANGED <<clean, faults>>
    <3>1. fe' \in FileEntry
      BY <1>4, <1>5, <2>1
    <3>2. Reading(disc, left', clean', faults')
      BY <1>1, <1>2, <2>1
    <3>3. QED
      BY <3>1, <3>2
  <2>2. CASE /\ faults < MaxFaults /\ faults' = faults + 1 /\ clean' = FALSE
             /\ fe' \in {NoEntry} \cup Before
    <3>1. fe' \in FileEntry
      BY <1>6, <2>2, NoEntryIs
    <3>2. Reading(disc, left', clean', faults')
      BY <1>1, <1>2, <2>2, FailedOk
    <3>3. QED
      BY <3>1, <3>2
  <2>3. QED
    BY <2>1, <2>2 DEF ReadEntry
<1>8. Top' = Top
  BY <1>1 DEF Top
<1>9. QED
  BY <1>1, <1>2, <1>7, <1>8, Goes

\* A file is listed, or what has no name is passed over.
LEMMA ListFileOk ==
  ASSUME Parser, ListFile, isjoliet' = isjoliet, off' = off, name' = name
  PROVE  Parser'
<1> DEFINE path == Append(Top.path, Found)
<1>1. /\ pc = "entry" /\ stack' = Advanced /\ pc' = "parse" /\ fe' = NoEntry
      /\ disc' = disc /\ how' = how /\ left' = left /\ clean' = clean /\ faults' = faults
      /\ dirlist' = IF Found = "" THEN dirlist ELSE Append(dirlist, Entry(path, FALSE))
  BY DEF ListFile, shared, reads
<1>2. pc \notin Between /\ System[disc] = "udf" /\ Top.next <= Len(Top.of)
  BY <1>1 DEF Parser, Between
<1>3. /\ Calls(disc, Advanced) /\ Len(Advanced) = Len(stack) /\ Len(stack) \in 1..MaxDepth
      /\ Top.path \in Seq(Names) /\ Len(Top.path) = Len(stack) - 1
  BY <1>2, TopIs, AdvancedOk
<1>4. path \in Seq(Names) /\ Len(path) = Len(stack)
  BY <1>2, <1>3, FoundIs, Appends
<1>5. /\ Listable(dirlist) /\ Reading(disc, left', clean', faults')
      /\ isjoliet' \in BOOLEAN /\ off' \in Nat /\ name' \in Names /\ fe' \in FileEntry
  BY <1>1, NoEntryIs DEF Parser
<1> HIDE DEF path
<1>6. Listable(dirlist')
  BY <1>1, <1>3, <1>4, <1>5, ListedOk
<1>7. stack' # <<>>
  <2>1. Len(stack') \in 1..MaxDepth
    BY <1>1, <1>3, Zenon
  <2>2. QED
    BY <2>1
<1>8. QED
  BY <1>1, <1>2, <1>3, <1>5, <1>6, <1>7, Goes

\* A directory is entered, where it is or where it is not.
LEMMA DirectoryOk ==
  ASSUME Parser, EnterDirectory \/ EnterNowhere, isjoliet' = isjoliet, off' = off, name' = name
  PROVE  Parser'
<1> DEFINE n == Len(stack) + 1
           of == Fids(Disc, Begin(fe))
<1>1. Directory /\ pc = "entry"
  BY DEF EnterDirectory, EnterNowhere, Directory
<1>2. pc \notin Between /\ System[disc] = "udf" /\ Top.next <= Len(Top.of)
  BY <1>1 DEF Parser, Between
<1>3. /\ disc \in Discs /\ Reading(disc, left, clean, faults) /\ fe \in FileEntry
      /\ left \in [1..MaxDepth -> Seq(RecordsOf(disc))]
  BY DEF Parser, Reading
<1>4. of \in Seq(RecordsOf(disc)) /\ <<>> \in Seq(RecordsOf(disc))
  BY <1>2, <1>3, DiscIs
<1>5. Len(stack) \in 1..MaxDepth /\ MaxDepth \in Nat
  BY <1>2, TopIs, ListAssumption
<1>6. SectorSize \in Nat /\ (fe.extents # <<>> => Size(fe) \in Nat)
  <2>1. SectorSize \in Nat /\ fe.extents \in Seq(Extent)
    BY <1>3, UdfAssumption DEF FileEntry
  <2>2. ASSUME fe.extents # <<>> PROVE fe.extents[Len(fe.extents)] \in Extent
    BY <2>1, <2>2
  <2>3. ASSUME fe.extents # <<>> PROVE fe.extents[Len(fe.extents)].size \in Nat
    BY <2>2, <2>3 DEF Extent
  <2>4. QED
    BY <2>1, <2>3, Zenon DEF Size
<1> HIDE DEF of
<1>7. ASSUME NEW got, NEW size, Enter(got, size)
      PROVE  n \in 1..MaxDepth /\ left[n] \in Seq(RecordsOf(disc))
  <2>1. Len(stack) < MaxDepth
    BY <1>7 DEF Enter
  <2>2. n \in 1..MaxDepth
    BY <1>5, <2>1
  <2>3. QED
    BY <1>3, <2>2
<1> HIDE DEF n
<1>8. CASE EnterDirectory
  <2>1. fe.extents # <<>>
    BY <1>8 DEF EnterDirectory
  <2>2. ASSUME NEW got \in {of, <<>>, left[n]}, ReadInto(n, of, got), Enter(got, Size(fe))
        PROVE  Parser'
    <3>1. n \in 1..MaxDepth /\ got \in Seq(RecordsOf(disc))
      BY <1>4, <1>7, <2>2
    <3>2. Reading(disc, left', clean', faults')
      BY <1>3, <1>4, <2>2, <3>1, ReadOk
    <3>3. QED
      BY <1>1, <1>6, <2>1, <2>2, <3>1, <3>2, EnterOk
  <2>3. CASE Enter(of, Size(fe)) /\ UNCHANGED reads
    <3>1. Reading(disc, left', clean', faults')
      BY <1>3, <2>3 DEF reads
    <3>2. QED
      BY <1>1, <1>4, <1>6, <2>1, <2>3, <3>1, EnterOk
  <2>4. QED
    BY <1>8, <2>2, <2>3 DEF EnterDirectory, of, n
<1>9. CASE EnterNowhere
  <2>1. clean' = clean /\ faults' = faults
    BY <1>9 DEF EnterNowhere
  <2>2. ASSUME NEW got \in {<<>>, left[n]}, Enter(got, SectorSize), left' = [left EXCEPT ![n] = got]
        PROVE  Parser'
    <3>1. n \in 1..MaxDepth /\ got \in Seq(RecordsOf(disc))
      BY <1>4, <1>7, <2>2
    <3>2. left' \in [1..MaxDepth -> Seq(RecordsOf(disc))]
      BY <1>3, <2>2, <3>1
    <3>3. Reading(disc, left', clean', faults')
      BY <1>3, <2>1, <3>2 DEF Reading
    <3>4. QED
      BY <1>1, <1>6, <2>2, <3>1, <3>3, EnterOk
  <2>3. CASE Crash
    BY <1>3, <2>1, <2>3, CrashOk
  <2>4. QED
    BY <1>9, <2>2, <2>3 DEF EnterNowhere, n
<1>10. QED
  BY <1>8, <1>9

\* The parser of UDF directories keeps to its types.
LEMMA ParseUdfOk ==
  ASSUME Parser, ParseUdf, isjoliet' = isjoliet, off' = off, name' = name
  PROVE  Parser'
<1>1. CASE MountUdf \/ FailToMount \/ LoseMetadata
  BY <1>1, MountUdfOk
<1>2. CASE ReadEntry
  BY <1>2, ReadEntryOk
<1>3. CASE ListFile
  BY <1>3, ListFileOk
<1>4. CASE EnterDirectory \/ EnterNowhere
  BY <1>4, DirectoryOk
<1>5. CASE ReturnUdf
  <2>1. pc = "parse" /\ Return /\ fe' = fe
    BY <1>5 DEF ReturnUdf, ParsingUdf, udfvars
  <2>2. QED
    BY <2>1, ReturnOk
<1>6. QED
  BY <1>1, <1>2, <1>3, <1>4, <1>5 DEF ParseUdf

-----------------------------------------------------------------------------
(* The list of an audio CD, and the beginning *)

\* An audio disc is mounted: the list is its tracks.
LEMMA MountAudioOk ==
  ASSUME Parser, MountAudio
  PROVE  Parser'
<1>1. /\ pc = "mount" /\ System[disc] = "audio" /\ pc' = "listed" /\ disc' = disc /\ how' = how
      /\ dirlist' = [i \in DOMAIN Tracks[disc] |-> Entry(<<Tracks[disc][i]>>, FALSE)]
      /\ stack' = stack /\ left' = left /\ clean' = clean /\ faults' = faults
      /\ isjoliet' = isjoliet /\ off' = off /\ name' = name /\ fe' = fe
  BY DEF MountAudio, shared, reads, isovars, walkvars, udfvars
<1>2. /\ disc \in Discs /\ stack = <<>> /\ Reading(disc, left', clean', faults')
      /\ isjoliet' \in BOOLEAN /\ off' \in Nat /\ name' \in Names /\ fe' \in FileEntry
  BY <1>1 DEF Parser, Between
<1>3. Tracks[disc] \in Seq(Names) /\ MaxDepth \in Nat \ {0}
  BY <1>1, <1>2, DirAssumption, ListAssumption
<1>4. PICK t \in Seq(Names) : t = Tracks[disc]
  BY <1>3, Zenon
<1>5. \A i \in 1..Len(t) : Entry(<<t[i]>>, FALSE) \in Items /\ Entry(<<t[i]>>, FALSE).path = <<t[i]>>
  BY <1>4 DEF Entry, Items
<1>6. dirlist' = [i \in 1..Len(t) |-> Entry(<<t[i]>>, FALSE)]
  BY <1>1, <1>4
<1>7. /\ dirlist' \in Seq(Items) /\ Len(dirlist') = Len(t)
      /\ \A i \in 1..Len(t) : dirlist'[i].path = <<t[i]>>
  <2>1. PICK n \in Nat : n = Len(t)
    BY <1>4
  <2>2. /\ dirlist' \in [1..n -> Items]
        /\ \A i \in 1..n : dirlist'[i] = Entry(<<t[i]>>, FALSE)
    BY <1>5, <1>6, <2>1
  <2>3. dirlist' \in Seq(Items) /\ Len(dirlist') = n
    BY <2>2
  <2>4. \A i \in 1..n : dirlist'[i].path = <<t[i]>>
    BY <1>5, <2>1, <2>2, Zenon
  <2>5. QED
    BY <2>1, <2>3, <2>4, Zenon
<1>8. Listable(dirlist')
  <2>1. \A x : Len(<<x>>) = 1
    OBVIOUS
  <2>2. 1 \in 1..MaxDepth
    BY <1>3
  <2>3. \A i \in 1..Len(dirlist') : Len(dirlist'[i].path) \in 1..MaxDepth
    BY <1>7, <2>1, <2>2, Zenon
  <2>4. QED
    BY <1>7, <2>3 DEF Listable
<1>9. QED
  BY <1>1, <1>2, <1>8, Ends

\* The types hold at the start.
LEMMA ParserInit == Init => Parser
<1> SUFFICES ASSUME Init PROVE Parser
  OBVIOUS
<1>1. /\ disc \in Discs /\ how \in {"drive", "image"} /\ pc = "mount" /\ stack = <<>>
      /\ dirlist = <<>> /\ left = [n \in 1..MaxDepth |-> <<>>] /\ clean = TRUE /\ faults = 0
      /\ isjoliet = FALSE /\ off = 0 /\ name = "" /\ fe = NoEntry
  BY DEF Init, ListInit, IsoInit, UdfInit
<1>2. MaxDepth \in Nat /\ MaxFaults \in Nat
  BY ListAssumption
<1>3. Calls(disc, stack)
  <2>1. Calls(disc, <<>>)
    BY <1>2 DEF Calls
  <2>2. QED
    BY <1>1, <2>1, Zenon
<1>4. Reading(disc, left, clean, faults)
  <2>1. <<>> \in Seq(RecordsOf(disc))
    OBVIOUS
  <2>2. left \in [1..MaxDepth -> Seq(RecordsOf(disc))]
    BY <1>1, <2>1, Zenon
  <2>3. clean = TRUE /\ faults = 0
    BY <1>1
  <2>4. faults \in 0..MaxFaults
    BY <1>2, <2>3
  <2>5. QED
    BY <2>2, <2>3, <2>4 DEF Reading
<1>5. Listable(dirlist)
  BY <1>1, NothingOk
<1>6. name \in Names /\ fe \in FileEntry
  BY <1>1, NamesAre, NoEntryIs
<1>7. QED
  BY <1>1, <1>3, <1>4, <1>5, <1>6 DEF Parser, Between

-----------------------------------------------------------------------------
(* Iterations *)

(* What the parsers leave behind, which no iteration changes: the kind of  *)
(* the disc, whether it is mounted, and the list.                          *)
World == [audio |-> Audio, slashes |-> System[disc] = "iso", listed |-> pc = "listed",
          list |-> dirlist]

(* The entries an iteration over p looks for, in a world w, up to the k-th *)
(* of the list, and that the list the iterations share holds them in order.*)
Sought(w, p, k) ==
  {i \in 1..Len(w.list) :
     /\ i <= k
     /\ SubSeq(w.list[i].path, 1, Len(w.list[i].path) - 1) = p.dir
     /\ p.slash => w.slashes}
Gathered(w, c, p, k) ==
  /\ \A m, n \in 1..Len(c) : m < n => c[m] < c[n]
  /\ \A n \in 1..Len(c) : c[n] \in Sought(w, p, k)
  /\ \A i \in Sought(w, p, k) : \E n \in 1..Len(c) : c[n] = i

\* The positions an iteration goes through, and those it has returned.
Shown(w, c) == IF w.audio THEN [i \in 1..Len(w.list) |-> i] ELSE c
First(got, n, list) == Len(got) = n /\ \A i \in 1..n : got[i] = list[i]

(* Where an iteration stands, given where all stand and what is gathered.  *)
(* While a directory is being opened no other iteration is calm; the one   *)
(* who opens it is, unless somebody else began to open one as well.        *)
Stands(w, x, f, c) ==
  /\ f[x].at # "closed" => w.listed
  /\ f[x].at = "opening" =>
       /\ ~w.audio /\ f[x].seen <= Len(w.list) /\ f[x].next = 0 /\ f[x].got = <<>>
       /\ \A y \in Iterators \ {x} : ~f[y].calm
       /\ f[x].calm => Gathered(w, c, f[x].place, f[x].seen)
  /\ f[x].at \in {"open", "ended"} /\ f[x].calm =>
       /\ ~w.audio => Gathered(w, c, f[x].place, Len(w.list))
       /\ f[x].at = "open" => /\ f[x].next <= Len(Shown(w, c))
                              /\ First(f[x].got, f[x].next, Shown(w, c))
       /\ f[x].at = "ended" => /\ f[x].next = IF w.audio THEN 0 ELSE Len(Shown(w, c))
                               /\ First(f[x].got, Len(Shown(w, c)), Shown(w, c))

Progress(w, f, c) ==
  /\ f \in [Iterators -> Iteration]
  /\ c \in Seq(1..Len(w.list))
  /\ ~w.listed => c = <<>>
  /\ \A x \in Iterators : Stands(w, x, f, c)

DirInv == Parser /\ Progress(World, iter, currdirlist) /\ opens \in 0..MaxOpens

\* A step of an iteration leaves the lists of the parsers alone.
LEMMA IterationOk ==
  ASSUME Parser, UNCHANGED <<listvars, isovars, udfvars>>, Progress(World, iter', currdirlist'),
         opens' \in 0..MaxOpens
  PROVE  DirInv'
<1>1. disc' = disc /\ pc' = pc /\ dirlist' = dirlist
  BY DEF listvars
<1>2. World' = World
  BY <1>1 DEF World, Audio
<1>3. Progress(World, iter, currdirlist)'
  BY <1>2, Zenon
<1>4. QED
  BY <1>3, Rests DEF DirInv

\* A step of a parser leaves the iterations alone, of which there are none.
LEMMA ParsersOk ==
  ASSUME DirInv, Parser', UNCHANGED itervars, pc # "listed"
  PROVE  DirInv'
<1>1. iter' = iter /\ currdirlist' = currdirlist /\ opens' = opens
  BY DEF itervars
<1>2. ~World.listed
  BY DEF World
<1>3. iter \in [Iterators -> Iteration] /\ currdirlist = <<>>
  BY <1>2 DEF DirInv, Progress
<1>4. \A x \in Iterators : iter[x].at = "closed"
  BY <1>2 DEF DirInv, Progress, Stands
<1>5. \A w : Progress(w, iter, currdirlist)
  <2>1. ASSUME NEW w, NEW x \in Iterators PROVE Stands(w, x, iter, currdirlist)
    BY <1>4 DEF Stands
  <2>2. \A w : currdirlist \in Seq(1..Len(w.list))
    BY <1>3
  <2>3. QED
    BY <1>3, <2>1, <2>2 DEF Progress
<1>6. Progress(World', iter', currdirlist')
  BY <1>1, <1>5, Zenon
<1>7. QED
  BY <1>1, <1>6 DEF DirInv

\* A set of naturals that is not empty has a least element.
LEMMA LeastIs ==
  ASSUME NEW M, M \subseteq Nat, M # {}
  PROVE  \E m \in M : \A k \in M : m <= k
<1> DEFINE less == {p \in Nat \X Nat : p[1] < p[2]}
<1>1. IsWellFoundedOn(less, Nat)
  BY NatLessThanWellFounded, Zenon DEF OpToRel
<1> HIDE DEF less
<1>2. PICK m \in M : \A k \in M : <<k, m>> \notin less
  BY <1>1, WFMin
<1>3. ASSUME NEW k \in M, k < m PROVE FALSE
  <2>1. <<k, m>> \in less
    BY <1>3 DEF less
  <2>2. QED
    BY <1>2, <2>1
<1>4. m \in Nat /\ \A k \in M : k \in Nat
  OBVIOUS
<1>5. QED
  BY <1>3, <1>4

\* What is gathered when there is one entry more.
LEMMA GatherOne ==
  ASSUME NEW w, NEW c \in Seq(1..Len(w.list)), NEW p, NEW k \in Nat, Gathered(w, c, p, k),
         NEW i \in Sought(w, p, Len(w.list)), i > k,
         \A j \in Sought(w, p, Len(w.list)) : j > k => i <= j
  PROVE  Gathered(w, Append(c, i), p, i)
<1>1. Len(c) \in Nat
  OBVIOUS
<1>2. PICK S : S = Sought(w, p, Len(w.list)) /\ i \in S /\ S \subseteq Nat
  <2>1. Sought(w, p, Len(w.list)) \subseteq Nat
    BY DEF Sought
  <2>2. QED
    BY <2>1, Zenon
<1>3. \A j : j \in Sought(w, p, k) <=> j \in S /\ j <= k
  BY <1>2 DEF Sought
<1>4. \A j : j \in Sought(w, p, i) <=> j \in S /\ j <= i
  BY <1>2 DEF Sought
<1>5. \A j \in S : j <= i => j <= k \/ j = i
  BY <1>2
<1>6. PICK d : d = Append(c, i)
  OBVIOUS
<1>7. /\ Len(d) = Len(c) + 1 /\ d[Len(c) + 1] = i
      /\ \A n \in 1..Len(c) : d[n] = c[n]
  <2>1. i \in 1..Len(w.list)
    BY DEF Sought
  <2>2. QED
    BY <1>6, <2>1, Appends
<1>8. ASSUME NEW m \in 1..Len(d), NEW n \in 1..Len(d), m < n PROVE d[m] < d[n]
  <2>1. m \in 1..Len(c) /\ d[m] = c[m]
    BY <1>1, <1>7, <1>8
  <2>2. c[m] \in S /\ c[m] <= k
    BY <1>3, <2>1 DEF Gathered
  <2>3. CASE n \in 1..Len(c)
    BY <1>7, <1>8, <2>1, <2>3 DEF Gathered
  <2>4. CASE n = Len(c) + 1
    BY <1>2, <1>7, <2>1, <2>2, <2>4
  <2>5. QED
    BY <1>1, <1>7, <2>3, <2>4
<1>9. ASSUME NEW n \in 1..Len(d) PROVE d[n] \in Sought(w, p, i)
  <2>1. CASE n \in 1..Len(c)
    <3>1. c[n] \in S /\ c[n] <= k
      BY <1>3, <2>1 DEF Gathered
    <3>2. QED
      BY <1>2, <1>4, <1>7, <2>1, <3>1
  <2>2. CASE n = Len(c) + 1
    BY <1>2, <1>4, <1>7, <2>2
  <2>3. QED
    BY <1>1, <1>7, <2>1, <2>2
<1>10. ASSUME NEW j \in Sought(w, p, i) PROVE \E n \in 1..Len(d) : d[n] = j
  <2>1. CASE j \in Sought(w, p, k)
    <3>1. PICK n \in 1..Len(c) : c[n] = j
      BY <2>1 DEF Gathered
    <3>2. QED
      BY <1>1, <1>7, <3>1
  <2>2. CASE j = i
    <3>1. Len(c) + 1 \in 1..Len(d)
      BY <1>1, <1>7
    <3>2. QED
      BY <1>7, <2>2, <3>1
  <2>3. QED
    BY <1>3, <1>4, <1>5, <1>10, <2>1, <2>2
<1>11. QED
  BY <1>6, <1>8, <1>9, <1>10 DEF Gathered

\* When there is none left, the entries are gathered.
LEMMA GatherAll ==
  ASSUME NEW w, NEW c, NEW p, NEW k, Gathered(w, c, p, k),
         \A j \in Sought(w, p, Len(w.list)) : j <= k,
         \A j \in Sought(w, p, k) : j <= Len(w.list)
  PROVE  Gathered(w, c, p, Len(w.list))
<1>1. Sought(w, p, k) = Sought(w, p, Len(w.list))
  BY DEF Sought
<1>2. QED
  BY <1>1, Zenon DEF Gathered

\* One iteration moves, and what is gathered stays.
LEMMA OneMoves ==
  ASSUME NEW w, NEW f, NEW c, Progress(w, f, c), NEW x \in Iterators, NEW r \in Iteration,
         NEW g, g = [f EXCEPT ![x] = r],
         r.calm => f[x].calm \/ w.audio,
         Stands(w, x, g, c)
  PROVE  Progress(w, g, c)
<1>1. f \in [Iterators -> Iteration] /\ \A y \in Iterators : Stands(w, y, f, c)
  BY DEF Progress
<1>2. g \in [Iterators -> Iteration] /\ g[x] = r /\ \A y \in Iterators \ {x} : g[y] = f[y]
  BY <1>1
<1>3. ASSUME NEW y \in Iterators \ {x} PROVE Stands(w, y, g, c)
  <2>1. Stands(w, y, f, c) /\ g[y] = f[y]
    BY <1>1, <1>2
  <2>2. ASSUME f[y].at = "opening", NEW z \in Iterators \ {y} PROVE ~g[z].calm
    <3>1. ~f[z].calm /\ ~w.audio
      BY <2>1, <2>2 DEF Stands
    <3>2. CASE z = x
      <4>1. ~f[x].calm
        BY <3>1, <3>2, Zenon
      <4>2. QED
        BY <1>2, <3>1, <3>2, <4>1, Zenon
    <3>3. CASE z # x
      <4>1. g[z] = f[z]
        BY <1>2, <3>3
      <4>2. QED
        BY <3>1, <4>1, Zenon
    <3>4. QED
      BY <3>2, <3>3
  <2>3. QED
    BY <2>1, <2>2, Zenon DEF Stands
<1>4. QED
  BY <1>2, <1>3 DEF Progress

\* The world an iteration moves in.
LEMMA WorldIs ==
  ASSUME DirInv
  PROVE  /\ (World.audio <=> Audio) /\ World.list = dirlist /\ (World.listed <=> pc = "listed")
         /\ Progress(World, iter, currdirlist) /\ Parser /\ iter \in [Iterators -> Iteration]
         /\ currdirlist \in Seq(1..Len(dirlist)) /\ Len(dirlist) \in Nat
         /\ DOMAIN dirlist = 1..Len(dirlist) /\ opens \in 0..MaxOpens
         /\ \A x \in Iterators : Stands(World, x, iter, currdirlist)
<1>1. World.list = dirlist /\ (World.listed <=> pc = "listed")
  BY DEF World
<1>2. World.audio <=> Audio
  BY Zenon DEF World
<1>3. Progress(World, iter, currdirlist) /\ Parser /\ opens \in 0..MaxOpens
  BY DEF DirInv
<1>4. Len(dirlist) \in Nat /\ DOMAIN dirlist = 1..Len(dirlist)
  BY DEF DirInv, Parser, Listable
<1>5. QED
  BY <1>1, <1>2, <1>3, <1>4, Zenon DEF Progress

\* An iteration that is closed.
LEMMA ClosedIs ==
  /\ Closed \in Iteration /\ Closed.at = "closed" /\ ~Closed.calm
  /\ Closed.seen = 0 /\ Closed.next = 0 /\ Closed.got = <<>>
<1>1. /\ Closed.at = "closed" /\ ~Closed.calm
      /\ Closed.seen = 0 /\ Closed.next = 0 /\ Closed.got = <<>>
  BY Zenon DEF Closed
<1>2. PICK none \in Seq(Nat) : none = <<>>
  <2>1. <<>> \in Seq(Nat)
    OBVIOUS
  <2>2. QED
    BY <2>1, Zenon
<1>3. Closed = [at |-> "closed", place |-> NoPlace, seen |-> 0, next |-> 0, got |-> none,
                calm |-> FALSE]
  BY <1>2, Zenon DEF Closed
<1>4. Closed \in Iteration
  BY <1>3 DEF Iteration
<1>5. QED
  BY <1>1, <1>4

\* A directory is opened.
LEMMA DirOpenOk ==
  ASSUME DirInv, NEW x \in Iterators, NEW p \in Places, DirOpen(x, p)
  PROVE  DirInv'
<1> DEFINE w == World
           f == iter
           c == currdirlist
<1>1. /\ pc = "listed" /\ opens < MaxOpens /\ opens' = opens + 1
      /\ UNCHANGED <<listvars, isovars, udfvars>>
  BY DEF DirOpen
<1>2. /\ (w.audio <=> Audio) /\ w.list = dirlist /\ w.listed
      /\ Progress(w, f, c) /\ Parser /\ f \in [Iterators -> Iteration] /\ Len(dirlist) \in Nat
      /\ \A y \in Iterators : Stands(w, y, f, c)
  BY <1>1, WorldIs
<1>3. opens' \in 0..MaxOpens
  BY <1>1, WorldIs, DirAssumption
<1>4. PICK none \in Iteration : none = Closed
  BY ClosedIs, Zenon
<1>5. none.seen = 0 /\ none.next = 0 /\ none.got = <<>> /\ Len(none.got) = 0
  <2>1. Len(<<>>) = 0
    OBVIOUS
  <2>2. QED
    BY <1>4, <2>1, ClosedIs, Zenon
<1> HIDE DEF w, f, c
<1>6. Progress(w, iter', currdirlist')
  <2>1. CASE Audio
    <3> DEFINE r == [Closed EXCEPT !.at = "open", !.place = p, !.calm = TRUE]
    <3>1. iter' = [f EXCEPT ![x] = r] /\ currdirlist' = c
      BY <2>1 DEF DirOpen, f, c
    <3>2. r = [none EXCEPT !.at = "open", !.place = p, !.calm = TRUE]
      BY <1>4, Zenon
    <3> HIDE DEF r
    <3>3. /\ r \in Iteration /\ r.at = "open" /\ r.next = 0 /\ r.got = none.got /\ r.calm
      BY <1>5, <3>2 DEF Iteration
    <3>4. iter'[x] = r
      BY <1>2, <3>1
    <3>5. Shown(w, c) = [i \in 1..Len(dirlist) |-> i] /\ Len(Shown(w, c)) = Len(dirlist)
      BY <1>2, <2>1 DEF Shown
    <3>6. First(r.got, r.next, Shown(w, c)) /\ r.next <= Len(Shown(w, c))
      BY <1>2, <1>5, <3>3, <3>5 DEF First
    <3>7. Stands(w, x, iter', c)
      BY <1>2, <2>1, <3>3, <3>4, <3>6 DEF Stands
    <3>8. QED
      BY <1>2, <2>1, <3>1, <3>3, <3>7, OneMoves
  <2>2. CASE ~Audio
    <3> DEFINE q == Quiet(x)
               r == [Closed EXCEPT !.at = "opening", !.place = p, !.calm = q]
               g == iter'
    <3>1. g = [Disturbed(x) EXCEPT ![x] = r] /\ currdirlist' = <<>>
      BY <2>2 DEF DirOpen, Emptied
    <3>2. q \in BOOLEAN /\ (q => \A y \in Iterators \ {x} : f[y].at # "opening")
      BY Zenon DEF Quiet, f
    <3>3. r = [none EXCEPT !.at = "opening", !.place = p, !.calm = q]
      BY <1>4, Zenon
    <3> HIDE DEF q, r
    <3>4. /\ r \in Iteration /\ r.at = "opening" /\ r.place = p /\ r.seen = 0 /\ r.next = 0
          /\ r.got = <<>> /\ (r.calm <=> q)
      <4>1. /\ r \in Iteration /\ r.at = "opening" /\ r.place = p /\ r.seen = 0 /\ r.next = 0
            /\ r.got = none.got
        BY <1>5, <3>2, <3>3 DEF Iteration
      <4>2. r.calm = q
        BY <3>3 DEF Iteration
      <4>3. QED
        BY <1>5, <4>1, <4>2, Zenon
    <3>5. Disturbed(x) = [y \in Iterators |-> IF y = x THEN f[y] ELSE [f[y] EXCEPT !.calm = FALSE]]
      BY DEF Disturbed, f
    <3>6. \A y \in Iterators : [f[y] EXCEPT !.calm = FALSE] \in Iteration
      BY <1>2 DEF Iteration
    <3>7. g \in [Iterators -> Iteration] /\ g[x] = r
      BY <1>2, <3>1, <3>4, <3>5, <3>6
    <3>8. ASSUME NEW y \in Iterators \ {x}
          PROVE  /\ ~g[y].calm /\ g[y].at = f[y].at /\ g[y].seen = f[y].seen
                 /\ g[y].next = f[y].next /\ g[y].got = f[y].got
      <4>1. g[y] = [f[y] EXCEPT !.calm = FALSE] /\ f[y] \in Iteration
        BY <1>2, <3>1, <3>5
      <4>2. /\ g[y].at = f[y].at /\ g[y].seen = f[y].seen
            /\ g[y].next = f[y].next /\ g[y].got = f[y].got
        BY <4>1 DEF Iteration
      <4>3. g[y].calm = FALSE
        BY <4>1 DEF Iteration
      <4>4. QED
        BY <4>2, <4>3
    <3> HIDE DEF g
    <3>9. Stands(w, x, g, <<>>)
      <4>1. Sought(w, p, 0) = {}
        BY DEF Sought
      <4>2. Gathered(w, <<>>, p, 0)
        BY <4>1 DEF Gathered
      <4>3. 0 <= Len(w.list)
        BY <1>2
      <4>4. QED
        BY <1>2, <2>2, <3>4, <3>7, <3>8, <4>2, <4>3, Zenon DEF Stands
    <3>10. ASSUME NEW y \in Iterators \ {x} PROVE Stands(w, y, g, <<>>)
      <4>1. Stands(w, y, f, c)
        BY <1>2
      <4>2. ASSUME f[y].at = "opening", NEW z \in Iterators \ {y} PROVE ~g[z].calm
        <5>1. CASE z = x
          BY <3>2, <3>4, <3>7, <4>2, <5>1, Zenon
        <5>2. CASE z # x
          BY <3>8, <5>2
        <5>3. QED
          BY <5>1, <5>2
      <4>3. QED
        BY <3>8, <4>1, <4>2, Zenon DEF Stands
    <3>11. <<>> \in Seq(1..Len(w.list))
      OBVIOUS
    <3>12. Progress(w, g, <<>>)
      BY <1>2, <3>7, <3>9, <3>10, <3>11 DEF Progress
    <3>13. QED
      BY <3>1, <3>12, Zenon DEF g
  <2>3. QED
    BY <2>1, <2>2
<1>7. QED
  BY <1>1, <1>2, <1>3, <1>6, IterationOk DEF w

\* An entry is gathered, or there are no more.
LEMMA GatherOk ==
  ASSUME DirInv, NEW x \in Iterators, Gather(x)
  PROVE  DirInv'
<1> DEFINE w == World
           f == iter
           c == currdirlist
           it == iter[x]
           p == iter[x].place
           more == {i \in DOMAIN dirlist : i > iter[x].seen /\ Matches(i, iter[x].place)}
           all == Sought(w, p, Len(dirlist))
<1>1. it.at = "opening" /\ opens' = opens /\ UNCHANGED <<listvars, isovars, udfvars>>
  BY DEF Gather
<1>2. /\ w.list = dirlist /\ Progress(w, f, c) /\ Parser /\ f \in [Iterators -> Iteration]
      /\ Len(dirlist) \in Nat /\ DOMAIN dirlist = 1..Len(dirlist) /\ opens \in 0..MaxOpens
      /\ c \in Seq(1..Len(dirlist)) /\ \A y \in Iterators : Stands(w, y, f, c)
  BY WorldIs
<1>3. /\ w.listed /\ ~w.audio /\ it.seen <= Len(dirlist) /\ it.next = 0 /\ it.got = <<>>
      /\ \A y \in Iterators \ {x} : ~f[y].calm
      /\ it.calm => Gathered(w, c, p, it.seen)
  BY <1>1, <1>2, Zenon DEF Stands
<1>4. it \in Iteration /\ it.seen \in Nat
  BY <1>2 DEF Iteration
<1>5. \A i : i \in more <=> i \in all /\ i > it.seen
  <2>1. \A i : Matches(i, p) <=> /\ SubSeq(w.list[i].path, 1, Len(w.list[i].path) - 1) = p.dir
                                 /\ p.slash => w.slashes
    BY Zenon DEF Matches, Parent, World
  <2>2. \A i : i \in more <=> i \in 1..Len(dirlist) /\ i > it.seen /\ Matches(i, p)
    BY <1>2, Zenon
  <2>3. \A i : i \in all <=> /\ i \in 1..Len(dirlist) /\ i <= Len(dirlist) /\ Matches(i, p)
    BY <1>2, <2>1, Zenon DEF Sought
  <2>4. \A i \in 1..Len(dirlist) : i <= Len(dirlist)
    BY <1>2
  <2>5. QED
    BY <2>2, <2>3, <2>4, Zenon
<1>6. all \subseteq 1..Len(dirlist)
  BY <1>2, Zenon DEF Sought
<1>7. CASE more # {}
  <2> DEFINE i == CHOOSE j \in more : \A k \in more : j <= k
             r == [it EXCEPT !.seen = i]
             d == Append(c, i)
  <2>1. more \subseteq Nat
    BY <1>2, <1>5, <1>6
  <2>2. i \in more /\ \A k \in more : i <= k
    <3>1. \E j \in more : \A k \in more : j <= k
      BY <1>7, <2>1, LeastIs
    <3>2. QED
      BY <3>1, Zenon
  <2>3. currdirlist' = d /\ iter' = [f EXCEPT ![x] = r]
    BY <1>7, Zenon DEF Gather
  <2> HIDE DEF more, i, d
  <2>4. /\ i \in all /\ i > it.seen /\ i \in 1..Len(dirlist)
        /\ \A j \in all : j > it.seen => i <= j
    BY <1>5, <1>6, <2>2
  <2>5. d \in Seq(1..Len(dirlist))
    BY <1>2, <2>4, Appends DEF d
  <2>6. /\ r \in Iteration /\ r.at = "opening" /\ r.place = p /\ r.seen = i /\ r.next = 0
        /\ r.got = <<>> /\ (r.calm <=> it.calm)
    <3>1. i \in Nat
      BY <1>2, <2>4
    <3>2. /\ r \in Iteration /\ r.at = it.at /\ r.place = p /\ r.seen = i /\ r.next = it.next
          /\ r.got = it.got
      BY <1>4, <3>1 DEF Iteration
    <3>3. r.calm = it.calm
      BY <1>4 DEF Iteration
    <3>4. QED
      BY <1>1, <1>3, <3>2, <3>3, Zenon
  <2> HIDE DEF r
  <2>7. /\ iter' \in [Iterators -> Iteration] /\ iter'[x] = r
        /\ \A y \in Iterators \ {x} : iter'[y] = f[y]
    BY <1>2, <2>3, <2>6
  <2>8. ASSUME it.calm PROVE Gathered(w, d, p, i)
    <3>1. Gathered(w, c, p, it.seen) /\ c \in Seq(1..Len(w.list))
      BY <1>2, <1>3, <2>8, Zenon
    <3>2. QED
      BY <1>2, <1>4, <2>4, <3>1, GatherOne DEF d
  <2> DEFINE g == iter'
  <2>9. /\ g \in [Iterators -> Iteration] /\ g[x] = r
        /\ \A y \in Iterators \ {x} : g[y] = f[y]
    BY <2>7
  <2> HIDE DEF g
  <2>10. \A y \in Iterators \ {x} : ~g[y].calm
    BY <1>3, <2>9
  <2>11. Stands(w, x, g, d)
    <3>1. i <= Len(w.list)
      BY <1>2, <2>4
    <3>2. QED
      BY <1>3, <2>6, <2>8, <2>9, <2>10, <3>1, Zenon DEF Stands
  <2>12. ASSUME NEW y \in Iterators \ {x} PROVE Stands(w, y, g, d)
    <3>1. Stands(w, y, f, c) /\ g[y] = f[y] /\ ~g[y].calm
      BY <1>2, <2>9, <2>10
    <3>2. ASSUME f[y].at = "opening", NEW z \in Iterators \ {y} PROVE ~g[z].calm
      <4>1. CASE z = x
        <5>1. ~f[x].calm
          BY <1>2, <3>2, <4>1, Zenon DEF Stands
        <5>2. QED
          BY <2>6, <2>9, <4>1, <5>1, Zenon
      <4>2. CASE z # x
        BY <2>10, <4>2
      <4>3. QED
        BY <4>1, <4>2
    <3>3. QED
      BY <3>1, <3>2, Zenon DEF Stands
  <2>13. Progress(w, g, d)
    BY <1>2, <1>3, <2>5, <2>9, <2>11, <2>12 DEF Progress
  <2>14. Progress(World, iter', currdirlist')
    BY <2>3, <2>13, Zenon DEF g
  <2>15. opens' \in 0..MaxOpens
    BY <1>1, <1>2, Zenon
  <2>16. QED
    BY <1>1, <1>2, <2>14, <2>15, IterationOk
<1>8. CASE more = {}
  <2> DEFINE r == [it EXCEPT !.at = "open", !.next = 0]
  <2>1. iter' = [f EXCEPT ![x] = r] /\ currdirlist' = c
    <3>1. iter' = [iter EXCEPT ![x].at = "open", ![x].next = 0] /\ currdirlist' = c
      BY <1>8, Zenon DEF Gather
    <3>2. [iter EXCEPT ![x].at = "open", ![x].next = 0] = [f EXCEPT ![x] = r]
      BY <1>2
    <3>3. QED
      BY <3>1, <3>2, Zenon
  <2>2. /\ r \in Iteration /\ r.at = "open" /\ r.place = p /\ r.next = 0 /\ r.got = it.got
        /\ (r.calm <=> it.calm)
    <3>1. /\ r \in Iteration /\ r.at = "open" /\ r.place = p /\ r.next = 0 /\ r.got = it.got
      BY <1>4 DEF Iteration
    <3>2. r.calm = it.calm
      BY <1>4 DEF Iteration
    <3>3. QED
      BY <3>1, <3>2, Zenon
  <2> HIDE DEF more, r
  <2>3. \A j \in all : j <= it.seen
    <3>1. \A j \in all : j \in Nat /\ ~(j > it.seen)
      BY <1>2, <1>5, <1>6, <1>8
    <3>2. QED
      BY <1>4, <3>1
  <2>4. ASSUME it.calm PROVE Gathered(w, c, p, Len(w.list))
    <3>1. Gathered(w, c, p, it.seen) /\ all = Sought(w, p, Len(w.list))
      BY <1>2, <1>3, <2>4, Zenon
    <3>2. \A j \in Sought(w, p, it.seen) : j <= Len(w.list)
      BY <1>2 DEF Sought
    <3>3. QED
      BY <2>3, <3>1, <3>2, GatherAll
  <2>5. iter'[x] = r
    BY <1>2, <2>1
  <2>6. First(r.got, 0, Shown(w, c)) /\ 0 <= Len(Shown(w, c))
    <3>1. Shown(w, c) = c /\ Len(c) \in Nat
      BY <1>2, <1>3 DEF Shown
    <3>2. r.got = <<>> /\ Len(<<>>) = 0
      BY <1>3, <2>2
    <3>3. Len(r.got) = 0
      BY <3>2, Zenon
    <3>4. QED
      BY <3>1, <3>3 DEF First
  <2>7. Stands(w, x, iter', c)
    BY <1>3, <2>2, <2>4, <2>5, <2>6, Zenon DEF Stands
  <2>8. Progress(w, iter', c)
    BY <1>2, <2>1, <2>2, <2>7, OneMoves
  <2>9. opens' \in 0..MaxOpens
    BY <1>1, <1>2, Zenon
  <2>10. QED
    BY <1>1, <1>2, <2>1, <2>8, <2>9, IterationOk
<1>9. QED
  BY <1>7, <1>8

\* One entry more is returned.
LEMMA FirstMore ==
  ASSUME NEW got \in Seq(Nat), NEW n \in Nat, NEW list, First(got, n, list), list[n + 1] \in Nat
  PROVE  First(Append(got, list[n + 1]), n + 1, list)
<1>1. Len(got) = n /\ \A i \in 1..n : got[i] = list[i]
  BY DEF First
<1>2. PICK e \in Nat : e = list[n + 1]
  OBVIOUS
<1>3. PICK d : d = Append(got, e)
  OBVIOUS
<1>4. /\ Len(d) = Len(got) + 1 /\ d[Len(got) + 1] = e
      /\ \A i \in 1..Len(got) : d[i] = got[i]
  BY <1>3, Appends
<1>5. Len(d) = n + 1 /\ d[n + 1] = e /\ \A i \in 1..n : d[i] = list[i]
  BY <1>1, <1>4
<1>6. \A i \in 1 .. n + 1 : d[i] = list[i]
  BY <1>2, <1>5
<1>7. QED
  BY <1>2, <1>3, <1>5, <1>6 DEF First

\* An entry is returned, or the end reported.
LEMMA DirNextOk ==
  ASSUME DirInv, NEW x \in Iterators, DirNext(x)
  PROVE  DirInv'
<1> DEFINE w == World
           f == iter
           c == currdirlist
           it == iter[x]
           s == Shown(w, c)
<1>1. /\ it.at \in {"open", "ended"} /\ opens' = opens /\ currdirlist' = c
      /\ UNCHANGED <<listvars, isovars, udfvars>>
  BY DEF DirNext
<1>2. /\ w.list = dirlist /\ (w.audio <=> Audio) /\ Progress(w, f, c) /\ Parser
      /\ f \in [Iterators -> Iteration]
      /\ Len(dirlist) \in Nat /\ DOMAIN dirlist = 1..Len(dirlist) /\ opens \in 0..MaxOpens
      /\ c \in Seq(1..Len(dirlist)) /\ Stands(w, x, f, c)
  BY WorldIs
<1>3. /\ w.listed
      /\ it.calm =>
           /\ ~w.audio => Gathered(w, c, it.place, Len(w.list))
           /\ it.at = "open" => it.next <= Len(s) /\ First(it.got, it.next, s)
           /\ it.at = "ended" => /\ it.next = IF w.audio THEN 0 ELSE Len(s)
                                 /\ First(it.got, Len(s), s)
  BY <1>1, <1>2, Zenon DEF Stands
<1>4. /\ it \in Iteration /\ it.next \in Nat /\ it.got \in Seq(Nat)
  BY <1>2 DEF Iteration
<1>5. s \in Seq(Nat) /\ Len(s) \in Nat
  <2>1. CASE Audio
    <3>1. s = [i \in 1..Len(dirlist) |-> i]
      BY <1>2, <2>1 DEF Shown
    <3>2. QED
      BY <1>2, <3>1
  <2>2. CASE ~Audio
    BY <1>2, <2>2 DEF Shown
  <2>3. QED
    BY <2>1, <2>2
<1>6. Returned = s
  BY <1>2, Zenon DEF Returned, Shown
<1> HIDE DEF s
<1>7. opens' \in 0..MaxOpens
  BY <1>1, <1>2, Zenon
<1>8. CASE it.next < Len(s)
  <2> DEFINE e == s[it.next + 1]
             n == it.next + 1
             got == IF it.at = "ended" /\ Audio THEN <<>> ELSE it.got
             more == Append(got, e)
             r == [it EXCEPT !.at = "open", !.next = n, !.got = more]
  <2>1. e \in Nat /\ n \in Nat
    BY <1>4, <1>5, <1>8
  <2>2. got \in Seq(Nat) /\ more \in Seq(Nat)
    <3>1. <<>> \in Seq(Nat)
      OBVIOUS
    <3>2. got \in Seq(Nat)
      BY <1>4, <3>1
    <3>3. QED
      BY <2>1, <3>2, Appends
  <2>3. iter' = [f EXCEPT ![x] = r]
    <3>1. iter' = [iter EXCEPT ![x].at = "open", ![x].next = @ + 1,
                     ![x].got = Append(IF iter[x].at = "ended" /\ Audio THEN <<>> ELSE @, e)]
      BY <1>6, <1>8, Zenon DEF DirNext
    <3>2. QED
      BY <1>2, <3>1
  <2>4. ASSUME it.calm PROVE First(more, n, s) /\ n <= Len(s)
    <3>1. n <= Len(s)
      BY <1>4, <1>5, <1>8
    <3>2. First(got, it.next, s)
      <4>1. CASE it.at = "open"
        BY <1>3, <2>4, <4>1
      <4>2. CASE it.at = "ended"
        <5>1. w.audio /\ it.next = 0
          BY <1>3, <1>5, <1>8, <2>4, <4>2
        <5>2. got = <<>> /\ Len(<<>>) = 0
          BY <1>2, <4>2, <5>1
        <5>3. Len(got) = it.next
          BY <5>1, <5>2, Zenon
        <5>4. QED
          BY <5>1, <5>3 DEF First
      <4>3. QED
        BY <1>1, <4>1, <4>2
    <3> HIDE DEF got
    <3>3. QED
      BY <1>4, <2>1, <2>2, <3>1, <3>2, FirstMore
  <2> HIDE DEF n, got, more
  <2>5. /\ r \in Iteration /\ r.at = "open" /\ r.next = n /\ r.got = more /\ r.place = it.place
        /\ (r.calm <=> it.calm)
    <3>1. /\ r \in Iteration /\ r.at = "open" /\ r.next = n /\ r.got = more
          /\ r.place = it.place
      BY <1>4, <2>1, <2>2 DEF Iteration
    <3>2. r.calm = it.calm
      BY <1>4 DEF Iteration
    <3>3. QED
      BY <3>1, <3>2, Zenon
  <2> HIDE DEF r
  <2>6. iter'[x] = r
    BY <1>2, <2>3
  <2>7. Stands(w, x, iter', c)
    BY <1>3, <2>4, <2>5, <2>6, Zenon DEF Stands, s
  <2>8. Progress(w, iter', c)
    BY <1>2, <2>3, <2>5, <2>7, OneMoves
  <2>9. QED
    BY <1>1, <1>2, <1>7, <2>8, IterationOk
<1>9. CASE ~(it.next < Len(s))
  <2> DEFINE n == IF Audio THEN 0 ELSE it.next
             r == [it EXCEPT !.at = "ended", !.next = n]
  <2>1. n \in Nat
    BY <1>4
  <2>2. iter' = [f EXCEPT ![x] = r]
    <3>1. iter' = [iter EXCEPT ![x].at = "ended", ![x].next = IF Audio THEN 0 ELSE @]
      BY <1>6, <1>9, Zenon DEF DirNext
    <3>2. QED
      BY <1>2, <3>1
  <2>3. ASSUME it.calm
        PROVE  First(it.got, Len(s), s) /\ n = IF w.audio THEN 0 ELSE Len(s)
    <3>1. CASE it.at = "open"
      <4>1. it.next = Len(s)
        BY <1>3, <1>4, <1>5, <1>9, <2>3, <3>1
      <4>2. QED
        BY <1>2, <1>3, <2>3, <3>1, <4>1
    <3>2. CASE it.at = "ended"
      BY <1>2, <1>3, <2>3, <3>2, Zenon
    <3>3. QED
      BY <1>1, <3>1, <3>2
  <2> HIDE DEF n
  <2>4. /\ r \in Iteration /\ r.at = "ended" /\ r.next = n /\ r.got = it.got /\ r.place = it.place
        /\ (r.calm <=> it.calm)
    <3>1. /\ r \in Iteration /\ r.at = "ended" /\ r.next = n /\ r.got = it.got
          /\ r.place = it.place
      BY <1>4, <2>1 DEF Iteration
    <3>2. r.calm = it.calm
      BY <1>4 DEF Iteration
    <3>3. QED
      BY <3>1, <3>2, Zenon
  <2> HIDE DEF r
  <2>5. iter'[x] = r
    BY <1>2, <2>2
  <2>6. Stands(w, x, iter', c)
    BY <1>3, <2>3, <2>4, <2>5, Zenon DEF Stands, s
  <2>7. Progress(w, iter', c)
    BY <1>2, <2>2, <2>4, <2>6, OneMoves
  <2>8. QED
    BY <1>1, <1>2, <1>7, <2>7, IterationOk
<1>10. QED
  BY <1>8, <1>9

\* An iteration is closed.
LEMMA DirCloseOk ==
  ASSUME DirInv, NEW x \in Iterators, DirClose(x)
  PROVE  DirInv'
<1>1. /\ iter' = [iter EXCEPT ![x] = Closed] /\ opens' = opens /\ currdirlist' = currdirlist
      /\ UNCHANGED <<listvars, isovars, udfvars>>
  BY DEF DirClose
<1>2. /\ Progress(World, iter, currdirlist) /\ Parser /\ iter \in [Iterators -> Iteration]
      /\ opens \in 0..MaxOpens
  BY WorldIs
<1>3. PICK r \in Iteration : r = Closed /\ r.at = "closed" /\ ~r.calm
  BY ClosedIs, Zenon
<1>4. iter' = [iter EXCEPT ![x] = r] /\ iter'[x] = r
  BY <1>1, <1>2, <1>3
<1>5. Stands(World, x, iter', currdirlist)
  BY <1>3, <1>4, Zenon DEF Stands
<1>6. Progress(World, iter', currdirlist)
  BY <1>2, <1>3, <1>4, <1>5, OneMoves
<1>7. Progress(World, iter', currdirlist') /\ opens' \in 0..MaxOpens
  BY <1>1, <1>2, <1>6, Zenon
<1>8. QED
  BY <1>1, <1>2, <1>7, IterationOk

-----------------------------------------------------------------------------
(* Positions of things that follow each other *)

\* The function by which Position is defined.
Follows(a, lens, n, g) ==
  g = [j \in 1 .. n + 1 |-> IF j = 1 THEN a ELSE g[j - 1] + lens[j - 1]]

\* There is one for each number of things.
LEMMA PositionsThere ==
  ASSUME NEW a, NEW lens, NEW n \in Nat
  PROVE  \E g : Follows(a, lens, n, g)
<1> DEFINE M == {m \in Nat : ~ \E g : Follows(a, lens, m, g)}
<1>1. SUFFICES ASSUME M # {} PROVE FALSE
  OBVIOUS
<1>2. PICK m \in M : \A k \in M : m <= k
  <2>1. M \subseteq Nat
    OBVIOUS
  <2>2. QED
    BY <1>1, <2>1, LeastIs
<1>3. m \in Nat
  OBVIOUS
<1>4. CASE m = 0
  <2> DEFINE g == [j \in 1..1 |-> a]
  <2>1. g = [j \in 1..1 |-> IF j = 1 THEN a ELSE g[j - 1] + lens[j - 1]]
    OBVIOUS
  <2>2. Follows(a, lens, m, g)
    BY <1>4, <2>1 DEF Follows
  <2>3. QED
    BY <2>2
<1>5. CASE m # 0
  <2>1. m - 1 \in Nat /\ m - 1 \notin M /\ (m - 1) + 1 = m
    BY <1>2, <1>3, <1>5
  <2>2. PICK g : Follows(a, lens, m - 1, g)
    BY <2>1
  <2>3. g = [j \in 1..m |-> IF j = 1 THEN a ELSE g[j - 1] + lens[j - 1]]
    BY <2>1, <2>2 DEF Follows
  <2> DEFINE h == [j \in 1 .. m + 1 |-> IF j = m + 1 THEN g[m] + lens[m] ELSE g[j]]
             F(j) == IF j = 1 THEN a ELSE h[j - 1] + lens[j - 1]
             G(j) == IF j = m + 1 THEN g[m] + lens[m] ELSE g[j]
  <2>4. ASSUME NEW j \in 1 .. m + 1 PROVE G(j) = F(j)
    <3>1. CASE j = m + 1
      <4>1. j # 1 /\ j - 1 = m /\ m \in 1 .. m + 1 /\ m # m + 1
        BY <1>3, <1>5, <3>1
      <4>2. h[m] = g[m]
        BY <4>1
      <4>3. F(j) = g[m] + lens[m]
        BY <4>1, <4>2
      <4>4. QED
        BY <3>1, <4>3
    <3>2. CASE j = 1
      <4>1. 1 \in 1..m /\ j # m + 1
        BY <1>3, <1>5, <3>2
      <4>2. g[1] = a
        BY <2>3, <4>1
      <4>3. QED
        BY <3>2, <4>1, <4>2
    <3>3. CASE j # 1 /\ j # m + 1
      <4>1. j \in 1..m /\ j - 1 \in 1 .. m + 1 /\ j - 1 # m + 1
        BY <1>3, <3>3
      <4>2. h[j - 1] = g[j - 1]
        BY <4>1
      <4>3. g[j] = g[j - 1] + lens[j - 1]
        BY <2>3, <3>3, <4>1
      <4>4. QED
        BY <3>3, <4>2, <4>3
    <3>4. QED
      BY <3>1, <3>2, <3>3
  <2>5. h = [j \in 1 .. m + 1 |-> G(j)]
    OBVIOUS
  <2> HIDE DEF F, G
  <2>6. h = [j \in 1 .. m + 1 |-> F(j)]
    BY <2>4, <2>5, Zenon
  <2>7. Follows(a, lens, m, h)
    BY <2>6, Zenon DEF F, Follows
  <2>8. QED
    BY <2>7
<1>6. QED
  BY <1>4, <1>5

\* Each begins where the one before it ends.
LEMMA PositionIs ==
  ASSUME NEW a, NEW lens \in Seq(Nat)
  PROVE  /\ Position(a, lens, 1) = a
         /\ \A k \in 1..Len(lens) : Position(a, lens, k + 1) = Position(a, lens, k) + lens[k]
<1> DEFINE n == Len(lens)
           P(g) == g = [j \in 1 .. n + 1 |-> IF j = 1 THEN a ELSE g[j - 1] + lens[j - 1]]
           f == CHOOSE g : P(g)
<1>1. n \in Nat
  OBVIOUS
<1>2. \E g : P(g)
  <2>1. PICK g : Follows(a, lens, n, g)
    BY <1>1, PositionsThere
  <2>2. P(g)
    BY <2>1 DEF Follows
  <2>3. QED
    BY <2>2
<1>3. P(f)
  BY <1>2, Zenon
<1>4. \A k : Position(a, lens, k) = f[k]
  BY Zenon DEF Position
<1>5. f = [j \in 1 .. n + 1 |-> IF j = 1 THEN a ELSE f[j - 1] + lens[j - 1]]
  BY <1>3
<1> HIDE DEF f, P, n
<1>6. f[1] = a
  <2>1. 1 \in 1 .. n + 1
    BY <1>1
  <2>2. QED
    BY <1>5, <2>1, Zenon
<1>7. ASSUME NEW k \in 1..n PROVE f[k + 1] = f[k] + lens[k]
  <2>1. k + 1 \in 1 .. n + 1 /\ k + 1 # 1 /\ (k + 1) - 1 = k
    BY <1>1
  <2>2. f[k + 1] = IF k + 1 = 1 THEN a ELSE f[(k + 1) - 1] + lens[(k + 1) - 1]
    BY <1>5, <2>1, Zenon
  <2>3. QED
    BY <2>1, <2>2
<1>8. QED
  BY <1>4, <1>6, <1>7 DEF n

\* So what comes later begins no earlier, and later if nothing is empty.
LEMMA PositionsRise ==
  ASSUME NEW a \in Nat, NEW lens \in Seq(Nat), NEW i \in 1 .. Len(lens) + 1
  PROVE  /\ Position(a, lens, i) \in Nat
         /\ \A k \in i .. Len(lens) + 1 :
              /\ Position(a, lens, k) \in Nat
              /\ Position(a, lens, i) <= Position(a, lens, k)
              /\ (\A j \in 1..Len(lens) : lens[j] > 0) /\ i < k =>
                   Position(a, lens, i) < Position(a, lens, k)
<1> DEFINE n == Len(lens)
           p(k) == Position(a, lens, k)
           Good(k) == /\ p(k) \in Nat /\ (i <= k => p(i) <= p(k))
                      /\ (\A j \in 1..n : lens[j] > 0) /\ i < k => p(i) < p(k)
<1>1. n \in Nat /\ i \in Nat /\ \A k \in 1..n : lens[k] \in Nat
  OBVIOUS
<1>2. p(1) = a /\ \A k \in 1..n : p(k + 1) = p(k) + lens[k]
  BY PositionIs
<1> HIDE DEF n, p
<1>3. \A k \in 1 .. n + 1 : p(k) \in Nat
  <2> DEFINE M == {m \in 1 .. n + 1 : p(m) \notin Nat}
  <2>1. SUFFICES ASSUME M # {} PROVE FALSE
    OBVIOUS
  <2>2. PICK m \in M : \A k \in M : m <= k
    <3>1. M \subseteq Nat
      BY <1>1
    <3>2. QED
      BY <2>1, <3>1, LeastIs
  <2>3. m \in 1 .. n + 1 /\ p(m) \notin Nat
    OBVIOUS
  <2>4. m # 1
    BY <1>2, <2>3
  <2>5. m - 1 \in 1..n /\ m - 1 \notin M /\ (m - 1) + 1 = m
    BY <1>1, <2>2, <2>3, <2>4
  <2>6. p(m - 1) \in Nat
    BY <1>1, <2>5
  <2>7. p(m) = p(m - 1) + lens[m - 1]
    BY <1>2, <2>5
  <2>8. QED
    BY <1>1, <2>3, <2>5, <2>6, <2>7
<1>4. \A k \in i .. n + 1 : Good(k)
  <2> DEFINE M == {m \in i .. n + 1 : ~Good(m)}
  <2>1. SUFFICES ASSUME M # {} PROVE FALSE
    OBVIOUS
  <2>2. PICK m \in M : \A k \in M : m <= k
    <3>1. M \subseteq Nat
      BY <1>1
    <3>2. QED
      BY <2>1, <3>1, LeastIs
  <2>3. m \in i .. n + 1 /\ ~Good(m) /\ i \in 1 .. n + 1
    BY DEF n
  <2>4. p(m) \in Nat /\ p(i) \in Nat
    BY <1>1, <1>3, <2>3
  <2>5. m # i
    BY <1>1, <2>3, <2>4
  <2>6. m - 1 \in i..n /\ m - 1 \in 1..n /\ (m - 1) + 1 = m /\ m - 1 \in i .. n + 1 /\ m - 1 \notin M
    BY <1>1, <2>2, <2>3, <2>5
  <2>7. Good(m - 1)
    BY <2>6
  <2>8. p(m) = p(m - 1) + lens[m - 1] /\ lens[m - 1] \in Nat /\ p(m - 1) \in Nat
    BY <1>1, <1>2, <1>3, <2>6
  <2>9. p(i) <= p(m)
    BY <2>4, <2>6, <2>7, <2>8
  <2>10. ASSUME \A j \in 1..n : lens[j] > 0 PROVE p(i) < p(m)
    <3>1. lens[m - 1] > 0
      BY <2>6, <2>10
    <3>2. p(i) <= p(m - 1)
      BY <2>6, <2>7
    <3>3. QED
      BY <2>4, <2>8, <3>1, <3>2
  <2>11. QED
    BY <2>3, <2>4, <2>9, <2>10
<1>5. QED
  BY <1>1, <1>3, <1>4 DEF n, p

-----------------------------------------------------------------------------
(* The tree of directories *)

\* The function by which Levels is defined.
LevelsTo(h, r, n, g) ==
  g = [k \in 0..n |-> IF k = 0 THEN {Node(<<>>, TRUE, r)} ELSE Deeper(h, g[k - 1])]

\* There are levels to any depth.
LEMMA LevelsThere ==
  ASSUME NEW h, NEW r, NEW n \in Nat
  PROVE  \E g : LevelsTo(h, r, n, g)
<1> DEFINE M == {m \in Nat : ~ \E g : LevelsTo(h, r, m, g)}
           top == {Node(<<>>, TRUE, r)}
<1>1. SUFFICES ASSUME M # {} PROVE FALSE
  OBVIOUS
<1>2. PICK m \in M : \A k \in M : m <= k
  <2>1. M \subseteq Nat
    OBVIOUS
  <2>2. QED
    BY <1>1, <2>1, LeastIs
<1>3. m \in Nat
  OBVIOUS
<1>4. \A j, g : LevelsTo(h, r, j, g) <=>
               g = [k \in 0..j |-> IF k = 0 THEN top ELSE Deeper(h, g[k - 1])]
  BY Zenon DEF LevelsTo
<1>5. m \notin {k \in Nat : \E g : LevelsTo(h, r, k, g)}
  OBVIOUS
<1> HIDE DEF top
<1>6. CASE m = 0
  <2> DEFINE g == [k \in 0..0 |-> top]
  <2>1. g = [k \in 0..0 |-> IF k = 0 THEN top ELSE Deeper(h, g[k - 1])]
    OBVIOUS
  <2>2. LevelsTo(h, r, m, g)
    BY <1>4, <1>6, <2>1
  <2>3. QED
    BY <1>3, <1>5, <2>2
<1>7. CASE m # 0
  <2>1. m - 1 \in Nat /\ m - 1 \notin M
    BY <1>2, <1>3, <1>7
  <2>2. PICK g : LevelsTo(h, r, m - 1, g)
    BY <2>1
  <2>3. g = [k \in 0 .. m - 1 |-> IF k = 0 THEN top ELSE Deeper(h, g[k - 1])]
    BY <1>4, <2>2
  <2> DEFINE f == [k \in 0..m |-> IF k = m THEN Deeper(h, g[m - 1]) ELSE g[k]]
             F(k) == IF k = 0 THEN top ELSE Deeper(h, f[k - 1])
             G(k) == IF k = m THEN Deeper(h, g[m - 1]) ELSE g[k]
  <2>4. ASSUME NEW k \in 0..m PROVE G(k) = F(k)
    <3>1. CASE k = m
      <4>1. k # 0 /\ k - 1 = m - 1 /\ m - 1 \in 0..m /\ m - 1 # m
        BY <1>3, <1>7, <3>1
      <4>2. f[m - 1] = g[m - 1]
        BY <4>1
      <4>3. F(k) = Deeper(h, g[m - 1])
        BY <4>1, <4>2
      <4>4. QED
        BY <3>1, <4>3
    <3>2. CASE k = 0
      <4>1. 0 \in 0 .. m - 1 /\ k # m
        BY <1>3, <1>7, <3>2
      <4>2. g[0] = top
        BY <2>3, <4>1
      <4>3. QED
        BY <3>2, <4>1, <4>2
    <3>3. CASE k # 0 /\ k # m
      <4>1. k \in 0 .. m - 1 /\ k - 1 \in 0..m /\ k - 1 # m
        BY <1>3, <3>3
      <4>2. f[k - 1] = g[k - 1]
        BY <4>1
      <4>3. g[k] = Deeper(h, g[k - 1])
        BY <2>3, <3>3, <4>1
      <4>4. QED
        BY <3>3, <4>2, <4>3
    <3>4. QED
      BY <3>1, <3>2, <3>3
  <2>5. f = [k \in 0..m |-> G(k)]
    OBVIOUS
  <2> HIDE DEF F, G
  <2>6. f = [k \in 0..m |-> F(k)]
    BY <2>4, <2>5, Zenon
  <2>7. LevelsTo(h, r, m, f)
    BY <1>4, <2>6, Zenon DEF F
  <2>8. QED
    BY <1>3, <1>5, <2>7
<1>8. QED
  BY <1>6, <1>7

\* Each level holds what the directories of the one above it hold.
LEMMA LevelsAre ==
  ASSUME NEW h, NEW r
  PROVE  /\ Levels(h, r)[0] = {Node(<<>>, TRUE, r)}
         /\ \A k \in 1..MaxDepth : Levels(h, r)[k] = Deeper(h, Levels(h, r)[k - 1])
<1> DEFINE f == Levels(h, r)
           P(g) == g = [k \in 0..MaxDepth |->
                          IF k = 0 THEN {Node(<<>>, TRUE, r)} ELSE Deeper(h, g[k - 1])]
<1>1. MaxDepth \in Nat
  BY ListAssumption
<1>2. \E g : P(g)
  <2>1. PICK g : LevelsTo(h, r, MaxDepth, g)
    BY <1>1, LevelsThere
  <2>2. P(g)
    BY <2>1 DEF LevelsTo
  <2>3. QED
    BY <2>2
<1>3. f = CHOOSE g : P(g)
  BY Zenon DEF Levels
<1>4. P(f)
  BY <1>2, <1>3, Zenon
<1>5. f = [k \in 0..MaxDepth |->
             IF k = 0 THEN {Node(<<>>, TRUE, r)} ELSE Deeper(h, f[k - 1])]
  BY <1>4
<1> HIDE DEF f, P
<1>6. f[0] = {Node(<<>>, TRUE, r)}
  <2>1. 0 \in 0..MaxDepth
    BY <1>1
  <2>2. QED
    BY <1>5, <2>1, Zenon
<1>7. ASSUME NEW k \in 1..MaxDepth PROVE f[k] = Deeper(h, f[k - 1])
  <2>1. k \in 0..MaxDepth /\ k # 0
    BY <1>1
  <2>2. QED
    BY <1>5, <2>1, Zenon
<1>8. QED
  BY <1>6, <1>7 DEF f

\* The level above a node has its directory.
LEMMA ParentIs ==
  ASSUME NEW h, NEW r, NEW k \in 1..MaxDepth, NEW c \in Levels(h, r)[k]
  PROVE  \E x \in Levels(h, r)[k - 1] : \E e \in Held(h, x.at) :
            x.isdir /\ c = Node(Append(x.path, e.name), e.isdir, e.at)
<1>1. PICK S : S = Levels(h, r)[k - 1]
  OBVIOUS
<1>2. c \in Deeper(h, S)
  BY ZenonT(30), <1>1, LevelsAre
<1>3. PICK x \in S : x.isdir /\ c \in Below(h, x)
  BY <1>2 DEF Deeper
<1>4. PICK e \in Held(h, x.at) : c = Node(Append(x.path, e.name), e.isdir, e.at)
  BY <1>3 DEF Below
<1>5. QED
  BY <1>1, <1>3, <1>4, Zenon

\* And the level below a directory what it holds.
LEMMA ChildIs ==
  ASSUME NEW h, NEW r, NEW k \in 1..MaxDepth,
         NEW p \in Levels(h, r)[k - 1], p.isdir, NEW e \in Held(h, p.at)
  PROVE  Node(Append(p.path, e.name), e.isdir, e.at) \in Levels(h, r)[k]
<1>1. Node(Append(p.path, e.name), e.isdir, e.at) \in Below(h, p)
  BY DEF Below
<1>2. PICK S : S = Levels(h, r)[k - 1]
  OBVIOUS
<1>3. Node(Append(p.path, e.name), e.isdir, e.at) \in Deeper(h, S)
  BY <1>1, <1>2 DEF Deeper
<1>4. Levels(h, r)[k] = Deeper(h, S)
  BY ZenonT(30), <1>2, LevelsAre
<1>5. QED
  BY <1>3, <1>4, Zenon

\* Names and kinds of what a disc's directories hold.
Named(h) == \A at : \A e \in Held(h, at) : e.name \in Names /\ e.isdir \in BOOLEAN

\* A node's path is as long as it lies deep.
LEMMA NodesAre ==
  ASSUME NEW h, NEW r, Named(h), NEW k \in 0..MaxDepth
  PROVE  \A x \in Levels(h, r)[k] :
           /\ x = Node(x.path, x.isdir, x.at)
           /\ x.path \in Seq(Names) /\ Len(x.path) = k /\ x.isdir \in BOOLEAN
<1> DEFINE Good(j) == \A x \in Levels(h, r)[j] :
              /\ x = Node(x.path, x.isdir, x.at)
              /\ x.path \in Seq(Names) /\ Len(x.path) = j /\ x.isdir \in BOOLEAN
           M == {m \in 0..MaxDepth : ~Good(m)}
<1>1. SUFFICES ASSUME M # {} PROVE FALSE
  OBVIOUS
<1>2. PICK m \in M : \A j \in M : m <= j
  <2>1. M \subseteq Nat
    BY ListAssumption
  <2>2. QED
    BY <1>1, <2>1, LeastIs
<1>3. m \in 0..MaxDepth /\ MaxDepth \in Nat /\ ~Good(m)
  BY ListAssumption
<1>4. m # 0
  <2>1. SUFFICES ASSUME m = 0 PROVE Good(0)
    BY <1>3
  <2>2. Levels(h, r)[0] = {Node(<<>>, TRUE, r)}
    BY LevelsAre
  <2>3. PICK none \in Seq(Names) : none = <<>> /\ Len(none) = 0
    <3>1. <<>> \in Seq(Names) /\ Len(<<>>) = 0
      OBVIOUS
    <3>2. QED
      BY <3>1, Zenon
  <2>4. \A x \in Levels(h, r)[0] : x = Node(none, TRUE, r)
    BY <2>2, <2>3, Zenon
  <2>5. QED
    <3>1. ASSUME NEW x \in Levels(h, r)[0]
          PROVE  x.path = none /\ x.isdir = TRUE /\ x = Node(x.path, x.isdir, x.at)
      <4>1. x = Node(none, TRUE, r)
        BY <2>4
      <4>2. QED
        BY <4>1 DEF Node
    <3>2. QED
      BY <2>3, <3>1
<1>5. m - 1 \in 0..MaxDepth /\ m \in 1..MaxDepth /\ Good(m - 1)
  <2>1. m - 1 \in 0..MaxDepth /\ m \in 1..MaxDepth /\ m - 1 \notin M
    BY <1>2, <1>3, <1>4
  <2>2. QED
    BY <2>1
<1>6. ASSUME NEW y \in Levels(h, r)[m]
      PROVE  /\ y = Node(y.path, y.isdir, y.at)
             /\ y.path \in Seq(Names) /\ Len(y.path) = m /\ y.isdir \in BOOLEAN
  <2>1. PICK x \in Levels(h, r)[m - 1] : \E e \in Held(h, x.at) :
            x.isdir /\ y = Node(Append(x.path, e.name), e.isdir, e.at)
    BY <1>5, ParentIs
  <2>2. PICK e \in Held(h, x.at) : y = Node(Append(x.path, e.name), e.isdir, e.at)
    BY <2>1
  <2>3. x.path \in Seq(Names) /\ Len(x.path) = m - 1 /\ e.name \in Names /\ e.isdir \in BOOLEAN
    BY <1>5 DEF Named
  <2>4. Append(x.path, e.name) \in Seq(Names) /\ Len(Append(x.path, e.name)) = (m - 1) + 1
    BY <2>3, Appends
  <2>5. (m - 1) + 1 = m
    BY <1>3
  <2>6. QED
    <3>1. /\ y.path = Append(x.path, e.name) /\ y.isdir = e.isdir
          /\ y = Node(y.path, y.isdir, y.at)
      BY <2>2 DEF Node
    <3>2. Len(y.path) = m
      BY <2>4, <2>5, <3>1
    <3>3. QED
      BY <2>3, <2>4, <3>1, <3>2
<1>7. QED
  BY <1>3, <1>6

\* A path with one name more.
Joined(p, n) == Append(p, n)

\* It is made of one path and one name.
LEMMA JoinedDiffer ==
  ASSUME NEW p \in Seq(Names), NEW q \in Seq(Names), NEW m \in Names, NEW n \in Names,
         Joined(p, m) = Joined(q, n)
  PROVE  p = q /\ m = n
<1>1. Append(p, m) = Append(q, n)
  BY DEF Joined
<1>2. Len(p) = Len(q)
  BY <1>1, Appends
<1>3. m = n
  BY <1>1, <1>2, Appends
<1>4. \A i \in 1..Len(p) : p[i] = q[i]
  BY <1>1, <1>2, Appends
<1>5. p = q
  BY <1>2, <1>4
<1>6. QED
  BY <1>3, <1>5

\* Where no directory holds a name twice, no two nodes have the same path.
LEMMA PathsDiffer ==
  ASSUME NEW h, NEW r, Named(h),
         \A k \in 0..MaxDepth : \A x \in Levels(h, r)[k] : x.isdir =>
           \A e, f \in Held(h, x.at) : e.name = f.name => e = f,
         NEW k \in 0..MaxDepth
  PROVE  \A x, y \in Levels(h, r)[k] : x.path = y.path => x = y
<1> DEFINE Good(j) == \A x, y \in Levels(h, r)[j] : x.path = y.path => x = y
           M == {m \in 0..MaxDepth : ~Good(m)}
<1>1. SUFFICES ASSUME M # {} PROVE FALSE
  OBVIOUS
<1>2. PICK m \in M : \A j \in M : m <= j
  <2>1. M \subseteq Nat
    BY ListAssumption
  <2>2. QED
    BY <1>1, <2>1, LeastIs
<1>3. m \in 0..MaxDepth /\ MaxDepth \in Nat /\ ~Good(m)
  BY ListAssumption
<1>4. m # 0
  <2>1. SUFFICES ASSUME m = 0 PROVE Good(0)
    BY <1>3
  <2>2. Levels(h, r)[0] = {Node(<<>>, TRUE, r)}
    BY LevelsAre, Zenon
  <2>3. QED
    BY <2>2
<1>5. m - 1 \in 0..MaxDepth /\ m \in 1..MaxDepth /\ Good(m - 1)
  <2>1. m - 1 \in 0..MaxDepth /\ m \in 1..MaxDepth /\ m - 1 \notin M
    BY <1>2, <1>3, <1>4
  <2>2. QED
    BY <2>1
<1>6. ASSUME NEW y \in Levels(h, r)[m], NEW z \in Levels(h, r)[m], y.path = z.path PROVE y = z
  <2>1. PICK x \in Levels(h, r)[m - 1] : \E e \in Held(h, x.at) :
            x.isdir /\ y = Node(Append(x.path, e.name), e.isdir, e.at)
    BY <1>5, ParentIs
  <2>2. PICK e \in Held(h, x.at) : y = Node(Append(x.path, e.name), e.isdir, e.at)
    BY <2>1
  <2>3. PICK w \in Levels(h, r)[m - 1] : \E f \in Held(h, w.at) :
            w.isdir /\ z = Node(Append(w.path, f.name), f.isdir, f.at)
    BY <1>5, ParentIs
  <2>4. PICK f \in Held(h, w.at) : z = Node(Append(w.path, f.name), f.isdir, f.at)
    BY <2>3
  <2>5. x.path \in Seq(Names) /\ w.path \in Seq(Names) /\ e.name \in Names /\ f.name \in Names
    BY <1>5, NodesAre DEF Named
  <2>6. Joined(x.path, e.name) = Joined(w.path, f.name)
    <3>1. y.path = Joined(x.path, e.name)
      BY <2>2 DEF Node, Joined
    <3>2. z.path = Joined(w.path, f.name)
      BY <2>4 DEF Node, Joined
    <3>3. QED
      BY <1>6, <3>1, <3>2
  <2>7. x.path = w.path /\ e.name = f.name
    BY <2>5, <2>6, JoinedDiffer
  <2>8. x = w
    BY <1>5, <2>7
  <2>9. e = f
    BY <1>5, <2>1, <2>7, <2>8
  <2>10. QED
    BY <2>2, <2>4, <2>8, <2>9
<1>7. QED
  BY <1>3, <1>6

-----------------------------------------------------------------------------
(* The directories of a disc *)

(* What the records of a disc's directories say, those that do not stand   *)
(* for a directory itself or for nothing, and what the parsers read of a   *)
(* directory at a place.                                                   *)
IsIso(d) == System[d] = "iso"
Counts(d, r) == IF IsIso(d) THEN ~Own(r) ELSE r.nlen > 0
Said(d, r) ==
  IF IsIso(d) THEN [name |-> TrueName(d, r), isdir |-> r.dir, at |-> r.lba]
  ELSE [name |-> r.name, isdir |-> Udf[d].fe[r.icb].type = "dir", at |-> r.icb]
Counted(d, of) == {i \in 1..Len(of) : Counts(d, of[i])}
ReadAt(d, at) ==
  IF IsIso(d) THEN Sectors(d, at)[1] ELSE Fids(Udf[d], Udf[d].fe[at].extents[1].at)

HeldOn(d) == IF IsIso(d) THEN HeldIso(d) ELSE HeldUdf(d)
RootOf(d) == IF IsIso(d) THEN RootSector(Iso[d]) ELSE Udf[d].root
Depth(d, k) == Levels(HeldOn(d), RootOf(d))[k]

(* What a parser takes for granted of a directory: what its records say is *)
(* what it holds, if all of them are read, and no name occurs twice.       *)
Tidy(d, of, held, whole) ==
  /\ of \in Seq(RecordsOf(d))
  /\ \A e, f \in held : e.name = f.name => e = f
  /\ \A i \in Counted(d, of) : Said(d, of[i]) \in held
  /\ \A i, j \in Counted(d, of) : Said(d, of[i]).name = Said(d, of[j]).name => i = j
  /\ whole => \A e \in held : \E i \in Counted(d, of) : e = Said(d, of[i])
TidyDisc(d, whole) ==
  /\ Named(HeldOn(d))
  /\ \A k \in 0..MaxDepth : \A x \in Depth(d, k) :
       x.isdir => Tidy(d, ReadAt(d, x.at), Held(HeldOn(d), x.at), whole)

\* A record's name is one, wherever it stands.
LEMMA TrueNameIs ==
  ASSUME NEW d, NEW r \in Record
  PROVE  TrueName(d, r) \in Names
<1>1. r.name \in Names /\ r.rr \in Seq(Field)
  <2>1. r.name \in DOMAIN Chars /\ r.rr \in Seq(Field)
    BY DEF Record
  <2>2. QED
    BY <2>1, NamedAssumption, Zenon
<1>2. CASE NamesIn(r) = {} \/ ~Rocky(d, r)
  BY <1>1, <1>2 DEF TrueName
<1>3. CASE NamesIn(r) # {} /\ Rocky(d, r)
  <2>1. (CHOOSE k \in NamesIn(r) : TRUE) \in NamesIn(r)
    BY <1>3
  <2>2. PICK k \in NamesIn(r) : TrueName(d, r) = r.rr[k].name
    BY <1>3, <2>1, Zenon DEF TrueName
  <2>3. r.rr[k] \in Field
    BY <1>1 DEF NamesIn
  <2>4. QED
    BY <2>2, <2>3 DEF Field
<1>4. QED
  BY <1>2, <1>3

\* The records of an ISO disc's directory.
LEMMA IsoRecords ==
  ASSUME NEW d \in Discs, IsIso(d), NEW at \in DOMAIN Iso[d].sectors
  PROVE  /\ Sectors(d, at) \in Seq(Seq(Record)) /\ Len(Sectors(d, at)) >= 1
         /\ \A x \in Records(d, at) : RecordAt(d, at, x) \in Record
         /\ \A i \in 1..Len(Sectors(d, at)[1]) :
              <<1, i>> \in Records(d, at) /\ RecordAt(d, at, <<1, i>>) = Sectors(d, at)[1][i]
         /\ Len(Sectors(d, at)) = 1 =>
              \A x \in Records(d, at) : \E i \in 1..Len(Sectors(d, at)[1]) : x = <<1, i>>
<1>1. PICK s : s = Sectors(d, at)
  OBVIOUS
<1>2. s \in Seq(Seq(Record)) /\ s # <<>>
  <2>1. d \in DOMAIN Iso /\ Volume(Iso[d])
    BY IsoAssumption DEF IsIso
  <2>2. QED
    BY <1>1, <2>1 DEF Volume, Sectors
<1>3. Len(s) >= 1
  BY <1>2
<1>4. \A x : x \in Records(d, at) <=> \E n \in DOMAIN s : \E i \in DOMAIN s[n] : x = <<n, i>>
  BY <1>1 DEF Records
<1>5. \A n \in DOMAIN s : s[n] \in Seq(Record) /\ DOMAIN s[n] = 1..Len(s[n])
  BY <1>2
<1>6. \A x \in Records(d, at) : RecordAt(d, at, x) \in Record
  <2>1. SUFFICES ASSUME NEW n \in DOMAIN s, NEW i \in DOMAIN s[n]
                 PROVE  RecordAt(d, at, <<n, i>>) \in Record
    BY <1>4
  <2>2. RecordAt(d, at, <<n, i>>) = s[n][i]
    BY <1>1 DEF RecordAt
  <2>3. QED
    BY <1>5, <2>2
<1>7. ASSUME NEW i \in 1..Len(s[1])
      PROVE  <<1, i>> \in Records(d, at) /\ RecordAt(d, at, <<1, i>>) = s[1][i]
  <2>1. 1 \in DOMAIN s
    BY <1>2, <1>3
  <2>2. i \in DOMAIN s[1]
    BY <1>5, <2>1
  <2>3. <<1, i>> \in Records(d, at)
    BY <1>4, <2>1, <2>2
  <2>4. RecordAt(d, at, <<1, i>>) = s[1][i]
    BY <1>1 DEF RecordAt
  <2>5. QED
    BY <2>3, <2>4
<1>8. ASSUME Len(s) = 1, NEW x \in Records(d, at) PROVE \E i \in 1..Len(s[1]) : x = <<1, i>>
  <2>1. PICK n \in DOMAIN s : \E i \in DOMAIN s[n] : x = <<n, i>>
    BY <1>4
  <2>2. n = 1
    BY <1>2, <1>8
  <2>3. QED
    BY <1>5, <2>1, <2>2
<1>9. QED
  BY <1>1, <1>2, <1>3, <1>6, <1>7, <1>8

\* What it holds.
LEMMA IsoHolds ==
  ASSUME NEW d \in Discs, IsIso(d), NEW at \in DOMAIN Iso[d].sectors
  PROVE  \A e : e \in Held(HeldOn(d), at) <=>
           \E x \in Records(d, at) : ~Own(RecordAt(d, at, x)) /\ e = Said(d, RecordAt(d, at, x))
<1> DEFINE said(r) == [name |-> TrueName(d, r), isdir |-> r.dir, at |-> r.lba]
           R == {RecordAt(d, at, x) : x \in {y \in Records(d, at) : ~Own(RecordAt(d, at, y))}}
<1>1. Held(HeldOn(d), at) = {said(r) : r \in R}
  BY DEF HeldOn, Held, HeldIso
<1>2. \A r : Said(d, r) = said(r)
  BY DEF Said
<1> HIDE DEF said
<1>3. QED
  BY <1>1, <1>2

\* On a proper ISO volume names differ, and what is read is what is held.
LEMMA IsoTidy ==
  ASSUME NEW d \in Discs, IsIso(d), IsoProper(d), NEW whole \in BOOLEAN, whole => IsoShort(d)
  PROVE  TidyDisc(d, whole)
<1> DEFINE of(at) == Sectors(d, at)[1]
           held(at) == Held(HeldOn(d), at)
<1>1. \A at : at \notin DOMAIN Iso[d].sectors => of(at) = <<>> /\ held(at) = {}
  BY DEF Sectors, HeldOn, HeldIso, Held
<1>2. RecordsOf(d) = Record
  BY DEF RecordsOf, IsIso
<1>3. Named(HeldOn(d))
  <2>1. SUFFICES ASSUME NEW at, NEW e \in held(at) PROVE e.name \in Names /\ e.isdir \in BOOLEAN
    BY DEF Named
  <2>2. at \in DOMAIN Iso[d].sectors
    BY <1>1
  <2>3. PICK x \in Records(d, at) : e = Said(d, RecordAt(d, at, x))
    BY <2>2, IsoHolds
  <2>4. RecordAt(d, at, x) \in Record
    BY <2>2, IsoRecords
  <2>5. TrueName(d, RecordAt(d, at, x)) \in Names /\ RecordAt(d, at, x).dir \in BOOLEAN
    BY <2>4, TrueNameIs DEF Record
  <2>6. QED
    BY <2>3, <2>5 DEF Said
<1>4. ASSUME NEW at PROVE Tidy(d, of(at), held(at), whole)
  <2>1. CASE at \notin DOMAIN Iso[d].sectors
    <3>1. of(at) = <<>> /\ held(at) = {} /\ Len(<<>>) = 0 /\ <<>> \in Seq(RecordsOf(d))
      BY <1>1, <2>1
    <3>2. Counted(d, of(at)) = {}
      BY <3>1 DEF Counted
    <3> HIDE DEF of, held
    <3>3. QED
      BY <3>1, <3>2 DEF Tidy
  <2>2. CASE at \in DOMAIN Iso[d].sectors
    <3> DEFINE r(x) == RecordAt(d, at, x)
               X == {x \in Records(d, at) : ~Own(r(x))}
    <3>1. \A x, y \in X : TrueName(d, r(x)) = TrueName(d, r(y)) => x = y
      BY <2>2 DEF IsoProper
    <3>2. \A e : e \in held(at) <=> \E x \in X : e = Said(d, r(x))
      BY <2>2, IsoHolds
    <3>3. \A x : Said(d, r(x)).name = TrueName(d, r(x))
      BY DEF Said
    <3>4. of(at) \in Seq(Record)
      BY <2>2, IsoRecords
    <3>5. \A i \in Counted(d, of(at)) : <<1, i>> \in X /\ r(<<1, i>>) = of(at)[i]
      BY <2>2, IsoRecords DEF Counted, Counts
    <3>6. whole => \A x \in X : \E i \in Counted(d, of(at)) : x = <<1, i>>
      <4>1. SUFFICES ASSUME whole, NEW x \in X PROVE \E i \in Counted(d, of(at)) : x = <<1, i>>
        OBVIOUS
      <4>2. PICK i \in 1..Len(of(at)) : x = <<1, i>>
        BY <2>2, <4>1, IsoRecords DEF IsoShort
      <4>3. r(x) = of(at)[i]
        BY <2>2, <4>2, IsoRecords
      <4>4. i \in Counted(d, of(at))
        BY <4>3 DEF Counted, Counts
      <4>5. QED
        BY <4>2, <4>4
    <3> HIDE DEF X, r, of, held
    <3>7. \A e, f \in held(at) : e.name = f.name => e = f
      BY <3>1, <3>2, <3>3
    <3>8. \A i \in Counted(d, of(at)) : Said(d, of(at)[i]) \in held(at)
      BY <3>2, <3>5
    <3>9. \A i, j \in Counted(d, of(at)) :
            Said(d, of(at)[i]).name = Said(d, of(at)[j]).name => i = j
      <4>1. SUFFICES ASSUME NEW i \in Counted(d, of(at)), NEW j \in Counted(d, of(at)),
                            Said(d, of(at)[i]).name = Said(d, of(at)[j]).name
                     PROVE  i = j
        OBVIOUS
      <4>2. PICK x \in X : x = <<1, i>> /\ r(x) = of(at)[i]
        BY <3>5, Zenon
      <4>3. PICK y \in X : y = <<1, j>> /\ r(y) = of(at)[j]
        BY <3>5, Zenon
      <4>4. x = y
        BY <3>1, <3>3, <4>1, <4>2, <4>3
      <4>5. QED
        BY <4>2, <4>3, <4>4
    <3>10. whole => \A e \in held(at) : \E i \in Counted(d, of(at)) : e = Said(d, of(at)[i])
      BY <3>2, <3>5, <3>6
    <3>11. QED
      BY <1>2, <3>4, <3>7, <3>8, <3>9, <3>10 DEF Tidy
  <2>3. QED
    BY <2>1, <2>2
<1>5. \A at : ReadAt(d, at) = of(at)
  BY DEF ReadAt
<1>6. QED
  BY <1>3, <1>4, <1>5 DEF TidyDisc

\* The records of a UDF disc's directory.
LEMMA UdfRecords ==
  ASSUME NEW d \in Discs, System[d] = "udf", NEW at
  PROVE  Fids(Udf[d], at) \in Seq(FidsOf(Udf[d]))
<1>1. d \in DOMAIN Udf
  BY UdfAssumption
<1>2. <<>> \in Seq(FidsOf(Udf[d]))
  OBVIOUS
<1>3. QED
  BY <1>1, <1>2, UdfAssumption, Zenon DEF Fids

\* What it holds.
LEMMA UdfPlace ==
  ASSUME NEW d \in Discs, System[d] = "udf", NEW l \in DOMAIN Udf[d].fe
  PROVE  \A e : e \in Held(HeldOn(d), l) <=>
           \E y \in Extents(d, l) : \E i \in Counted(d, Fids(Udf[d], y.at)) :
             e = Said(d, Fids(Udf[d], y.at)[i])
<1> DEFINE said(f) == [name |-> f.name, isdir |-> Udf[d].fe[f.icb].type = "dir", at |-> f.icb]
           S(g) == {said(g[i]) : i \in FilesIn(g)}
<1>1. Held(HeldOn(d), l) = UNION {S(Fids(Udf[d], y.at)) : y \in Extents(d, l)}
  BY DEF HeldOn, IsIso, Held, HeldUdf
<1>2. \A f : Said(d, f) = said(f)
  BY DEF Said, IsIso
<1> HIDE DEF said
<1>3. ASSUME NEW y
      PROVE  \A e : e \in S(Fids(Udf[d], y.at)) <=>
                \E i \in Counted(d, Fids(Udf[d], y.at)) : e = Said(d, Fids(Udf[d], y.at)[i])
  <2>1. PICK g : g = Fids(Udf[d], y.at) /\ g \in Seq(FidsOf(Udf[d]))
    BY UdfRecords
  <2>2. Counted(d, g) = FilesIn(g)
    BY <2>1 DEF Counted, Counts, IsIso, FilesIn
  <2>3. ASSUME NEW e PROVE e \in S(g) <=> \E i \in Counted(d, g) : e = said(g[i])
    BY <2>2
  <2> HIDE DEF S
  <2>4. QED
    BY <1>2, <2>1, <2>3
<1> HIDE DEF S
<1>4. QED
  BY <1>1, <1>3

\* What is below a volume's root has a file entry, of its kind.
LEMMA UdfHolds ==
  ASSUME NEW d \in Discs, System[d] = "udf", NEW at, NEW e \in Held(HeldOn(d), at)
  PROVE  /\ e.name \in Names /\ e.at \in DOMAIN Udf[d].fe
         /\ e.isdir = (Udf[d].fe[e.at].type = "dir")
<1>1. at \in DOMAIN Udf[d].fe
  BY DEF HeldOn, IsIso, Held, HeldUdf
<1>2. PICK y \in Extents(d, at) : \E i \in Counted(d, Fids(Udf[d], y.at)) :
        e = Said(d, Fids(Udf[d], y.at)[i])
  BY <1>1, UdfPlace
<1>3. PICK of \in Seq(FidsOf(Udf[d])) : \E i \in Counted(d, of) : e = Said(d, of[i])
  BY <1>2, UdfRecords
<1>4. PICK f \in FidsOf(Udf[d]) : e = Said(d, f)
  BY <1>3 DEF Counted
<1>5. f \in FID /\ f.icb \in DOMAIN Udf[d].fe
  BY DEF FidsOf
<1>6. QED
  BY <1>4, <1>5 DEF FID, Said, IsIso

\* So it has a name that is one.
LEMMA UdfNames ==
  ASSUME NEW d \in Discs, System[d] = "udf"
  PROVE  Named(HeldOn(d))
<1>1. ASSUME NEW at, NEW e \in Held(HeldOn(d), at) PROVE e.name \in Names /\ e.isdir \in BOOLEAN
  BY UdfHolds
<1>2. QED
  BY <1>1 DEF Named

\* A directory below the root is one by its file entry.
LEMMA UdfDirs ==
  ASSUME NEW d \in Discs, System[d] = "udf", UdfProper(d),
         NEW k \in 0..MaxDepth, NEW x \in Depth(d, k), x.isdir
  PROVE  x.at \in Directories(d)
<1>1. MaxDepth \in Nat /\ d \in DOMAIN Udf /\ Udf[d].root \in DOMAIN Udf[d].fe
  BY ListAssumption, UdfAssumption
<1>2. CASE k = 0
  <2>1. x = Node(<<>>, TRUE, RootOf(d))
    BY <1>2, LevelsAre DEF Depth
  <2>2. x.at = Udf[d].root
    BY <2>1 DEF Node, RootOf, IsIso
  <2>3. QED
    BY <1>1, <2>2 DEF UdfProper, Directories
<1>3. CASE k # 0
  <2>1. k \in 1..MaxDepth
    BY <1>1, <1>3
  <2>2. PICK y \in Depth(d, k - 1) : \E e \in Held(HeldOn(d), y.at) :
            x = Node(Append(y.path, e.name), e.isdir, e.at)
    BY <2>1, ParentIs DEF Depth
  <2>3. PICK e \in Held(HeldOn(d), y.at) : x = Node(Append(y.path, e.name), e.isdir, e.at)
    BY <2>2
  <2>4. x.isdir = e.isdir /\ x.at = e.at
    BY <2>3 DEF Node
  <2>5. e.at \in DOMAIN Udf[d].fe /\ e.isdir = (Udf[d].fe[e.at].type = "dir")
    BY UdfHolds
  <2>6. QED
    BY <2>4, <2>5 DEF Directories
<1>4. QED
  BY <1>2, <1>3

\* A directory of one extent.
LEMMA UdfHeld ==
  ASSUME NEW d \in Discs, System[d] = "udf", OneExtent(d), NEW l \in Directories(d)
  PROVE  /\ d \in DOMAIN Udf /\ l \in DOMAIN Udf[d].fe /\ Udf[d].fe[l] \in FileEntry
         /\ Udf[d].fe[l].extents[1] \in Extents(d, l) /\ Len(Udf[d].fe[l].extents) = 1
         /\ ReadAt(d, l) = Fids(Udf[d], Udf[d].fe[l].extents[1].at)
         /\ ReadAt(d, l) \in Seq(FidsOf(Udf[d]))
         /\ \A e : e \in Held(HeldOn(d), l) <=>
              \E i \in Counted(d, ReadAt(d, l)) : e = Said(d, ReadAt(d, l)[i])
<1>1. /\ d \in DOMAIN Udf /\ l \in DOMAIN Udf[d].fe /\ Udf[d].fe[l] \in FileEntry
      /\ Len(Udf[d].fe[l].extents) = 1
  BY UdfAssumption DEF Directories, OneExtent
<1>2. PICK s : s = Udf[d].fe[l].extents
  OBVIOUS
<1>3. s \in Seq(Extent) /\ Len(s) = 1
  BY <1>1, <1>2 DEF FileEntry
<1>4. DOMAIN s = {1}
  BY <1>3
<1>5. Extents(d, l) = {s[1]}
  BY <1>2, <1>4 DEF Extents
<1>6. PICK of : of = Fids(Udf[d], s[1].at)
  OBVIOUS
<1>7. ReadAt(d, l) = of
  BY <1>2, <1>6 DEF ReadAt, IsIso
<1>8. of \in Seq(FidsOf(Udf[d]))
  BY <1>6, UdfRecords
<1>9. ASSUME NEW e
      PROVE  e \in Held(HeldOn(d), l) <=> \E i \in Counted(d, of) : e = Said(d, of[i])
  BY <1>1, <1>5, <1>6, UdfPlace
<1>10. QED
  BY <1>1, <1>2, <1>3, <1>5, <1>6, <1>7, <1>8, <1>9

\* What is no name.
Nameless(n) == n = ""

\* No name occurs in it twice.
LEMMA UdfDistinct ==
  ASSUME NEW d \in Discs, System[d] = "udf", UdfProper(d), NEW l \in Directories(d)
  PROVE  \A y \in Extents(d, l) :
           /\ FidBytes(Fids(Udf[d], y.at)) <= y.size
           /\ \A i, j \in Counted(d, Fids(Udf[d], y.at)) :
                /\ ~Nameless(Fids(Udf[d], y.at)[i].name)
                /\ Fids(Udf[d], y.at)[i].name = Fids(Udf[d], y.at)[j].name => i = j
<1> SUFFICES ASSUME NEW y \in Extents(d, l), NEW of, of = Fids(Udf[d], y.at)
             PROVE  FidBytes(of) <= y.size /\ \A i, j \in Counted(d, of) :
                      ~Nameless(of[i].name) /\ (of[i].name = of[j].name => i = j)
  OBVIOUS
<1>1. of \in Seq(FidsOf(Udf[d]))
  BY UdfRecords
<1>2. Counted(d, of) = FilesIn(of)
  BY <1>1 DEF Counted, Counts, IsIso, FilesIn
<1>3. FidBytes(of) <= y.size /\ \A i, j \in FilesIn(of) :
        of[i].name # "" /\ (of[i].name = of[j].name => i = j)
  BY ZenonT(30) DEF UdfProper
<1>4. ASSUME NEW i \in Counted(d, of), NEW j \in Counted(d, of)
      PROVE  ~Nameless(of[i].name) /\ (of[i].name = of[j].name => i = j)
  <2>1. of[i].name # "" /\ (of[i].name = of[j].name => i = j)
    BY <1>2, <1>3
  <2>2. QED
    BY <2>1, Zenon DEF Nameless
<1>5. QED
  BY <1>3, <1>4, Zenon

\* On a proper UDF volume names differ, and what is read is what is held.
LEMMA UdfTidy ==
  ASSUME NEW d \in Discs, System[d] = "udf", OneExtent(d), UdfProper(d)
  PROVE  TidyDisc(d, TRUE)
<1>1. ASSUME NEW k \in 0..MaxDepth, NEW x \in Depth(d, k), x.isdir
      PROVE  Tidy(d, ReadAt(d, x.at), Held(HeldOn(d), x.at), TRUE)
  <2>1. PICK of, held : of = ReadAt(d, x.at) /\ held = Held(HeldOn(d), x.at)
    OBVIOUS
  <2>2. x.at \in Directories(d)
    BY <1>1, UdfDirs
  <2>3. /\ of \in Seq(RecordsOf(d))
        /\ \A e : e \in held <=> \E i \in Counted(d, of) : e = Said(d, of[i])
    BY <2>1, <2>2, UdfHeld DEF RecordsOf
  <2>4. \A i, j \in Counted(d, of) : of[i].name = of[j].name => i = j
    <3>1. PICK y \in Extents(d, x.at) : of = Fids(Udf[d], y.at)
      BY <2>1, <2>2, UdfHeld
    <3>2. QED
      BY <2>2, <3>1, UdfDistinct
  <2>5. \A f : Said(d, f).name = f.name
    BY DEF Said, IsIso
  <2>6. Tidy(d, of, held, TRUE)
    BY <2>3, <2>4, <2>5 DEF Tidy
  <2>7. QED
    BY <2>1, <2>6
<1>2. QED
  BY <1>1, UdfNames DEF TidyDisc

-----------------------------------------------------------------------------
(* What calls have come to *)

(* The calls are of directories of the disc, each of one the call before   *)
(* it has come to; given says which entries are listed, or will be when a  *)
(* call returns.                                                           *)
CallIs(d, c, x) ==
  /\ x.path = c.path /\ x.isdir
  /\ c.of = ReadAt(d, x.at)
  /\ System[d] = "udf" => FidBytes(c.of) <= c.size
Passed(d, c) == {i \in Counted(d, c.of) : i < c.next}
PathOf(d, c, i) == Append(c.path, Said(d, c.of[i]).name)
ItemOf(d, c, i) == Entry(PathOf(d, c, i), Said(d, c.of[i]).isdir)
Late(c) == c.entry # <<>>

\* The entries listed on return, and with them all that are given.
Coming(s) == {Entry(s[n].path, TRUE) : n \in {m \in 1..Len(s) : Late(s[m])}}
Given(s, list) == {list[i] : i \in 1..Len(list)} \cup Coming(s)

\* Each call is of a directory whose record the call before it has passed.
Calling(d, s) ==
  \A n \in 1..Len(s) :
    /\ \E x \in Depth(d, n - 1) : CallIs(d, s[n], x)
    /\ Late(s[n]) => n > 1 /\ s[n].entry = <<Entry(s[n].path, TRUE)>>
    /\ n > 1 => \E i \in Passed(d, s[n - 1]) : s[n].path = PathOf(d, s[n - 1], i)

\* What is given is there.
Sound(d, A) == \A a \in A : \E k \in 1..MaxDepth : \E x \in Depth(d, k) : a = Entry(x.path, x.isdir)

\* What a call has passed is given, and of its directory nothing else.
Recorded(d, s, A) == \A n \in 1..Len(s) : \A i \in Passed(d, s[n]) : ItemOf(d, s[n], i) \in A
Leads(p, q) == Len(q) > Len(p) /\ \A j \in 1..Len(p) : q[j] = p[j]
Fresh(d, s, A) ==
  \A n \in 1..Len(s) : \A a \in A : Leads(s[n].path, a.path) =>
    \E i \in Passed(d, s[n]) : a.path[n] = Said(d, s[n].of[i]).name

\* Of a directory that is given, a call is under way or all it holds is given.
Covered(d, s, A, x) ==
  \/ \E n \in 1..Len(s) : s[n].path = x.path
  \/ \A e \in Held(HeldOn(d), x.at) : Entry(Append(x.path, e.name), e.isdir) \in A
Complete(d, s, A, but) ==
  \A k \in 0..MaxDepth : \A x \in Depth(d, k) :
    x.isdir /\ (k = 0 \/ Entry(x.path, TRUE) \in A) /\ x.path \notin but => Covered(d, s, A, x)

\* An entry to come is not listed yet.
Awaited(s, list) ==
  \A n \in 1..Len(s) : Late(s[n]) => \A i \in 1..Len(list) : list[i].path # s[n].path

\* What is listed, and what is under way, is right so far.
OnDisc(d, s, list, whole) ==
  /\ Calling(d, s)
  /\ Sound(d, Given(s, list)) /\ Recorded(d, s, Given(s, list)) /\ Fresh(d, s, Given(s, list))
  /\ Once(list) /\ Awaited(s, list)
  /\ whole => Complete(d, s, Given(s, list), {})

-----------------------------------------------------------------------------
(* The innermost call goes on *)

\* The calls t are the calls s, the innermost past the records I too.
Moved(d, s, t, I) ==
  /\ Len(t) = Len(s)
  /\ \A n \in 1..Len(s) :
       /\ t[n].path = s[n].path /\ t[n].of = s[n].of /\ t[n].size = s[n].size /\ t[n].entry = s[n].entry
       /\ Passed(d, t[n]) = Passed(d, s[n]) \cup (IF n = Len(s) THEN I ELSE {})

\* The entries to come are those of the calls that list on return.
LEMMA ComingIs ==
  ASSUME NEW s
  PROVE  \A a : a \in Coming(s) <=> \E n \in 1..Len(s) : Late(s[n]) /\ a = Entry(s[n].path, TRUE)
  BY DEF Coming

\* Going on gives nothing new.
LEMMA MovedGiven ==
  ASSUME NEW d, NEW s, NEW t, NEW I, NEW list, Moved(d, s, t, I)
  PROVE  Given(t, list) = Given(s, list)
<1>1. Len(t) = Len(s) /\ \A n \in 1..Len(s) : t[n].path = s[n].path /\ (Late(t[n]) <=> Late(s[n]))
  BY DEF Moved, Late
<1>2. ASSUME NEW a PROVE a \in Coming(t) <=> a \in Coming(s)
  BY <1>1 DEF Coming
<1>3. Coming(t) = Coming(s)
  BY <1>2
<1>4. QED
  BY <1>3 DEF Given

\* Whatever has been passed, the calls are those of the same directories.
LEMMA MovedCalling ==
  ASSUME NEW d, NEW s, NEW t, NEW I, Len(s) \in Nat, Moved(d, s, t, I), Calling(d, s)
  PROVE  Calling(d, t)
<1>1. SUFFICES ASSUME NEW n \in 1..Len(s)
               PROVE  /\ \E x \in Depth(d, n - 1) : CallIs(d, t[n], x)
                      /\ Late(t[n]) => n > 1 /\ t[n].entry = <<Entry(t[n].path, TRUE)>>
                      /\ n > 1 => \E i \in Passed(d, t[n - 1]) : t[n].path = PathOf(d, t[n - 1], i)
  BY DEF Moved, Calling
<1>2. /\ t[n].path = s[n].path /\ t[n].of = s[n].of /\ t[n].size = s[n].size
      /\ t[n].entry = s[n].entry
  BY DEF Moved
<1>3. \E x \in Depth(d, n - 1) : CallIs(d, t[n], x)
  <2>1. PICK x \in Depth(d, n - 1) : CallIs(d, s[n], x)
    BY DEF Calling
  <2>2. CallIs(d, t[n], x)
    BY <1>2, <2>1 DEF CallIs
  <2>3. QED
    BY <2>2
<1>4. Late(t[n]) => n > 1 /\ t[n].entry = <<Entry(t[n].path, TRUE)>>
  BY <1>2 DEF Calling, Late
<1>5. ASSUME n > 1 PROVE \E i \in Passed(d, t[n - 1]) : t[n].path = PathOf(d, t[n - 1], i)
  <2>1. n - 1 \in 1..Len(s)
    BY <1>5
  <2>2. PICK i \in Passed(d, s[n - 1]) : s[n].path = PathOf(d, s[n - 1], i)
    BY <1>5 DEF Calling
  <2>3. i \in Passed(d, t[n - 1]) /\ t[n - 1].path = s[n - 1].path /\ t[n - 1].of = s[n - 1].of
    BY <2>1 DEF Moved
  <2>4. QED
    BY <1>2, <2>2, <2>3 DEF PathOf
<1>6. QED
  BY <1>3, <1>4, <1>5

\* A record that does not count is passed.
LEMMA SkipKeeps ==
  ASSUME NEW d, NEW s, NEW t, NEW list, NEW whole \in BOOLEAN, Len(s) \in Nat,
         Moved(d, s, t, {}), OnDisc(d, s, list, whole)
  PROVE  OnDisc(d, t, list, whole)
<1> DEFINE A == Given(s, list)
<1>1. Given(t, list) = A /\ Calling(d, t)
  BY MovedGiven, MovedCalling DEF OnDisc
<1>2. /\ Len(t) = Len(s)
      /\ \A n \in 1..Len(s) : /\ t[n].path = s[n].path /\ t[n].of = s[n].of
                              /\ (Late(t[n]) <=> Late(s[n])) /\ Passed(d, t[n]) = Passed(d, s[n])
  BY DEF Moved, Late
<1> HIDE DEF A
<1>3. Recorded(d, t, A) /\ Fresh(d, t, A)
  <2>1. Recorded(d, s, A) /\ Fresh(d, s, A)
    BY DEF OnDisc, A
  <2>2. Recorded(d, t, A)
    BY <1>2, <2>1 DEF Recorded, ItemOf, PathOf
  <2>3. Fresh(d, t, A)
    BY <1>2, <2>1 DEF Fresh
  <2>4. QED
    BY <2>2, <2>3
<1>4. Awaited(t, list)
  BY <1>2 DEF OnDisc, Awaited
<1>5. whole => Complete(d, t, A, {})
  <2>1. \A x : Covered(d, s, A, x) => Covered(d, t, A, x)
    BY <1>2 DEF Covered
  <2>2. whole => Complete(d, s, A, {})
    BY DEF OnDisc, A
  <2>3. QED
    BY <2>1, <2>2 DEF Complete
<1>6. QED
  BY <1>1, <1>3, <1>4, <1>5 DEF OnDisc, A

\* Of a call, its directory.
LEMMA CallOf ==
  ASSUME NEW d, NEW whole, TidyDisc(d, whole), NEW s, Calls(d, s), Calling(d, s), NEW n \in 1..Len(s)
  PROVE  /\ n - 1 \in 0..MaxDepth /\ n \in 1..MaxDepth
         /\ s[n].path \in Seq(Names) /\ Len(s[n].path) = n - 1
         /\ \E x \in Depth(d, n - 1) :
              CallIs(d, s[n], x) /\ Tidy(d, s[n].of, Held(HeldOn(d), x.at), whole)
<1>1. MaxDepth \in Nat /\ s \in Seq(Frame(d)) /\ Len(s) <= MaxDepth /\ FrameAt(n, s[n])
  BY ListAssumption DEF Calls
<1>2. s[n] \in Frame(d)
  BY <1>1
<1>3. n - 1 \in 0..MaxDepth /\ n \in 1..MaxDepth
  BY <1>1
<1>4. s[n].path \in Seq(Names) /\ Len(s[n].path) = n - 1
  BY <1>1, <1>2 DEF Frame, FrameAt
<1>5. PICK x \in Depth(d, n - 1) : CallIs(d, s[n], x)
  BY DEF Calling
<1>6. Tidy(d, ReadAt(d, x.at), Held(HeldOn(d), x.at), whole)
  BY <1>3, <1>5 DEF TidyDisc, CallIs
<1>7. Tidy(d, s[n].of, Held(HeldOn(d), x.at), whole)
  BY <1>5, <1>6, Zenon DEF CallIs
<1>8. QED
  BY <1>3, <1>4, <1>5, <1>7

\* What a record says of an entry.
LEMMA ItemIs ==
  ASSUME NEW d, NEW whole, TidyDisc(d, whole), NEW s, Calls(d, s), Calling(d, s),
         NEW n \in 1..Len(s), NEW i \in Counted(d, s[n].of)
  PROVE  /\ Said(d, s[n].of[i]).name \in Names /\ Said(d, s[n].of[i]).isdir \in BOOLEAN
         /\ PathOf(d, s[n], i) \in Seq(Names) /\ Len(PathOf(d, s[n], i)) = n
         /\ \A j \in 1 .. n - 1 : PathOf(d, s[n], i)[j] = s[n].path[j]
         /\ PathOf(d, s[n], i)[n] = Said(d, s[n].of[i]).name
         /\ Node(PathOf(d, s[n], i), Said(d, s[n].of[i]).isdir, Said(d, s[n].of[i]).at) \in Depth(d, n)
<1>1. PICK x \in Depth(d, n - 1) :
        CallIs(d, s[n], x) /\ Tidy(d, s[n].of, Held(HeldOn(d), x.at), whole)
  BY CallOf
<1>2. n \in 1..MaxDepth /\ s[n].path \in Seq(Names) /\ Len(s[n].path) = n - 1
  BY CallOf
<1>3. PICK e : e = Said(d, s[n].of[i]) /\ e \in Held(HeldOn(d), x.at)
  BY <1>1 DEF Tidy
<1>4. e.name \in Names /\ e.isdir \in BOOLEAN
  BY <1>3 DEF TidyDisc, Named
<1>5. PICK p : p = Append(s[n].path, e.name)
  OBVIOUS
<1>6. /\ p \in Seq(Names) /\ Len(p) = n /\ p[n] = e.name
      /\ \A j \in 1 .. n - 1 : p[j] = s[n].path[j]
  BY <1>2, <1>4, <1>5, Appends
<1>7. PathOf(d, s[n], i) = p
  BY <1>3, <1>5 DEF PathOf
<1>8. Node(p, e.isdir, e.at) \in Depth(d, n)
  <2>1. Node(Append(x.path, e.name), e.isdir, e.at) \in Depth(d, n)
    BY <1>1, <1>2, <1>3, ChildIs DEF Depth, CallIs
  <2>2. x.path = s[n].path
    BY <1>1 DEF CallIs
  <2>3. QED
    BY <1>5, <2>1, <2>2
<1>9. QED
  BY <1>3, <1>4, <1>6, <1>7, <1>8

\* The entry a record gives, and what is below it, have not been given before.
LEMMA ItemIsNew ==
  ASSUME NEW d, NEW whole, TidyDisc(d, whole), NEW s, Calls(d, s), Calling(d, s),
         NEW n \in 1..Len(s), NEW A, Fresh(d, s, A), \A a \in A : a.path \in Seq(Names),
         NEW i \in Counted(d, s[n].of), i \notin Passed(d, s[n])
  PROVE  \A a \in A : a.path # PathOf(d, s[n], i) /\ ~Leads(PathOf(d, s[n], i), a.path)
<1>1. n \in 1..MaxDepth /\ MaxDepth \in Nat /\ Len(s[n].path) = n - 1
  BY CallOf, ListAssumption
<1>2. PICK p : p = PathOf(d, s[n], i)
  OBVIOUS
<1>3. /\ Len(p) = n /\ p[n] = Said(d, s[n].of[i]).name
      /\ \A j \in 1 .. n - 1 : p[j] = s[n].path[j]
  <2>1. Len(PathOf(d, s[n], i)) = n
    BY ItemIs
  <2>2. PathOf(d, s[n], i)[n] = Said(d, s[n].of[i]).name
    BY ItemIs
  <2>3. \A j \in 1 .. n - 1 : PathOf(d, s[n], i)[j] = s[n].path[j]
    BY ItemIs
  <2>4. QED
    BY <1>2, <2>1, <2>2, <2>3, Zenon
<1>4. SUFFICES ASSUME NEW a \in A, a.path = p \/ Leads(p, a.path) PROVE FALSE
  BY <1>2
<1>5. Len(a.path) >= n /\ \A j \in 1..n : a.path[j] = p[j]
  BY <1>1, <1>3, <1>4 DEF Leads
<1>6. Leads(s[n].path, a.path)
  BY <1>1, <1>3, <1>5 DEF Leads
<1>7. PICK j \in Passed(d, s[n]) : a.path[n] = Said(d, s[n].of[j]).name
  BY <1>6 DEF Fresh
<1>8. Said(d, s[n].of[j]).name = Said(d, s[n].of[i]).name
  BY <1>1, <1>3, <1>5, <1>7
<1>9. i = j
  <2>1. PICK x : Tidy(d, s[n].of, Held(HeldOn(d), x.at), whole)
    BY CallOf
  <2>2. j \in Counted(d, s[n].of)
    BY <1>7 DEF Passed
  <2>3. QED
    BY <1>8, <2>1, <2>2 DEF Tidy
<1>10. QED
  BY <1>7, <1>9

\* The path of a call, given as an entry, leads from the calls before it.
LEMMA CallsLead ==
  ASSUME NEW d, NEW whole, TidyDisc(d, whole), NEW s, Calls(d, s), Calling(d, s),
         NEW A, Recorded(d, s, A), Fresh(d, s, A),
         NEW n \in 1..Len(s), NEW m \in 1..Len(s), m < n, Leads(s[m].path, s[n].path)
  PROVE  \E i \in Passed(d, s[m]) : s[n].path[m] = Said(d, s[m].of[i]).name
<1>1. n > 1 /\ n - 1 \in 1..Len(s)
  OBVIOUS
<1>2. PICK i \in Passed(d, s[n - 1]) : s[n].path = PathOf(d, s[n - 1], i)
  BY <1>1 DEF Calling
<1>3. PICK a \in A : a = ItemOf(d, s[n - 1], i)
  BY <1>1, <1>2 DEF Recorded
<1>4. a.path = s[n].path
  BY <1>2, <1>3 DEF ItemOf, Entry
<1>5. QED
  BY <1>4 DEF Fresh

\* The innermost call has passed its i-th record, which counts.
Step(d, s, t, i) ==
  /\ Len(s) >= 1 /\ i \in Counted(d, s[Len(s)].of) /\ i \notin Passed(d, s[Len(s)])
  /\ Moved(d, s, t, {i})

\* What the record that is passed says is there.
LEMMA StepSound ==
  ASSUME NEW d, NEW whole, TidyDisc(d, whole), NEW s, Calls(d, s), Calling(d, s),
         NEW t, NEW i, Step(d, s, t, i), NEW A, Sound(d, A)
  PROVE  Sound(d, A \cup {ItemOf(d, s[Len(s)], i)})
<1> DEFINE n == Len(s)
           e == ItemOf(d, s[n], i)
           x == Node(PathOf(d, s[n], i), Said(d, s[n].of[i]).isdir, Said(d, s[n].of[i]).at)
<1>1. n \in 1..Len(s) /\ i \in Counted(d, s[n].of)
  BY DEF Step, Calls
<1>2. n \in 1..MaxDepth
  BY <1>1, CallOf
<1>3. x \in Depth(d, n)
  BY <1>1, ItemIs
<1>4. e = Entry(x.path, x.isdir)
  BY DEF ItemOf, Node
<1> HIDE DEF e, x, n
<1>5. \E k \in 1..MaxDepth : \E y \in Depth(d, k) : e = Entry(y.path, y.isdir)
  BY <1>2, <1>3, <1>4
<1>6. QED
  BY <1>5 DEF Sound, e, n

\* What has been passed is still given.
LEMMA StepRecorded ==
  ASSUME NEW d, NEW s, Len(s) \in Nat, NEW t, NEW i, Step(d, s, t, i), NEW A, Recorded(d, s, A)
  PROVE  Recorded(d, t, A \cup {ItemOf(d, s[Len(s)], i)})
<1> DEFINE B == A \cup {ItemOf(d, s[Len(s)], i)}
<1>1. SUFFICES ASSUME NEW n \in 1..Len(s), NEW j \in Passed(d, t[n]) PROVE ItemOf(d, t[n], j) \in B
  BY DEF Recorded, Step, Moved
<1>2. t[n].path = s[n].path /\ t[n].of = s[n].of
  BY DEF Step, Moved
<1>3. ItemOf(d, t[n], j) = ItemOf(d, s[n], j)
  BY <1>2 DEF ItemOf, PathOf
<1>4. CASE j \in Passed(d, s[n])
  BY <1>3, <1>4 DEF Recorded
<1>5. CASE j \notin Passed(d, s[n])
  <2>1. n = Len(s) /\ j = i
    BY <1>5 DEF Step, Moved
  <2>2. QED
    BY <1>3, <2>1
<1>6. QED
  BY <1>4, <1>5

\* And nothing is given of what is still to be passed.
LEMMA StepFresh ==
  ASSUME NEW d, NEW whole, TidyDisc(d, whole), NEW s, Calls(d, s), Calling(d, s),
         NEW t, NEW i, Step(d, s, t, i), NEW A, Recorded(d, s, A), Fresh(d, s, A)
  PROVE  Fresh(d, t, A \cup {ItemOf(d, s[Len(s)], i)})
<1> DEFINE n == Len(s)
           e == ItemOf(d, s[n], i)
           p == PathOf(d, s[n], i)
<1>1. n \in 1..Len(s) /\ i \in Counted(d, s[n].of) /\ n \in Nat
  BY DEF Step, Calls
<1>2. e.path = p
  BY DEF ItemOf, Entry
<1>3. Len(p) = n
  BY <1>1, ItemIs
<1>4. p[n] = Said(d, s[n].of[i]).name
  BY <1>1, ItemIs
<1>5. \A j \in 1 .. n - 1 : p[j] = s[n].path[j]
  BY SMTT(20), <1>1, ItemIs
<1>6. \A m \in 1..n : Len(s[m].path) = m - 1
  BY CallOf
<1>7. \A m \in 1..n : t[m].path = s[m].path /\ t[m].of = s[m].of /\ Passed(d, s[m]) \subseteq Passed(d, t[m])
  BY DEF Step, Moved
<1>8. i \in Passed(d, t[n])
  BY <1>1 DEF Step, Moved
<1>9. SUFFICES ASSUME NEW m \in 1..n, NEW a \in A \cup {e}, Leads(s[m].path, a.path)
               PROVE  \E j \in Passed(d, t[m]) : a.path[m] = Said(d, s[m].of[j]).name
  <2>1. Len(t) = n
    BY DEF Step, Moved
  <2>2. QED
    BY <1>7, <2>1 DEF Fresh
<1>10. CASE a \in A
  <2>1. PICK j \in Passed(d, s[m]) : a.path[m] = Said(d, s[m].of[j]).name
    BY <1>9, <1>10 DEF Fresh
  <2>2. QED
    BY <1>7, <2>1
<1>11. CASE a = e /\ m = n
  BY <1>2, <1>4, <1>8, <1>11
<1>12. CASE a = e /\ m # n
  <2>1. m < n /\ Len(s[n].path) = n - 1 /\ Len(s[m].path) = m - 1
    BY <1>1, <1>6, <1>12
  <2> HIDE DEF p, e
  <2>2. \A j \in 1..Len(s[m].path) : p[j] = s[m].path[j]
    BY <1>2, <1>9, <1>12 DEF Leads
  <2>3. Leads(s[m].path, s[n].path)
    BY <1>1, <1>5, <2>1, <2>2 DEF Leads
  <2>4. PICK j \in Passed(d, s[m]) : s[n].path[m] = Said(d, s[m].of[j]).name
    BY SMTT(20), <1>1, <2>1, <2>3, CallsLead
  <2>5. p[m] = s[n].path[m]
    BY <1>1, <1>5, <2>1
  <2>6. QED
    BY <1>2, <1>7, <1>12, <2>4, <2>5
<1>13. QED
  BY <1>10, <1>11, <1>12

\* Nor does a directory that was covered become uncovered.
LEMMA StepComplete ==
  ASSUME NEW d, NEW s, NEW t, NEW i, Step(d, s, t, i), NEW A, Complete(d, s, A, {}),
         NEW e, NEW but, e.isdir = TRUE => e.path \in but
  PROVE  Complete(d, t, A \cup {e}, but)
<1>1. SUFFICES ASSUME NEW k \in 0..MaxDepth, NEW x \in Depth(d, k), x.isdir,
                      k = 0 \/ Entry(x.path, TRUE) \in A \cup {e}, x.path \notin but
               PROVE  Covered(d, t, A \cup {e}, x)
  BY DEF Complete
<1>2. Entry(x.path, TRUE) # e
  BY <1>1 DEF Entry
<1>3. Covered(d, s, A, x)
  BY <1>1, <1>2 DEF Complete
<1>4. Len(t) = Len(s) /\ \A n \in 1..Len(s) : t[n].path = s[n].path
  BY DEF Step, Moved
<1>5. QED
  BY <1>3, <1>4 DEF Covered

-----------------------------------------------------------------------------
(* A file is listed *)

\* The paths of what is given.
LEMMA GivenPaths ==
  ASSUME NEW d, NEW s, Calls(d, s), NEW list, Listable(list)
  PROVE  \A a \in Given(s, list) : a.path \in Seq(Names)
<1>1. SUFFICES ASSUME NEW a \in Given(s, list) PROVE a.path \in Seq(Names)
  OBVIOUS
<1>2. ASSUME NEW i \in 1..Len(list), a = list[i] PROVE a.path \in Seq(Names)
  <2>1. list[i] \in Items
    BY DEF Listable
  <2>2. QED
    BY <1>2, <2>1 DEF Items
<1>3. ASSUME a \in Coming(s) PROVE a.path \in Seq(Names)
  <2>1. PICK n \in 1..Len(s) : a = Entry(s[n].path, TRUE)
    BY <1>3, ComingIs
  <2>2. s[n] \in Frame(d)
    BY DEF Calls
  <2>3. QED
    BY <2>1, <2>2 DEF Entry, Frame
<1>4. QED
  BY <1>2, <1>3 DEF Given

\* One entry more is given when it is listed.
LEMMA GivenMore ==
  ASSUME NEW s, NEW list, Listable(list), NEW e \in Items
  PROVE  Given(s, Append(list, e)) = Given(s, list) \cup {e}
<1>1. list \in Seq(Items) /\ Len(list) \in Nat
  BY DEF Listable
<1>2. PICK more : more = Append(list, e)
  OBVIOUS
<1>3. /\ more \in Seq(Items) /\ Len(more) = Len(list) + 1 /\ more[Len(list) + 1] = e
      /\ \A i \in 1..Len(list) : more[i] = list[i]
  BY <1>1, <1>2, Appends
<1>4. {more[i] : i \in 1..Len(more)} = {list[i] : i \in 1..Len(list)} \cup {e}
  <2>1. \A i \in 1..Len(more) : i \in 1..Len(list) \/ i = Len(list) + 1
    BY <1>1, <1>3
  <2>2. \A i \in 1..Len(list) : i \in 1..Len(more)
    BY <1>1, <1>3
  <2>3. Len(list) + 1 \in 1..Len(more)
    BY <1>1, <1>3
  <2>4. QED
    BY <1>3, <2>1, <2>2, <2>3
<1>5. Given(s, more) = Given(s, list) \cup {e}
  BY <1>4 DEF Given
<1>6. QED
  BY <1>2, <1>5

\* If its path is new, the list still holds each path once.
LEMMA OnceMore ==
  ASSUME NEW list, Listable(list), NEW e \in Items,
         Once(list), \A i \in 1..Len(list) : list[i].path # e.path
  PROVE  Once(Append(list, e))
<1>1. list \in Seq(Items) /\ Len(list) \in Nat
  BY DEF Listable
<1>2. PICK more : more = Append(list, e)
  OBVIOUS
<1>3. /\ DOMAIN more = 1 .. Len(list) + 1 /\ DOMAIN list = 1..Len(list)
      /\ more[Len(list) + 1] = e /\ \A i \in 1..Len(list) : more[i] = list[i]
  BY <1>1, <1>2, Appends
<1>4. SUFFICES ASSUME NEW i \in 1 .. Len(list) + 1, NEW j \in 1 .. Len(list) + 1,
                      more[i].path = more[j].path
               PROVE  i = j
  BY <1>2, <1>3 DEF Once
<1>5. CASE i \in 1..Len(list) /\ j \in 1..Len(list)
  BY <1>3, <1>4, <1>5 DEF Once
<1>6. CASE i \in 1..Len(list) /\ j = Len(list) + 1
  BY <1>3, <1>4, <1>6
<1>7. CASE i = Len(list) + 1 /\ j \in 1..Len(list)
  BY <1>3, <1>4, <1>7
<1>8. QED
  BY <1>1, <1>5, <1>6, <1>7

\* An entry that is new to what is given.
NewItem(d, s, list, i, e) ==
  /\ Len(s) \in 1..MaxDepth /\ Len(s) \in 1..Len(s)
  /\ i \in Counted(d, s[Len(s)].of) /\ Calling(d, s)
  /\ e \in Items /\ Len(e.path) = Len(s) /\ e.path = PathOf(d, s[Len(s)], i)
  /\ e.isdir = Said(d, s[Len(s)].of[i]).isdir
  /\ \A a \in Given(s, list) : a.path # e.path /\ ~Leads(e.path, a.path)
  /\ \A m \in 1..Len(list) : list[m] \in Given(s, list)
  /\ \A m \in 1..Len(s) : s[m].path # e.path

\* What a record gives is new, wherever it stands.
LEMMA ItemIsOk ==
  ASSUME NEW d, NEW whole, TidyDisc(d, whole), NEW s, Calls(d, s), NEW list, Listable(list),
         OnDisc(d, s, list, whole), NEW t, NEW i, Step(d, s, t, i),
         NEW e, e = ItemOf(d, s[Len(s)], i)
  PROVE  NewItem(d, s, list, i, e)
<1> DEFINE n == Len(s)
           A == Given(s, list)
<1>1. n \in 1..Len(s) /\ i \in Counted(d, s[n].of) /\ i \notin Passed(d, s[n])
  BY DEF Step, Calls
<1>2. Calling(d, s) /\ Fresh(d, s, A) /\ \A a \in A : a.path \in Seq(Names)
  BY GivenPaths DEF OnDisc
<1>3. n \in 1..MaxDepth /\ n \in Nat
  BY <1>1, <1>2, CallOf
<1>4. e.path = PathOf(d, s[n], i) /\ e.isdir = Said(d, s[n].of[i]).isdir
      /\ e = [path |-> e.path, isdir |-> e.isdir]
  BY DEF ItemOf, Entry
<1> HIDE DEF n, A
<1>5. Len(PathOf(d, s[n], i)) = n
  BY <1>1, <1>2, ItemIs
<1>6. PathOf(d, s[n], i) \in Seq(Names)
  BY <1>1, <1>2, ItemIs
<1>7. Said(d, s[n].of[i]).isdir \in BOOLEAN
  BY <1>1, <1>2, ItemIs
<1>8. \A a \in A : a.path # PathOf(d, s[n], i) /\ ~Leads(PathOf(d, s[n], i), a.path)
  BY <1>1, <1>2, ItemIsNew
<1>9. e \in Items
  BY <1>4, <1>6, <1>7 DEF Items
<1>10. \A m \in 1..Len(list) : list[m] \in A
  BY DEF A, Given
<1>11. \A m \in 1..Len(s) : s[m].path # e.path
  <2>1. \A m \in 1..Len(s) : Len(s[m].path) = m - 1
    BY <1>2, CallOf
  <2>2. QED
    BY <1>3, <1>4, <1>5, <2>1 DEF n
<1>12. QED
  BY <1>1, <1>2, <1>3, <1>4, <1>5, <1>8, <1>9, <1>10, <1>11 DEF n, A, NewItem

\* A file is listed.
LEMMA FileKeeps ==
  ASSUME NEW d, NEW whole \in BOOLEAN, TidyDisc(d, whole), NEW s, Calls(d, s),
         NEW list, Listable(list), OnDisc(d, s, list, whole), NEW t, NEW i, Step(d, s, t, i),
         NEW e, e = ItemOf(d, s[Len(s)], i), e.isdir = FALSE
  PROVE  OnDisc(d, t, Append(list, e), whole)
<1> DEFINE A == Given(s, list)
           B == A \cup {e}
           more == Append(list, e)
<1>1. /\ e \in Items /\ \A m \in 1..Len(s) : s[m].path # e.path
      /\ \A m \in 1..Len(list) : list[m].path # e.path
  BY ItemIsOk DEF NewItem
<1>2. Moved(d, s, t, {i}) /\ Len(s) \in Nat /\ Calling(d, s)
  BY DEF Step, Calls, OnDisc
<1>3. Given(t, more) = B
  <2>1. e \in Items
    BY <1>1
  <2>2. Given(t, Append(list, e)) = Given(t, list) \cup {e}
    BY SMTT(20), <2>1, GivenMore
  <2>3. Given(t, list) = A
    BY <1>2, MovedGiven
  <2>4. QED
    BY <2>2, <2>3
<1>4. Calling(d, t)
  BY <1>2, MovedCalling
<1>5. Sound(d, B)
  BY <1>2, StepSound DEF OnDisc
<1>6. Recorded(d, t, B)
  BY <1>2, StepRecorded DEF OnDisc
<1>7. Fresh(d, t, B)
  BY <1>2, StepFresh DEF OnDisc
<1>8. whole => Complete(d, t, B, {})
  BY StepComplete DEF OnDisc
<1>9. Once(more)
  BY <1>1, OnceMore DEF OnDisc
<1>10. Awaited(t, more)
  <2>1. list \in Seq(Items) /\ Len(list) \in Nat
    BY DEF Listable
  <2>2. SUFFICES ASSUME NEW m \in 1..Len(s), Late(t[m]), NEW j \in 1..Len(more)
                 PROVE  more[j].path # t[m].path
    BY <1>2 DEF Awaited, Moved
  <2>3. t[m].path = s[m].path /\ Late(s[m])
    BY <1>2, <2>2 DEF Moved, Late
  <2>4. CASE j \in 1..Len(list)
    BY <1>1, <2>1, <2>3, <2>4, Appends DEF OnDisc, Awaited
  <2>5. CASE j \notin 1..Len(list)
    <3>1. more[j] = e
      BY <1>1, <2>1, <2>5, Appends
    <3>2. QED
      BY <1>1, <2>3, <3>1
  <2>6. QED
    BY <2>4, <2>5
<1> HIDE DEF A, B, more
<1>11. OnDisc(d, t, more, whole)
  BY <1>3, <1>4, <1>5, <1>6, <1>7, <1>8, <1>9, <1>10 DEF OnDisc
<1>12. QED
  BY <1>11 DEF more

-----------------------------------------------------------------------------
(* A directory is entered *)

\* A directory is entered, and listed before or after.
Enters(d, t, u, c, list, more, e) ==
  /\ u \in Seq(Frame(d)) /\ Len(u) = Len(t) + 1 /\ u[Len(t) + 1] = c
  /\ \A m \in 1..Len(t) : u[m] = t[m]
  /\ c.path = e.path /\ c.next = 1
  /\ \/ c.entry = <<>> /\ more = Append(list, e)
     \/ c.entry = <<e>> /\ more = list

\* One entry more is given when its directory is entered.
LEMMA EnterGives ==
  ASSUME NEW d, NEW t, NEW u, NEW c, NEW list, Listable(list), NEW more, NEW e \in Items,
         e.isdir, Len(t) \in Nat, Enters(d, t, u, c, list, more, e)
  PROVE  Given(u, more) = Given(t, list) \cup {e}
<1>1. e = Entry(c.path, TRUE)
  BY DEF Enters, Items, Entry
<1>2. \A m \in 1..Len(u) : m \in 1..Len(t) \/ m = Len(t) + 1
  BY DEF Enters
<1>3. /\ \A m \in 1..Len(t) : m \in 1..Len(u) /\ u[m] = t[m]
      /\ Len(t) + 1 \in 1..Len(u) /\ u[Len(t) + 1] = c
  BY DEF Enters
<1>4. CASE c.entry = <<>> /\ more = Append(list, e)
  <2>1. ~Late(c)
    BY <1>4 DEF Late
  <2>2. ASSUME NEW a PROVE a \in Coming(u) <=> a \in Coming(t)
    BY <1>2, <1>3, <2>1 DEF Coming
  <2>3. Coming(u) = Coming(t)
    BY <2>2
  <2>4. Given(u, list) = Given(t, list)
    BY <2>3 DEF Given
  <2>5. Given(u, more) = Given(u, list) \cup {e}
    BY <1>4, GivenMore
  <2>6. QED
    BY <2>4, <2>5
<1>5. CASE c.entry = <<e>> /\ more = list
  <2>1. Late(c)
    BY <1>5 DEF Late
  <2>2. ASSUME NEW a PROVE a \in Coming(u) <=> a \in Coming(t) \/ a = e
    BY <1>1, <1>2, <1>3, <2>1 DEF Coming
  <2>3. Coming(u) = Coming(t) \cup {e}
    BY <2>2
  <2>4. QED
    BY <1>5, <2>3 DEF Given
<1>6. QED
  BY <1>4, <1>5 DEF Enters

\* What is listed stays right.
LEMMA DirectoryKeeps ==
  ASSUME NEW d, NEW whole \in BOOLEAN, TidyDisc(d, whole), NEW s, Calls(d, s),
         NEW list, Listable(list), OnDisc(d, s, list, whole), NEW t, NEW i, Step(d, s, t, i),
         NEW e, e = ItemOf(d, s[Len(s)], i), e.isdir,
         NEW u, NEW c, NEW more, Enters(d, t, u, c, list, more, e),
         c.of = ReadAt(d, Said(d, s[Len(s)].of[i]).at),
         System[d] = "udf" => FidBytes(c.of) <= c.size
  PROVE  OnDisc(d, u, more, whole)
<1> DEFINE A == Given(s, list)
           B == A \cup {e}
           n == Len(s)
<1>1. /\ n \in 1..MaxDepth /\ n \in 1..Len(s)
      /\ e \in Items /\ Len(e.path) = n /\ e.path = PathOf(d, s[n], i)
      /\ e.isdir = Said(d, s[n].of[i]).isdir
      /\ \A m \in 1..Len(s) : s[m].path # e.path
      /\ \A a \in A : a.path # e.path /\ ~Leads(e.path, a.path)
      /\ \A m \in 1..Len(list) : list[m] \in A
  <2>1. NewItem(d, s, list, i, e)
    BY ItemIsOk
  <2>2. QED
    BY <2>1 DEF NewItem
<1>2. Moved(d, s, t, {i}) /\ Len(s) \in Nat /\ Calling(d, s) /\ Len(t) = n
  <2>1. Moved(d, s, t, {i}) /\ Calling(d, s)
    BY DEF Step, OnDisc
  <2>2. Len(s) \in Nat
    BY DEF Calls
  <2>3. QED
    BY <2>1, <2>2 DEF Moved
<1>3. /\ Len(u) = n + 1 /\ u[n + 1] = c /\ \A m \in 1..n : u[m] = t[m]
      /\ c.path = e.path /\ c.next = 1
  BY <1>2 DEF Enters
<1>4. Given(u, more) = B
  <2>1. Given(u, more) = Given(t, list) \cup {e}
    BY <1>1, <1>2, EnterGives
  <2>2. Given(t, list) = A
    BY <1>2, MovedGiven
  <2>3. QED
    BY <2>1, <2>2
<1>5. Passed(d, c) = {}
  BY <1>3 DEF Passed, Counted
<1>6. Calling(d, t) /\ Sound(d, B) /\ Recorded(d, t, B) /\ Fresh(d, t, B)
  BY <1>2, MovedCalling, StepSound, StepRecorded, StepFresh DEF OnDisc
<1> HIDE DEF n
<1>7. \A m \in 1..Len(u) : m \in 1..n \/ m = n + 1
  BY <1>1, <1>3
<1>8. Calling(d, u)
  <2>1. \E x \in Depth(d, n) : CallIs(d, c, x)
    <3> DEFINE x == Node(PathOf(d, s[n], i), Said(d, s[n].of[i]).isdir, Said(d, s[n].of[i]).at)
    <3>1. x \in Depth(d, n)
      <4>1. i \in Counted(d, s[n].of)
        BY DEF Step, n
      <4>2. QED
        BY <1>1, <1>2, <4>1, ItemIs
    <3>2. CallIs(d, c, x)
      BY <1>1, <1>3 DEF CallIs, Node, n
    <3>3. QED
      BY <3>1, <3>2
  <2>2. Late(c) => c.entry = <<Entry(c.path, TRUE)>>
    <3>1. e = Entry(c.path, TRUE)
      BY <1>1, <1>3 DEF Items, Entry
    <3>2. QED
      BY <3>1 DEF Enters, Late
  <2>3. \E j \in Passed(d, t[n]) : c.path = PathOf(d, t[n], j)
    <3>1. i \in Passed(d, t[n]) /\ t[n].path = s[n].path /\ t[n].of = s[n].of
      BY <1>1, <1>2 DEF Moved, n
    <3>2. PathOf(d, t[n], i) = PathOf(d, s[n], i)
      BY <3>1 DEF PathOf
    <3>3. QED
      BY <1>1, <1>3, <3>1, <3>2
  <2>4. SUFFICES ASSUME NEW m \in 1..Len(u)
                 PROVE  /\ \E x \in Depth(d, m - 1) : CallIs(d, u[m], x)
                        /\ Late(u[m]) => m > 1 /\ u[m].entry = <<Entry(u[m].path, TRUE)>>
                        /\ m > 1 => \E j \in Passed(d, u[m - 1]) : u[m].path = PathOf(d, u[m - 1], j)
    BY DEF Calling
  <2>5. CASE m \in 1..n
    <3>1. u[m] = t[m] /\ (m > 1 => u[m - 1] = t[m - 1]) /\ m \in 1..Len(t)
      BY <1>1, <1>2, <1>3, <2>5
    <3>2. QED
      BY <1>6, <3>1 DEF Calling
  <2>6. CASE m = n + 1
    <3>1. u[m] = c /\ m > 1 /\ m - 1 = n /\ u[m - 1] = t[n]
      BY <1>1, <1>3, <2>6
    <3>2. QED
      BY <2>1, <2>2, <2>3, <3>1
  <2>7. QED
    BY <1>7, <2>5, <2>6
<1>9. Recorded(d, u, B)
  BY <1>2, <1>3, <1>5, <1>6, <1>7 DEF Recorded
<1>10. Fresh(d, u, B)
  <2>1. ASSUME NEW a \in B PROVE ~Leads(c.path, a.path)
    <3>1. CASE a \in A
      BY <1>1, <1>3, <3>1, Zenon
    <3>2. CASE a = e
      <4>1. Len(e.path) \in Nat
        BY <1>1
      <4>2. ~(Len(e.path) > Len(e.path))
        BY <4>1
      <4>3. QED
        BY <1>3, <3>2, <4>2, Zenon DEF Leads
    <3>3. QED
      BY <3>1, <3>2
  <2>2. QED
    BY <1>2, <1>3, <1>6, <1>7, <2>1 DEF Fresh
<1>11. Once(more)
  <2>1. Once(list) /\ \A m \in 1..Len(list) : list[m].path # e.path
    BY <1>1 DEF OnDisc
  <2>2. Once(Append(list, e))
    BY <1>1, <2>1, OnceMore
  <2>3. QED
    BY <2>1, <2>2 DEF Enters
<1>12. Awaited(u, more)
  <2>1. list \in Seq(Items) /\ Len(list) \in Nat
    BY DEF Listable
  <2>2. \A j \in 1..Len(more) : (j \in 1..Len(list) /\ more[j] = list[j]) \/ more[j] = e
    BY <1>1, <2>1, Appends DEF Enters
  <2>3. Late(c) => more = list
    BY DEF Enters, Late
  <2>4. SUFFICES ASSUME NEW m \in 1..Len(u), Late(u[m]), NEW j \in 1..Len(more)
                 PROVE  more[j].path # u[m].path
    BY DEF Awaited
  <2>5. CASE m \in 1..n
    <3>1. u[m].path = s[m].path /\ Late(s[m])
      BY <1>2, <1>3, <2>4, <2>5 DEF Moved, Late, n
    <3>2. CASE j \in 1..Len(list) /\ more[j] = list[j]
      BY <2>5, <3>1, <3>2 DEF OnDisc, Awaited, n
    <3>3. CASE more[j] = e
      BY <1>1, <2>5, <3>1, <3>3 DEF n
    <3>4. QED
      BY <2>2, <3>2, <3>3
  <2>6. CASE m = n + 1
    BY <1>1, <1>3, <2>3, <2>4, <2>6
  <2>7. QED
    BY <1>7, <2>5, <2>6
<1>13. whole => Complete(d, u, B, {})
  <2>1. whole => Complete(d, t, B, {e.path})
    BY StepComplete DEF OnDisc
  <2>2. \A x : Covered(d, t, B, x) => Covered(d, u, B, x)
    BY <1>1, <1>2, <1>3 DEF Covered
  <2>3. \A x : x.path = e.path => Covered(d, u, B, x)
    BY <1>1, <1>3 DEF Covered
  <2>4. QED
    BY <2>1, <2>2, <2>3 DEF Complete
<1> HIDE DEF A, B
<1>14. QED
  BY <1>4, <1>6, <1>8, <1>9, <1>10, <1>11, <1>12, <1>13 DEF OnDisc

-----------------------------------------------------------------------------
(* A call returns *)

\* The innermost call of s has returned.
Returns(d, s, r) ==
  /\ Len(s) >= 1 /\ r \in Seq(Frame(d)) /\ Len(r) = Len(s) - 1
  /\ \A m \in 1..Len(r) : r[m] = s[m]

\* A sequence of one entry is that entry.
LEMMA OneMore ==
  ASSUME NEW S, NEW s \in Seq(S), NEW e, <<e>> \in Seq(S)
  PROVE  e \in S /\ s \o <<e>> = Append(s, e)
<1>1. PICK t \in Seq(S) : t = <<e>> /\ Len(t) = 1 /\ t[1] = e
  <2>1. Len(<<e>>) = 1 /\ <<e>>[1] = e
    OBVIOUS
  <2>2. QED
    BY <2>1, Zenon
<1>2. e \in S
  BY <1>1
<1>3. s \o <<e>> = Append(s, e)
  BY <1>2
<1>4. QED
  BY <1>2, <1>3

\* A call that returns lists its entry: nothing new is given.
LEMMA ReturnGives ==
  ASSUME NEW d, NEW s, Calls(d, s), NEW list, Listable(list), Calling(d, s),
         NEW r, Returns(d, s, r)
  PROVE  Given(r, list \o s[Len(s)].entry) = Given(s, list)
<1> DEFINE n == Len(s)
<1>1. n \in 1..Len(s) /\ n \in Nat
  BY DEF Calls, Returns
<1>2. PICK c : c = s[n]
  OBVIOUS
<1>3. Late(c) => c.entry = <<Entry(c.path, TRUE)>>
  BY <1>1, <1>2 DEF Calling
<1>4. list \in Seq(Items) /\ Len(list) \in Nat /\ c.entry \in Seq(Items)
  BY <1>1, <1>2 DEF Listable, Calls, FrameAt
<1>5. /\ \A m \in 1..Len(s) : m \in 1..Len(r) \/ m = n
      /\ \A m \in 1..Len(r) : m \in 1..Len(s) /\ r[m] = s[m]
  BY <1>1 DEF Returns
<1> HIDE DEF n
<1>6. CASE ~Late(c)
  <2>1. list \o c.entry = list
    BY <1>4, <1>6 DEF Late
  <2>2. ASSUME NEW a PROVE a \in Coming(r) <=> a \in Coming(s)
    BY <1>2, <1>5, <1>6 DEF Coming
  <2>3. Coming(r) = Coming(s)
    BY <2>2
  <2>4. QED
    BY <1>2, <2>1, <2>3 DEF Given, n
<1>7. CASE Late(c)
  <2>1. PICK e : e = Entry(c.path, TRUE) /\ c.entry = <<e>>
    BY <1>3, <1>7
  <2>2. <<e>> \in Seq(Items) /\ list \in Seq(Items)
    BY <1>4, <2>1, Zenon
  <2>3. e \in Items /\ list \o <<e>> = Append(list, e)
    BY <2>2, OneMore
  <2>4. ASSUME NEW a PROVE a \in Coming(s) <=> a \in Coming(r) \/ a = e
    BY <1>1, <1>2, <1>5, <1>7, <2>1 DEF Coming
  <2>5. Coming(s) = Coming(r) \cup {e}
    BY <2>4
  <2>6. Given(s, list) = Given(r, list) \cup {e}
    BY <2>5 DEF Given
  <2>7. Given(r, Append(list, e)) = Given(r, list) \cup {e}
    BY <2>3, GivenMore
  <2>8. list \o c.entry = Append(list, e)
    BY <2>1, <2>3, Zenon
  <2>9. QED
    BY <1>2, <2>6, <2>7, <2>8 DEF n
<1>8. QED
  BY <1>6, <1>7

\* Where its siblings' names differ, a directory has a path of its own.
LEMMA TidyPaths ==
  ASSUME NEW d, NEW whole, TidyDisc(d, whole), NEW k \in 0..MaxDepth, NEW j \in 0..MaxDepth,
         NEW x \in Depth(d, k), NEW y \in Depth(d, j), x.path = y.path
  PROVE  x = y
<1>1. Named(HeldOn(d))
  BY DEF TidyDisc
<1>2. \A m \in 0..MaxDepth : \A z \in Levels(HeldOn(d), RootOf(d))[m] : z.isdir =>
        \A e, f \in Held(HeldOn(d), z.at) : e.name = f.name => e = f
  <2>1. SUFFICES ASSUME NEW m \in 0..MaxDepth, NEW z \in Depth(d, m), z.isdir
                 PROVE  \A e, f \in Held(HeldOn(d), z.at) : e.name = f.name => e = f
    BY DEF Depth
  <2>2. Tidy(d, ReadAt(d, z.at), Held(HeldOn(d), z.at), whole)
    BY <2>1 DEF TidyDisc
  <2>3. QED
    BY <2>2 DEF Tidy
<1>3. Len(x.path) = k
  BY <1>1, NodesAre DEF Depth
<1>4. Len(y.path) = j
  BY <1>1, NodesAre DEF Depth
<1>5. k = j
  BY <1>3, <1>4
<1>6. y \in Levels(HeldOn(d), RootOf(d))[k] /\ x \in Levels(HeldOn(d), RootOf(d))[k]
  BY <1>5 DEF Depth
<1>7. QED
  BY <1>1, <1>2, <1>6, PathsDiffer

\* The innermost call returns.
LEMMA ReturnKeeps ==
  ASSUME NEW d, NEW whole \in BOOLEAN, TidyDisc(d, whole), NEW s, Calls(d, s),
         NEW list, Listable(list), OnDisc(d, s, list, whole), NEW r, Returns(d, s, r),
         whole => Counted(d, s[Len(s)].of) \subseteq Passed(d, s[Len(s)])
  PROVE  OnDisc(d, r, list \o s[Len(s)].entry, whole)
<1> DEFINE A == Given(s, list)
           n == Len(s)
           more == list \o s[n].entry
<1>1. n \in 1..Len(s) /\ n \in Nat /\ Calling(d, s)
  BY DEF Calls, Returns, OnDisc
<1>2. \A m \in 1..Len(r) : m \in 1..Len(s) /\ r[m] = s[m] /\ m < n
  BY <1>1 DEF Returns
<1>3. Given(r, more) = A
  BY <1>1, ReturnGives
<1>4. list \in Seq(Items) /\ Len(list) \in Nat /\ s[n].entry \in Seq(Items)
  BY <1>1 DEF Listable, Calls, FrameAt
<1>5. Late(s[n]) => s[n].entry = <<Entry(s[n].path, TRUE)>>
  BY <1>1 DEF Calling
<1> HIDE DEF n
<1>6. \/ more = list
      \/ \E e \in Items : /\ more = Append(list, e) /\ e.path = s[n].path
                          /\ \A i \in 1..Len(list) : list[i].path # e.path
  <2>1. CASE ~Late(s[n])
    BY <1>4, <2>1 DEF Late
  <2>2. CASE Late(s[n])
    <3>1. PICK e : e = Entry(s[n].path, TRUE) /\ s[n].entry = <<e>>
      BY <1>5, <2>2
    <3>2. <<e>> \in Seq(Items) /\ list \in Seq(Items)
      BY <1>4, <3>1, Zenon
    <3>3. e \in Items /\ list \o <<e>> = Append(list, e)
      BY <3>2, OneMore
    <3>4. more = Append(list, e) /\ e.path = s[n].path
      BY <3>1, <3>3, Zenon DEF Entry
    <3>5. \A i \in 1..Len(list) : list[i].path # s[n].path
      BY <1>1, <2>2 DEF OnDisc, Awaited
    <3>6. QED
      BY <3>3, <3>4, <3>5
  <2>3. QED
    BY <2>1, <2>2
<1> HIDE DEF more, A
<1>7. Calling(d, r)
  <2>1. SUFFICES ASSUME NEW m \in 1..Len(r)
                 PROVE  /\ \E x \in Depth(d, m - 1) : CallIs(d, r[m], x)
                        /\ Late(r[m]) => m > 1 /\ r[m].entry = <<Entry(r[m].path, TRUE)>>
                        /\ m > 1 => \E j \in Passed(d, r[m - 1]) : r[m].path = PathOf(d, r[m - 1], j)
    BY DEF Calling
  <2>2. r[m] = s[m] /\ m \in 1..Len(s) /\ (m > 1 => r[m - 1] = s[m - 1])
    BY <1>2 DEF Returns
  <2>3. QED
    BY <1>1, <2>2 DEF Calling
<1>8. Sound(d, A) /\ Recorded(d, r, A) /\ Fresh(d, r, A)
  <2>1. Sound(d, A) /\ Recorded(d, s, A) /\ Fresh(d, s, A)
    BY DEF OnDisc, A
  <2>2. Recorded(d, r, A)
    BY <1>2, <2>1 DEF Recorded
  <2>3. Fresh(d, r, A)
    BY <1>2, <2>1 DEF Fresh
  <2>4. QED
    BY <2>1, <2>2, <2>3
<1>9. Once(more)
  <2>1. Once(list)
    BY DEF OnDisc
  <2>2. QED
    BY <1>6, <2>1, OnceMore
<1>10. Awaited(r, more)
  <2>1. SUFFICES ASSUME NEW m \in 1..Len(r), Late(r[m]), NEW j \in 1..Len(more)
                 PROVE  more[j].path # r[m].path
    BY DEF Awaited
  <2>2. r[m] = s[m] /\ m \in 1..Len(s) /\ m < n
    BY <1>2
  <2>3. \A i \in 1..Len(list) : list[i].path # s[m].path
    BY <2>1, <2>2 DEF OnDisc, Awaited
  <2>4. CASE more = list
    BY <2>2, <2>3, <2>4
  <2>5. ASSUME NEW e \in Items, more = Append(list, e), e.path = s[n].path
        PROVE  more[j].path # r[m].path
    <3>1. Len(s[n].path) = n - 1
      BY <1>1, CallOf
    <3>2. Len(s[m].path) = m - 1
      BY <1>1, <2>2, CallOf
    <3>3. s[n].path # s[m].path
      BY <1>1, <2>2, <3>1, <3>2
    <3>4. (j \in 1..Len(list) /\ more[j] = list[j]) \/ more[j] = e
      BY <1>4, <2>5, Appends
    <3>5. QED
      BY <2>2, <2>3, <2>5, <3>3, <3>4
  <2>6. QED
    BY <1>6, <2>4, <2>5
<1>11. ASSUME whole PROVE Complete(d, r, A, {})
  <2>1. SUFFICES ASSUME NEW k \in 0..MaxDepth, NEW x \in Depth(d, k), x.isdir,
                        k = 0 \/ Entry(x.path, TRUE) \in A
                 PROVE  Covered(d, r, A, x)
    BY DEF Complete
  <2>2. Covered(d, s, A, x)
    BY <1>11, <2>1 DEF OnDisc, Complete, A
  <2>3. CASE x.path # s[n].path
    <3>1. \A m \in 1..Len(s) : m # n => m \in 1..Len(r) /\ r[m] = s[m]
      BY <1>1 DEF Returns, n
    <3>2. QED
      BY <2>2, <2>3, <3>1 DEF Covered
  <2>4. CASE x.path = s[n].path
    <3>1. PICK y \in Depth(d, n - 1) :
            CallIs(d, s[n], y) /\ Tidy(d, s[n].of, Held(HeldOn(d), y.at), whole)
      BY <1>1, CallOf
    <3>2. n - 1 \in 0..MaxDepth
      BY <1>1, CallOf
    <3>3. x = y
      <4>1. x.path = y.path
        BY <2>4, <3>1 DEF CallIs
      <4>2. QED
        BY <3>2, <4>1, TidyPaths
    <3>4. ASSUME NEW e \in Held(HeldOn(d), x.at)
          PROVE  Entry(Append(x.path, e.name), e.isdir) \in A
      <4>1. PICK i \in Counted(d, s[n].of) : e = Said(d, s[n].of[i])
        BY <1>11, <3>1, <3>3 DEF Tidy
      <4>2. i \in Passed(d, s[n])
        BY <1>11 DEF n
      <4>3. ItemOf(d, s[n], i) \in A
        BY <1>1, <4>2 DEF OnDisc, Recorded, A
      <4>4. QED
        BY <2>4, <4>1, <4>3 DEF ItemOf, PathOf
    <3>5. QED
      BY <3>4 DEF Covered
  <2>5. QED
    BY <2>3, <2>4
<1>12. OnDisc(d, r, more, whole)
  BY <1>3, <1>7, <1>8, <1>9, <1>10, <1>11 DEF OnDisc
<1>13. QED
  BY <1>12 DEF more, n

-----------------------------------------------------------------------------
(* The root directory *)

\* The root directory is entered.
LEMMA StartKeeps ==
  ASSUME NEW d, NEW whole \in BOOLEAN, TidyDisc(d, whole), NEW s, Calls(d, s),
         NEW c, s = <<c>>, c.next = 1, c.path = <<>>, c.entry = <<>>,
         c.of = ReadAt(d, RootOf(d)), System[d] = "udf" => FidBytes(c.of) <= c.size
  PROVE  OnDisc(d, s, <<>>, whole)
<1>1. Len(s) = 1 /\ s[1] = c /\ \A n \in 1..Len(s) : n = 1
  OBVIOUS
<1>2. \A n \in 1..Len(s) : ~Late(s[n])
  BY <1>1 DEF Late
<1>3. Given(s, <<>>) = {}
  <2>1. ASSUME NEW a PROVE a \notin Coming(s)
    BY <1>2 DEF Coming
  <2>2. QED
    BY <2>1 DEF Given
<1>4. Passed(d, c) = {}
  BY DEF Passed, Counted
<1>5. PICK x \in Depth(d, 0) : x = Node(<<>>, TRUE, RootOf(d))
  BY LevelsAre DEF Depth
<1>6. CallIs(d, c, x)
  BY <1>5 DEF CallIs, Node
<1>7. Calling(d, s)
  <2>1. SUFFICES ASSUME NEW n \in 1..Len(s)
                 PROVE  (\E y \in Depth(d, n - 1) : CallIs(d, s[n], y)) /\ ~(n > 1)
    BY <1>2 DEF Calling
  <2>2. n - 1 = 0 /\ s[n] = c /\ ~(n > 1)
    BY <1>1
  <2>3. \E y \in Depth(d, n - 1) : CallIs(d, s[n], y)
    BY <1>6, <2>2, Zenon
  <2>4. QED
    BY <2>2, <2>3
<1>8. Sound(d, {}) /\ Recorded(d, s, {}) /\ Fresh(d, s, {})
  BY <1>1, <1>4 DEF Sound, Recorded, Fresh
<1>9. Once(<<>>) /\ Awaited(s, <<>>)
  BY <1>2 DEF Once, Awaited
<1>10. Complete(d, s, {}, {})
  <2>1. SUFFICES ASSUME NEW y \in Depth(d, 0) PROVE Covered(d, s, {}, y)
    BY DEF Complete
  <2>2. y.path = <<>>
    <3>1. y = Node(<<>>, TRUE, RootOf(d))
      BY LevelsAre DEF Depth
    <3>2. QED
      BY <3>1 DEF Node
  <2>3. QED
    BY <1>1, <2>2 DEF Covered
<1>11. QED
  BY <1>3, <1>7, <1>8, <1>9, <1>10 DEF OnDisc

\* When the root directory's call has returned, all that is below it is listed.
LEMMA AllGiven ==
  ASSUME NEW d, TidyDisc(d, TRUE), NEW A, Complete(d, <<>>, A, {})
  PROVE  \A k \in 1..MaxDepth : \A x \in Depth(d, k) : Entry(x.path, x.isdir) \in A
<1> DEFINE Good(k) == \A x \in Depth(d, k) : Entry(x.path, x.isdir) \in A
           M == {m \in 1..MaxDepth : ~Good(m)}
<1>1. SUFFICES ASSUME M # {} PROVE FALSE
  OBVIOUS
<1>2. MaxDepth \in Nat
  BY ListAssumption
<1>3. PICK m \in M : \A j \in M : m <= j
  <2>1. M \subseteq Nat
    BY <1>2
  <2>2. QED
    BY <1>1, <2>1, LeastIs
<1>4. PICK x \in Depth(d, m) : Entry(x.path, x.isdir) \notin A
  OBVIOUS
<1>5. m \in 1..MaxDepth /\ m - 1 \in 0..MaxDepth
  BY <1>2
<1>6. PICK p \in Depth(d, m - 1) : \E e \in Held(HeldOn(d), p.at) :
          p.isdir /\ x = Node(Append(p.path, e.name), e.isdir, e.at)
  BY <1>4, <1>5, ParentIs DEF Depth
<1>7. PICK e \in Held(HeldOn(d), p.at) : p.isdir /\ x = Node(Append(p.path, e.name), e.isdir, e.at)
  BY <1>6
<1>8. m - 1 = 0 \/ Entry(p.path, TRUE) \in A
  <2>1. SUFFICES ASSUME m - 1 # 0 PROVE Entry(p.path, TRUE) \in A
    OBVIOUS
  <2>2. m - 1 \in 1..MaxDepth /\ m - 1 \notin M
    BY <1>2, <1>3, <1>5, <2>1
  <2>3. Good(m - 1)
    BY <2>2
  <2>4. p.isdir = TRUE
    <3>1. p.isdir \in BOOLEAN
      BY <1>5, NodesAre DEF Depth, TidyDisc
    <3>2. QED
      BY <1>7, <3>1
  <2>5. QED
    BY <2>3, <2>4
<1>9. Covered(d, <<>>, A, p)
  BY <1>5, <1>7, <1>8 DEF Complete
<1>10. Entry(Append(p.path, e.name), e.isdir) \in A
  BY <1>9 DEF Covered
<1>11. QED
  BY <1>4, <1>7, <1>10 DEF Node

\* So what is listed is what there is, each path once.
LEMMA FinishKeeps ==
  ASSUME NEW d, NEW whole \in BOOLEAN, TidyDisc(d, whole), NEW list, list \in Seq(Items),
         OnDisc(d, <<>>, list, whole)
  PROVE  /\ Once(list)
         /\ {list[i] : i \in DOMAIN list} \subseteq TreeBelow(HeldOn(d), RootOf(d))
         /\ whole => {list[i] : i \in DOMAIN list} = TreeBelow(HeldOn(d), RootOf(d))
<1> DEFINE A == {list[i] : i \in DOMAIN list}
           T == TreeBelow(HeldOn(d), RootOf(d))
<1>1. Given(<<>>, list) = A
  <2>1. DOMAIN list = 1..Len(list)
    OBVIOUS
  <2>2. Coming(<<>>) = {}
    BY DEF Coming
  <2>3. QED
    BY <2>1, <2>2 DEF Given
<1> HIDE DEF A
<1>2. Once(list) /\ Sound(d, A) /\ (whole => Complete(d, <<>>, A, {}))
  BY <1>1 DEF OnDisc
<1>3. \A a : a \in T <=> \E k \in 1..MaxDepth : \E x \in Depth(d, k) : a = Entry(x.path, x.isdir)
  BY DEF TreeBelow, Depth
<1> HIDE DEF T
<1>4. A \subseteq T
  BY <1>2, <1>3 DEF Sound
<1>5. ASSUME whole PROVE T \subseteq A
  <2>1. whole = TRUE
    BY <1>5
  <2>2. \A k \in 1..MaxDepth : \A x \in Depth(d, k) : Entry(x.path, x.isdir) \in A
    BY <1>2, <2>1, AllGiven
  <2>3. QED
    BY <1>3, <2>2
<1>6. QED
  BY <1>2, <1>4, <1>5 DEF A, T

-----------------------------------------------------------------------------
(* What is listed while no read has failed *)

(* Of a disc the parsers can read, all is listed if its directories are no *)
(* longer than what they read of them.                                     *)
Whole == Readable[disc][how]
Fit   == Whole \/ Subset[disc]

(* What a walk over a record's fields has made of its plain name at offset *)
(* o: at the k-th field, or past the record.                               *)
FinalName(r, plain) == IF NamesIn(r) # {} THEN r.rr[2].name ELSE plain
Spelled(r, plain, o, n) ==
  \/ o >= rd_len(r) /\ n = FinalName(r, plain)
  \/ \E k \in 2 .. Len(r.rr) + 1 :
       /\ o = FieldAt(r, k) - FieldAt(r, 2)
       /\ n = IF k = 2 THEN plain ELSE FinalName(r, plain)

\* A walk is under way, and the name right so far.
NameRight == Rock(Here) /\ ~Skipped(Here) /\ Spelled(Here, Cleaned(Here), off, name)

\* The file entry at hand is that of the record it was read for.
EntryRight == fe = Parsed(Disc.fe[Here.icb])

\* The tracks of an audio CD, as they are listed.
TracksListed == [i \in DOMAIN Tracks[disc] |-> Entry(<<Tracks[disc][i]>>, FALSE)]

(* What is listed while no read has failed, of a disc the parsers can read. *)
TreeInv ==
  /\ pc = "mount" => dirlist = <<>>
  /\ Fit /\ clean =>
       /\ ~Audio /\ pc \notin {"mount", "crashed"} => OnDisc(disc, stack, dirlist, Whole)
       /\ Audio /\ pc = "listed" => dirlist = TracksListed
       /\ IsIso(disc) /\ pc # "mount" => isjoliet = (Vol.vd17 = "joliet")
       /\ pc = "walk" => NameRight
       /\ pc = "entry" => EntryRight

\* What a disc the parsers can read is like.
LEMMA FitIs ==
  ASSUME disc \in Discs, how \in {"drive", "image"}, Fit
  PROVE  /\ Whole \in BOOLEAN
         /\ IsIso(disc) => IsoNamed(disc) /\ IsoProper(disc) /\ (Whole => IsoShort(disc))
         /\ System[disc] = "udf" =>
              /\ Whole /\ OneExtent(disc) /\ UdfShort(disc) /\ UdfNamed(disc)
              /\ UdfProper(disc) /\ UdfMounts(disc, how)
<1>1. Whole = ReadableIn(disc, how)
  BY DEF Whole, Readable
<1>2. Subset[disc] = (System[disc] = "iso" /\ IsoNamed(disc) /\ IsoProper(disc))
  BY DEF Subset
<1>3. CASE System[disc] = "iso"
  <2>1. Whole = (IsoShort(disc) /\ IsoNamed(disc) /\ IsoProper(disc))
    BY <1>1, <1>3, Zenon DEF ReadableIn
  <2>2. Whole \in BOOLEAN /\ IsoNamed(disc) /\ IsoProper(disc) /\ (Whole => IsoShort(disc))
    BY <1>2, <2>1 DEF Fit
  <2>3. QED
    BY <1>3, <2>2
<1>4. CASE System[disc] = "udf"
  <2>1. Whole = (/\ OneExtent(disc) /\ UdfShort(disc) /\ UdfNamed(disc) /\ UdfProper(disc)
                 /\ UdfMounts(disc, how))
    BY <1>1, <1>4 DEF ReadableIn
  <2>2. Whole
    BY <1>2, <1>4 DEF Fit
  <2>3. QED
    BY <1>4, <2>1, <2>2 DEF IsIso
<1>5. CASE System[disc] = "audio"
  <2>1. Whole
    BY <1>1, <1>5 DEF ReadableIn
  <2>2. QED
    BY <1>1, <1>5, <2>1 DEF IsIso, ReadableIn
<1>6. QED
  BY <1>3, <1>4, <1>5, ListAssumption

\* Its directories are as the parsers take for granted.
LEMMA FitTidy ==
  ASSUME disc \in Discs, how \in {"drive", "image"}, Fit, ~Audio
  PROVE  TidyDisc(disc, Whole)
<1>1. CASE IsIso(disc)
  BY <1>1, FitIs, IsoTidy
<1>2. CASE System[disc] = "udf"
  <2>1. Whole = TRUE /\ OneExtent(disc) /\ UdfProper(disc)
    BY <1>2, FitIs
  <2>2. QED
    BY <1>2, <2>1, UdfTidy
<1>3. QED
  BY <1>1, <1>2, ListAssumption DEF Audio, IsIso

\* The innermost call goes on to its next record.
LEMMA AdvancedMoves ==
  ASSUME Parser, pc \notin Between, Top.next <= Len(Top.of)
  PROVE  /\ Top = stack[Len(stack)] /\ Top.next \in 1..Len(Top.of) /\ Here = Top.of[Top.next]
         /\ ~Counts(disc, Here) => Moved(disc, stack, Advanced, {})
         /\ Counts(disc, Here) => Step(disc, stack, Advanced, Top.next)
<1> DEFINE n == Len(stack)
           c == [Top EXCEPT !.next = @ + 1]
<1>1. /\ n \in 1..MaxDepth /\ Top \in Frame(disc)
      /\ Top.of \in Seq(RecordsOf(disc)) /\ Top.next \in 1 .. Len(Top.of) + 1
  BY TopIs
<1>2. stack \in Seq(Frame(disc)) /\ n \in Nat /\ MaxDepth \in Nat
  BY <1>1, ListAssumption DEF Parser, Calls
<1>3. c.of = Top.of /\ c.next = Top.next + 1 /\ c.path = Top.path /\ c.size = Top.size
      /\ c.entry = Top.entry
  BY <1>1 DEF Frame
<1>4. Advanced = [stack EXCEPT ![n] = c] /\ Top = stack[n]
  BY <1>1, <1>2 DEF Advanced, Top
<1> HIDE DEF c, n
<1>5. Len(Advanced) = Len(stack) /\ \A m \in 1..Len(stack) : Advanced[m] = IF m = n THEN c ELSE stack[m]
  BY <1>1, <1>2, <1>4 DEF n
<1>6. Top.next \in 1..Len(Top.of) /\ n \in 1..Len(stack)
  BY <1>1, <1>2 DEF n
<1>7. Passed(disc, c) = Passed(disc, Top) \cup (IF Counts(disc, Here) THEN {Top.next} ELSE {})
  BY <1>3, <1>6 DEF Passed, Counted, Here
<1>8. Top.next \notin Passed(disc, Top) /\ (Counts(disc, Here) => Top.next \in Counted(disc, Top.of))
  BY <1>6 DEF Passed, Counted, Here
<1>9. ASSUME NEW I, I = IF Counts(disc, Here) THEN {Top.next} ELSE {}
      PROVE  Moved(disc, stack, Advanced, I)
  <2>1. SUFFICES ASSUME NEW m \in 1..Len(stack)
                 PROVE  /\ Advanced[m].path = stack[m].path /\ Advanced[m].of = stack[m].of
                        /\ Advanced[m].size = stack[m].size /\ Advanced[m].entry = stack[m].entry
                        /\ Passed(disc, Advanced[m])
                             = Passed(disc, stack[m]) \cup (IF m = Len(stack) THEN I ELSE {})
    BY <1>5 DEF Moved
  <2>2. CASE m = n
    BY <1>3, <1>4, <1>5, <1>7, <1>9, <2>2 DEF n
  <2>3. CASE m # n
    BY <1>5, <2>3 DEF n
  <2>4. QED
    BY <2>2, <2>3
<1>10. ASSUME ~Counts(disc, Here) PROVE Moved(disc, stack, Advanced, {})
  BY <1>9, <1>10
<1>11. ASSUME Counts(disc, Here) PROVE Step(disc, stack, Advanced, Top.next)
  <2>1. Moved(disc, stack, Advanced, {Top.next})
    BY <1>9, <1>11
  <2>2. /\ Len(stack) >= 1 /\ Top.next \in Counted(disc, stack[Len(stack)].of)
        /\ Top.next \notin Passed(disc, stack[Len(stack)])
    BY <1>2, <1>4, <1>6, <1>8, <1>11 DEF n
  <2>3. QED
    BY <2>1, <2>2 DEF Step
<1>12. QED
  BY <1>4, <1>6, <1>10, <1>11 DEF Here, n

\* Appending whatever it is.
LEMMA AppendsAny ==
  ASSUME NEW S, NEW s \in Seq(S), NEW e
  PROVE  /\ Len(Append(s, e)) = Len(s) + 1 /\ Append(s, e)[Len(s) + 1] = e
         /\ \A i \in 1..Len(s) : Append(s, e)[i] = s[i]
<1>1. s \in Seq(S \cup {e}) /\ e \in S \cup {e}
  OBVIOUS
<1>2. QED
  BY <1>1, Appends

\* What is known of the record an ISO disc's innermost call is at.
LEMMA HereIso ==
  ASSUME Parser, pc \notin Between, IsIso(disc), Fit, Calling(disc, stack), Top.next <= Len(Top.of)
  PROVE  /\ Here \in Record /\ (Counts(disc, Here) <=> ~Own(Here))
         /\ Own(Here) => Here.dir
         /\ ~Own(Here) => ~Unnamed(Here, TrueName(disc, Here)) /\ (Here.dir => Here.lba > 0)
         /\ Rocky(disc, Here) => NamesIn(Here) \subseteq {2} /\ (Own(Here) => NamesIn(Here) = {})
         /\ ~Own(Here) => CleanFileName(Vol.vd17 = "joliet", Here) = Here.name
         /\ Vol.vd17 # "joliet" /\ Here.name # ".." /\ HasRock(Here) => WalkEnds(disc, Top.of, Top.next)
<1>1. disc \in Discs /\ IsoNamed(disc) /\ IsoProper(disc)
  BY FitIs DEF Parser
<1>2. Here \in Record
  BY HereIs DEF RecordsOf, IsIso
<1>3. Top.next \in 1..Len(Top.of) /\ Here = Top.of[Top.next] /\ Top.of \in Seq(RecordsOf(disc))
  BY AdvancedMoves, TopIs
<1>4. PICK x : CallIs(disc, Top, x)
  <2>1. Len(stack) \in 1..Len(stack)
    BY TopIs, ListAssumption
  <2>2. QED
    BY <2>1 DEF Calling, Top
<1>5. PICK at : at = x.at /\ Top.of = Sectors(disc, at)[1]
  BY <1>4 DEF CallIs, ReadAt
<1>6. at \in DOMAIN Iso[disc].sectors
  <2>1. SUFFICES ASSUME at \notin DOMAIN Iso[disc].sectors PROVE FALSE
    OBVIOUS
  <2>2. Top.of = <<>>
    BY <1>5, <2>1 DEF Sectors
  <2>3. QED
    BY <1>3, <2>2
<1>7. PICK z \in Records(disc, at) : RecordAt(disc, at, z) = Here
  <2>1. \A j \in 1..Len(Top.of) :
          <<1, j>> \in Records(disc, at) /\ RecordAt(disc, at, <<1, j>>) = Top.of[j]
    <3>1. \A j \in 1..Len(Sectors(disc, at)[1]) :
            <<1, j>> \in Records(disc, at) /\ RecordAt(disc, at, <<1, j>>) = Sectors(disc, at)[1][j]
      BY <1>1, <1>6, IsoRecords, Zenon
    <3>2. QED
      BY <1>5, <3>1, Zenon
  <2>2. <<1, Top.next>> \in Records(disc, at) /\ RecordAt(disc, at, <<1, Top.next>>) = Here
    BY <1>3, <2>1
  <2>3. QED
    BY <2>2
<1>8. /\ Own(Here) => Here.dir
      /\ ~Own(Here) => ~Unnamed(Here, TrueName(disc, Here)) /\ (Here.dir => Here.lba > 0)
  BY <1>1, <1>6, <1>7, Zenon DEF IsoProper, Unnamed
<1>9. /\ Rocky(disc, Here) => NamesIn(Here) \subseteq {2} /\ (Own(Here) => NamesIn(Here) = {})
      /\ ~Own(Here) => CleanFileName(Vol.vd17 = "joliet", Here) = Here.name
  BY <1>1, <1>6, <1>7, Zenon DEF IsoNamed, Vol
<1>10. ASSUME Vol.vd17 # "joliet", Here.name # "..", HasRock(Here)
       PROVE  WalkEnds(disc, Top.of, Top.next)
  <2>1. IsoWalks(disc)
    BY <1>1, <1>10 DEF IsoNamed, Vol
  <2>2. DOMAIN Top.of = 1..Len(Top.of)
    BY <1>3
  <2>3. QED
    BY <1>3, <1>5, <1>6, <1>10, <2>1, <2>2 DEF IsoWalks
<1>11. QED
  BY <1>2, <1>8, <1>9, <1>10 DEF Counts

\* A record is listed under its name, and its directory entered.
LEMMA IsoLists ==
  ASSUME Parser, Parser', pc \notin Between, IsIso(disc), Fit, clean' = TRUE, Top.next <= Len(Top.of),
         OnDisc(disc, stack, dirlist, Whole), disc' = disc, pc' = "parse",
         NEW called, List(Here, called),
         Own(Here) => Unnamed(Here, called), ~Own(Here) => called = TrueName(disc, Here)
  PROVE  OnDisc(disc, stack', dirlist', Whole)
<1> DEFINE path == Append(Top.path, called)
           i == Top.next
           e == ItemOf(disc, stack[Len(stack)], i)
<1>1. TidyDisc(disc, Whole) /\ Whole \in BOOLEAN
  BY FitTidy, FitIs DEF Parser, IsIso, Audio
<1>2. Calls(disc, stack) /\ Listable(dirlist)
  BY DEF Parser
<1>3. Calling(disc, stack)
  BY DEF OnDisc
<1>4. CASE Own(Here)
  <2>1. Unnamed(Here, called)
    BY <1>4
  <2>2. dirlist' = dirlist /\ stack' = Advanced
    BY <2>1, Zenon DEF List, Unnamed
  <2>3. Moved(disc, stack, Advanced, {})
    BY <1>3, <1>4, HereIso, AdvancedMoves
  <2>4. Len(stack) \in Nat
    BY TopIs, ListAssumption
  <2>5. QED
    BY <1>1, <1>2, <2>2, <2>3, <2>4, SkipKeeps
<1>5. CASE ~Own(Here)
  <2>1. /\ Step(disc, stack, Advanced, i) /\ Top = stack[Len(stack)] /\ Here = Top.of[i]
        /\ stack[Len(stack)].of[i] = Here
    BY <1>3, <1>5, HereIso, AdvancedMoves
  <2>2. called = TrueName(disc, Here) /\ Here \in Record
        /\ ~Unnamed(Here, called) /\ (Here.dir => Here.lba > 0)
    BY <1>3, <1>5, HereIso
  <2>3. Said(disc, Here) = [name |-> called, isdir |-> Here.dir, at |-> Here.lba]
    BY <2>2 DEF Said
  <2>4. e = Entry(path, Here.dir)
    <3>1. PICK r : r = Said(disc, Top.of[i]) /\ r = Said(disc, Here)
      BY <2>1
    <3>2. r.name = called /\ r.isdir = Here.dir
      BY <2>3, <3>1
    <3>3. ItemOf(disc, Top, i) = Entry(Append(Top.path, r.name), r.isdir)
      BY <3>1, Zenon DEF ItemOf, PathOf
    <3>4. QED
      BY <2>1, <3>2, <3>3, Zenon
  <2> HIDE DEF path, e, i
  <2>5. dirlist' = Append(dirlist, e)
    BY <2>2, <2>4, Zenon DEF List, path
  <2>6. e.path = path /\ e.isdir = Here.dir
    BY <2>4 DEF Entry
  <2>7. CASE ~Here.dir
    <3>1. stack' = Advanced
      BY <2>7, Zenon DEF List
    <3>2. e.isdir = FALSE
      BY <2>2, <2>6, <2>7 DEF Record
    <3>3. QED
      BY <1>1, <1>2, <2>1, <2>5, <3>1, <3>2, FileKeeps DEF e
  <2>8. CASE Here.dir
    <3> DEFINE of == Sectors(disc, Here.lba)[1]
    <3>1. PICK got : /\ ReadInto(Len(stack) + 1, of, got)
                     /\ stack' = Append(Advanced, Call(got, path, 0, <<>>))
      BY <2>2, <2>8, Zenon DEF List, Unnamed, path
    <3>2. got = of
      BY <3>1 DEF ReadInto
    <3> DEFINE c == Call(got, path, 0, <<>>)
    <3>3. Enters(disc, Advanced, stack', c, dirlist, dirlist', e)
      <4>1. stack' \in Seq(Frame(disc))
        BY DEF Parser, Calls
      <4>2. /\ Len(stack') = Len(Advanced) + 1 /\ stack'[Len(Advanced) + 1] = c
            /\ \A m \in 1..Len(Advanced) : stack'[m] = Advanced[m]
        <5>1. Advanced \in Seq(Frame(disc))
          BY AdvancedOk DEF Calls
        <5>2. QED
          BY <3>1, <5>1, AppendsAny, ZenonT(30)
      <4>3. c.path = e.path /\ c.next = 1 /\ c.entry = <<>>
        BY <2>6 DEF Call
      <4>4. QED
        BY <2>5, <4>1, <4>2, <4>3 DEF Enters
    <3>4. c.of = ReadAt(disc, Said(disc, stack[Len(stack)].of[i]).at)
      <4>1. c.of = Sectors(disc, Here.lba)[1]
        BY <3>2 DEF Call
      <4>2. Said(disc, stack[Len(stack)].of[i]).at = Here.lba
        <5>1. Said(disc, Here).at = Here.lba
          BY <2>3
        <5>2. QED
          BY <2>1, <5>1, Zenon
      <4>3. QED
        BY <4>1, <4>2 DEF ReadAt
    <3>5. e.isdir /\ System[disc] # "udf"
      BY <2>6, <2>8 DEF IsIso
    <3> HIDE DEF c, of
    <3>6. QED
      BY <1>1, <1>2, <2>1, <3>3, <3>4, <3>5, DirectoryKeeps DEF e
  <2>9. QED
    BY <2>7, <2>8
<1>6. QED
  BY <1>4, <1>5

\* A disc is what it was: what is listed of it is right if it is now.
LEMMA TreeGoes ==
  ASSUME disc' = disc, how' = how, pc' # "mount",
         Fit /\ clean' =>
           /\ ~Audio /\ pc' # "crashed" => OnDisc(disc, stack', dirlist', Whole)
           /\ Audio /\ pc' = "listed" => dirlist' = TracksListed
           /\ IsIso(disc) => isjoliet' = (Vol.vd17 = "joliet")
           /\ pc' = "walk" => NameRight'
           /\ pc' = "entry" => EntryRight'
  PROVE  TreeInv'
<1>1. /\ Whole' = Whole /\ Fit' = Fit /\ Audio' = Audio /\ Vol' = Vol
      /\ TracksListed' = TracksListed /\ IsIso(disc)' = IsIso(disc)
  BY DEF Whole, Fit, Audio, Vol, TracksListed, IsIso
<1>2. OnDisc(disc, stack, dirlist, Whole)' = OnDisc(disc, stack', dirlist', Whole)
  BY <1>1
<1>3. QED
  BY <1>1, <1>2 DEF TreeInv

-----------------------------------------------------------------------------
(* The parser of ISO9660 directories *)

\* Of an ISO disc, while a read may not have failed.
LEMMA IsoGoes ==
  ASSUME Parser, TreeInv, disc' = disc, how' = how, IsIso(disc), pc # "mount", isjoliet' = isjoliet,
         clean' => clean, pc' \in {"parse", "walk", "listed"},
         Fit /\ clean' /\ clean /\ (pc # "crashed" => OnDisc(disc, stack, dirlist, Whole)) /\ isjoliet = (Vol.vd17 = "joliet") =>
           OnDisc(disc, stack', dirlist', Whole) /\ (pc' = "walk" => NameRight')
  PROVE  TreeInv'
<1>1. ~Audio
  BY DEF Audio, IsIso
<1>2. ASSUME Fit, clean' PROVE /\ OnDisc(disc, stack', dirlist', Whole) /\ (pc' = "walk" => NameRight')
                               /\ isjoliet' = (Vol.vd17 = "joliet")
  <2>1. clean /\ (pc # "crashed" => OnDisc(disc, stack, dirlist, Whole))
        /\ isjoliet = (Vol.vd17 = "joliet")
    BY <1>1, <1>2 DEF TreeInv
  <2>2. QED
    BY <1>2, <2>1
<1>3. QED
  BY <1>1, <1>2, TreeGoes

\* The names of a directory's records of itself and of its parent.
LEMMA OwnIs ==
  ASSUME NEW r \in Record, Own(r), NEW joliet
  PROVE  /\ CleanFileName(joliet, r) \in {"", "."}
         /\ r.name = ".." /\ ~joliet => CleanFileName(joliet, r) = "."
<1> DEFINE ends  == Stops \cup {Semicolon}
           bytes == IF joliet /\ r.nlen = 1 THEN <<>> ELSE Low(r.name)
           first == Len(UpTo(bytes, Stops)) + 1
           stop  == IF first > Len(bytes) THEN 0 ELSE bytes[first]
<1>1. Low(".") = <<0>> /\ Low("..") = <<1>>
  <2>1. Chars["."] = <<0>> /\ Chars[".."] = <<1>>
    BY OwnAssumption
  <2>2. [i \in DOMAIN <<0>> |-> <<0>>[i] % 256] = <<0>>
    OBVIOUS
  <2>3. [i \in DOMAIN <<1>> |-> <<1>>[i] % 256] = <<1>>
    OBVIOUS
  <2>4. QED
    BY <2>1, <2>2, <2>3, Zenon DEF Low
<1>2. 0 \in Stops /\ 1 \in Stops /\ 0 \in ends
  BY DEF Stops
<1>3. bytes = <<>> \/ bytes = <<0>> \/ bytes = <<1>>
  BY <1>1, Zenon DEF Own
<1>4. UpTo(bytes, Stops) = <<>>
  BY <1>2, <1>3, NothingStays, Zenon
<1>5. CleanFileName(joliet, r) = CASE stop = 1 -> "." [] stop = 2 -> ".." [] OTHER -> Spelt[UpTo(bytes, ends)]
  BY Zenon DEF CleanFileName
<1> HIDE DEF bytes, ends
<1>6. first = 1
  BY <1>4
<1>7. bytes = <<>> \/ bytes = <<0>> => stop = 0
  BY <1>6
<1>8. bytes = <<1>> => stop = 1
  BY <1>6
<1> HIDE DEF stop, first
<1>9. CASE bytes = <<>> \/ bytes = <<0>>
  <2>1. UpTo(bytes, ends) = <<>>
    BY <1>2, <1>9, NothingStays, Zenon
  <2>2. stop # 1 /\ stop # 2
    BY <1>7, <1>9
  <2>3. CleanFileName(joliet, r) = Spelt[UpTo(bytes, ends)]
    BY <1>5, <2>2
  <2>4. CleanFileName(joliet, r) = ""
    BY <2>1, <2>3, EmptyAssumption, Zenon
  <2>5. bytes # <<1>>
    BY <1>9
  <2>6. ~(r.name = ".." /\ ~joliet)
    BY <1>1, <2>5, Zenon DEF bytes
  <2>7. QED
    BY <2>4, <2>6
<1>10. CASE bytes = <<1>>
  BY <1>5, <1>8, <1>10
<1>11. QED
  BY <1>3, <1>9, <1>10

LEMMA PlainIs ==
  ASSUME NEW r \in Record
  PROVE  /\ Own(r) /\ r.dir /\ ~Skipped(r) => Unnamed(r, Cleaned(r))
         /\ ~isjoliet /\ ~Skipped(r) => r.name # ".."
<1>1. Own(r) => Cleaned(r) \in {"", "."}
  BY OwnIs DEF Cleaned
<1>2. ~isjoliet /\ r.name = ".." => Cleaned(r) = "."
  BY OwnIs DEF Cleaned, Own
<1>3. QED
  BY <1>1, <1>2 DEF Skipped, Unnamed

\* The names of other records stay what they are.
LEMMA KeptIs ==
  ASSUME NEW r, isjoliet = (Vol.vd17 = "joliet"),
         ~Own(r) => CleanFileName(Vol.vd17 = "joliet", r) = r.name
  PROVE  /\ ~Own(r) => Cleaned(r) = r.name
         /\ Skipped(r) => Own(r)
<1>1. ~Own(r) => Cleaned(r) = r.name
  BY Zenon DEF Cleaned
<1>2. QED
  BY <1>1 DEF Skipped, Own

\* A record's fields follow each other, and end within it.
LEMMA FieldsRise ==
  ASSUME NEW r \in Record
  PROVE  /\ \A k \in 1 .. Len(r.rr) + 1 : FieldAt(r, k) \in Nat /\ FieldAt(r, k) > 0
         /\ \A k, j \in 1 .. Len(r.rr) + 1 : k < j => FieldAt(r, k) < FieldAt(r, j)
         /\ \A k \in 1..Len(r.rr) : FieldAt(r, k + 1) = FieldAt(r, k) + r.rr[k].len
         /\ rd_len(r) \in Nat /\ rd_len(r) >= FieldsEnd(r)
         /\ FieldsEnd(r) % 2 = 0 => rd_len(r) = FieldsEnd(r)
         /\ FieldsEnd(r) = FieldAt(r, Len(r.rr) + 1) /\ Len(r.rr) \in Nat
<1> DEFINE lens == [j \in 1..Len(r.rr) |-> r.rr[j].len]
<1>1. r.nlen \in 1..222 /\ r.rr \in Seq(Field) /\ Len(r.rr) \in Nat
  BY DEF Record
<1>2. \A j \in 1..Len(r.rr) : r.rr[j].len \in Nat /\ r.rr[j].len > 0
  <2>1. SUFFICES ASSUME NEW j \in 1..Len(r.rr) PROVE r.rr[j].len \in Nat /\ r.rr[j].len > 0
    OBVIOUS
  <2>2. r.rr[j] \in Field
    BY <1>1
  <2>3. QED
    BY <2>2, FieldIs
<1>3. lens \in Seq(Nat) /\ Len(lens) = Len(r.rr) /\ \A j \in 1..Len(lens) : lens[j] > 0 /\ lens[j] = r.rr[j].len
  BY <1>1, <1>2
<1>4. Body(r) \in Nat /\ Body(r) > 0
  <2>1. PICK n \in 1..222 : n = r.nlen
    BY <1>1, Zenon
  <2>2. CASE n % 2 = 0
    BY <2>1, <2>2 DEF Body
  <2>3. CASE n % 2 # 0
    BY <2>1, <2>3 DEF Body
  <2>4. QED
    BY <2>2, <2>3
<1>5. \A k : FieldAt(r, k) = Position(Body(r), lens, k)
  BY DEF FieldAt
<1> HIDE DEF lens
<1>6. ASSUME NEW i \in 1 .. Len(lens) + 1
      PROVE  /\ FieldAt(r, i) \in Nat
             /\ \A k \in i .. Len(lens) + 1 :
                  FieldAt(r, i) <= FieldAt(r, k) /\ (i < k => FieldAt(r, i) < FieldAt(r, k))
  BY <1>3, <1>4, <1>5, PositionsRise
<1>7. FieldAt(r, 1) = Body(r) /\ \A k \in 1..Len(lens) : FieldAt(r, k + 1) = FieldAt(r, k) + lens[k]
  BY <1>3, <1>5, PositionIs
<1>8. \A k, j \in 1 .. Len(r.rr) + 1 : k < j => FieldAt(r, k) < FieldAt(r, j)
  BY <1>1, <1>3, <1>6
<1>9. \A k \in 1 .. Len(r.rr) + 1 : FieldAt(r, k) \in Nat /\ FieldAt(r, k) > 0
  <2>1. SUFFICES ASSUME NEW k \in 1 .. Len(r.rr) + 1 PROVE FieldAt(r, k) \in Nat /\ FieldAt(r, k) > 0
    OBVIOUS
  <2>2. FieldAt(r, k) \in Nat
    BY <1>3, <1>6
  <2>3. 1 \in 1 .. Len(lens) + 1 /\ k \in 1 .. Len(lens) + 1
    BY <1>1, <1>3
  <2>4. FieldAt(r, 1) <= FieldAt(r, k)
    BY <1>6, <2>3
  <2>5. QED
    BY <1>4, <1>7, <2>2, <2>4
<1>10. /\ rd_len(r) \in Nat /\ rd_len(r) >= FieldsEnd(r)
       /\ FieldsEnd(r) % 2 = 0 => rd_len(r) = FieldsEnd(r)
       /\ FieldsEnd(r) = FieldAt(r, Len(r.rr) + 1)
  <2>1. PICK n \in Nat : n = FieldsEnd(r) /\ n = FieldAt(r, Len(r.rr) + 1)
    BY <1>1, <1>9 DEF FieldsEnd
  <2>2. rd_len(r) = n + (n % 2)
    BY <2>1 DEF rd_len
  <2>3. n % 2 \in 0..1
    OBVIOUS
  <2>4. QED
    BY <2>1, <2>2, <2>3
<1>11. QED
  BY <1>1, <1>3, <1>7, <1>8, <1>9, <1>10

\* No two fields begin at the same place.
LEMMA FieldsDiffer ==
  ASSUME NEW r \in Record, NEW j \in 1 .. Len(r.rr) + 1, NEW k \in 1 .. Len(r.rr) + 1,
         FieldAt(r, j) = FieldAt(r, k)
  PROVE  j = k
<1>1. Len(r.rr) \in Nat /\ FieldAt(r, j) \in Nat /\ FieldAt(r, k) \in Nat
  BY FieldsRise
<1>2. j < k => FieldAt(r, j) < FieldAt(r, k)
  BY FieldsRise
<1>3. k < j => FieldAt(r, k) < FieldAt(r, j)
  BY FieldsRise
<1>4. QED
  BY <1>1, <1>2, <1>3

\* Behind a record's end a name is complete.
LEMMA SpelledIs ==
  ASSUME NEW r \in Record, NEW plain, NEW o, NEW n, Spelled(r, plain, o, n), o >= rd_len(r)
  PROVE  n = FinalName(r, plain)
<1>1. SUFFICES ASSUME NEW k \in 2 .. Len(r.rr) + 1, o = FieldAt(r, k) - FieldAt(r, 2) PROVE FALSE
  BY DEF Spelled
<1>2. Len(r.rr) \in Nat /\ k \in 1 .. Len(r.rr) + 1 /\ 2 \in 1 .. Len(r.rr) + 1
      /\ Len(r.rr) + 1 \in 1 .. Len(r.rr) + 1
  BY FieldsRise
<1>3. FieldAt(r, k) \in Nat /\ FieldAt(r, 2) \in Nat /\ FieldAt(r, 2) > 0
  BY <1>2, FieldsRise
<1>4. FieldAt(r, Len(r.rr) + 1) \in Nat /\ FieldAt(r, k) <= FieldAt(r, Len(r.rr) + 1)
  BY <1>2, FieldsRise
<1>5. rd_len(r) \in Nat /\ rd_len(r) >= FieldAt(r, Len(r.rr) + 1)
  BY FieldsRise
<1>6. QED
  BY <1>1, <1>3, <1>4, <1>5

\* That a name is found on the way stays so.
LEMMA NameStays ==
  ASSUME stack' = stack, isjoliet' = isjoliet, Rock(Here), ~Skipped(Here),
         Spelled(Here, Cleaned(Here), off', name')
  PROVE  NameRight'
<1>1. Here' = Here /\ Top' = Top
  BY DEF Here, Top
<1>2. Cleaned(Here)' = Cleaned(Here) /\ Rock(Here)' = Rock(Here)
  BY <1>1, Zenon DEF Cleaned, Rock
<1>3. Skipped(Here)' <=> Skipped(Here)
  BY <1>2 DEF Skipped
<1>4. QED
  BY <1>1, <1>2, <1>3, Zenon DEF NameRight

\* The record for a directory itself, or its parent, is passed over.
LEMMA SkipRecordKeeps ==
  ASSUME Parser, Parser', TreeInv, SkipRecord
  PROVE  TreeInv'
<1>1. /\ AtRecord /\ Skipped(Here) /\ stack' = Advanced /\ disc' = disc /\ how' = how
      /\ pc' = pc /\ dirlist' = dirlist /\ clean' = clean /\ isjoliet' = isjoliet
  BY DEF SkipRecord, shared, reads, isovars
<1>2. pc = "parse" /\ pc \notin Between /\ IsIso(disc) /\ Top.next <= Len(Top.of)
  BY <1>1 DEF AtRecord, Parsing, Between, IsIso
<1>3. ASSUME Fit, OnDisc(disc, stack, dirlist, Whole), isjoliet = (Vol.vd17 = "joliet")
      PROVE  OnDisc(disc, stack', dirlist', Whole)
  <2>1. Calling(disc, stack)
    BY <1>3 DEF OnDisc
  <2>2. Here \in Record /\ (Counts(disc, Here) <=> ~Own(Here))
    BY <1>2, <1>3, <2>1, HereIso
  <2>6. Own(Here)
    BY <1>1, <1>2, <1>3, <2>1, HereIso, KeptIs
  <2>3. Moved(disc, stack, Advanced, {})
    BY <1>1, <1>2, <2>2, <2>6, AdvancedMoves
  <2>4. Len(stack) \in Nat /\ Whole \in BOOLEAN
    BY <1>2, <1>3, TopIs, FitIs, ListAssumption DEF Parser
  <2>5. QED
    BY <1>1, <1>3, <2>3, <2>4, SkipKeeps
<1>4. QED
  BY <1>1, <1>2, <1>3, IsoGoes

\* A record without Rock Ridge is listed.
LEMMA ListRecordKeeps ==
  ASSUME Parser, Parser', TreeInv, ListRecord
  PROVE  TreeInv'
<1>1. /\ AtRecord /\ ~Skipped(Here) /\ ~Rock(Here) /\ List(Here, Cleaned(Here))
      /\ isjoliet' = isjoliet
  BY DEF ListRecord, isovars
<1>2. /\ pc = "parse" /\ pc \notin Between /\ IsIso(disc) /\ Top.next <= Len(Top.of)
  BY <1>1 DEF AtRecord, Parsing, Between, IsIso
<1>3. disc' = disc /\ how' = how /\ pc' = "parse" /\ (clean' => clean)
  BY <1>1, Zenon DEF List, shared, reads, ReadInto
<1>4. ASSUME Fit, clean', OnDisc(disc, stack, dirlist, Whole), isjoliet = (Vol.vd17 = "joliet")
      PROVE  OnDisc(disc, stack', dirlist', Whole)
  <2>1. Calling(disc, stack)
    BY <1>4 DEF OnDisc
  <2>2. Here \in Record
    BY <1>2, <1>4, <2>1, HereIso
  <2>3. Own(Here) => Here.dir
    BY <1>2, <1>4, <2>1, HereIso
  <2>4. Own(Here) => Unnamed(Here, Cleaned(Here))
    BY <1>1, <2>2, <2>3, PlainIs
  <2>5. ~Rocky(disc, Here)
    BY <1>1, <1>4 DEF Rocky, Rock, Vol
  <2>6. TrueName(disc, Here) = Here.name
    BY <2>5 DEF TrueName
  <2>7. ~Own(Here) => Cleaned(Here) = TrueName(disc, Here)
    BY <1>2, <1>4, <2>1, <2>6, HereIso, KeptIs
  <2>8. clean' = TRUE
    BY <1>4 DEF Parser, Reading
  <2>9. PICK called : called = Cleaned(Here)
    OBVIOUS
  <2>10. List(Here, called)
    BY <1>1, <2>9, Zenon
  <2>11. QED
    BY <1>2, <1>3, <1>4, <2>4, <2>7, <2>8, <2>9, <2>10, IsoLists
<1>5. QED
  BY <1>1, <1>2, <1>3, <1>4, IsoGoes

\* A walk over a record's fields begins.
LEMMA StartWalkKeeps ==
  ASSUME Parser, Parser', TreeInv, StartWalk
  PROVE  TreeInv'
<1>1. /\ AtRecord /\ ~Skipped(Here) /\ Rock(Here) /\ pc' = "walk" /\ off' = 0
      /\ name' = Cleaned(Here) /\ disc' = disc /\ how' = how /\ stack' = stack
      /\ dirlist' = dirlist /\ clean' = clean /\ isjoliet' = isjoliet
  BY DEF StartWalk, shared, reads
<1>2. pc = "parse" /\ pc \notin Between /\ IsIso(disc) /\ Top.next <= Len(Top.of) /\ disc \in Discs
  BY <1>1 DEF AtRecord, Parsing, Between, IsIso, Parser
<1>3. Here \in Record
  BY <1>2, HereIs, SectorsOk DEF IsIso
<1>4. Spelled(Here, Cleaned(Here), off', name')
  <2>1. Here.rr # <<>> /\ Here.rr \in Seq(Field)
    BY <1>1, <1>3 DEF Rock, HasRock, Record
  <2>2. 2 \in 2 .. Len(Here.rr) + 1 /\ 2 \in 1 .. Len(Here.rr) + 1
    BY <2>1
  <2>3. FieldAt(Here, 2) \in Nat
    BY <1>3, <2>2, FieldsRise
  <2>4. off' = FieldAt(Here, 2) - FieldAt(Here, 2)
    BY <1>1, <2>3
  <2>5. QED
    BY <1>1, <2>2, <2>4, Zenon DEF Spelled
<1>5. NameRight'
  BY <1>1, <1>4, NameStays
<1>6. QED
  BY <1>1, <1>2, <1>5, IsoGoes

\* And ends: the record is listed under the name found.
LEMMA EndWalkKeeps ==
  ASSUME Parser, Parser', TreeInv, EndWalk
  PROVE  TreeInv'
<1>1. pc = "walk" /\ off >= rd_len(Here) /\ List(Here, name) /\ isjoliet' = isjoliet
  BY DEF EndWalk
<1>2. pc \notin Between /\ IsIso(disc) /\ Top.next <= Len(Top.of)
  BY <1>1 DEF Parser, Between, IsIso
<1>3. disc' = disc /\ how' = how /\ pc' = "parse" /\ (clean' => clean)
  BY <1>1, Zenon DEF List, shared, reads, ReadInto
<1>4. ASSUME Fit, clean', clean, OnDisc(disc, stack, dirlist, Whole), isjoliet = (Vol.vd17 = "joliet")
      PROVE  OnDisc(disc, stack', dirlist', Whole)
  <2>1. Calling(disc, stack)
    BY <1>4 DEF OnDisc
  <2>2. Here \in Record
    BY <1>2, <1>4, <2>1, HereIso
  <2>3. Rock(Here) /\ ~Skipped(Here) /\ Spelled(Here, Cleaned(Here), off, name)
    BY <1>1, <1>4 DEF TreeInv, NameRight
  <2>4. name = FinalName(Here, Cleaned(Here))
    BY <1>1, <2>2, <2>3, SpelledIs
  <2>5. Rocky(disc, Here)
    BY <1>4, <2>3 DEF Rocky, Rock, Vol
  <2>6. NamesIn(Here) \subseteq {2} /\ (Own(Here) => NamesIn(Here) = {}) /\ (Own(Here) => Here.dir)
    BY <1>2, <1>4, <2>1, <2>5, HereIso
  <2>7. Own(Here) => Unnamed(Here, name)
    <3>1. SUFFICES ASSUME Own(Here) PROVE Unnamed(Here, name)
      OBVIOUS
    <3>2. name = Cleaned(Here)
      BY <2>4, <2>6, <3>1 DEF FinalName
    <3>3. Unnamed(Here, Cleaned(Here))
      BY <2>2, <2>3, <2>6, <3>1, PlainIs
    <3>4. QED
      BY <3>2, <3>3, Zenon
  <2>8. ~Own(Here) => name = TrueName(disc, Here)
    <3>1. SUFFICES ASSUME ~Own(Here) PROVE name = TrueName(disc, Here)
      OBVIOUS
    <3>2. CASE NamesIn(Here) = {}
      <4>1. Cleaned(Here) = Here.name
        BY <1>2, <1>4, <2>1, <3>1, HereIso, KeptIs
      <4>2. QED
        BY <2>4, <3>2, <4>1 DEF FinalName, TrueName
    <3>3. CASE NamesIn(Here) # {}
      <4>1. NamesIn(Here) = {2}
        BY <2>6, <3>3
      <4>2. (CHOOSE k \in NamesIn(Here) : TRUE) = 2
        BY <4>1
      <4>3. QED
        BY <2>4, <2>5, <3>3, <4>2 DEF FinalName, TrueName
    <3>4. QED
      BY <3>2, <3>3
  <2>9. clean' = TRUE
    BY <1>4 DEF Parser, Reading
  <2>10. PICK called : called = name
    OBVIOUS
  <2>11. List(Here, called)
    BY <1>1, <2>10, Zenon
  <2>12. QED
    BY <1>2, <1>3, <1>4, <2>7, <2>8, <2>9, <2>10, <2>11, IsoLists
<1>5. QED
  BY <1>1, <1>2, <1>3, <1>4, IsoGoes

\* A sector's records follow each other.
LEMMA StartsRise ==
  ASSUME NEW of \in Seq(Record)
  PROVE  /\ \A i \in 1 .. Len(of) + 1 : StartOf(of, i) \in Nat
         /\ \A i, j \in 1 .. Len(of) + 1 : i < j => StartOf(of, i) < StartOf(of, j)
         /\ \A i \in 1..Len(of) : StartOf(of, i + 1) = StartOf(of, i) + rd_len(of[i])
<1> DEFINE lens == [j \in 1..Len(of) |-> rd_len(of[j])]
<1>1. \A j \in 1..Len(of) : rd_len(of[j]) \in Nat /\ rd_len(of[j]) > 0
  <2>1. SUFFICES ASSUME NEW j \in 1..Len(of) PROVE rd_len(of[j]) \in Nat /\ rd_len(of[j]) > 0
    OBVIOUS
  <2>2. PICK r \in Record : r = of[j]
    OBVIOUS
  <2>3. Len(r.rr) \in Nat /\ rd_len(r) \in Nat /\ rd_len(r) >= FieldAt(r, Len(r.rr) + 1)
    BY FieldsRise
  <2>4. FieldAt(r, Len(r.rr) + 1) \in Nat /\ FieldAt(r, Len(r.rr) + 1) > 0
    BY <2>3, FieldsRise
  <2>5. QED
    BY <2>2, <2>3, <2>4
<1>2. /\ lens \in Seq(Nat) /\ Len(lens) = Len(of)
      /\ \A j \in 1..Len(lens) : lens[j] > 0 /\ lens[j] = rd_len(of[j])
  BY <1>1
<1>3. \A k : StartOf(of, k) = Position(0, lens, k)
  BY DEF StartOf
<1> HIDE DEF lens
<1>4. ASSUME NEW i \in 1 .. Len(lens) + 1
      PROVE  /\ StartOf(of, i) \in Nat
             /\ \A k \in i .. Len(lens) + 1 : i < k => StartOf(of, i) < StartOf(of, k)
  BY <1>2, <1>3, PositionsRise
<1>5. \A k \in 1..Len(lens) : StartOf(of, k + 1) = StartOf(of, k) + lens[k]
  <2>1. \A k \in 1..Len(lens) : Position(0, lens, k + 1) = Position(0, lens, k) + lens[k]
    BY <1>2, PositionIs
  <2>2. QED
    BY <1>3, <2>1
<1>6. QED
  BY <1>2, <1>4, <1>5

\* Behind a record whose walk ends is the next, where the walk takes one byte for a length.
LEMMA NextIs ==
  ASSUME NEW of \in Seq(Record), NEW i \in 1..Len(of), i < Len(of),
         NEW p, p = StartOf(of, i) + rd_len(of[i])
  PROVE  ~Within(of, p) /\ LengthAt(of, p) = {of[i + 1].lba % 256}
<1>1. i + 1 \in 1..Len(of) /\ p = StartOf(of, i + 1) /\ DOMAIN of = 1..Len(of)
  BY StartsRise
<1>2. Begins(of, p) = {i + 1}
  <2>1. i + 1 \in Begins(of, p)
    BY <1>1 DEF Begins
  <2>2. ASSUME NEW j \in Begins(of, p) PROVE j = i + 1
    <3>1. j \in 1..Len(of) /\ StartOf(of, j) = StartOf(of, i + 1)
      BY <1>1 DEF Begins
    <3>2. j \in 1 .. Len(of) + 1 /\ i + 1 \in 1 .. Len(of) + 1
      BY <1>1, <3>1
    <3>3. StartOf(of, j) \in Nat /\ StartOf(of, i + 1) \in Nat
      BY <3>2, StartsRise
    <3>4. ~(j < i + 1) /\ ~(i + 1 < j)
      BY <3>1, <3>2, <3>3, StartsRise
    <3>5. QED
      BY <3>2, <3>4
  <2>3. QED
    BY <2>1, <2>2
<1>3. ~Within(of, p)
  BY <1>2 DEF Within
<1>4. LengthAt(of, p) = {of[j].lba % 256 : j \in Begins(of, p)}
  BY <1>2, <1>3 DEF LengthAt
<1>5. QED
  BY <1>2, <1>3, <1>4

\* A field is read, or what comes behind the last: what is found stays right.
LEMMA FieldSpells ==
  ASSUME NEW r \in Record, NamesIn(r) \subseteq {2}, NEW plain, NEW o, NEW n,
         Spelled(r, plain, o, n), ~(o >= rd_len(r)),
         NEW o2, NEW n2,
         \A k \in 2..Len(r.rr) : FieldAt(r, k) = Place(r, o) =>
            o2 = o + r.rr[k].len /\ n2 = (IF r.rr[k].id = "NM" THEN NameFrom(r, k) ELSE n),
         (\A k \in 2..Len(r.rr) : FieldAt(r, k) # Place(r, o)) /\ Place(r, o) = FieldsEnd(r) =>
            o2 >= rd_len(r) /\ n2 = n
  PROVE  Spelled(r, plain, o2, n2)
<1> DEFINE l == Len(r.rr)
<1>1. PICK k \in 2 .. l + 1 : /\ o = FieldAt(r, k) - FieldAt(r, 2)
                              /\ n = IF k = 2 THEN plain ELSE FinalName(r, plain)
  BY DEF Spelled
<1>2. l \in Nat /\ k \in 1 .. l + 1 /\ 2 \in 1 .. l + 1 /\ l + 1 \in 1 .. l + 1
  BY <1>1, FieldsRise
<1>3. FieldAt(r, k) \in Nat /\ FieldAt(r, 2) \in Nat
  BY <1>2, FieldsRise
<1>4. Place(r, o) = FieldAt(r, k)
  BY <1>1, <1>3 DEF Place
<1>5. \A j \in 1..l : j \in NamesIn(r) <=> r.rr[j].id = "NM"
  <2>1. r.rr \in Seq(Field)
    BY DEF Record
  <2>2. DOMAIN r.rr = 1..l
    BY <2>1
  <2>3. QED
    BY <2>2 DEF NamesIn
<1>6. CASE k <= l
  <2>1. k \in 2..l /\ k \in 1..l /\ k + 1 \in 2 .. l + 1 /\ k + 1 # 2
    BY <1>1, <1>2, <1>6
  <2>2. o2 = o + r.rr[k].len /\ n2 = (IF r.rr[k].id = "NM" THEN NameFrom(r, k) ELSE n)
    BY <1>4, <2>1
  <2>3. o2 = FieldAt(r, k + 1) - FieldAt(r, 2)
    <3>1. FieldAt(r, k + 1) = FieldAt(r, k) + r.rr[k].len
      BY <2>1, FieldsRise
    <3>2. r.rr[k].len \in Nat
      <4>1. r.rr[k] \in Field
        BY <2>1 DEF Record
      <4>2. QED
        BY <4>1, FieldIs
    <3>3. QED
      BY SMTT(20), <1>1, <1>3, <2>2, <3>1, <3>2
  <2>4. n2 = FinalName(r, plain)
    <3>1. CASE k = 2
      <4>1. 2 \in NamesIn(r) <=> r.rr[2].id = "NM"
        BY <1>5, <2>1, <3>1
      <4>2. CASE 2 \in NamesIn(r)
        BY <2>2, <3>1, <4>1, <4>2 DEF FinalName, NameFrom
      <4>3. CASE 2 \notin NamesIn(r)
        <5>1. NamesIn(r) = {}
          BY <4>3
        <5>2. QED
          BY <1>1, <2>2, <3>1, <4>1, <4>3, <5>1 DEF FinalName
      <4>4. QED
        BY <4>2, <4>3
    <3>2. CASE k # 2
      <4>1. r.rr[k].id # "NM"
        BY <1>5, <2>1, <3>2
      <4>2. QED
        BY <1>1, <2>2, <3>2, <4>1
    <3>3. QED
      BY <3>1, <3>2
  <2>5. QED
    BY <2>1, <2>3, <2>4 DEF Spelled
<1>7. CASE ~(k <= l)
  <2>1. k = l + 1
    BY <1>1, <1>2, <1>7
  <2>2. \A j \in 2..l : FieldAt(r, j) # FieldAt(r, k)
    <3>1. SUFFICES ASSUME NEW j \in 2..l PROVE FieldAt(r, j) # FieldAt(r, k)
      OBVIOUS
    <3>2. j \in 1 .. l + 1 /\ j < k
      BY <1>2, <2>1, <3>1
    <3>3. FieldAt(r, j) < FieldAt(r, k) /\ FieldAt(r, j) \in Nat
      BY <1>2, <3>2, FieldsRise
    <3>4. QED
      BY <1>3, <3>3
  <2>3. o2 >= rd_len(r) /\ n2 = n
    BY <1>4, <2>1, <2>2 DEF FieldsEnd
  <2>4. n = FinalName(r, plain)
    <3>1. CASE k = 2
      <4>1. l = 1 /\ 2 \notin DOMAIN r.rr
        <5>1. PICK s \in Seq(Field) : s = r.rr
          BY DEF Record
        <5>2. DOMAIN s = 1..Len(s)
          OBVIOUS
        <5>3. l = Len(s)
          BY <5>1
        <5> HIDE DEF l
        <5>4. l = 1
          BY <1>2, <2>1, <3>1
        <5>5. QED
          BY <5>1, <5>2, <5>3, <5>4
      <4>2. NamesIn(r) = {}
        BY <4>1 DEF NamesIn
      <4>3. QED
        BY <1>1, <3>1, <4>2 DEF FinalName
    <3>2. QED
      BY <1>1, <3>1
  <2>5. QED
    BY <2>3, <2>4 DEF Spelled
<1>8. QED
  BY <1>6, <1>7

\* A step of the walk over a record's fields.
LEMMA WalkFieldKeeps ==
  ASSUME Parser, Parser', TreeInv, WalkField
  PROVE  TreeInv'
<1> DEFINE of == Top.of
           i == Top.next
           r == Here
           p == StartOf(of, i) + Place(r, off)
<1>1. /\ pc = "walk" /\ pc' = pc /\ off < rd_len(Here) /\ disc' = disc /\ how' = how
      /\ stack' = stack /\ dirlist' = dirlist /\ clean' = clean /\ isjoliet' = isjoliet
  BY DEF WalkField, listvars
<1>2. /\ pc \notin Between /\ IsIso(disc) /\ Top.next <= Len(Top.of) /\ disc \in Discs /\ off \in Nat
  BY <1>1 DEF Parser, Between, IsIso
<1>3. r \in Record /\ of \in Seq(Record) /\ i \in 1..Len(of) /\ r = of[i]
  BY <1>2, HereIs, TopIs, SectorsOk DEF IsIso, Here
<1>4. rd_len(r) \in Nat /\ Len(r.rr) \in Nat
  BY <1>3, FieldsRise
<1>5. \A k \in 2..Len(r.rr) : FieldAt(r, k) = Place(r, off) =>
        off' = off + r.rr[k].len /\ name' = (IF r.rr[k].id = "NM" THEN NameFrom(r, k) ELSE name)
  <2>1. SUFFICES ASSUME NEW k \in 2..Len(r.rr), FieldAt(r, k) = Place(r, off)
                 PROVE  /\ off' = off + r.rr[k].len
                        /\ name' = (IF r.rr[k].id = "NM" THEN NameFrom(r, k) ELSE name)
    OBVIOUS
  <2>2. PICK j : j = CHOOSE m \in 2..Len(r.rr) : FieldAt(r, m) = Place(r, off)
    OBVIOUS
  <2>3. j \in 2..Len(r.rr) /\ FieldAt(r, j) = Place(r, off)
    BY <2>1, <2>2, Zenon
  <2>4. j = k
    <3>1. j \in 1 .. Len(r.rr) + 1 /\ k \in 1 .. Len(r.rr) + 1
      BY <1>4, <2>1, <2>3
    <3>2. r \in Record /\ FieldAt(r, j) = FieldAt(r, k)
      BY <1>3, <2>1, <2>3
    <3> HIDE DEF r
    <3>3. QED
      BY <3>1, <3>2, FieldsDiffer
  <2>5. /\ off' = off + r.rr[j].len
        /\ name' = (IF r.rr[j].id = "NM" THEN NameFrom(r, j) ELSE name)
    BY <2>1, <2>2, Zenon DEF WalkField
  <2>6. QED
    BY <2>4, <2>5
<1> HIDE DEF of, i, r, p
<1>6. ASSUME \A k \in 2..Len(r.rr) : FieldAt(r, k) # Place(r, off)
      PROVE  /\ \E len \in LengthAt(of, p) : off' = off + len
             /\ name' \in {name} \cup (IF Within(of, p) THEN {"garbled"} ELSE {})
  BY <1>6, Zenon DEF WalkField, of, i, r, p
<1>7. ASSUME WalkEnds(disc, of, i), \A k \in 2..Len(r.rr) : FieldAt(r, k) # Place(r, off),
             Place(r, off) = FieldsEnd(r), Len(r.rr) >= 1
      PROVE  off' >= rd_len(r) /\ name' = name
  <2>1. /\ FieldsEnd(r) % 2 = 0 /\ i < Len(of)
        /\ of[i + 1].lba % 256 >= rd_len(r) - (FieldsEnd(r) - FieldAt(r, 2))
    BY <1>3, <1>7, Zenon DEF WalkEnds
  <2>2. rd_len(r) = FieldsEnd(r) /\ FieldsEnd(r) \in Nat
    BY <1>3, <1>4, <2>1, FieldsRise
  <2>3. p = StartOf(of, i) + rd_len(of[i])
    BY <1>3, <1>7, <2>2 DEF p
  <2>4. ~Within(of, p) /\ LengthAt(of, p) = {of[i + 1].lba % 256}
    BY <1>3, <2>1, <2>3, NextIs
  <2>5. off' = off + (of[i + 1].lba % 256) /\ name' = name
    BY <1>6, <1>7, <2>4
  <2>6. PICK m : m = of[i + 1].lba % 256
    OBVIOUS
  <2>7. m \in Nat
    <3>1. of[i + 1] \in Record
      BY <1>3, <2>1
    <3>2. PICK b \in Nat : b = of[i + 1].lba
      BY <3>1 DEF Record
    <3>3. QED
      BY <2>6, <3>2
  <2>8. FieldAt(r, 2) \in Nat
    <3>1. 2 \in 1 .. Len(r.rr) + 1
      BY <1>4, <1>7
    <3>2. QED
      BY <1>3, <3>1, FieldsRise
  <2>9. FieldAt(r, 2) + off = FieldsEnd(r)
    BY <1>7 DEF Place
  <2>10. off' = off + m /\ m >= rd_len(r) - (FieldsEnd(r) - FieldAt(r, 2))
    BY <2>1, <2>5, <2>6
  <2>11. off' >= rd_len(r)
    BY <1>2, <1>4, <2>2, <2>7, <2>8, <2>9, <2>10
  <2>12. QED
    BY <2>5, <2>11
<1>8. ASSUME Fit, clean, OnDisc(disc, stack, dirlist, Whole), isjoliet = (Vol.vd17 = "joliet")
      PROVE  NameRight'
  <2>1. Calling(disc, stack)
    BY <1>8 DEF OnDisc
  <2>2. Rock(r) /\ ~Skipped(r) /\ Spelled(r, Cleaned(r), off, name)
    BY <1>1, <1>8 DEF TreeInv, NameRight, r
  <2>3. Rocky(disc, r) /\ Vol.vd17 # "joliet" /\ HasRock(r)
    BY <1>8, <2>2 DEF Rocky, Rock, Vol
  <2>4. r.name # ".."
    BY <1>3, <1>8, <2>2, <2>3, PlainIs
  <2>5. NamesIn(r) \subseteq {2} /\ WalkEnds(disc, of, i)
    BY <1>2, <1>8, <2>1, <2>3, <2>4, HereIso DEF r, of, i
  <2>6. Len(r.rr) >= 1
    <3>1. r.rr # <<>> /\ r.rr \in Seq(Field)
      BY <1>3, <2>3 DEF HasRock, Record
    <3>2. QED
      BY <3>1
  <2>7. ~(off >= rd_len(r))
    BY <1>1, <1>2, <1>4 DEF r
  <2>8. Spelled(r, Cleaned(r), off', name')
    BY <1>3, <1>5, <1>7, <2>2, <2>5, <2>6, <2>7, FieldSpells
  <2>9. QED
    BY <1>1, <2>2, <2>8, NameStays DEF r
<1>9. QED
  BY <1>1, <1>2, <1>8, IsoGoes

\* A call returns: all its directory holds has been passed.
LEMMA ReturnTree ==
  ASSUME Parser, pc \notin Between, Fit, ~Audio, Return, OnDisc(disc, stack, dirlist, Whole),
         Whole => Counted(disc, Top.of) \subseteq Passed(disc, Top)
  PROVE  OnDisc(disc, stack', dirlist', Whole)
<1>1. /\ stack' = SubSeq(stack, 1, Len(stack) - 1) /\ dirlist' = dirlist \o Top.entry
      /\ Top = stack[Len(stack)]
  BY DEF Return, Top
<1>2. TidyDisc(disc, Whole) /\ Whole \in BOOLEAN /\ Calls(disc, stack) /\ Listable(dirlist)
  BY FitTidy, FitIs DEF Parser
<1>3. Len(stack) >= 1 /\ stack \in Seq(Frame(disc))
  BY TopIs, ListAssumption DEF Parser, Calls
<1>4. Returns(disc, stack, stack')
  BY <1>1, <1>3, FrontIs DEF Returns
<1>5. QED
  BY <1>1, <1>2, <1>4, ReturnKeeps

\* A call of an ISO disc returns at the end of its sector.
LEMMA ReturnIsoKeeps ==
  ASSUME Parser, Parser', TreeInv, ReturnIso
  PROVE  TreeInv'
<1>1. /\ pc = "parse" /\ IsIso(disc) /\ ~Audio /\ pc \notin Between
      /\ Top.next > Len(Top.of) /\ Return /\ isjoliet' = isjoliet
  BY DEF ReturnIso, Parsing, isovars, Between, IsIso, Audio
<1>2. disc' = disc /\ how' = how /\ clean' = clean /\ pc' \in {"parse", "listed"}
  BY <1>1 DEF Return, shared, reads
<1>3. Counted(disc, Top.of) \subseteq Passed(disc, Top)
  <2>1. Top.of \in Seq(RecordsOf(disc)) /\ Top.next \in 1 .. Len(Top.of) + 1
    BY <1>1, TopIs
  <2>2. ASSUME NEW i \in Counted(disc, Top.of) PROVE i < Top.next
    <3>1. i \in 1..Len(Top.of)
      BY DEF Counted
    <3>2. QED
      BY <1>1, <2>1, <3>1
  <2>3. QED
    BY <2>2 DEF Passed
<1>4. QED
  BY <1>1, <1>2, <1>3, ReturnTree, IsoGoes

\* The root directory is read.
LEMMA MountIsoKeeps ==
  ASSUME Parser, Parser', TreeInv, MountIso
  PROVE  TreeInv'
<1>1. /\ pc = "mount" /\ IsIso(disc) /\ ~Audio /\ pc' = "parse" /\ disc' = disc /\ how' = how
      /\ dirlist' = dirlist /\ dirlist = <<>>
  BY DEF MountIso, shared, IsIso, Audio, TreeInv
<1>2. ASSUME Fit, clean'
      PROVE  OnDisc(disc, stack', dirlist', Whole) /\ isjoliet' = (Vol.vd17 = "joliet")
  <2>1. TidyDisc(disc, Whole) /\ Whole \in BOOLEAN /\ Calls(disc, stack')
    BY <1>1, <1>2, FitTidy, FitIs DEF Parser
  <2> DEFINE of == Sectors(disc, RootSector(Vol))[1]
  <2>2. PICK got : /\ ReadInto(1, of, got) /\ stack' = <<Call(got, <<>>, 0, <<>>)>>
                   /\ isjoliet' = (Vol.vd17 = "joliet")
    BY <1>2 DEF MountIso
  <2>3. got = of
    BY <1>2, <2>2 DEF ReadInto
  <2>4. of = ReadAt(disc, RootOf(disc))
    BY <1>1 DEF ReadAt, RootOf, Vol
  <2> HIDE DEF of
  <2> DEFINE c == Call(got, <<>>, 0, <<>>)
  <2>5. c.next = 1 /\ c.path = <<>> /\ c.entry = <<>> /\ c.of = got
    BY DEF Call
  <2>6. System[disc] # "udf"
    BY <1>1 DEF IsIso
  <2> HIDE DEF c
  <2>7. OnDisc(disc, stack', <<>>, Whole)
    BY <2>1, <2>2, <2>3, <2>4, <2>5, <2>6, StartKeeps DEF c
  <2>8. QED
    BY <1>1, <2>2, <2>7
<1>3. QED
  BY <1>1, <1>2, TreeGoes

\* What is listed of an ISO disc stays right.
LEMMA ParseIsoKeeps ==
  ASSUME Parser, Parser', TreeInv, ParseIso
  PROVE  TreeInv'
  BY MountIsoKeeps, SkipRecordKeeps, ListRecordKeeps, ReturnIsoKeeps, StartWalkKeeps,
     WalkFieldKeeps, EndWalkKeeps DEF ParseIso

-----------------------------------------------------------------------------
(* The parser of UDF directories *)

\* A directory's descriptors follow each other, and have room for their names.
LEMMA FidsRise ==
  ASSUME NEW of \in Seq(FID), NEW i \in 1..Len(of)
  PROVE  /\ FidBytes(of) \in Nat /\ FidSize \in Nat /\ FidPos(of, i) \in Nat /\ of[i].nlen \in Nat
         /\ FidPos(of, i) + FidSize + of[i].nlen <= FidBytes(of)
         /\ \A k \in 1..i : FidPos(of, k) \in Nat /\ FidPos(of, k) <= FidPos(of, i)
<1> DEFINE lens == [j \in 1..Len(of) |-> FidLength(of[j])]
<1>1. FidSize \in Nat /\ Len(of) \in Nat
  BY UdfAssumption
<1>2. ASSUME NEW j \in 1..Len(of)
      PROVE  /\ FidLength(of[j]) \in Nat /\ of[j].nlen \in Nat
             /\ FidLength(of[j]) >= FidSize + of[j].nlen
  <2>1. of[j] \in FID
    OBVIOUS
  <2>2. of[j].nlen \in 0..255
    BY <2>1 DEF FID
  <2>3. PICK b \in 0..255 : b = of[j].nlen
    BY <2>2, Zenon
  <2>4. PICK a \in Nat : a = FidSize
    BY <1>1, Zenon
  <2>5. FidLength(of[j]) = 4 * ((a + b + 3) \div 4)
    BY <2>3, <2>4 DEF FidLength
  <2>6. 4 * ((a + b + 3) \div 4) \in Nat /\ 4 * ((a + b + 3) \div 4) >= a + b /\ b \in Nat
    OBVIOUS
  <2>7. QED
    BY <2>3, <2>4, <2>5, <2>6
<1>3. lens \in Seq(Nat) /\ Len(lens) = Len(of) /\ \A j \in 1..Len(lens) : lens[j] = FidLength(of[j])
  BY <1>2
<1>4. \A k : FidPos(of, k) = Position(0, lens, k)
  BY DEF FidPos
<1> HIDE DEF lens
<1>5. ASSUME NEW m \in 1 .. Len(lens) + 1
      PROVE  /\ FidPos(of, m) \in Nat
             /\ \A k \in m .. Len(lens) + 1 : FidPos(of, m) <= FidPos(of, k)
  BY <1>3, <1>4, PositionsRise
<1>6. \A k \in 1..Len(lens) : FidPos(of, k + 1) = FidPos(of, k) + lens[k]
  <2>1. \A k \in 1..Len(lens) : Position(0, lens, k + 1) = Position(0, lens, k) + lens[k]
    BY <1>3, PositionIs
  <2>2. QED
    BY <1>4, <2>1
<1>7. FidBytes(of) = FidPos(of, Len(lens) + 1)
  BY <1>3 DEF FidBytes
<1>8. /\ i \in 1 .. Len(lens) + 1 /\ i + 1 \in 1 .. Len(lens) + 1 /\ Len(lens) + 1 \in 1 .. Len(lens) + 1
      /\ Len(lens) + 1 \in i + 1 .. Len(lens) + 1
  BY <1>1, <1>3
<1>9. FidBytes(of) \in Nat /\ FidPos(of, i) \in Nat
  BY <1>5, <1>7, <1>8
<1>10. FidPos(of, i + 1) <= FidBytes(of) /\ FidPos(of, i + 1) \in Nat
  BY <1>5, <1>7, <1>8
<1>11. FidPos(of, i + 1) = FidPos(of, i) + FidLength(of[i])
  BY <1>3, <1>6
<1>12. FidLength(of[i]) \in Nat /\ of[i].nlen \in Nat /\ FidLength(of[i]) >= FidSize + of[i].nlen
  BY <1>2
<1>13. FidPos(of, i) + FidSize + of[i].nlen <= FidBytes(of)
  BY <1>1, <1>9, <1>10, <1>11, <1>12
<1>14. \A k \in 1..i : FidPos(of, k) \in Nat /\ FidPos(of, k) <= FidPos(of, i)
  <2>1. SUFFICES ASSUME NEW k \in 1..i PROVE FidPos(of, k) \in Nat /\ FidPos(of, k) <= FidPos(of, i)
    OBVIOUS
  <2>2. k \in 1 .. Len(lens) + 1 /\ i \in k .. Len(lens) + 1
    BY <1>1, <1>3
  <2>3. QED
    BY <1>5, <2>2
<1>15. QED
  BY <1>1, <1>9, <1>12, <1>13, <1>14

\* A name of 8-bit characters.
Plain(f) == f.nlen < 255 /\ ~f.wide

\* What is known of a UDF disc's innermost call.
LEMMA UdfCall ==
  ASSUME Parser, pc \notin Between, System[disc] = "udf", Fit, Calling(disc, stack)
  PROVE  /\ Top.of \in Seq(FidsOf(Udf[disc])) /\ Top.of \in Seq(FID)
         /\ FidBytes(Top.of) <= Top.size /\ Top.next \in 1 .. Len(Top.of) + 1
         /\ Disc.version = 2 => FidBytes(Top.of) <= SectorSize
         /\ \A i \in 1..Len(Top.of) :
              /\ Plain(Top.of[i]) /\ Disc.fe[Top.of[i].icb].type # "other"
              /\ i \in Counted(disc, Top.of) => ~Nameless(Top.of[i].name)
<1>1. /\ disc \in Discs /\ OneExtent(disc) /\ UdfShort(disc) /\ UdfNamed(disc) /\ UdfProper(disc)
  BY FitIs DEF Parser
<1>2. Len(stack) \in 1..MaxDepth /\ MaxDepth \in Nat /\ Top.next \in 1 .. Len(Top.of) + 1
  BY TopIs, ListAssumption
<1>3. PICK k \in 0..MaxDepth : \E x \in Depth(disc, k) : CallIs(disc, Top, x)
  <2>1. Len(stack) \in 1..Len(stack) /\ Len(stack) - 1 \in 0..MaxDepth
    BY <1>2
  <2>2. \E x \in Depth(disc, Len(stack) - 1) : CallIs(disc, Top, x)
    BY <2>1 DEF Calling, Top
  <2>3. QED
    BY <2>1, <2>2
<1>4. PICK x \in Depth(disc, k) : CallIs(disc, Top, x)
  BY <1>3
<1>5. x.at \in Directories(disc)
  BY <1>1, <1>4, UdfDirs DEF CallIs
<1>6. PICK l \in Directories(disc) : l = x.at
  BY <1>5
<1>7. Top.of = ReadAt(disc, l) /\ FidBytes(Top.of) <= Top.size
  BY <1>4, <1>6 DEF CallIs
<1>8. PICK e \in Extents(disc, l) : Top.of = Fids(Udf[disc], e.at)
  BY <1>1, <1>7, UdfHeld
<1>9. Top.of \in Seq(FidsOf(Udf[disc]))
  BY <1>1, <1>7, UdfHeld
<1>10. Top.of \in Seq(FID)
  <2>1. FidsOf(Udf[disc]) \subseteq FID
    BY DEF FidsOf
  <2>2. QED
    BY <1>9, <2>1
<1>11. Disc.version = 2 => FidBytes(Top.of) <= SectorSize
  BY <1>1, <1>8, Zenon DEF UdfShort, Disc
<1>12. ASSUME NEW i \in 1..Len(Top.of) PROVE Plain(Top.of[i]) /\ Disc.fe[Top.of[i].icb].type # "other"
  <2>1. DOMAIN Top.of = 1..Len(Top.of)
    BY <1>10
  <2>2. e.at \in DOMAIN Udf[disc].fids
    <3>1. SUFFICES ASSUME e.at \notin DOMAIN Udf[disc].fids PROVE FALSE
      OBVIOUS
    <3>2. Top.of = <<>>
      BY <1>8, <3>1, Zenon DEF Fids
    <3>3. QED
      BY <3>2
  <2>3. Top.of = Udf[disc].fids[e.at]
    BY <1>8, <2>2, Zenon DEF Fids
  <2>4. \A j \in DOMAIN Udf[disc].fids[e.at] : LET f == Udf[disc].fids[e.at][j] IN
          f.nlen < 255 /\ ~f.wide /\ Udf[disc].fe[f.icb].type # "other"
    BY <1>1, <2>2, Zenon DEF UdfNamed
  <2>5. Top.of[i].nlen < 255 /\ ~Top.of[i].wide /\ Udf[disc].fe[Top.of[i].icb].type # "other"
    BY <2>1, <2>3, <2>4, Zenon
  <2>6. QED
    BY <2>5, Zenon DEF Plain, Disc
<1>13. \A i \in Counted(disc, Top.of) : ~Nameless(Top.of[i].name)
  BY <1>1, <1>8, UdfDistinct
<1>14. QED
  BY <1>2, <1>7, <1>9, <1>10, <1>11, <1>12, <1>13

\* And of the record it is at.
LEMMA HereUdf ==
  ASSUME Parser, pc \notin Between, System[disc] = "udf", Fit, Calling(disc, stack),
         Top.next <= Len(Top.of)
  PROVE  /\ Here \in FID /\ Here.icb \in DOMAIN Disc.fe /\ Disc.fe[Here.icb] \in FileEntry
         /\ Disc.fe[Here.icb].type # "other"
         /\ Counts(disc, Here) => Found = Here.name /\ ~Nameless(Found)
         /\ ~Counts(disc, Here) => Nameless(Found)
<1>1. Top.next \in 1..Len(Top.of) /\ Here = Top.of[Top.next]
  BY AdvancedMoves
<1>2. Here \in FID /\ Here.icb \in DOMAIN Disc.fe /\ Disc.fe[Here.icb] \in FileEntry
  BY FoundIs, DiscIs DEF Parser
<1>3. /\ Plain(Here) /\ Disc.fe[Here.icb].type # "other" /\ Top.of \in Seq(FID)
      /\ Top.next \in Counted(disc, Top.of) => ~Nameless(Here.name)
      /\ Disc.version = 2 => FidBytes(Top.of) <= SectorSize
  BY <1>1, UdfCall
<1>4. Counts(disc, Here) => Top.next \in Counted(disc, Top.of)
  BY <1>1 DEF Counted
<1>5. /\ FidBytes(Top.of) \in Nat /\ FidSize \in Nat /\ FidPos(Top.of, Top.next) \in Nat
      /\ Here.nlen \in Nat
      /\ FidPos(Top.of, Top.next) + FidSize + Here.nlen <= FidBytes(Top.of)
  BY <1>1, <1>3, FidsRise
<1>6. PICK end \in Nat : end = FidPos(Top.of, Top.next) + FidSize + Here.nlen
  BY <1>5
<1>7. SectorSize \in Nat
  BY UdfAssumption
<1>8. Disc.version = 2 => ~(end > SectorSize)
  BY <1>3, <1>5, <1>6, <1>7
<1>9. (Here.nlen > 0 <=> Here.nlen # 0) /\ Here.nlen # 255 /\ ~Here.wide
  BY <1>3, <1>5 DEF Plain
<1>10. Found = NameOf(Here, end)
  BY <1>6, Zenon DEF Found
<1>11. Counts(disc, Here) <=> Here.nlen # 0
  BY <1>9 DEF Counts, IsIso
<1>12. Here.nlen # 0 => Found = Here.name
  BY <1>8, <1>9, <1>10, Zenon DEF NameOf
<1>13. Here.nlen = 0 => Nameless(Found)
  <2>1. SUFFICES ASSUME Here.nlen = 0 PROVE Nameless(Found)
    OBVIOUS
  <2>2. Here.nlen \in {0, 255}
    BY <2>1
  <2>3. QED
    BY <1>10, <2>2, Zenon DEF NameOf, Nameless
<1>14. QED
  BY <1>2, <1>3, <1>4, <1>11, <1>12, <1>13, Zenon

\* Of a UDF disc, while a read may not have failed.
LEMMA UdfGoes ==
  ASSUME Parser, TreeInv, disc' = disc, how' = how, System[disc] = "udf",
         pc \notin {"mount", "crashed"}, clean' => clean, pc' \in {"parse", "entry", "listed"},
         Fit /\ clean' /\ OnDisc(disc, stack, dirlist, Whole) /\ (pc = "entry" => EntryRight) =>
           OnDisc(disc, stack', dirlist', Whole) /\ (pc' = "entry" => EntryRight')
  PROVE  TreeInv'
<1>1. ~Audio /\ ~IsIso(disc)
  BY DEF Audio, IsIso
<1>2. ASSUME Fit, clean'
      PROVE  OnDisc(disc, stack', dirlist', Whole) /\ (pc' = "entry" => EntryRight')
  <2>1. clean /\ OnDisc(disc, stack, dirlist, Whole) /\ (pc = "entry" => EntryRight)
    BY <1>1, <1>2 DEF TreeInv
  <2>2. QED
    BY <1>2, <2>1
<1>3. pc' # "walk" /\ pc' # "mount"
  OBVIOUS
<1>4. QED
  BY <1>1, <1>2, <1>3, TreeGoes

\* The file entry the innermost call has read is that of the record it is at.
LEMMA EntryIs ==
  ASSUME Parser, pc = "entry", Fit, OnDisc(disc, stack, dirlist, Whole), EntryRight
  PROVE  /\ System[disc] = "udf" /\ pc \notin Between /\ Top.next <= Len(Top.of) /\ disc \in Discs
         /\ TidyDisc(disc, Whole) /\ Whole \in BOOLEAN /\ Calls(disc, stack) /\ Listable(dirlist)
         /\ Calling(disc, stack) /\ Kinds(fe) = {Disc.fe[Here.icb].type = "dir"}
         /\ Counts(disc, Here) =>
              /\ Step(disc, stack, Advanced, Top.next)
              /\ ItemOf(disc, stack[Len(stack)], Top.next)
                   = Entry(Append(Top.path, Found), Disc.fe[Here.icb].type = "dir")
              /\ Said(disc, stack[Len(stack)].of[Top.next]).at = Here.icb
<1>1. /\ System[disc] = "udf" /\ pc \notin Between /\ Top.next <= Len(Top.of) /\ disc \in Discs
      /\ Calls(disc, stack) /\ Listable(dirlist) /\ ~Audio
  BY DEF Parser, Between, Audio
<1>2. TidyDisc(disc, Whole) /\ Whole \in BOOLEAN /\ Calling(disc, stack)
  BY <1>1, FitTidy, FitIs DEF Parser, OnDisc
<1>3. Disc.fe[Here.icb] \in FileEntry /\ Disc.fe[Here.icb].type # "other"
  BY <1>1, <1>2, HereUdf
<1>4. fe.type = Disc.fe[Here.icb].type
  <2>1. PICK e \in FileEntry : e = Disc.fe[Here.icb]
    BY <1>3
  <2>2. Parsed(e).type = e.type
    BY DEF Parsed, FileEntry
  <2>3. QED
    BY <2>1, <2>2 DEF EntryRight
<1>5. Kinds(fe) = {Disc.fe[Here.icb].type = "dir"}
  BY <1>3, <1>4 DEF Kinds
<1>6. ASSUME Counts(disc, Here)
      PROVE  /\ Step(disc, stack, Advanced, Top.next)
             /\ ItemOf(disc, stack[Len(stack)], Top.next)
                  = Entry(Append(Top.path, Found), Disc.fe[Here.icb].type = "dir")
             /\ Said(disc, stack[Len(stack)].of[Top.next]).at = Here.icb
  <2>1. /\ Step(disc, stack, Advanced, Top.next) /\ Top = stack[Len(stack)]
        /\ stack[Len(stack)].of[Top.next] = Here
    BY <1>1, <1>6, AdvancedMoves
  <2>2. Found = Here.name
    BY <1>1, <1>2, <1>6, HereUdf
  <2>3. PICK r : r = Said(disc, Here)
    OBVIOUS
  <2>4. r.name = Found /\ r.isdir = (Disc.fe[Here.icb].type = "dir") /\ r.at = Here.icb
    BY <1>1, <2>2, <2>3 DEF Said, IsIso, Disc
  <2>5. ItemOf(disc, Top, Top.next) = Entry(Append(Top.path, r.name), r.isdir)
    BY <2>1, <2>3, Zenon DEF ItemOf, PathOf
  <2>6. QED
    BY <2>1, <2>3, <2>4, <2>5, Zenon
<1>7. QED
  BY <1>1, <1>2, <1>5, <1>6

\* A file is listed, or what has no name is passed over.
LEMMA ListFileKeeps ==
  ASSUME Parser, Parser', TreeInv, ListFile
  PROVE  TreeInv'
<1>1. /\ pc = "entry" /\ stack' = Advanced /\ pc' = "parse" /\ disc' = disc /\ how' = how
      /\ clean' = clean
      /\ Nameless(Found) => dirlist' = dirlist
      /\ ~Nameless(Found) =>
           FALSE \in Kinds(fe) /\ dirlist' = Append(dirlist, Entry(Append(Top.path, Found), FALSE))
  BY Zenon DEF ListFile, shared, reads, Nameless
<1>2. System[disc] = "udf"
  BY <1>1 DEF Parser
<1>3. ASSUME Fit, OnDisc(disc, stack, dirlist, Whole), EntryRight
      PROVE  OnDisc(disc, stack', dirlist', Whole)
  <2>1. /\ pc \notin Between /\ Top.next <= Len(Top.of) /\ Calling(disc, stack)
        /\ TidyDisc(disc, Whole) /\ Whole \in BOOLEAN /\ Calls(disc, stack) /\ Listable(dirlist)
    BY <1>1, <1>3, EntryIs
  <2>2. CASE Counts(disc, Here)
    <3>1. ~Nameless(Found)
      BY <1>2, <1>3, <2>1, <2>2, HereUdf
    <3>2. (Disc.fe[Here.icb].type = "dir") = FALSE
      BY <1>1, <1>3, <3>1, EntryIs
    <3>3. Step(disc, stack, Advanced, Top.next)
      BY <1>1, <1>3, <2>2, EntryIs
    <3>4. PICK e : e = ItemOf(disc, stack[Len(stack)], Top.next)
      OBVIOUS
    <3>5. e = Entry(Append(Top.path, Found), FALSE)
      <4>1. e = Entry(Append(Top.path, Found), Disc.fe[Here.icb].type = "dir")
        BY <1>1, <1>3, <2>2, <3>4, EntryIs
      <4>2. QED
        BY <3>2, <4>1
    <3>6. e.isdir = FALSE
      BY <3>5 DEF Entry
    <3>7. dirlist' = Append(dirlist, e)
      BY <1>1, <3>1, <3>5, Zenon
    <3>8. OnDisc(disc, Advanced, Append(dirlist, e), Whole)
      BY <1>3, <2>1, <3>3, <3>4, <3>6, FileKeeps
    <3>9. QED
      BY <1>1, <3>7, <3>8
  <2>3. CASE ~Counts(disc, Here)
    <3>1. Nameless(Found)
      BY <1>2, <1>3, <2>1, <2>3, HereUdf
    <3>2. Moved(disc, stack, Advanced, {})
      BY <2>1, <2>3, AdvancedMoves
    <3>3. Len(stack) \in Nat
      BY <2>1, TopIs, ListAssumption
    <3>4. QED
      BY <1>1, <1>3, <2>1, <3>1, <3>2, <3>3, SkipKeeps
  <2>4. QED
    BY <2>2, <2>3
<1>4. QED
  BY <1>1, <1>2, <1>3, UdfGoes

\* Where a directory's descriptors are, and how many bytes of them are looked at.
LEMMA DirectoryIs ==
  ASSUME Parser, Directory, Fit, OnDisc(disc, stack, dirlist, Whole), EntryRight
  PROVE  /\ Counts(disc, Here) /\ Disc.fe[Here.icb].type = "dir"
         /\ fe.extents # <<>> /\ Fids(Disc, Begin(fe)) = ReadAt(disc, Here.icb)
         /\ FidBytes(Fids(Disc, Begin(fe))) <= Size(fe)
<1>1. pc = "entry" /\ TRUE \in Kinds(fe) /\ ~Nameless(Found)
  BY Zenon DEF Directory, Nameless
<1>2. /\ System[disc] = "udf" /\ pc \notin Between /\ Top.next <= Len(Top.of) /\ disc \in Discs
      /\ Calling(disc, stack)
  BY <1>1, EntryIs
<1>3. Counts(disc, Here) /\ Here.icb \in DOMAIN Disc.fe
  BY <1>1, <1>2, HereUdf
<1>4. Disc.fe[Here.icb].type = "dir"
  BY <1>1, EntryIs
<1>5. OneExtent(disc) /\ UdfShort(disc) /\ UdfProper(disc)
  BY <1>2, FitIs DEF Parser
<1>6. PICK l \in Directories(disc) : l = Here.icb
  BY <1>3, <1>4 DEF Directories, Disc
<1>7. PICK y \in FileEntry : y = Disc.fe[l]
  BY <1>2, <1>5, UdfHeld DEF Disc
<1>8. PICK x : x = y.extents[1]
  OBVIOUS
<1>9. /\ x \in Extents(disc, l) /\ Len(y.extents) = 1 /\ y.extents \in Seq(Extent)
      /\ ReadAt(disc, l) = Fids(Disc, x.at)
  <2>1. Udf[disc].fe[l].extents[1] = x /\ Udf[disc].fe[l].extents = y.extents
    BY <1>7, <1>8 DEF Disc
  <2>2. x \in Extents(disc, l) /\ Len(y.extents) = 1
    BY <1>2, <1>5, <2>1, UdfHeld
  <2>3. ReadAt(disc, l) = Fids(Disc, x.at)
    BY <1>2, <1>5, <2>1, UdfHeld DEF Disc
  <2>4. QED
    BY <2>2, <2>3 DEF FileEntry
<1>10. Disc.version = 2 => y.alloc = 0
  BY <1>5, <1>7 DEF OneExtent, Disc
<1>11. fe.extents = y.extents
  <2>1. fe = Parsed(y)
    BY <1>6, <1>7 DEF EntryRight
  <2>2. QED
    BY <1>10, <2>1 DEF Parsed
<1>12. Begin(fe) = x.at
  BY <1>8, <1>9, <1>11 DEF Begin
<1>13. FidBytes(Fids(Disc, x.at)) <= x.size /\ (Disc.version = 2 => FidBytes(Fids(Disc, x.at)) <= SectorSize)
  <2>1. FidBytes(Fids(Disc, x.at)) <= x.size
    BY <1>2, <1>5, <1>9, UdfDistinct DEF Disc
  <2>2. Disc.version = 2 => FidBytes(Fids(Disc, x.at)) <= SectorSize
    BY <1>5, <1>9, Zenon DEF UdfShort, Disc
  <2>3. QED
    BY <2>1, <2>2
<1>14. Size(fe) = IF Disc.version = 2 THEN SectorSize ELSE x.size
  BY <1>8, <1>9, <1>11 DEF Size
<1>15. fe.extents # <<>>
  <2>1. PICK s \in Seq(Extent) : s = y.extents /\ Len(s) = 1
    BY <1>9
  <2>2. s # <<>>
    BY <2>1, NotEmpty, Zenon
  <2>3. QED
    BY <1>11, <2>1, <2>2, Zenon
<1>16. QED
  BY <1>3, <1>4, <1>6, <1>9, <1>12, <1>13, <1>14, <1>15

\* What is listed stays right when the right directory is entered.
LEMMA EnterKeeps ==
  ASSUME Parser, Parser', Directory, Fit, OnDisc(disc, stack, dirlist, Whole), EntryRight,
         Enter(Fids(Disc, Begin(fe)), Size(fe))
  PROVE  OnDisc(disc, stack', dirlist', Whole)
<1> DEFINE got == Fids(Disc, Begin(fe))
           size == Size(fe)
           i == Top.next
           e == ItemOf(disc, stack[Len(stack)], i)
           c == Call(got, e.path, size, <<e>>)
<1>1. pc = "entry"
  BY DEF Directory
<1>2. /\ TidyDisc(disc, Whole) /\ Whole \in BOOLEAN /\ Calls(disc, stack) /\ Listable(dirlist)
      /\ pc \notin Between /\ Top.next <= Len(Top.of)
  BY <1>1, EntryIs
<1>3. Counts(disc, Here) /\ Disc.fe[Here.icb].type = "dir"
  BY DirectoryIs
<1>4. Step(disc, stack, Advanced, i) /\ Said(disc, stack[Len(stack)].of[i]).at = Here.icb
  BY <1>1, <1>3, EntryIs
<1>5. e = Entry(Append(Top.path, Found), TRUE)
  <2>1. e = Entry(Append(Top.path, Found), Disc.fe[Here.icb].type = "dir")
    BY <1>1, <1>3, EntryIs
  <2>2. (Disc.fe[Here.icb].type = "dir") = TRUE
    BY <1>3
  <2>3. QED
    BY <2>1, <2>2
<1>6. got = ReadAt(disc, Here.icb) /\ FidBytes(got) <= size
  BY DirectoryIs
<1> HIDE DEF got, size, i, e
<1>7. e.path = Append(Top.path, Found) /\ e.isdir = TRUE
  BY <1>5 DEF Entry
<1>8. stack' = Append(Advanced, c) /\ dirlist' = dirlist
  <2>1. /\ stack' = Append(Advanced, Call(got, Append(Top.path, Found), size,
                                          <<Entry(Append(Top.path, Found), TRUE)>>))
        /\ dirlist' = dirlist
    BY Zenon DEF Enter, SubPath, got, size
  <2>2. QED
    BY <1>5, <1>7, <2>1, Zenon
<1>9. c.of = got /\ c.path = e.path /\ c.next = 1 /\ c.size = size /\ c.entry = <<e>>
  BY DEF Call
<1> HIDE DEF c
<1>10. Enters(disc, Advanced, stack', c, dirlist, dirlist', e)
  <2>1. stack' \in Seq(Frame(disc))'
    BY DEF Parser, Calls
  <2>2. stack' \in Seq(Frame(disc))
    <3>1. disc' = disc
      BY DEF Enter, shared
    <3>2. Frame(disc)' = Frame(disc)
      BY <3>1 DEF Frame, RecordsOf
    <3>3. QED
      BY <2>1, <3>2
  <2>3. /\ Len(stack') = Len(Advanced) + 1 /\ stack'[Len(Advanced) + 1] = c
        /\ \A m \in 1..Len(Advanced) : stack'[m] = Advanced[m]
    <3>1. Advanced \in Seq(Frame(disc))
      BY <1>2, AdvancedOk DEF Calls
    <3>2. QED
      BY <1>8, <3>1, AppendsAny, Zenon
  <2>4. QED
    BY <1>8, <1>9, <2>2, <2>3 DEF Enters
<1>11. c.of = ReadAt(disc, Said(disc, stack[Len(stack)].of[i]).at) /\ FidBytes(c.of) <= c.size
  BY <1>4, <1>6, <1>9
<1>12. QED
  BY <1>2, <1>4, <1>7, <1>10, <1>11, DirectoryKeeps DEF e

\* A directory with an extent is entered.
LEMMA EnterDirectoryKeeps ==
  ASSUME Parser, Parser', TreeInv, EnterDirectory
  PROVE  TreeInv'
<1>1. Directory /\ pc = "entry"
  BY DEF EnterDirectory, Directory
<1>2. System[disc] = "udf"
  BY <1>1 DEF Parser
<1>3. PICK got : /\ Enter(got, Size(fe)) /\ (clean' => clean)
                 /\ (clean' => got = Fids(Disc, Begin(fe)))
  <2>1. ASSUME NEW got, ReadInto(Len(stack) + 1, Fids(Disc, Begin(fe)), got)
        PROVE  (clean' => clean) /\ (clean' => got = Fids(Disc, Begin(fe)))
    BY <2>1 DEF ReadInto
  <2>2. CASE \E got : ReadInto(Len(stack) + 1, Fids(Disc, Begin(fe)), got) /\ Enter(got, Size(fe))
    BY <2>1, <2>2
  <2>3. CASE Enter(Fids(Disc, Begin(fe)), Size(fe)) /\ clean' = clean
    BY <2>3
  <2>4. QED
    BY <2>2, <2>3, Zenon DEF EnterDirectory, reads
<1>4. disc' = disc /\ how' = how /\ pc' = "parse"
  BY <1>3 DEF Enter, shared
<1>5. ASSUME Fit, clean', OnDisc(disc, stack, dirlist, Whole), EntryRight
      PROVE  OnDisc(disc, stack', dirlist', Whole)
  BY <1>1, <1>3, <1>5, EnterKeeps
<1>6. QED
  BY <1>1, <1>2, <1>3, <1>4, <1>5, UdfGoes

\* Where a directory has an extent, none is entered without.
LEMMA EnterNowhereKeeps ==
  ASSUME Parser, Parser', TreeInv, EnterNowhere
  PROVE  TreeInv'
<1>1. Directory /\ pc = "entry" /\ fe.extents = <<>> /\ clean' = clean
  BY DEF EnterNowhere, Directory
<1>2. System[disc] = "udf" /\ ~Audio /\ ~IsIso(disc)
  BY <1>1 DEF Parser, Audio, IsIso
<1>3. disc' = disc /\ how' = how /\ pc' \in {"parse", "crashed"}
  BY DEF EnterNowhere, Enter, Crash, shared
<1>4. ASSUME Fit, clean' PROVE FALSE
  <2>1. OnDisc(disc, stack, dirlist, Whole) /\ EntryRight
    BY <1>1, <1>2, <1>4 DEF TreeInv
  <2>2. QED
    BY <1>1, <1>4, <2>1, DirectoryIs
<1>5. QED
  BY <1>3, <1>4, TreeGoes

\* A file entry is read.
LEMMA ReadEntryKeeps ==
  ASSUME Parser, Parser', TreeInv, ReadEntry
  PROVE  TreeInv'
<1>1. /\ pc = "parse" /\ System[disc] = "udf" /\ pc' = "entry" /\ disc' = disc /\ how' = how
      /\ stack' = stack /\ dirlist' = dirlist /\ (clean' => clean)
      /\ clean' => fe' = Parsed(Disc.fe[Here.icb])
  BY DEF ReadEntry, ParsingUdf, shared
<1>2. Top' = Top /\ Disc' = Disc
  BY <1>1 DEF Top, Disc
<1>3. Here' = Here
  BY <1>2 DEF Here
<1>4. Parsed(Disc.fe[Here.icb])' = Parsed(Disc.fe[Here.icb])
  BY <1>2, <1>3 DEF Parsed
<1>5. clean' => EntryRight'
  BY <1>1, <1>4 DEF EntryRight
<1>6. QED
  BY <1>1, <1>5, UdfGoes

\* A call returns once it has passed all records with a name.
LEMMA ReturnUdfKeeps ==
  ASSUME Parser, Parser', TreeInv, ReturnUdf
  PROVE  TreeInv'
<1>1. /\ pc = "parse" /\ System[disc] = "udf" /\ ~Audio /\ pc \notin Between /\ ~More(Top) /\ Return
  BY DEF ReturnUdf, ParsingUdf, Between, Audio
<1>2. disc' = disc /\ how' = how /\ clean' = clean /\ pc' \in {"parse", "listed"}
  BY <1>1 DEF Return, shared, reads
<1>3. ASSUME Fit, OnDisc(disc, stack, dirlist, Whole)
      PROVE  Counted(disc, Top.of) \subseteq Passed(disc, Top)
  <2>1. Calling(disc, stack)
    BY <1>3 DEF OnDisc
  <2>2. /\ Top.of \in Seq(FID) /\ Top.next \in 1 .. Len(Top.of) + 1
        /\ FidBytes(Top.of) <= Top.size
    BY <1>1, <1>3, <2>1, UdfCall
  <2>3. Top.size \in Nat
    BY <1>1, TopIs DEF Frame
  <2>4. SUFFICES ASSUME NEW i \in Counted(disc, Top.of), ~(i < Top.next) PROVE FALSE
    BY DEF Passed
  <2>5. i \in 1..Len(Top.of) /\ Top.of[i].nlen > 0
    BY <1>1 DEF Counted, Counts, IsIso
  <2>6. /\ FidBytes(Top.of) \in Nat /\ FidSize \in Nat /\ FidPos(Top.of, i) \in Nat
        /\ Top.of[i].nlen \in Nat
        /\ FidPos(Top.of, i) + FidSize + Top.of[i].nlen <= FidBytes(Top.of)
    BY <2>2, <2>5, FidsRise
  <2>7. Top.next \in 1..i /\ Top.next <= Len(Top.of)
    BY <2>2, <2>4, <2>5
  <2>8. FidPos(Top.of, Top.next) \in Nat /\ FidPos(Top.of, Top.next) <= FidPos(Top.of, i)
    BY <2>2, <2>5, <2>7, FidsRise
  <2>9. FidPos(Top.of, Top.next) + FidSize < Top.size
    <3>1. FidPos(Top.of, i) + FidSize < FidBytes(Top.of)
      BY <2>5, <2>6
    <3>2. FidPos(Top.of, Top.next) + FidSize <= FidPos(Top.of, i) + FidSize
      BY <2>6, <2>8
    <3>3. QED
      BY <2>2, <2>3, <2>6, <2>8, <3>1, <3>2
  <2>10. QED
    BY <1>1, <2>7, <2>9 DEF More
<1>4. QED
  BY <1>1, <1>2, <1>3, ReturnTree, UdfGoes

\* The root directory is read, or nothing is.
LEMMA MountUdfKeeps ==
  ASSUME Parser, Parser', TreeInv, MountUdf
  PROVE  TreeInv'
<1>1. /\ pc = "mount" /\ System[disc] = "udf" /\ ~Audio /\ ~IsIso(disc) /\ pc' = "parse"
      /\ disc' = disc /\ how' = how /\ dirlist' = dirlist /\ dirlist = <<>>
  BY DEF MountUdf, shared, IsIso, Audio, TreeInv
<1>2. ASSUME Fit, clean' PROVE OnDisc(disc, stack', dirlist', Whole)
  <2>1. TidyDisc(disc, Whole) /\ Whole \in BOOLEAN /\ Calls(disc, stack')
    BY <1>1, <1>2, FitTidy, FitIs DEF Parser
  <2>2. /\ disc \in Discs /\ OneExtent(disc) /\ UdfShort(disc) /\ UdfProper(disc)
        /\ UdfMounts(disc, how)
    BY <1>1, <1>2, FitIs DEF Parser
  <2>3. PICK got : /\ ReadInto(1, RootFids(Disc), got)
                   /\ stack' = <<Call(got, <<>>, SectorSize, <<>>)>>
    BY DEF MountUdf
  <2>4. got = RootFids(Disc)
    BY <1>2, <2>3 DEF ReadInto
  <2>5. PICK l \in Directories(disc) : l = Disc.root /\ l = Udf[disc].root
    <3>1. disc \in DOMAIN Udf /\ Udf[disc].root \in DOMAIN Udf[disc].fe
      BY <1>1, <2>2, UdfAssumption
    <3>2. QED
      BY <2>2, <3>1 DEF UdfProper, Directories, Disc
  <2>6. PICK x : x = Udf[disc].fe[l].extents[1]
    OBVIOUS
  <2>7. x \in Extents(disc, l) /\ Len(Udf[disc].fe[l].extents) = 1
    BY <1>1, <2>2, <2>6, UdfHeld
  <2>8. ReadAt(disc, l) = Fids(Disc, x.at)
    BY <1>1, <2>2, <2>6, UdfHeld DEF Disc
  <2>9. RootFids(Disc) = Fids(Disc, x.at)
    <3>1. Disc.fe[l].alloc # 3
      BY <2>2, <2>5 DEF UdfMounts, Disc
    <3>2. ~Misread(Disc)
      <4>1. Disc.version = 3 => Disc.meta = 1 \/ Disc.meta > 1
        BY <2>2, Zenon DEF UdfMounts, Disc
      <4>2. QED
        BY <4>1 DEF Misread
    <3>3. Disc.fe[l].extents # <<>>
      <4>1. Len(Disc.fe[l].extents) = 1
        BY <2>7, Zenon DEF Disc
      <4>2. QED
        BY <4>1, NotEmpty, Zenon
    <3>4. QED
      BY <2>5, <2>6, <3>1, <3>2, <3>3 DEF RootFids, Disc
  <2>10. FidBytes(Fids(Disc, x.at)) <= SectorSize
    BY <2>2, <2>5, <2>7, Zenon DEF UdfShort, Disc
  <2> DEFINE c == Call(got, <<>>, SectorSize, <<>>)
  <2>11. c.next = 1 /\ c.path = <<>> /\ c.entry = <<>> /\ c.of = got /\ c.size = SectorSize
    BY DEF Call
  <2>12. RootOf(disc) = l
    BY <1>1, <2>5 DEF RootOf
  <2> HIDE DEF c
  <2>13. c.of = ReadAt(disc, RootOf(disc)) /\ FidBytes(c.of) <= c.size
    BY <2>4, <2>8, <2>9, <2>10, <2>11, <2>12
  <2>14. OnDisc(disc, stack', <<>>, Whole)
    BY <2>1, <2>3, <2>11, <2>13, StartKeeps DEF c
  <2>15. QED
    BY <1>1, <2>14
<1>3. QED
  BY <1>1, <1>2, TreeGoes

\* Where the program ends nothing is claimed.
LEMMA CrashKeeps ==
  ASSUME Parser, System[disc] = "udf", Crash
  PROVE  TreeInv'
<1>1. pc' = "crashed" /\ disc' = disc /\ how' = how /\ ~Audio /\ ~IsIso(disc)
  BY DEF Crash, shared, Audio, IsIso
<1>2. QED
  BY <1>1, TreeGoes

\* What is listed of a UDF disc stays right.
LEMMA ParseUdfKeeps ==
  ASSUME Parser, Parser', TreeInv, ParseUdf
  PROVE  TreeInv'
<1>1. ASSUME FailToMount \/ LoseMetadata PROVE TreeInv'
  BY <1>1, CrashKeeps DEF FailToMount, LoseMetadata
<1>2. QED
  BY <1>1, MountUdfKeeps, ReadEntryKeeps, ListFileKeeps, EnterDirectoryKeeps,
     EnterNowhereKeeps, ReturnUdfKeeps DEF ParseUdf

-----------------------------------------------------------------------------
(* The list as a whole *)

\* The tracks of an audio CD are listed.
LEMMA MountAudioKeeps ==
  ASSUME Parser, TreeInv, MountAudio
  PROVE  TreeInv'
<1>1. /\ pc' = "listed" /\ disc' = disc /\ how' = how /\ Audio /\ ~IsIso(disc)
      /\ dirlist' = TracksListed
  BY DEF MountAudio, shared, Audio, IsIso, TracksListed
<1>2. QED
  BY <1>1, TreeGoes

\* Iterations leave the list, and how it came about, alone.
LEMMA TreeRests ==
  ASSUME TreeInv, UNCHANGED <<listvars, isovars, udfvars>>
  PROVE  TreeInv'
<1>1. /\ disc' = disc /\ how' = how /\ pc' = pc /\ stack' = stack /\ dirlist' = dirlist
      /\ clean' = clean /\ isjoliet' = isjoliet /\ off' = off /\ name' = name /\ fe' = fe
  BY DEF listvars, isovars, walkvars, udfvars
<1>2. Top' = Top /\ Here' = Here /\ Disc' = Disc
  BY <1>1 DEF Top, Here, Disc
<1>3. NameRight' <=> NameRight
  <2>1. Cleaned(Here)' = Cleaned(Here) /\ Rock(Here)' = Rock(Here)
    BY <1>1, <1>2, Zenon DEF Cleaned, Rock
  <2>2. Skipped(Here)' <=> Skipped(Here)
    BY <2>1 DEF Skipped
  <2>3. QED
    BY <1>1, <1>2, <2>1, <2>2, Zenon DEF NameRight
<1>4. EntryRight' <=> EntryRight
  BY <1>1, <1>2 DEF EntryRight, Parsed
<1>5. CASE pc = "mount"
  BY <1>1, <1>5 DEF TreeInv
<1>6. CASE pc # "mount"
  BY <1>1, <1>3, <1>4, <1>6, TreeGoes DEF TreeInv
<1>7. QED
  BY <1>5, <1>6

\* Nothing is listed at the start.
LEMMA TreeInit == Init => TreeInv
<1> SUFFICES ASSUME Init PROVE TreeInv
  OBVIOUS
<1>1. pc = "mount" /\ dirlist = <<>>
  BY DEF Init, ListInit
<1>2. QED
  BY <1>1 DEF TreeInv

\* No step makes what is listed wrong.
LEMMA TreeStep == DirInv /\ DirInv' /\ TreeInv /\ [Next]_vars => TreeInv'
<1> SUFFICES ASSUME DirInv, DirInv', TreeInv, [Next]_vars PROVE TreeInv'
  OBVIOUS
<1>1. Parser /\ Parser'
  BY DEF DirInv
<1>2. CASE MountAudio
  BY <1>1, <1>2, MountAudioKeeps
<1>3. CASE MakeIsoList
  BY <1>1, <1>3, ParseIsoKeeps DEF MakeIsoList
<1>4. CASE MakeUdfList
  BY <1>1, <1>4, ParseUdfKeeps DEF MakeUdfList
<1>5. CASE Iterate
  <2>1. UNCHANGED <<listvars, isovars, udfvars>>
    BY <1>5 DEF Iterate, DirOpen, Gather, DirNext, DirClose
  <2>2. QED
    BY <2>1, TreeRests
<1>6. CASE UNCHANGED vars
  BY <1>6, TreeRests DEF vars
<1>7. QED
  BY <1>2, <1>3, <1>4, <1>5, <1>6 DEF Next

\* What is listed when an audio CD is mounted.
LEMMA TracksRight ==
  ASSUME disc \in Discs, Audio, dirlist = TracksListed
  PROVE  Once(dirlist) /\ Listed = Entries[disc]
<1>1. /\ Tracks[disc] \in Seq(Names)
      /\ \A i, j \in DOMAIN Tracks[disc] : Tracks[disc][i] = Tracks[disc][j] => i = j
  BY DirAssumption DEF Audio
<1>2. PICK t : t = Tracks[disc]
  OBVIOUS
<1>3. dirlist = [i \in DOMAIN t |-> Entry(<<t[i]>>, FALSE)]
  BY <1>2 DEF TracksListed
<1>4. DOMAIN dirlist = DOMAIN t /\ \A i \in DOMAIN t : dirlist[i] = Entry(<<t[i]>>, FALSE)
  BY <1>3
<1>5. Once(dirlist)
  <2>1. SUFFICES ASSUME NEW i \in DOMAIN t, NEW j \in DOMAIN t, dirlist[i].path = dirlist[j].path
                 PROVE  i = j
    BY <1>4, Zenon DEF Once
  <2>2. <<t[i]>> = <<t[j]>>
    BY <1>4, <2>1 DEF Entry
  <2>3. \A a, b : <<a>> = <<b>> => a = b
    OBVIOUS
  <2>4. t[i] = t[j]
    BY <2>2, <2>3, Zenon
  <2>5. QED
    BY <1>1, <1>2, <2>1, <2>4
<1>6. Listed = {Entry(<<t[i]>>, FALSE) : i \in DOMAIN t}
  BY <1>4 DEF Listed
<1>7. Entries[disc] = {Entry(<<t[i]>>, FALSE) : i \in DOMAIN t}
  BY <1>2 DEF Entries, EntriesOf, Audio
<1>8. QED
  BY <1>5, <1>6, <1>7

-----------------------------------------------------------------------------
(* Theorems *)

\* And what iterations rest on.
LEMMA DirInit == Init => DirInv
<1> SUFFICES ASSUME Init PROVE DirInv
  OBVIOUS
<1>1. Parser
  BY ParserInit
<1>2. currdirlist = <<>> /\ iter = [x \in Iterators |-> Closed] /\ opens = 0
  BY DEF Init
<1>3. iter \in [Iterators -> Iteration] /\ \A x \in Iterators : iter[x].at = "closed"
  BY <1>2, ClosedIs
<1>4. \A x \in Iterators : Stands(World, x, iter, currdirlist)
  BY <1>3 DEF Stands
<1>5. <<>> \in Seq(1..Len(World.list))
  OBVIOUS
<1>6. Progress(World, iter, currdirlist)
  BY <1>2, <1>3, <1>4, <1>5, Zenon DEF Progress
<1>7. opens \in 0..MaxOpens
  BY <1>2, DirAssumption
<1>8. QED
  BY <1>1, <1>6, <1>7 DEF DirInv

\* No step of a parser or of an iteration breaks it.
LEMMA DirStep == DirInv /\ [Next]_vars => DirInv'
<1> SUFFICES ASSUME DirInv, [Next]_vars PROVE DirInv'
  OBVIOUS
<1>1. Parser /\ Progress(World, iter, currdirlist) /\ opens \in 0..MaxOpens
  BY DEF DirInv
<1>2. CASE MountAudio
  <2>1. pc # "listed" /\ UNCHANGED itervars
    BY <1>2 DEF MountAudio
  <2>2. QED
    BY <1>1, <1>2, <2>1, MountAudioOk, ParsersOk
<1>3. CASE MakeIsoList
  <2>1. ParseIso /\ fe' = fe /\ UNCHANGED itervars
    BY <1>3 DEF MakeIsoList, udfvars
  <2>2. pc # "listed"
    BY <2>1 DEF ParseIso, MountIso, SkipRecord, ListRecord, ReturnIso, StartWalk, WalkField,
                EndWalk, AtRecord, Parsing
  <2>3. QED
    BY <1>1, <2>1, <2>2, ParseIsoOk, ParsersOk
<1>4. CASE MakeUdfList
  <2>1. ParseUdf /\ isjoliet' = isjoliet /\ off' = off /\ name' = name /\ UNCHANGED itervars
    BY <1>4 DEF MakeUdfList, isovars, walkvars
  <2>2. pc # "listed"
    BY <2>1 DEF ParseUdf, MountUdf, FailToMount, LoseMetadata, ReadEntry, ListFile,
                EnterDirectory, EnterNowhere, ReturnUdf, ParsingUdf, Directory
  <2>3. QED
    BY <1>1, <2>1, <2>2, ParseUdfOk, ParsersOk
<1>5. CASE Iterate
  BY <1>5, DirOpenOk, GatherOk, DirNextOk, DirCloseOk DEF Iterate
<1>6. CASE UNCHANGED vars
  <2>1. UNCHANGED <<listvars, isovars, udfvars>> /\ iter' = iter /\ currdirlist' = currdirlist
        /\ opens' = opens
    BY <1>6 DEF vars, itervars
  <2>2. Progress(World, iter', currdirlist') /\ opens' \in 0..MaxOpens
    BY <1>1, <2>1, Zenon
  <2>3. QED
    BY <1>1, <2>1, <2>2, IterationOk
<1>7. QED
  BY <1>2, <1>3, <1>4, <1>5, <1>6 DEF Next

\* What the theorems below rest on: DirInv always holds.
THEOREM DirInvariant == Spec => []DirInv
<1>1. QED
  BY DirInit, DirStep, PTL DEF Spec

(* The parsers and the iterations keep to their types: calls no deeper     *)
(* than directories, records within their directory, and positions within  *)
(* the list, whatever reads fail and whatever is opened meanwhile.         *)
THEOREM DirTypes == Spec => []TypeOK
<1>1. DirInv => TypeOK
  <2> SUFFICES ASSUME DirInv PROVE TypeOK
    OBVIOUS
  <2>1. Parser /\ Progress(World, iter, currdirlist) /\ opens \in 0..MaxOpens
    BY DEF DirInv
  <2>2. /\ iter \in [Iterators -> Iteration] /\ currdirlist \in Seq(1..Len(dirlist))
        /\ DOMAIN dirlist = 1..Len(dirlist)
    BY WorldIs
  <2>3. \A i \in DOMAIN currdirlist : currdirlist[i] \in DOMAIN dirlist
    BY <2>2
  <2>4. Len(stack) \in 0..MaxDepth /\ DOMAIN stack = 1..Len(stack)
    <3>1. stack \in Seq(Frame(disc)) /\ Len(stack) <= MaxDepth
      BY <2>1 DEF Parser, Calls
    <3>2. QED
      BY <3>1, ListAssumption
  <2>5. \A n \in DOMAIN stack : stack[n].next \in 1 .. Len(stack[n].of) + 1
    BY <2>1, <2>4 DEF Parser, Calls, FrameAt
  <2>6. \A i \in DOMAIN dirlist :
          dirlist[i].isdir \in BOOLEAN /\ Len(dirlist[i].path) \in 1..MaxDepth
    <3>1. Listable(dirlist)
      BY <2>1 DEF Parser
    <3>2. \A i \in DOMAIN dirlist : dirlist[i] \in Items
      BY <2>2, <3>1 DEF Listable
    <3>3. QED
      BY <2>2, <3>1, <3>2 DEF Listable, Items
  <2>7. ListTypeOK
    BY <2>1, <2>4, <2>5, <2>6 DEF Parser, Reading, ListTypeOK, Between
  <2>8. QED
    BY <2>1, <2>2, <2>3, <2>7 DEF TypeOK, Parser
<1>2. QED
  BY <1>1, DirInvariant, PTL

(* An iteration over a directory that no other disturbs returns that       *)
(* directory's entries, each once and in the order of the list, and has    *)
(* returned them all when it reports the end (diropen and dirnext of the   *)
(* three devices), however many iterations there are and however they are  *)
(* interleaved.                                                            *)
THEOREM DirEntries == Spec => []OwnEntries
<1>1. DirInv => OwnEntries
  <2> SUFFICES ASSUME DirInv, NEW x \in Iterators,
                      iter[x].calm, iter[x].at \in {"open", "ended"}
               PROVE  /\ \A n \in DOMAIN iter[x].got : iter[x].got[n] \in Children(iter[x].place)
                      /\ \A m, n \in DOMAIN iter[x].got : m < n => iter[x].got[m] < iter[x].got[n]
                      /\ iter[x].at = "ended" /\ (iter[x].place.slash => System[disc] # "udf") =>
                           Children(iter[x].place) = {iter[x].got[n] : n \in DOMAIN iter[x].got}
    BY Zenon DEF OwnEntries
  <2> DEFINE w == World
             c == currdirlist
             got == iter[x].got
             p == iter[x].place
             s == Shown(w, c)
  <2>1. /\ w.list = dirlist /\ (w.audio <=> Audio) /\ iter \in [Iterators -> Iteration] /\ Parser
        /\ Len(dirlist) \in Nat /\ DOMAIN dirlist = 1..Len(dirlist)
        /\ c \in Seq(1..Len(dirlist)) /\ Stands(w, x, iter, c)
    BY WorldIs
  <2>2. got \in Seq(Nat) /\ iter[x].next \in Nat
    BY <2>1 DEF Iteration
  <2>3. PICK k : /\ First(got, k, s) /\ k \in Nat /\ k <= Len(s)
                 /\ iter[x].at = "ended" => k = Len(s)
    <3>1. Len(s) \in Nat
      BY <2>1 DEF Shown
    <3>2. CASE iter[x].at = "open"
      BY <2>1, <2>2, <3>2 DEF Stands
    <3>3. CASE iter[x].at = "ended"
      BY <2>1, <3>1, <3>3 DEF Stands
    <3>4. QED
      BY <3>2, <3>3
  <2>4. DOMAIN got = 1..k /\ \A i \in 1..k : got[i] = s[i]
    BY <2>2, <2>3 DEF First
  <2>5. CASE Audio
    <3>1. s = [i \in 1..Len(dirlist) |-> i] /\ Len(s) = Len(dirlist)
      BY <2>1, <2>5 DEF Shown
    <3>2. \A i \in 1..k : got[i] = i /\ i \in 1..Len(dirlist)
      <4> DEFINE l == Len(dirlist)
      <4>1. k \in Nat /\ l \in Nat /\ k <= l
        BY <2>1, <2>3, <3>1
      <4> HIDE DEF l
      <4>2. \A i \in 1..k : i \in 1..l
        BY <4>1
      <4>3. \A i \in 1..l : s[i] = i
        BY <3>1, Zenon DEF l
      <4>4. QED
        BY <2>4, <4>2, <4>3, Zenon DEF l
    <3>3. Children(p) = 1..Len(dirlist)
      BY <2>1, <2>5 DEF Children
    <3>4. iter[x].at = "ended" => {got[n] : n \in DOMAIN got} = 1..Len(dirlist)
      BY <2>3, <2>4, <3>1, <3>2
    <3>5. QED
      BY <2>4, <3>2, <3>3, <3>4
  <2>6. CASE ~Audio
    <3>1. Gathered(w, c, p, Len(dirlist)) /\ s = c
      BY <2>1, <2>6 DEF Stands, Shown
    <3>2. \A n \in 1..k : n \in 1..Len(c) /\ got[n] = c[n]
      BY <2>1, <2>3, <2>4, <3>1
    <3>3. \A i : i \in Sought(w, p, Len(dirlist)) => i \in Children(p)
      <4>1. \A i : i \in Children(p) <=> i \in 1..Len(dirlist) /\ Parent(i) = p.dir
        BY <2>1, <2>6, Zenon DEF Children
      <4>2. \A i : Parent(i) = SubSeq(w.list[i].path, 1, Len(w.list[i].path) - 1)
        BY <2>1, Zenon DEF Parent
      <4>3. QED
        BY <2>1, <4>1, <4>2, Zenon DEF Sought
    <3>4. ASSUME p.slash => System[disc] # "udf", NEW i \in Children(p)
          PROVE  i \in Sought(w, p, Len(dirlist))
      <4>1. i \in 1..Len(dirlist) /\ Parent(i) = p.dir
        BY <2>1, <2>6, <3>4, Zenon DEF Children
      <4>2. Parent(i) = SubSeq(w.list[i].path, 1, Len(w.list[i].path) - 1)
        BY <2>1, Zenon DEF Parent
      <4>3. System[disc] \in {"iso", "udf"}
        BY <2>1, <2>6, ListAssumption DEF Audio, Parser
      <4>4. p.slash => w.slashes
        BY <3>4, <4>3, Zenon DEF World
      <4>5. i <= Len(dirlist)
        BY <2>1, <4>1
      <4>6. QED
        BY <2>1, <4>1, <4>2, <4>4, <4>5, Zenon DEF Sought
    <3>5. \A n \in 1..k : got[n] \in Children(p)
      BY <3>1, <3>2, <3>3 DEF Gathered
    <3>6. \A m, n \in 1..k : m < n => got[m] < got[n]
      BY <3>1, <3>2 DEF Gathered
    <3>7. ASSUME iter[x].at = "ended", p.slash => System[disc] # "udf"
          PROVE  Children(p) = {got[n] : n \in DOMAIN got}
      <4>1. \A i \in Children(p) : \E n \in 1..Len(c) : c[n] = i
        BY <3>1, <3>4, <3>7 DEF Gathered
      <4>2. k = Len(c)
        BY <2>3, <3>1, <3>7
      <4>3. QED
        BY <2>4, <3>2, <3>5, <4>1, <4>2
    <3>8. QED
      BY <2>4, <3>5, <3>6, <3>7
  <2>7. QED
    BY <2>5, <2>6
<1>2. QED
  BY <1>1, DirInvariant, PTL

(* While no read has failed, what is listed so far of a disc the parsers   *)
(* can read is there, each path once, and what is missing lies in a        *)
(* directory that a call is going through or has not come to.              *)
THEOREM DirListing == Spec => [](DirInv /\ TreeInv)
<1>1. DirInv /\ TreeInv /\ [Next]_vars => (DirInv /\ TreeInv)'
  BY DirStep, TreeStep
<1>2. QED
  BY <1>1, DirInit, TreeInit, PTL DEF Spec

(* When a disc is mounted and no read has failed, every file and directory *)
(* on it is listed once, under its path, with its kind, and nothing else   *)
(* is; of a disc whose directories are longer than what the parser reads   *)
(* of them, what is listed is there (disc_dirlist, of the constructors in  *)
(* usbdvd_iso9660.cpp and usbdvd_udf.cpp), whatever the disc holds.        *)
THEOREM DirListRight == Spec => []ListRight
<1>1. DirInv /\ TreeInv => ListRight
  <2> SUFFICES ASSUME DirInv, TreeInv, pc = "listed", clean, Fit
               PROVE  /\ Whole => Once(dirlist) /\ Listed = Entries[disc]
                      /\ Subset[disc] => Once(dirlist) /\ Listed \subseteq Entries[disc]
    BY DEF ListRight, Fit, Whole
  <2>1. Parser /\ disc \in Discs /\ Whole \in BOOLEAN
    BY FitIs DEF DirInv, Parser
  <2>2. CASE Audio
    <3>1. dirlist = TracksListed
      BY <2>2 DEF TreeInv
    <3>2. QED
      BY <2>1, <2>2, <3>1, TracksRight
  <2>3. CASE ~Audio
    <3>1. stack = <<>> /\ dirlist \in Seq(Items) /\ TidyDisc(disc, Whole)
      BY <2>1, <2>3, FitTidy DEF Parser, Between, Listable
    <3>2. OnDisc(disc, <<>>, dirlist, Whole)
      <4>1. OnDisc(disc, stack, dirlist, Whole)
        BY <2>3 DEF TreeInv
      <4>2. QED
        BY <3>1, <4>1
    <3>3. PICK T : T = TreeBelow(HeldOn(disc), RootOf(disc))
      OBVIOUS
    <3>4. Once(dirlist) /\ Listed \subseteq T /\ (Whole => Listed = T)
      BY <2>1, <3>1, <3>2, <3>3, FinishKeeps DEF Listed
    <3>5. Entries[disc] = T
      <4>1. Entries[disc] = EntriesOf(disc)
        BY <2>1 DEF Entries
      <4>2. CASE IsIso(disc)
        BY <3>3, <4>1, <4>2 DEF IsIso, EntriesOf, IsoEntries, HeldOn, RootOf
      <4>3. CASE System[disc] = "udf"
        BY <3>3, <4>1, <4>3 DEF IsIso, EntriesOf, UdfEntries, HeldOn, RootOf
      <4>4. QED
        BY <2>1, <2>3, <4>2, <4>3, ListAssumption DEF IsIso, Audio
    <3>6. QED
      BY <3>4, <3>5
  <2>4. QED
    BY <2>2, <2>3
<1>2. QED
  BY <1>1, DirListing, PTL

=============================================================================
