------------------------------- MODULE IsoTree -------------------------------
(***************************************************************************)
(* The constructors of CUSBDVD_ISO9660FS and the walk over directories     *)
(* (fs/iso9660/usbdvd_iso9660.cpp): list_dir_joliet if sector 17 holds a   *)
(* supplementary volume descriptor, list_dir_iso9660 otherwise, with the   *)
(* fields of Rock Ridge for records that have them.                        *)
(*                                                                         *)
(* Of a directory only the first sector is read.  Positions and lengths    *)
(* within a record are in bytes, for the walk over its fields depends on   *)
(* them.                                                                   *)
(***************************************************************************)
EXTENDS DiscList

CONSTANTS
  Iso,       \* of each ISO disc, its volume: see Volume
  Chars,     \* of each name a record has, its characters: bytes, or UCS-2 in Joliet
  Spelt,     \* the name that a sequence of bytes makes
  JunkLens   \* what a byte within a record may be when it is taken for a length

Low(n) == [i \in DOMAIN Chars[n] |-> Chars[n][i] % 256]

\* What comes before the first of some bytes.
UpTo(b, ends) ==
  SubSeq(b, 1, Cardinality({k \in DOMAIN b : \A i \in 1..k : b[i] \notin ends}))

Semicolon == 59   \* before the version of a file
Slash     == 47
Stops     == {0, 1, 2}

(* root and joliet are the sectors of the root directories, sectors the    *)
(* records of each directory, sector by sector.                            *)
Field  == [id : {"RR", "NM", "PX", "TF", "SL"}, len : 4..255, name : Names]
Record == [name : DOMAIN Chars, nlen : 1..222, dir : BOOLEAN, lba : Nat, rr : Seq(Field)]
Volume(v) == /\ v.vd17 \in {"joliet", "other"} /\ {v.root, v.joliet} \subseteq Nat
             /\ \A lba \in DOMAIN v.sectors : v.sectors[lba] \in Seq(Seq(Record)) \ {<<>>}

ASSUME IsoAssumption ==
  /\ DOMAIN Iso = {d \in Discs : System[d] = "iso"}
  /\ \A d \in DOMAIN Iso : Volume(Iso[d])
  /\ JunkLens \subseteq 0..255

(* A directory's record of itself has the byte 0 for a name, and that of   *)
(* its parent the byte 1.                                                  *)
ASSUME OwnAssumption ==
  {".", ".."} \subseteq DOMAIN Chars /\ Chars["."] = <<0>> /\ Chars[".."] = <<1>>

(* No low byte is a slash, which would make two names of one.              *)
ASSUME CharsAssumption ==
  /\ Chars \in [DOMAIN Chars -> Seq(0..65535)]
  /\ \A n \in DOMAIN Chars : \A i \in DOMAIN Chars[n] : Low(n)[i] # Slash

ASSUME NamedAssumption == DOMAIN Chars \subseteq Names
ASSUME EmptyAssumption == Spelt[<<>>] = ""
ASSUME SpeltAssumption ==
  \A n \in DOMAIN Chars : Spelt[UpTo(Low(n), Stops \cup {Semicolon})] \in Names

VARIABLES
  isjoliet,
  off,    \* rr_offset
  name    \* the name of the entry whose fields are walked over

walkvars == <<off, name>>
isovars  == <<isjoliet, walkvars>>

Vol == Iso[disc]
Sectors(d, lba) ==
  IF lba \in DOMAIN Iso[d].sectors THEN Iso[d].sectors[lba] ELSE <<<<>>>>

\* The root directory both constructors start from.
RootSector(v) == IF v.vd17 = "joliet" THEN v.joliet ELSE v.root

(* The descriptors' reads may fail too: without sector 17 the disc is      *)
(* taken for a plain one, without sector 16 no root is found.              *)
MountIso ==
  /\ pc = "mount" /\ System[disc] = "iso"
  /\ \/ /\ isjoliet' = (Vol.vd17 = "joliet")
        /\ \E got \in {Sectors(disc, RootSector(Vol))[1], <<>>} :
             /\ ReadInto(1, Sectors(disc, RootSector(Vol))[1], got)
             /\ stack' = <<Call(got, <<>>, 0, <<>>)>>
     \/ /\ isjoliet' = FALSE
        /\ faults < MaxFaults /\ faults' = faults + 1 /\ clean' = FALSE
        /\ stack' = <<Call(Sectors(disc, Vol.root)[1], <<>>, 0, <<>>)>>
        /\ left' = [left EXCEPT ![1] = Sectors(disc, Vol.root)[1]]
  /\ pc' = "parse"
  /\ UNCHANGED <<shared, dirlist, walkvars>>

Parsing == pc = "parse" /\ System[disc] = "iso"
AtRecord == Parsing /\ Top.next <= Len(Top.of)

\* Directories with an empty name are not listed, nor entered.
Unnamed(r, n) == r.dir /\ n = ""

\* Record r is listed under a name; then its directory is entered.
List(r, n) ==
  LET path == Append(Top.path, n)
      of   == Sectors(disc, r.lba)[1]
  IN  /\ dirlist' = IF Unnamed(r, n) THEN dirlist ELSE Append(dirlist, Entry(path, r.dir))
      /\ IF r.dir /\ n # "" /\ r.lba > 0
         THEN \E got \in {of, <<>>, left[Len(stack) + 1]} :
                /\ Len(stack) < MaxDepth
                /\ ReadInto(Len(stack) + 1, of, got)
                /\ stack' = Append(Advanced, Call(got, path, 0, <<>>))
         ELSE stack' = Advanced /\ UNCHANGED reads
      /\ pc' = "parse"
      /\ UNCHANGED shared

Own(r) == r.name \in {".", ".."}

(* cleanFileName and cleanFileName_Joliet, which makes nothing of a single *)
(* byte and keeps the low byte of each character, whatever the high one    *)
(* is.  A zero byte ends the name, a one or a two makes it that of the     *)
(* directory itself or of its parent, and a semicolon begins the version.  *)
CleanFileName(joliet, r) ==
  LET b     == IF joliet /\ r.nlen = 1 THEN <<>> ELSE Low(r.name)
      first == Len(UpTo(b, Stops)) + 1
      stop  == IF first > Len(b) THEN 0 ELSE b[first]
  IN  CASE stop = 1 -> "."
        [] stop = 2 -> ".."
        [] OTHER    -> Spelt[UpTo(b, Stops \cup {Semicolon})]

Cleaned(r) == CleanFileName(isjoliet, r)
Skipped(r) == Cleaned(r) \in {".", ".."}

HasRock(r) == r.rr # <<>> /\ r.rr[1].id = "RR"
Rock(r)    == ~isjoliet /\ HasRock(r)

SkipRecord ==
  /\ AtRecord /\ Skipped(Here)
  /\ stack' = Advanced
  /\ UNCHANGED <<shared, pc, dirlist, reads, isovars>>

ListRecord ==
  /\ AtRecord /\ ~Skipped(Here) /\ ~Rock(Here)
  /\ List(Here, Cleaned(Here))
  /\ UNCHANGED isovars

ReturnIso == Parsing /\ Top.next > Len(Top.of) /\ Return /\ UNCHANGED isovars

-----------------------------------------------------------------------------
(* Rock Ridge *)

\* Where a record's fields begin, and where they end.
Body(r) == 33 + r.nlen + (IF r.nlen % 2 = 0 THEN 1 ELSE 0)
FieldAt(r, k) == Position(Body(r), [j \in 1..Len(r.rr) |-> r.rr[j].len], k)
FieldsEnd(r) == FieldAt(r, Len(r.rr) + 1)

\* rd_len: with the byte that makes it even.
rd_len(r) == FieldsEnd(r) + (FieldsEnd(r) % 2)

StartOf(of, i) == Position(0, [j \in 1..Len(of) |-> rd_len(of[j])], i)

(* What the byte is that the walk takes for a field's length, at position  *)
(* p of a sector, when no field of the record begins there: a record's     *)
(* third byte is the lowest of its sector number, the byte before a record *)
(* and all behind the last are zero, or followed by zero.                  *)
Begins(of, p) == {i \in DOMAIN of : p = StartOf(of, i)}
Within(of, p) == p < StartOf(of, Len(of) + 1) - 1 /\ Begins(of, p) \cup Begins(of, p + 1) = {}
LengthAt(of, p) ==
  IF Within(of, p) THEN JunkLens
  ELSE IF Begins(of, p) = {} THEN {0} ELSE {of[i].lba % 256 : i \in Begins(of, p)}

\* The record has the 'RR' field first: the walk begins behind it.
StartWalk ==
  /\ AtRecord /\ ~Skipped(Here) /\ Rock(Here)
  /\ pc' = "walk" /\ off' = 0 /\ name' = Cleaned(Here)
  /\ UNCHANGED <<shared, stack, dirlist, reads, isjoliet>>

\* The position of the walk in the record.
Place(r, o) == FieldAt(r, 2) + o

\* NM's name is taken from behind the RR field, wherever NM is.
NameFrom(r, k) == IF k = 2 THEN r.rr[k].name ELSE "garbled"

(* The walk goes on for as many bytes as the record has, although it       *)
(* started far behind the record's beginning: into whatever follows the    *)
(* record, and nowhere if there it finds a length of zero.                 *)
WalkField ==
  /\ pc = "walk" /\ off < rd_len(Here)
  /\ IF \E k \in 2..Len(Here.rr) : FieldAt(Here, k) = Place(Here, off)
     THEN LET k == CHOOSE j \in 2..Len(Here.rr) : FieldAt(Here, j) = Place(Here, off)
          IN  /\ off' = off + Here.rr[k].len
              /\ name' = IF Here.rr[k].id = "NM" THEN NameFrom(Here, k) ELSE name
     ELSE LET p == StartOf(Top.of, Top.next) + Place(Here, off)
          IN  /\ \E len \in LengthAt(Top.of, p) : off' = off + len
              /\ name' \in {name} \cup (IF Within(Top.of, p) THEN {"garbled"} ELSE {})
  /\ UNCHANGED <<listvars, isjoliet>>

EndWalk ==
  /\ pc = "walk" /\ off >= rd_len(Here)
  /\ List(Here, name)
  /\ off' = 0 /\ name' = ""
  /\ UNCHANGED isjoliet

IsoInit == isjoliet = FALSE /\ off = 0 /\ name = ""
ParseIso ==
  \/ MountIso \/ SkipRecord \/ ListRecord \/ ReturnIso \/ StartWalk \/ WalkField \/ EndWalk

-----------------------------------------------------------------------------
(* Reference *)

Records(d, lba) ==
  UNION {{s} \X DOMAIN Sectors(d, lba)[s] : s \in DOMAIN Sectors(d, lba)}
RecordAt(d, lba, x) == Sectors(d, lba)[x[1]][x[2]]
Rocky(d, r) == Iso[d].vd17 # "joliet" /\ HasRock(r)
NamesIn(r)  == {k \in DOMAIN r.rr : r.rr[k].id = "NM"}
TrueName(d, r) ==
  IF Rocky(d, r) /\ NamesIn(r) # {} THEN r.rr[CHOOSE k \in NamesIn(r) : TRUE].name ELSE r.name

HeldIso(d) ==
  [lba \in DOMAIN Iso[d].sectors |->
     {[name |-> TrueName(d, r), isdir |-> r.dir, at |-> r.lba] :
        r \in {RecordAt(d, lba, x) : x \in {y \in Records(d, lba) : ~Own(RecordAt(d, lba, y))}}}]
IsoEntries(d) == TreeBelow(HeldIso(d), RootSector(Iso[d]))

\* The walk behind record i of a sector comes to its end.
WalkEnds(d, of, i) ==
  LET rest == rd_len(of[i]) - (FieldsEnd(of[i]) - FieldAt(of[i], 2))
  IN  /\ FieldsEnd(of[i]) % 2 = 0
      /\ i < Len(of)
      /\ of[i + 1].lba % 256 >= rest

IsoWalks(d) == \A lba \in DOMAIN Iso[d].sectors : LET of == Sectors(d, lba)[1] IN
  \A i \in DOMAIN of : of[i].name # ".." /\ HasRock(of[i]) => WalkEnds(d, of, i)

(* Where the parser is right: directories of one sector, names that their  *)
(* conversion leaves as they are (in Joliet, of characters below 256), and *)
(* what there is of Rock Ridge has NM first and a walk that ends, or is    *)
(* not looked at.                                                          *)
IsoNamed(d) ==
  /\ Iso[d].vd17 = "joliet" \/ IsoWalks(d)
  /\ \A lba \in DOMAIN Iso[d].sectors : \A x \in Records(d, lba) :
       LET r == RecordAt(d, lba, x)
       IN  /\ Rocky(d, r) => NamesIn(r) \subseteq {2} /\ (Own(r) => NamesIn(r) = {})
           /\ ~Own(r) => CleanFileName(Iso[d].vd17 = "joliet", r) = r.name
IsoShort(d) == \A lba \in DOMAIN Iso[d].sectors : Len(Sectors(d, lba)) = 1

(* What a volume should be: a name occurs once in a directory (not so of a *)
(* file in several sections, which has a record for each), and directories *)
(* have names and sectors.                                                 *)
IsoProper(d) == \A lba \in DOMAIN Iso[d].sectors : \A x \in Records(d, lba) :
  LET r == RecordAt(d, lba, x)
  IN  /\ Own(r) => r.dir
      /\ ~Own(r) =>
           /\ r.dir => TrueName(d, r) # "" /\ r.lba > 0
           /\ \A y \in Records(d, lba) :
                ~Own(RecordAt(d, lba, y)) /\ TrueName(d, RecordAt(d, lba, y)) = TrueName(d, r) => y = x

=============================================================================
