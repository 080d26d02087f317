------------------------------ MODULE DataDisc ------------------------------
(***************************************************************************)
(* The data of a mounted disc and the sector arithmetic of                 *)
(* CUSBDVD_DATADISC::ReadData (fs/usbdvd_datadisc.cpp).  A disc is a list  *)
(* of files, each a run of sectors; a byte of it is known by its sector,   *)
(* its offset there and what has been done to it:                          *)
(*                                                                         *)
(*   "clear"      as the author of the disc wrote it                       *)
(*   "scrambled"  as a CSS disc holds it                                   *)
(*   "garbled"    unscrambled twice, or with another title's key           *)
(*   "none"       not the disc's: memory that was freed or never written,  *)
(*                or the zeroes of a sector an image does not have         *)
(***************************************************************************)
EXTENDS Integers, Sequences, FiniteSets

CONSTANTS
  SectorSize,   \* bytes in a sector: DATA_SECTOR_SIZE
  Dirlist,      \* disc_dirlist: a sequence of [lba, size, title, scrambled, ifo]
  TitleKeys     \* titlekeys: the title whose key is at each position, from 1

Texts    == {"clear", "scrambled", "garbled", "none"}
DirEntry == [lba : Nat \ {0}, size : Nat, title : Nat \cup {-1},
             scrambled : BOOLEAN, ifo : BOOLEAN]

ASSUME SizeAssumption == SectorSize \in Nat \ {0}

\* Sector 0 is never a file's: the volume descriptors come before any file.
ASSUME DirAssumption == Dirlist \in Seq(DirEntry)

\* Only files named after a title are scrambled, and never an IFO file.
ASSUME ScrambledAssumption ==
  \A f \in DOMAIN Dirlist : Dirlist[f].scrambled => Dirlist[f].title >= 0 /\ ~Dirlist[f].ifo

ASSUME KeysAssumption == TitleKeys \in Seq(Nat \cup {-1})

-----------------------------------------------------------------------------
(* Sectors *)

Files   == DOMAIN Dirlist
NoTitle == -1

Least(a, b) == IF a <= b THEN a ELSE b

\* How many sectors a file takes, and which.
SectorsOf(f) ==
  Dirlist[f].lba .. Dirlist[f].lba + (Dirlist[f].size - 1) \div SectorSize

IsScrambled(s) == \E f \in Files : Dirlist[f].scrambled /\ s \in SectorsOf(f)
TitleOf(s) ==
  IF IsScrambled(s)
  THEN Dirlist[CHOOSE f \in Files : Dirlist[f].scrambled /\ s \in SectorsOf(f)].title
  ELSE NoTitle

\* The sectors of a title's scrambled files are no other file's.
ASSUME LayoutAssumption ==
  \A f, g \in Files : Dirlist[f].scrambled /\ SectorsOf(f) \cap SectorsOf(g) # {}
    => Dirlist[g].scrambled /\ Dirlist[g].title = Dirlist[f].title

\* What the drive returns for a sector of a disc with or without CSS.
Content == [of : Nat, text : Texts]
Nothing == [of |-> 0, text |-> "none"]
OnDisc(css, s) == [of |-> s, text |-> IF css /\ IsScrambled(s) THEN "scrambled" ELSE "clear"]

\* A bug: the scrambling flag is ignored.
UnscrambleAlways(k, c) ==
  [c EXCEPT !.text = IF @ = "scrambled" /\ k + 1 \in DOMAIN TitleKeys
                        /\ TitleKeys[k + 1] = TitleOf(c.of) THEN "clear" ELSE "garbled"]

(* dvdcss_unscramble: the sector's own flag, in the part that is never     *)
(* scrambled, says whether there is anything to do, and still says so      *)
(* afterwards.                                                             *)
Unscramble(k, c) ==
  IF ~IsScrambled(c.of) THEN c
  ELSE [c EXCEPT !.text = IF @ = "scrambled" /\ k + 1 \in DOMAIN TitleKeys
                             /\ TitleKeys[k + 1] = TitleOf(c.of) THEN "clear" ELSE "garbled"]

-----------------------------------------------------------------------------
(* The arithmetic of ReadData *)

Byte == [sector : Nat, off : Nat, text : Texts]
NoByte == [sector |-> 0, off |-> 0, text |-> "none"]

\* The length ReadData and the devices clamp a read to.
Clamp(f, pos, len) ==
  IF pos < 0 \/ pos >= Dirlist[f].size THEN 0 ELSE Least(len, Dirlist[f].size - pos)

FirstSector(f, pos) == Dirlist[f].lba + pos \div SectorSize

\* A bug: a read that fills whole sectors stops where an aligned one would.
LastSectorAligned(f, pos, size) == FirstSector(f, pos) + (size - 1) \div SectorSize

\* A bug: the last sector is taken to be the last whole one.
LastSectorWhole(f, pos, size) == FirstSector(f, pos) + size \div SectorSize - 1

\* The offset in the first sector is left out, as in the code.
LastSector(f, pos, size) == FirstSector(f, pos) + size \div SectorSize

\* Where the copy starts in sector s, and how much of it is copied.
OffsetIn(first, pos, s) == IF s = first THEN pos % SectorSize ELSE 0

ToRead(first, pos, s, rem) == Least(rem, SectorSize - OffsetIn(first, pos, s))

\* n bytes of a sector's content from an offset on.
Slice(c, off, n) == [i \in 1..n |-> [sector |-> c.of, off |-> off + i - 1, text |-> c.text]]

\* What a caller of ReadData wants: n bytes of file f from pos on, in the clear.
Wanted(f, pos, n) ==
  [i \in 1..n |-> [sector |-> Dirlist[f].lba + (pos + i - 1) \div SectorSize,
                   off    |-> (pos + i - 1) % SectorSize,
                   text   |-> "clear"]]

\* Whether the sectors ReadData visits hold all of the read.
Covered(pos, n) == (pos % SectorSize) + (n % SectorSize) <= SectorSize

=============================================================================
