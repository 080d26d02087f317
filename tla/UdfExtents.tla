----------------------------- MODULE UdfExtents -----------------------------
(***************************************************************************)
(* The files of a mounted UDF disc as the parser of                        *)
(* fs/udf/usbdvd_udf.cpp leaves them, and udf_extents_to_sectors: from a   *)
(* place in a file to sectors of the disc.  A byte of the disc is known by *)
(* its place, sector * SectorSize + offset.                                *)
(***************************************************************************)
EXTENDS Integers, Sequences, FiniteSets

CONSTANTS
  SectorSize,     \* bytes in a sector: DATA_SECTOR_SIZE
  PartitionLba,   \* partitionlba
  Version,        \* the disc's descriptor_version: 2 up to UDF 1.50, then 3
  FileEntries     \* the file entries the directories of the disc lead to, in order

Extent    == [location : Nat, length : Nat]
FileEntry == [alloc : 0..3,            \* how the entry says where its file is
              infoLen : Nat, descs : Seq(Extent), small : BOOLEAN]
DirEntry  == [size : Nat, extents : Seq(Extent), small : BOOLEAN]

\* The bytes recorded in the first i of these extents, for each i.
BytesUpTo(descs) ==
  LET sum[i \in 0..Len(descs)] == IF i = 0 THEN 0 ELSE sum[i - 1] + descs[i].length
  IN sum

TotalLength(descs) == BytesUpTo(descs)[Len(descs)]

ASSUME SizeAssumption ==
  SectorSize \in Nat \ {0} /\ PartitionLba \in Nat \ {0} /\ Version \in {2, 3}

(* Short (0) and long (1) allocation descriptors record a file's bytes in  *)
(* extents, all but the last of whole sectors; an entry may also hold the  *)
(* file itself (3).                                                        *)
ASSUME EntriesAssumption ==
  /\ FileEntries \in Seq(FileEntry)
  /\ \A f \in DOMAIN FileEntries : LET e == FileEntries[f] IN
       /\ e.alloc \in {0, 1} => e.infoLen = TotalLength(e.descs)
       /\ e.alloc = 3 => e.descs = <<>>
       /\ \A i \in 1..(Len(e.descs) - 1) : e.descs[i].length % SectorSize = 0

-----------------------------------------------------------------------------
(* The parser *)

(* Parse_FileEntry_Ptr: of the entries of old discs only short descriptors *)
(* are understood; long ones are handed to Parse_ExtendedFileEntry_Ptr,    *)
(* which does not look at an entry with their tag.                         *)
ParseFileEntry(e) ==
  [size    |-> e.infoLen,
   extents |-> IF e.alloc = 0 THEN e.descs ELSE <<>>,
   small   |-> e.small]

\* Parse_ExtendedFileEntry_Ptr: the size is what the extents found add up to.
ParseExtendedFileEntry(e) ==
  LET found == IF e.alloc \in {0, 1} THEN e.descs ELSE <<>>
  IN [size |-> TotalLength(found), extents |-> found, small |-> e.small]

\* disc_dirlist
Dirlist == [f \in DOMAIN FileEntries |->
             IF Version = 2 THEN ParseFileEntry(FileEntries[f])
             ELSE ParseExtendedFileEntry(FileEntries[f])]

Files      == DOMAIN Dirlist
Extents(f) == Dirlist[f].extents

\* Bytes recorded in the extents of f before the i-th.
BytesBefore(f, i) == BytesUpTo(Extents(f))[i - 1]

-----------------------------------------------------------------------------
(* Where the bytes of a file are *)

Least(a, b)    == IF a <= b THEN a ELSE b
Greatest(a, b) == IF a >= b THEN a ELSE b

\* The place of byte p of file f, as the disc's author recorded it.
PlaceOf(f, p) ==
  LET i == CHOOSE j \in DOMAIN Extents(f) :
             BytesBefore(f, j) <= p /\ p < BytesBefore(f, j + 1)
  IN (PartitionLba + Extents(f)[i].location) * SectorSize + p - BytesBefore(f, i)

(* The bytes an extent is taken to hold: its length is multiplied by the   *)
(* size of a sector, though it is in bytes already.                        *)
Span(e) == e.length * SectorSize

SpanStart(f, i) == BytesBefore(f, i) * SectorSize

\* What extent i contributes to a read of n bytes from pos on, in its span.
FromIn(f, i, pos) == Greatest(pos, SpanStart(f, i))
TillIn(f, i, pos, n) == Least(pos + n, SpanStart(f, i) + Span(Extents(f)[i]))

\* A bug: as many sectors as the bytes fill.
SectorsFilled(bytes) == bytes \div SectorSize

\* One sector more than the bytes fill; where they start in the first is left out.
SectorsFor(bytes) == bytes \div SectorSize + 1

RangeIn(f, i, pos, n) ==
  [sector |-> Extents(f)[i].location
                + (FromIn(f, i, pos) - SpanStart(f, i)) \div SectorSize,
   len    |-> SectorsFor(TillIn(f, i, pos, n) - FromIn(f, i, pos))]

\* The extents looked at end with the first empty one.
Visited(f, i, pos, n) ==
  /\ \A j \in 1..i : Extents(f)[j].length > 0
  /\ FromIn(f, i, pos) < TillIn(f, i, pos, n)

Reached(f, pos, n) == {i \in DOMAIN Extents(f) : Visited(f, i, pos, n)}

\* udf_extents_to_sectors: one range for each extent the read reaches into.
SectorRanges(f, pos, n) ==
  LET first == CHOOSE i \in Reached(f, pos, n) : \A j \in Reached(f, pos, n) : i <= j
      last  == CHOOSE i \in Reached(f, pos, n) : \A j \in Reached(f, pos, n) : i >= j
  IN IF Reached(f, pos, n) = {} THEN <<>>
     ELSE [k \in 1..(last - first + 1) |-> RangeIn(f, first + k - 1, pos, n)]

\* The length a device clamps a read to.
Clamp(f, pos, len) ==
  IF pos < 0 \/ pos >= Dirlist[f].size THEN 0 ELSE Least(len, Dirlist[f].size - pos)

\* Whether one range, in the first extent, holds the read, and the disc has its bytes there.
Straight(f, pos, n) ==
  /\ Len(SectorRanges(f, pos, n)) = 1
  /\ pos + n <= Span(Extents(f)[1])
  /\ \A p \in pos .. pos + n - 1 :
       PlaceOf(f, p) = (PartitionLba + Extents(f)[1].location) * SectorSize + p

\* Whether the sectors of the one range hold all of the read.
Covered(pos, n) == (pos % SectorSize) + (n % SectorSize) <= SectorSize
=============================================================================
