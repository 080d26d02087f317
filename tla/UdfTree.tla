------------------------------- MODULE UdfTree -------------------------------
(***************************************************************************)
(* The constructors of CUSBDVD_UDFFS and the walk over directories         *)
(* (fs/udf/usbdvd_udf.cpp): Parse_FID_Ptr goes through the file identifier *)
(* descriptors of a directory and reads each one's file entry.  Volumes    *)
(* with descriptors of version 2 are read sector by sector; those of       *)
(* version 3 from the metadata partition, read whole at the beginning.     *)
(***************************************************************************)
EXTENDS DiscList

CONSTANTS
  Udf,         \* of each UDF disc, its volume
  SectorSize,  \* DATA_SECTOR_SIZE
  FidSize      \* sizeof(file_identifier_descriptor_t)

(* meta is the number of extents of the metadata file, none before 2.50;   *)
(* root the place of the root's file entry; fids what a place holds of     *)
(* file identifier descriptors; nlen a name's bytes with its compression   *)
(* identifier, which says whether it is wide; alloc how a file entry gives *)
(* its extents (0 short, 1 long, 3 within the file entry).                 *)
Extent == [at : Nat, size : Nat]
FileEntry == [type : {"dir", "file", "other"}, alloc : {0, 1, 3}, extents : Seq(Extent)]
FID == [name : Names, nlen : 0..255, wide : BOOLEAN, icb : Nat]

(* The FIDs of a volume: what is no file entry where one is looked for is  *)
(* an entry of type "other".                                               *)
FidsOf(v) == {f \in FID : f.icb \in DOMAIN v.fe}

ASSUME UdfAssumption ==
  /\ DOMAIN Udf = {d \in Discs : System[d] = "udf"}
  /\ \A d \in DOMAIN Udf : /\ Udf[d].version \in {2, 3} /\ Udf[d].meta \in Nat
                           /\ Udf[d].root \in DOMAIN Udf[d].fe
                           /\ \A l \in DOMAIN Udf[d].fe : Udf[d].fe[l] \in FileEntry
                           /\ \A l \in DOMAIN Udf[d].fids : Udf[d].fids[l] \in Seq(FidsOf(Udf[d]))
  /\ SectorSize \in Nat \ {0} /\ FidSize \in Nat

VARIABLES fe   \* the file entry the innermost call has read

udfvars == <<fe>>

Disc == Udf[disc]
NoEntry == [type |-> "other", alloc |-> 3, extents |-> <<>>]
Fids(v, at) == IF at \in DOMAIN v.fids THEN v.fids[at] ELSE <<>>

Crash == pc' = "crashed" /\ stack' = <<>> /\ UNCHANGED <<shared, dirlist, left, udfvars>>

-----------------------------------------------------------------------------
(* The root directory *)

(* Copies of all allocation descriptors into one: the drive's constructor  *)
(* does so for the metadata file, both do for the root's file entry.       *)
DescriptorBytes(entry) == Len(entry.extents) * (IF entry.alloc = 1 THEN 16 ELSE 8)
Overruns(v) ==
  LET root == v.fe[v.root]
  IN  \/ how = "drive" /\ v.meta > 1
      \/ root.alloc = 0 /\ Len(root.extents) > 1
      \/ root.alloc = 1 /\ DescriptorBytes(root) > (IF v.version = 2 THEN 8 ELSE 16)
      \/ root.alloc = 3 /\ v.version = 2

\* Without a metadata partition the root's extended file entry is taken for
\* a plain one, whose allocation descriptors lie elsewhere.
Misread(v) == v.version = 3 /\ v.meta = 0

\* What the root directory is found to hold.
RootFids(v) ==
  LET root == v.fe[v.root]
  IN  IF Misread(v) \/ root.alloc = 3 \/ root.extents = <<>> THEN <<>>
      ELSE Fids(v, root.extents[1].at)

(* If the metadata partition is not read, its buffer is uninitialised.     *)
MountUdf ==
  /\ pc = "mount" /\ System[disc] = "udf"
  /\ \E got \in {RootFids(Disc), <<>>} :
       /\ ReadInto(1, RootFids(Disc), got)
       /\ stack' = <<Call(got, <<>>, SectorSize, <<>>)>>
  /\ pc' = "parse"
  /\ UNCHANGED <<shared, dirlist, udfvars>>

FailToMount ==
  /\ pc = "mount" /\ System[disc] = "udf"
  /\ \/ Overruns(Disc) \/ Misread(Disc)
  /\ Crash /\ UNCHANGED <<clean, faults>>

LoseMetadata ==
  /\ pc = "mount" /\ System[disc] = "udf" /\ Disc.version = 3
  /\ faults < MaxFaults /\ faults' = faults + 1 /\ clean' = FALSE
  /\ Crash

-----------------------------------------------------------------------------
(* Parse_FID_Ptr *)

\* How far the next descriptor is from this one.
FidLength(f) == 4 * ((FidSize + f.nlen + 3) \div 4)

FidPos(of, i) == Position(0, [j \in 1..Len(of) |-> FidLength(of[j])], i)

ParsingUdf == pc = "parse" /\ System[disc] = "udf"
More(c) == c.next <= Len(c.of) /\ FidPos(c.of, c.next) + FidSize < c.size

(* dstring_to_string: of 16-bit characters it keeps the high bytes; its    *)
(* length argument is a byte.  A name behind the one sector read is what   *)
(* the stack holds there.                                                  *)
NameOf(f, end) ==
  IF f.nlen \in {0, 255} THEN ""
  ELSE IF Disc.version = 2 /\ end > SectorSize THEN "garbled"
  ELSE IF f.wide THEN "nul" ELSE f.name

\* Version 2: file entries give short descriptors, or nothing is taken from them.
Parsed(entry) ==
  IF Disc.version = 2 /\ entry.alloc # 0 THEN [entry EXCEPT !.extents = <<>>] ELSE entry

\* The file entries of this call's earlier records.
Before == {Parsed(Disc.fe[Top.of[i].icb]) : i \in 1 .. Top.next - 1}

ReadEntry ==
  /\ ParsingUdf /\ More(Top)
  /\ \/ fe' = Parsed(Disc.fe[Here.icb]) /\ UNCHANGED <<clean, faults>>
     \/ /\ Disc.version = 2 /\ faults < MaxFaults
        /\ faults' = faults + 1 /\ clean' = FALSE
        /\ fe' \in {NoEntry} \cup Before
  /\ pc' = "entry"
  /\ UNCHANGED <<shared, stack, dirlist, left>>

\* isdir has a value only if the type is a directory's or a file's.
Kinds(entry) == IF entry.type = "other" THEN BOOLEAN ELSE {entry.type = "dir"}

(* Where a directory's descriptors are read from: the last extent if by    *)
(* the sector, the first in the metadata partition, though for as many     *)
(* bytes as the last has.                                                  *)
Begin(entry) == IF Disc.version = 2 THEN entry.extents[Len(entry.extents)].at
                                    ELSE entry.extents[1].at
Size(entry)  == IF Disc.version = 2 THEN SectorSize
                                    ELSE entry.extents[Len(entry.extents)].size

Found == NameOf(Here, FidPos(Top.of, Top.next) + FidSize + Here.nlen)

ListFile ==
  /\ pc = "entry"
  /\ FALSE \in Kinds(fe) \/ Found = ""
  /\ stack' = Advanced
  /\ dirlist' = IF Found = "" THEN dirlist ELSE Append(dirlist, Entry(Append(Top.path, Found), FALSE))
  /\ pc' = "parse" /\ fe' = NoEntry
  /\ UNCHANGED <<shared, reads>>

\* A bug: what a directory holds is listed below the one it is in.
ParentsPath(path, n) == path

\* The path a directory's own entries are listed under.
SubPath(path, n) == Append(path, n)

Directory == pc = "entry" /\ TRUE \in Kinds(fe) /\ Found # ""

\* Goes through `got`, and lists the directory on return.
Enter(got, size) ==
  /\ Len(stack) < MaxDepth
  /\ stack' = Append(Advanced,
       Call(got, SubPath(Top.path, Found), size, <<Entry(Append(Top.path, Found), TRUE)>>))
  /\ pc' = "parse" /\ fe' = NoEntry
  /\ UNCHANGED <<shared, dirlist>>

EnterDirectory ==
  /\ Directory /\ fe.extents # <<>>
  /\ LET of == Fids(Disc, Begin(fe))
     IN  \/ /\ Disc.version = 2
            /\ \E got \in {of, <<>>, left[Len(stack) + 1]} :
                 ReadInto(Len(stack) + 1, of, got) /\ Enter(got, Size(fe))
         \/ Disc.version = 3 /\ Enter(of, Size(fe)) /\ UNCHANGED reads

\* Without extents lba is uninitialised, or the first extent is of an empty vector.
EnterNowhere ==
  /\ Directory /\ fe.extents = <<>>
  /\ UNCHANGED <<clean, faults>>
  /\ \/ /\ Disc.version = 2
        /\ \E got \in {<<>>, left[Len(stack) + 1]} :
             Enter(got, SectorSize) /\ left' = [left EXCEPT ![Len(stack) + 1] = got]
     \/ Disc.version = 3 /\ Crash

ReturnUdf == ParsingUdf /\ ~More(Top) /\ Return /\ UNCHANGED udfvars

UdfInit == fe = NoEntry
ParseUdf ==
  \/ MountUdf \/ FailToMount \/ LoseMetadata \/ ReadEntry \/ ListFile \/ EnterDirectory \/ EnterNowhere
  \/ ReturnUdf

-----------------------------------------------------------------------------
(* Reference *)

Extents(d, l) == {Udf[d].fe[l].extents[i] : i \in DOMAIN Udf[d].fe[l].extents}
FilesIn(of) == {i \in DOMAIN of : of[i].nlen > 0}
HeldUdf(d) ==
  [l \in DOMAIN Udf[d].fe |->
     UNION {LET of == Fids(Udf[d], e.at)
            IN  {[name |-> of[i].name, isdir |-> Udf[d].fe[of[i].icb].type = "dir", at |-> of[i].icb] :
                   i \in FilesIn(of)} :
            e \in Extents(d, l)}]
UdfEntries(d) == TreeBelow(HeldUdf(d), Udf[d].root)

Directories(d) == {l \in DOMAIN Udf[d].fe : Udf[d].fe[l].type = "dir"}
FidBytes(of) == FidPos(of, Len(of) + 1)

(* Where the parser is right: directories of one extent, within a sector   *)
(* if read by the sector, and names of 8-bit characters.                   *)
OneExtent(d) == \A l \in Directories(d) :
  /\ Len(Udf[d].fe[l].extents) = 1
  /\ Udf[d].fe[l].alloc \in IF Udf[d].version = 2 THEN {0} ELSE {0, 1}
UdfShort(d) == \A l \in Directories(d) : \A e \in Extents(d, l) :
  Udf[d].version = 2 \/ l = Udf[d].root => FidBytes(Fids(Udf[d], e.at)) <= SectorSize
UdfNamed(d) == \A at \in DOMAIN Udf[d].fids : \A i \in DOMAIN Udf[d].fids[at] :
  LET f == Udf[d].fids[at][i] IN f.nlen < 255 /\ ~f.wide /\ Udf[d].fe[f.icb].type # "other"

(* What a volume should be: a directory's extents hold its descriptors,    *)
(* and names are there and differ.                                         *)
UdfProper(d) ==
  /\ Udf[d].fe[Udf[d].root].type = "dir"
  /\ \A l \in Directories(d) : \A e \in Extents(d, l) :
       LET of == Fids(Udf[d], e.at)
       IN  /\ FidBytes(of) <= e.size
           /\ \A i, j \in FilesIn(of) :
                of[i].name # "" /\ (of[i].name = of[j].name => i = j)

(* Where it does not come to grief: the metadata partition and the root    *)
(* directory are as the constructor takes them for granted, and so are the *)
(* extents of what may be a directory in the partition.                    *)
UdfMounts(d, from) ==
  LET v    == Udf[d]
      root == v.fe[v.root]
  IN  /\ Len(root.extents) = 1 /\ root.alloc \in IF v.version = 2 THEN {0} ELSE {0, 1}
      /\ v.version = 3 => /\ v.meta = 1 \/ (v.meta > 1 /\ from = "image")
                          /\ \A l \in DOMAIN v.fe : v.fe[l].type = "file" \/ v.fe[l].extents # <<>>

=============================================================================
