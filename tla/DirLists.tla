------------------------------ MODULE DirLists ------------------------------
(***************************************************************************)
(* The directories of a disc: the list made once when it is mounted        *)
(* (IsoTree, UdfTree; an audio CD has its tracks), and the iterations over *)
(* it, the functions diropen and dirnext of the three devices.  Those of   *)
(* ISO9660 and UDF gather the entries of the directory opened in a list    *)
(* they all share, without the session mutex.                              *)
(***************************************************************************)
EXTENDS IsoTree, UdfTree

CONSTANTS
  Tracks,     \* of each audio CD, the names of its tracks, which are numbered
  Iterators,  \* DIR handles of the application
  Places,     \* what it opens: a directory, spelled with a final slash or not
  MaxOpens    \* bound on the directories it opens

ASSUME DirAssumption ==
  /\ DOMAIN Tracks = {d \in Discs : System[d] = "audio"}
  /\ \A d \in DOMAIN Tracks :
       /\ Tracks[d] \in Seq(Names)
       /\ \A i, j \in DOMAIN Tracks[d] : Tracks[d][i] = Tracks[d][j] => i = j
  /\ \A p \in Places : p.slash \in BOOLEAN
  /\ MaxOpens \in Nat

VARIABLES
  currdirlist,  \* the entries gathered: their positions in dirlist
  iter,         \* per iterator, its progress
  opens

itervars == <<currdirlist, iter, opens>>
vars == <<listvars, isovars, udfvars, itervars>>

(* next is dirnext_idx, at the entry diropen looks at next, got what the   *)
(* iteration returned so far; calm: no other directory was being opened    *)
(* since this one was.                                                     *)
NoPlace == [dir |-> <<>>, slash |-> FALSE]
Iteration == [at : {"closed", "opening", "open", "ended"}, place : Places \cup {NoPlace},
              seen : Nat, next : Nat, got : Seq(Nat), calm : BOOLEAN]
Closed == [at |-> "closed", place |-> NoPlace, seen |-> 0, next |-> 0, got |-> <<>>, calm |-> FALSE]

MountAudio ==
  /\ pc = "mount" /\ System[disc] = "audio"
  /\ dirlist' = [i \in DOMAIN Tracks[disc] |-> Entry(<<Tracks[disc][i]>>, FALSE)]
  /\ pc' = "listed"
  /\ UNCHANGED <<shared, stack, reads, isovars, udfvars, itervars>>

MakeIsoList == ParseIso /\ UNCHANGED <<udfvars, itervars>>
MakeUdfList == ParseUdf /\ UNCHANGED <<isovars, itervars>>

-----------------------------------------------------------------------------
(* Iteration *)

Audio == System[disc] = "audio"

Parent(i) == SubSeq(dirlist[i].path, 1, Len(dirlist[i].path) - 1)

\* The strings compared are equal: that of ISO9660 may end in a slash.
Matches(i, p) == Parent(i) = p.dir /\ (p.slash => System[disc] = "iso")

\* A bug: the list is not emptied.
Kept(list) == list

\* What diropen makes of the list it finds.
Emptied(list) == <<>>

\* A diropen under way, or beginning, spoils the other iterations.
Disturbed(x) == [y \in Iterators |-> IF y = x THEN iter[y] ELSE [iter[y] EXCEPT !.calm = FALSE]]
Quiet(x) == \A y \in Iterators \ {x} : iter[y].at # "opening"

DirOpen(x, p) ==
  /\ pc = "listed" /\ iter[x].at \in {"closed", "open", "ended"}
  /\ opens < MaxOpens /\ opens' = opens + 1
  /\ IF Audio
     THEN /\ iter' = [iter EXCEPT ![x] = [Closed EXCEPT !.at = "open", !.place = p, !.calm = TRUE]]
          /\ UNCHANGED currdirlist
     ELSE /\ iter' = [Disturbed(x) EXCEPT ![x] =
                       [Closed EXCEPT !.at = "opening", !.place = p, !.calm = Quiet(x)]]
          /\ currdirlist' = Emptied(currdirlist)
  /\ UNCHANGED <<listvars, isovars, udfvars>>

\* The loop of diropen, up to the next entry it takes.
Gather(x) ==
  /\ iter[x].at = "opening"
  /\ LET more == {i \in DOMAIN dirlist : i > iter[x].seen /\ Matches(i, iter[x].place)}
     IN  IF more # {}
         THEN LET i == CHOOSE j \in more : \A k \in more : j <= k
              IN  currdirlist' = Append(currdirlist, i) /\ iter' = [iter EXCEPT ![x].seen = i]
         ELSE iter' = [iter EXCEPT ![x].at = "open", ![x].next = 0] /\ UNCHANGED currdirlist
  /\ UNCHANGED <<listvars, isovars, udfvars, opens>>

Returned == IF Audio THEN [i \in DOMAIN dirlist |-> i] ELSE currdirlist

\* At the end of an audio CD the next call begins again.
DirNext(x) ==
  /\ iter[x].at \in {"open", "ended"}
  /\ IF iter[x].next < Len(Returned)
     THEN iter' = [iter EXCEPT ![x].at = "open", ![x].next = @ + 1,
                     ![x].got = Append(IF iter[x].at = "ended" /\ Audio THEN <<>> ELSE @,
                                       Returned[iter[x].next + 1])]
     ELSE iter' = [iter EXCEPT ![x].at = "ended", ![x].next = IF Audio THEN 0 ELSE @]
  /\ UNCHANGED <<listvars, isovars, udfvars, currdirlist, opens>>

DirClose(x) ==
  /\ iter[x].at \in {"open", "ended"}
  /\ iter' = [iter EXCEPT ![x] = Closed]
  /\ UNCHANGED <<listvars, isovars, udfvars, currdirlist, opens>>

Init ==
  /\ ListInit /\ IsoInit /\ UdfInit
  /\ currdirlist = <<>> /\ iter = [x \in Iterators |-> Closed] /\ opens = 0

Iterate ==
  \E x \in Iterators :
    (\E p \in Places : DirOpen(x, p)) \/ Gather(x) \/ DirNext(x) \/ DirClose(x)

Next == MountAudio \/ MakeIsoList \/ MakeUdfList \/ Iterate

(* The constructor runs in the thread that mounts the disc: it goes on     *)
(* until it returns, whatever it does.                                     *)
Fairness == WF_vars(MountAudio) /\ WF_vars(MakeIsoList) /\ WF_vars(MakeUdfList)

Spec == Init /\ [][Next]_vars /\ Fairness

-----------------------------------------------------------------------------
(* Properties *)

TypeOK ==
  /\ ListTypeOK
  /\ isjoliet \in BOOLEAN /\ off \in Nat /\ fe \in FileEntry
  /\ iter \in [Iterators -> Iteration]
  /\ \A i \in DOMAIN currdirlist : currdirlist[i] \in DOMAIN dirlist
  /\ opens \in 0..MaxOpens

Once(list) == \A i, j \in DOMAIN list : list[i].path = list[j].path => i = j
Listed == {dirlist[i] : i \in DOMAIN dirlist}

(* The discs whose directories the parsers can read, and those they come   *)
(* to an end with: see IsoTree and UdfTree.                                *)
ReadableIn(d, from) ==
  CASE System[d] = "iso" -> IsoShort(d) /\ IsoNamed(d) /\ IsoProper(d)
    [] System[d] = "udf" -> /\ OneExtent(d) /\ UdfShort(d) /\ UdfNamed(d) /\ UdfProper(d)
                            /\ UdfMounts(d, from)
    [] OTHER -> TRUE
SaneIn(d, from) ==
  CASE System[d] = "iso" -> IsoWalks(d)
    [] System[d] = "udf" -> UdfMounts(d, from)
    [] OTHER -> TRUE
EntriesOf(d) ==
  CASE System[d] = "iso" -> IsoEntries(d)
    [] System[d] = "udf" -> UdfEntries(d)
    [] OTHER -> {Entry(<<Tracks[d][i]>>, FALSE) : i \in DOMAIN Tracks[d]}

Readable == [d \in Discs |-> [from \in {"drive", "image"} |-> ReadableIn(d, from)]]
Sane     == [d \in Discs |-> [from \in {"drive", "image"} |-> SaneIn(d, from)]]
Subset   == [d \in Discs |-> System[d] = "iso" /\ IsoNamed(d) /\ IsoProper(d)]
Entries  == [d \in Discs |-> EntriesOf(d)]

(* When a disc is mounted and no read failed, every file and directory on  *)
(* it is listed once, under its path, with its kind, and nothing else is   *)
(* (disc_dirlist, of the constructors in usbdvd_iso9660.cpp and            *)
(* usbdvd_udf.cpp), if it is one the parsers can read: IsoNamed says which *)
(* names they keep.  Of a disc whose directories are longer than what the  *)
(* parser reads of them, what is listed is there.                          *)
ListRight ==
  pc = "listed" /\ clean =>
    /\ Readable[disc][how] => Once(dirlist) /\ Listed = Entries[disc]
    /\ Subset[disc] => Once(dirlist) /\ Listed \subseteq Entries[disc]

(* The places of dirlist that an iteration over a directory should return. *)
Children(p) == {i \in DOMAIN dirlist : Audio \/ Parent(i) = p.dir}

(* An iteration during which no other directory is opened returns entries  *)
(* of its own directory only, each once and in the order of the list, and  *)
(* has returned them all when it reports the end (diropen and dirnext of   *)
(* iso9660_devoptab.cpp, udf_devoptab.cpp and cdaudio_devoptab.cpp); on a  *)
(* UDF disc only if the directory's name is given without a slash.         *)
OwnEntries ==
  \A x \in Iterators : LET it == iter[x] IN
    it.calm /\ it.at \in {"open", "ended"} =>
      /\ \A n \in DOMAIN it.got : it.got[n] \in Children(it.place)
      /\ \A m, n \in DOMAIN it.got : m < n => it.got[m] < it.got[n]
      /\ it.at = "ended" /\ (it.place.slash => System[disc] # "udf") =>
           Children(it.place) = {it.got[n] : n \in DOMAIN it.got}

(* Mounting a disc comes to an end, whatever reads fail, unless a walk     *)
(* over Rock Ridge fields meets a length of zero (list_dir_iso9660's loop  *)
(* over rr_offset) or a UDF disc has no metadata partition, or directories *)
(* without an extent, where the parser takes both for granted.             *)
MountEnds == Sane[disc][how] => <>(pc = "listed" \/ (pc = "crashed" /\ ~clean))

=============================================================================
