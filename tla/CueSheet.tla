------------------------------ MODULE CueSheet ------------------------------
(***************************************************************************)
(* Tables of contents: cuebin_to_TOC of usbdvd_utils.cpp, which makes one  *)
(* out of a cue sheet and the size of its binary file, and the places of   *)
(* tracks in a table.  A line of a sheet is its command; the text of       *)
(* titles and performers is left out.                                      *)
(***************************************************************************)
EXTENDS Integers, Sequences, FiniteSets

Line == [command : {"TRACK", "INDEX", "other"},
         number : Nat,                          \* of the track, or of the index
         min : Nat, sec : 0..59, frame : 0..74] \* of an index

Byte(n) == n % 256
Msf     == [min : 0..255, sec : 0..255, frame : 0..255]
Toc     == [last : Nat, tracks : Seq(Msf)]

lbaToMsf(lba) == [min |-> Byte(lba \div (75 * 60)), sec |-> (lba % (75 * 60)) \div 75,
                  frame |-> lba % 75]

\* Tracks that a table has room for, the lead-out included.
TableSize == 255

\* Frames that a table can tell apart: it has a byte for the minutes.
TableEnd == 256 * 60 * 75

LbaOf(m) == (m.min * 60 + m.sec) * 75 + m.frame

\* A track whose INDEX 01 has not been seen.
CueTrack == [min |-> 0, sec |-> 0, frame |-> 0]

NothingScanned == [tracks |-> <<>>, current |-> CueTrack, inTrack |-> FALSE]

\* The tracks of a scan, the one under way included.
Pushed(scan) == IF scan.inTrack THEN Append(scan.tracks, scan.current) ELSE scan.tracks

\* A bug: the last index of a track is taken for its start.
IndexAny(scan, line) == scan.inTrack

\* Whether an INDEX line says where the current track starts.
IndexStarts(scan, line) == line.number = 1 /\ scan.inTrack

ScanLine(scan, line) ==
  CASE line.command = "TRACK" ->
         [tracks |-> Pushed(scan), current |-> CueTrack, inTrack |-> TRUE]
    [] line.command = "INDEX" /\ IndexStarts(scan, line) ->
         [scan EXCEPT !.current =
            [min |-> Byte(line.min), sec |-> line.sec, frame |-> line.frame]]
    [] OTHER -> scan

\* The scan after each number of lines.
Scan(sheet) ==
  LET after[n \in 0..Len(sheet)] ==
        IF n = 0 THEN NothingScanned ELSE ScanLine(after[n - 1], sheet[n])
  IN after

(* The lead-out is where the binary file ends.  The two seconds that a     *)
(* table counts from before the disc's first frame are added to FRAME.     *)
cuebin_to_TOC(sheet, frames) ==
  LET tracks == Append(Pushed(Scan(sheet)[Len(sheet)]), lbaToMsf(frames))
  IN [last   |-> Len(tracks) - 1,
      tracks |-> [k \in DOMAIN tracks |-> [tracks[k] EXCEPT !.frame = Byte(@ + 150)]]]

-----------------------------------------------------------------------------
(* What a sheet says *)

LinesOf(sheet, command) == {i \in DOMAIN sheet : sheet[i].command = command}
TrackCount(sheet) == Cardinality(LinesOf(sheet, "TRACK"))

\* The line of the k-th track, counted from 0.
TrackLine(sheet, k) ==
  CHOOSE i \in LinesOf(sheet, "TRACK") :
    Cardinality({j \in LinesOf(sheet, "TRACK") : j < i}) = k

\* The lines INDEX 01 of the track at line i.
StartsOf(sheet, i) ==
  {j \in LinesOf(sheet, "INDEX") :
     /\ sheet[j].number = 1 /\ i < j
     /\ \A n \in LinesOf(sheet, "TRACK") : n <= i \/ j < n}

\* The frame at which the k-th track starts.
StartIn(sheet, k) == LbaOf(sheet[CHOOSE j \in StartsOf(sheet, TrackLine(sheet, k)) : TRUE])

(* The tracks of the sheet fit a table, and each has one INDEX 01, at a    *)
(* minute that a table can hold.                                           *)
WellFormed(sheet) ==
  /\ sheet \in Seq(Line) /\ TrackCount(sheet) < TableSize
  /\ \A i \in LinesOf(sheet, "TRACK") :
       \E j \in DOMAIN sheet : StartsOf(sheet, i) = {j} /\ sheet[j].min \in 0..255
=============================================================================
