----------------------------- MODULE AudioCdFs -----------------------------
(***************************************************************************)
(* An audio CD, or a cue sheet with its binary file, whose tracks are      *)
(* shown as WAV files: the device functions of cdaudio_devoptab.cpp over   *)
(* audiocdfs_readdata of audiocdfs.cpp.  Threads may share a handle.  A    *)
(* read holds the session mutex throughout; a seek takes it only when it   *)
(* has chosen what it seeks from.                                          *)
(***************************************************************************)
EXTENDS CueSheet

CONSTANTS
  FrameSize,     \* bytes in a frame: CD_SECTOR_SIZE_AUDIO
  HeaderSize,    \* bytes in a WAV header
  PosLimit,      \* 2^32: positions are taken modulo this
  Threads, NoThread,
  Handles, NoHandle,
  Discs,         \* discs and images
  Garbage,       \* bytes that may be on the stack
  AnySizes,      \* sizes computed from such bytes
  Lengths,       \* lengths an application asks for
  Moves,         \* distances it seeks by
  MaxCalls,      \* bound on the calls of all threads
  MaxFaults      \* bound on the frames the drive does not deliver

Disc == [kind : {"drive", "bin"}, sheet : Seq(Line), starts : Seq(Nat), bytes : Nat]

ASSUME SizeAssumption == {FrameSize, HeaderSize, PosLimit} \subseteq Nat \ {0}
ASSUME ThreadAssumption == NoThread \notin Threads /\ NoHandle \notin Handles
ASSUME DiscAssumption ==
  /\ Discs \subseteq Disc
  /\ \A d \in Discs :
       /\ d.kind = "drive" => /\ Len(d.starts) < TableSize
                              /\ \A k \in DOMAIN d.starts : d.starts[k] + 150 < TableEnd
       /\ d.kind = "bin" => WellFormed(d.sheet) /\ d.bytes \div FrameSize < TableEnd
ASSUME BoundAssumption ==
  /\ Garbage \subseteq 0..255 /\ AnySizes \subseteq Int
  /\ Lengths \subseteq Nat \ {0} /\ Moves \subseteq Int
  /\ {MaxCalls, MaxFaults} \subseteq Nat

VARIABLES
  disc,       \* what is mounted
  toc,        \* toc
  session,    \* session_mutex: the thread that holds it
  handle,     \* per handle, its track and offset
  buf,        \* sectornum, and the frame lastbuffer holds
  pc,         \* per thread, where its call is
  op,         \* per thread, its call
  out,        \* per thread, the bytes delivered so far
  calls, faults

local == <<pc, op, out>>
vars  == <<disc, toc, session, handle, buf, local, calls, faults>>

-----------------------------------------------------------------------------
(* Values *)

NoTrack == -1      \* a handle that is closed
NoFrame == -1      \* memory that holds no frame

Frames == disc.bytes \div FrameSize

Handle == [track : Nat \cup {NoTrack}, offset : Int]
Closed == [track |-> NoTrack, offset |-> 0]
Opened(h) == handle[h].track # NoTrack

Labels == {"idle", "seek", "frame", "return"}
Call   == [kind : {"none", "seek", "read"}, handle : Handles \cup {NoHandle}, to : Int,
           pos : Nat, asked : Nat, rem : Nat,
           next : Int, last : Int, off : Nat,   \* frames to read, where the copy starts
           unread : BOOLEAN]                    \* frame 0 was the buffer's number from the start
NoCall == [kind |-> "none", handle |-> NoHandle, to |-> 0,
           pos |-> 0, asked |-> 0, rem |-> 0, next |-> 0, last |-> 0, off |-> 0,
           unread |-> FALSE]

\* A byte of a WAV header, of a frame, or of memory nobody has written.
HeaderByte(k, p)  == <<"header", k, p>>
FrameByte(n, off) == IF n = NoFrame THEN <<"none", 0, 0>> ELSE <<"frame", n, off>>
Bytes == {"header", "frame", "none"} \X Nat \X Nat

Least(a, b) == IF a <= b THEN a ELSE b

-----------------------------------------------------------------------------
(* The table of contents *)

(* UsbDvdSendTOC asks for as many bytes as the table's length field says,  *)
(* which does not count itself: the last two bytes of the table, SEC and   *)
(* FRAME of the lead-out, stay what MountDisc finds on its stack.          *)
DriveTocs(d) ==
  LET start(k) == lbaToMsf(d.starts[k] + 150)
      leadout  == lbaToMsf(d.bytes \div FrameSize + 150)
      tracks   == [k \in DOMAIN d.starts |-> start(k)]
  IN {[last   |-> Len(tracks),
       tracks |-> Append(tracks, [min |-> leadout.min, sec |-> s, frame |-> f])] :
        s, f \in Garbage}

Tocs(d) == IF d.kind = "drive" THEN DriveTocs(d)
           ELSE {cuebin_to_TOC(d.sheet, d.bytes \div FrameSize)}

\* audiocdfs_gettracklba: the lead-out passes for a track.
TrackLba(k) == IF k > toc.last THEN -1 ELSE LbaOf(toc.tracks[k + 1])

(* audiocdfs_gettrackfilesize: behind the lead-out the table is not        *)
(* initialised.                                                            *)
FileSizes(k) ==
  CASE k < toc.last -> {(TrackLba(k + 1) - TrackLba(k)) * FrameSize + HeaderSize}
    [] k = toc.last -> AnySizes
    [] OTHER        -> {-1}

Init ==
  /\ disc \in Discs
  /\ toc \in Tocs(disc)
  /\ session = NoThread
  /\ handle = [h \in Handles |-> Closed]
  /\ buf = [frame |-> 0, holds |-> NoFrame]
  /\ pc = [t \in Threads |-> "idle"]
  /\ op = [t \in Threads |-> NoCall]
  /\ out = [t \in Threads |-> <<>>]
  /\ calls = 0 /\ faults = 0

\* A call of an idle thread.
Called(t) ==
  /\ pc[t] = "idle"
  /\ calls < MaxCalls
  /\ calls' = calls + 1
  /\ UNCHANGED <<disc, toc, faults>>

At(t, step) == pc[t] = step /\ UNCHANGED <<disc, toc, calls>>

-----------------------------------------------------------------------------
(* Handles *)

\* cdaudiofs_open: the name's number is not compared with the tracks there are.
Open(t) == \E h \in Handles, number \in 1..(toc.last + 2) :
  /\ Called(t)
  /\ ~Opened(h)
  /\ handle' = [handle EXCEPT ![h] = [track |-> number - 1, offset |-> 0]]
  /\ UNCHANGED <<session, buf, local>>

\* An application does not close a handle it is using.
Close(t) == \E h \in Handles :
  /\ Called(t)
  /\ Opened(h)
  /\ \A u \in Threads : pc[u] = "idle" \/ op[u].handle # h
  /\ handle' = [handle EXCEPT ![h] = Closed]
  /\ UNCHANGED <<session, buf, local>>

\* cdaudiofs_seek chooses its base before it takes the mutex.
Seek(t) == \E h \in Handles :
  /\ Called(t)
  /\ Opened(h)
  /\ \E base \in {0, handle[h].offset} \cup FileSizes(handle[h].track), d \in Moves :
       op' = [op EXCEPT ![t] = [NoCall EXCEPT !.kind = "seek", !.handle = h, !.to = base + d]]
  /\ pc' = [pc EXCEPT ![t] = "seek"]
  /\ UNCHANGED <<session, handle, buf, out>>

SeekMove(t) ==
  /\ At(t, "seek")
  /\ session = NoThread
  /\ handle' = [handle EXCEPT ![op[t].handle].offset = op[t].to]
  /\ op' = [op EXCEPT ![t] = NoCall]
  /\ pc' = [pc EXCEPT ![t] = "idle"]
  /\ UNCHANGED <<session, buf, out, faults>>

-----------------------------------------------------------------------------
(* Reads *)

\* How much of a read of len bytes at pos is header.
HeaderPart(pos, len) == IF pos < HeaderSize THEN Least(len, HeaderSize - pos) ELSE 0

\* A bug: the header is counted as samples.
SamplesFromStart(pos) == pos

\* Where the samples start that a read at pos wants.
SamplesFrom(pos) == IF pos < HeaderSize THEN 0 ELSE pos - HeaderSize

FirstFrame(k, pos) == TrackLba(k) - 150 + SamplesFrom(pos) \div FrameSize
LastFrame(k, pos, len) ==
  FirstFrame(k, pos) + ((SamplesFrom(pos) % FrameSize) + len - HeaderPart(pos, len) - 1) \div FrameSize

(* cdaudiofs_read up to audiocdfs_readdata's loop.  A track beyond the     *)
(* lead-out delivers nothing; nothing else keeps a read within its track.  *)
Read(t) == \E h \in Handles, len \in Lengths :
  /\ Called(t)
  /\ Opened(h)
  /\ session = NoThread
  /\ session' = t
  /\ LET k   == handle[h].track
         pos == handle[h].offset % PosLimit
         hdr == HeaderPart(pos, len)
         o   == [NoCall EXCEPT !.kind = "read", !.handle = h, !.pos = pos, !.asked = len]
     IN IF k > toc.last
        THEN /\ op' = [op EXCEPT ![t] = o]
             /\ pc' = [pc EXCEPT ![t] = "return"]
             /\ UNCHANGED out
        ELSE /\ op' = [op EXCEPT ![t] =
                  [o EXCEPT !.rem = len - hdr, !.next = FirstFrame(k, pos),
                            !.last = LastFrame(k, pos, len),
                            !.off = SamplesFrom(pos) % FrameSize,
                            !.unread = buf = [frame |-> 0, holds |-> NoFrame]]]
             /\ out' = [out EXCEPT ![t] = [i \in 1..hdr |-> HeaderByte(k, pos + i - 1)]]
             /\ pc' = [pc EXCEPT ![t] = IF hdr = len THEN "return" ELSE "frame"]
  /\ UNCHANGED <<handle, buf>>

(* ReadCD_Audio_Frame: a frame that is not there or cannot be read leaves  *)
(* lastbuffer as it was, or as it happens to be filled in part; the result *)
(* is ignored and the frame taken for buffered.                            *)
Fetch(n) ==
  \/ /\ n = buf.frame
     /\ UNCHANGED <<buf, faults>>
  \/ /\ n # buf.frame /\ n \in 0..(Frames - 1)
     /\ buf' = [frame |-> n, holds |-> n]
     /\ UNCHANGED faults
  \/ /\ n # buf.frame
     /\ IF n \in 0..(Frames - 1) THEN faults < MaxFaults /\ faults' = faults + 1
                                 ELSE UNCHANGED faults
     /\ \E held \in {buf.holds, NoFrame} : buf' = [frame |-> n, holds |-> held]

\* What is copied of a frame.
ToRead(o) == Least(o.rem, FrameSize - o.off)

\* A turn of audiocdfs_readdata's loop, or its end.
ReadFrame(t) ==
  /\ At(t, "frame")
  /\ LET o == op[t] IN
     IF o.rem = 0 \/ o.next > o.last
     THEN /\ pc' = [pc EXCEPT ![t] = "return"]
          /\ UNCHANGED <<op, out, buf, faults>>
     ELSE /\ Fetch(o.next)
          /\ out' = [out EXCEPT ![t] =
               @ \o [i \in 1..ToRead(o) |-> FrameByte(buf'.holds, o.off + i - 1)]]
          /\ op' = [op EXCEPT ![t].rem = @ - ToRead(o), ![t].next = @ + 1, ![t].off = 0]
          /\ UNCHANGED pc
  /\ UNCHANGED <<session, handle>>

\* The handle moves on by what was asked for, whatever was delivered.
Return(t) ==
  /\ At(t, "return")
  /\ handle' = [handle EXCEPT ![op[t].handle].offset = @ + op[t].asked]
  /\ session' = NoThread
  /\ op' = [op EXCEPT ![t] = NoCall]
  /\ out' = [out EXCEPT ![t] = <<>>]
  /\ pc' = [pc EXCEPT ![t] = "idle"]
  /\ UNCHANGED <<buf, faults>>

Next == \E t \in Threads :
  \/ Open(t) \/ Close(t) \/ Seek(t) \/ SeekMove(t)
  \/ Read(t) \/ ReadFrame(t) \/ Return(t)

Spec == Init /\ [][Next]_vars

-----------------------------------------------------------------------------
(* Properties *)

\* The variables keep their types, and the mutex belongs to who reads.
TypeOK ==
  /\ disc \in Discs /\ toc \in Toc /\ Len(toc.tracks) = toc.last + 1
  /\ session \in Threads \cup {NoThread}
  /\ handle \in [Handles -> Handle]
  /\ buf \in [frame : Int, holds : Nat \cup {NoFrame}]
  /\ pc \in [Threads -> Labels]
  /\ op \in [Threads -> Call]
  /\ out \in [Threads -> Seq(Bytes)]
  /\ calls \in 0..MaxCalls /\ faults \in 0..MaxFaults
  /\ \A t \in Threads : op[t].kind = "read" <=> session = t

\* The frame at which track k starts, or the disc ends, as its author has it.
Start(k) == CASE k = toc.last                           -> Frames
              [] k # toc.last /\ disc.kind = "drive"  -> disc.starts[k + 1]
              [] OTHER                                -> StartIn(disc.sheet, k)

\* Byte p of the file of track k, and the frame a byte of samples is in.
FrameOf(k, p)  == Start(k) + (p - HeaderSize) \div FrameSize
FileByte(k, p) == IF p < HeaderSize THEN HeaderByte(k, p)
                  ELSE FrameByte(FrameOf(k, p), (p - HeaderSize) % FrameSize)
FileEnd(k)     == HeaderSize + (Start(k + 1) - Start(k)) * FrameSize

(* As long as the drive delivers, a read delivers the header's and the     *)
(* track's own bytes up to the end of the track, or of the disc where that *)
(* comes first, in any pieces, whatever is buffered and wherever seeks of  *)
(* other threads have moved the handle.                                    *)
(* One frame is excepted: the disc's first, which is taken for buffered    *)
(* before anything has been read.                                          *)
RightSamples == \A t \in Threads : LET o == op[t] IN
  pc[t] = "return" /\ faults = 0 /\ handle[o.handle].track < toc.last =>
    \A i \in 1..o.asked : LET k == handle[o.handle].track  p == o.pos + i - 1 IN
      p < FileEnd(k) /\ (p < HeaderSize \/ FrameOf(k, p) < Frames) =>
      /\ i \in DOMAIN out[t]
      /\ \/ out[t][i] = FileByte(k, p)
         \/ o.unread /\ p >= HeaderSize /\ FrameOf(k, p) = 0

(* The table made of a cue sheet has the sheet's tracks, in order, each at *)
(* its INDEX 01 whatever other indices and lines there are, and ends with  *)
(* the binary file.                                                        *)
CueFaithful == disc.kind = "bin" =>
  /\ toc.last = TrackCount(disc.sheet)
  /\ \A k \in 0..toc.last : TrackLba(k) - 150 = Start(k)
=============================================================================
