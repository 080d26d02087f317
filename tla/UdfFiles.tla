------------------------------ MODULE UdfFiles ------------------------------
(***************************************************************************)
(* Files of a mounted UDF disc as an application's threads use them: the   *)
(* device functions of udf_devoptab.cpp over UDFReadData and the cache of  *)
(* small files in usbdvd_udf.cpp, with the two calls that take no session  *)
(* mutex, Read_Raw_Sectors and Cache_UDF_Small_Media_Files.  Each thread   *)
(* has one handle.  A step is one access to what the threads share: the    *)
(* sector buffer, its number, the chunk buffer, the cache.                 *)
(***************************************************************************)
EXTENDS UdfExtents

CONSTANTS
  ChunkSectors,  \* UDF_READ_CHUNK_SECTORS
  Threads, NoThread,
  Discs,         \* "drive" and "image": what a disc may come from
  Lengths,       \* lengths an application asks for
  RawReads,      \* <<first sector, how many>> it reads raw
  Moves,         \* distances an application seeks by
  MaxCalls,      \* bound on the calls of all threads
  MaxFaults      \* bound on the reads the drive does not deliver

ASSUME ChunkAssumption == ChunkSectors \in Nat \ {0}
ASSUME ThreadAssumption == NoThread \notin Threads /\ IsFiniteSet(Threads)
ASSUME BoundAssumption ==
  /\ Discs \subseteq {"drive", "image"}
  /\ Lengths \subseteq Nat \ {0} /\ Moves \subseteq Int
  /\ RawReads \subseteq Nat \X (Nat \ {0})
  /\ {MaxCalls, MaxFaults} \subseteq Nat

VARIABLES
  disc,      \* where the disc's sectors come from
  broken,    \* a call went through usb_scsi_ctx, which an image never sets
  session,   \* session_mutex: the thread that holds it
  reading,   \* read_mutex: the thread that holds it
  handle,    \* per thread, its open file
  buf,       \* drive_readbuffer: the sector it is said to hold, and the one it holds
  chunk,     \* read_chunk_buffer: the sectors it holds
  cached,    \* the files flagged `cached`
  indexed,   \* the files whose idx is set
  entries,   \* g_udf_small_cache.entries
  passes,    \* how often the cache was cleaned up
  pc,        \* per thread, where its call is
  op,        \* per thread, its call
  out,       \* per thread, the places of the bytes delivered so far
  looked,    \* per thread, the last small file its caching pass took, 0 before any
  calm,      \* per thread, nothing disturbed its call
  quiet,     \* no fault and no raw read in another call's way so far
  calls, faults

buffers == <<buf, chunk>>
mutexes == <<session, reading>>
cache   == <<cached, indexed, entries, passes>>
local   == <<pc, op, out, looked>>
ghosts  == <<calm, quiet>>
vars    == <<disc, broken, mutexes, handle, buffers, cache, local, ghosts, calls, faults>>

-----------------------------------------------------------------------------
(* Values *)

NoSector == -1          \* memory that holds no sector
NoPlace  == -1          \* a byte that is not the disc's
Places   == Nat \cup {NoPlace}

Handle == [file : Files \cup {0}, offset : Int]
Closed == [file |-> 0, offset |-> 0]

Labels == {"idle", "enter", "lookup", "serve", "range", "take", "chunk", "mark", "return",
           "next", "flag", "index", "fetch", "number", "copy"}
SectorRange == [sector : Nat, len : Nat]
Call   == [kind : {"none", "read", "raw", "cache"}, file : Files \cup {0},
           pos : Int, asked : Nat, rem : Nat, cached : BOOLEAN,
           ranges : Seq(SectorRange),       \* still to be read
           sector : Nat, blocks : Int,      \* what is left of the current one
           off : Nat,                       \* where the copy starts in it
           matched : BOOLEAN,               \* the first started in the buffered sector
           found : Nat, gen : Nat, spoiled : BOOLEAN]
NoCall == [kind |-> "none", file |-> 0, pos |-> 0, asked |-> 0, rem |-> 0, cached |-> FALSE,
           ranges |-> <<>>, sector |-> 0, blocks |-> 0, off |-> 0, matched |-> FALSE,
           found |-> 0, gen |-> 0, spoiled |-> FALSE]
Entry  == [file : Files, bytes : Seq(Places), sound : BOOLEAN]

Busy(t) == pc[t] # "idle"

\* The buffer holds the sector it is said to hold.
Honest == buf.holds = buf.sector

\* n bytes from offset off on of the sector a buffer holds.
Bytes(holds, off, n) ==
  [i \in 1..n |-> IF holds = NoSector \/ off + i > SectorSize THEN NoPlace
                  ELSE holds * SectorSize + off + i - 1]

ReadCall(kind, f, pos, n) ==
  [NoCall EXCEPT !.kind = kind, !.file = f, !.pos = pos, !.asked = n, !.rem = n,
                 !.cached = f \in cached]

Init ==
  /\ disc \in Discs /\ broken = FALSE
  /\ session = NoThread /\ reading = NoThread
  /\ handle = [t \in Threads |-> Closed]
  /\ buf = [sector |-> 0, holds |-> NoSector]
  /\ chunk = [i \in 1..ChunkSectors |-> NoSector]
  /\ cached = {} /\ indexed = {} /\ entries = <<>> /\ passes = 0
  /\ pc = [t \in Threads |-> "idle"]
  /\ op = [t \in Threads |-> NoCall]
  /\ out = [t \in Threads |-> <<>>]
  /\ looked = [t \in Threads |-> 0]
  /\ calm = [t \in Threads |-> TRUE] /\ quiet = TRUE
  /\ calls = 0 /\ faults = 0

\* A call of an idle thread.
Called(t) ==
  /\ ~broken /\ ~Busy(t)
  /\ calls < MaxCalls
  /\ calls' = calls + 1
  /\ UNCHANGED <<disc, broken, faults>>

\* Thread t's call is at this step.
At(t, step) == ~broken /\ pc[t] = step /\ UNCHANGED <<disc, calls>>

(* Two calls are in each other's way if one is a raw read, or if one frees *)
(* the cache the other reads from.                                         *)
Clash(o, p) ==
  \/ "raw" \in {o.kind, p.kind}
  \/ {o.kind, p.kind} = {"read", "cache"} /\ (o.cached \/ p.cached)

\* Thread t begins call o.
Disturb(t, o) ==
  LET clashing == {u \in Threads \ {t} : Busy(u) /\ Clash(o, op[u])}
  IN /\ calm' = [u \in Threads |-> IF u = t THEN clashing = {} ELSE calm[u] /\ u \notin clashing]
     /\ quiet' = (quiet /\ clashing = {})

-----------------------------------------------------------------------------
(* Handles *)

\* udffs_open: the streaming range it computes is not used.
Open(t) == \E f \in Files :
  /\ Called(t)
  /\ handle[t] = Closed
  /\ handle' = [handle EXCEPT ![t] = [file |-> f, offset |-> 0]]
  /\ UNCHANGED <<mutexes, buffers, cache, local, ghosts>>

Close(t) ==
  /\ Called(t)
  /\ handle[t] # Closed
  /\ handle' = [handle EXCEPT ![t] = Closed]
  /\ UNCHANGED <<mutexes, buffers, cache, local, ghosts>>

\* udffs_seek: from any of the three bases, and nothing bounds the result.
Seek(t) ==
  /\ Called(t)
  /\ handle[t] # Closed
  /\ session = NoThread
  /\ \E base \in {0, handle[t].offset, Dirlist[handle[t].file].size}, d \in Moves :
       handle' = [handle EXCEPT ![t].offset = base + d]
  /\ UNCHANGED <<mutexes, buffers, cache, local, ghosts>>

-----------------------------------------------------------------------------
(* Calls begin *)

\* udffs_read at or behind the end of the file, or before its start.
ReadNothing(t) ==
  /\ Called(t)
  /\ handle[t] # Closed
  /\ session = NoThread
  /\ Clamp(handle[t].file, handle[t].offset, 1) = 0
  /\ UNCHANGED <<handle, mutexes, buffers, cache, local, ghosts>>

\* udffs_read up to UDFReadData's test of the `cached` flag.
Read(t) ==
  /\ Called(t)
  /\ handle[t] # Closed
  /\ session = NoThread
  /\ \E len \in Lengths :
       LET n == Clamp(handle[t].file, handle[t].offset, len)
           o == ReadCall("read", handle[t].file, handle[t].offset, n)
       IN /\ n > 0
          /\ op' = [op EXCEPT ![t] = o]
          /\ Disturb(t, o)
  /\ session' = t
  /\ pc' = [pc EXCEPT ![t] = "enter"]
  /\ UNCHANGED <<reading, handle, buffers, cache, out, looked>>

\* Read_Raw_Sectors: sector by sector through the sector buffer, under no mutex.
ReadRaw(t) ==
  /\ Called(t)
  /\ \E r \in RawReads :
       LET o == [NoCall EXCEPT !.kind = "raw", !.pos = r[1], !.sector = r[1],
                               !.asked = r[2] * SectorSize, !.blocks = r[2]]
       IN op' = [op EXCEPT ![t] = o] /\ Disturb(t, o)
  /\ pc' = [pc EXCEPT ![t] = "fetch"]
  /\ UNCHANGED <<handle, mutexes, buffers, cache, out, looked>>

(* Cache_UDF_Small_Media_Files frees the old entries, but leaves the files *)
(* flagged.  Applications cache from one thread.                           *)
CacheSmallFiles(t) ==
  /\ Called(t)
  /\ \A u \in Threads : op[u].kind # "cache"
  /\ entries' = <<>>
  /\ passes' = passes + 1
  /\ looked' = [looked EXCEPT ![t] = 0]
  /\ op' = [op EXCEPT ![t] = [NoCall EXCEPT !.kind = "cache"]]
  /\ pc' = [pc EXCEPT ![t] = "next"]
  /\ Disturb(t, [NoCall EXCEPT !.kind = "cache"])
  /\ UNCHANGED <<handle, mutexes, buffers, cached, indexed, out>>

\* The small files a caching pass has still to come to.
Remaining(t) == {f \in Files : Dirlist[f].small /\ f > looked[t]}

\* The next small file of a caching pass, or its end.
CacheNext(t) ==
  /\ At(t, "next")
  /\ \/ /\ Remaining(t) = {}
        /\ pc' = [pc EXCEPT ![t] = "idle"]
        /\ op' = [op EXCEPT ![t] = NoCall]
        /\ UNCHANGED looked
     \/ \E f \in Remaining(t) :
          /\ \A g \in Remaining(t) : f <= g
          /\ looked' = [looked EXCEPT ![t] = f]
          /\ op' = [op EXCEPT ![t] = ReadCall("cache", f, 0, Dirlist[f].size)]
          /\ pc' = [pc EXCEPT ![t] = IF Dirlist[f].size = 0 THEN "return" ELSE "enter"]
  /\ UNCHANGED <<broken, handle, mutexes, buffers, cache, out, ghosts, faults>>

-----------------------------------------------------------------------------
(* UDFReadData *)

(* read_mutex is taken after the `cached` flag was read, by either branch. *)
(* A read after a disturbance can rely on the buffer if that is honest     *)
(* again, or is said to hold none of the read's first sectors.             *)
Lock(t) ==
  /\ At(t, "enter")
  /\ reading = NoThread
  /\ reading' = t
  /\ LET ranges == SectorRanges(op[t].file, op[t].pos, op[t].asked) IN
     IF op[t].cached
     THEN pc' = [pc EXCEPT ![t] = "lookup"] /\ UNCHANGED <<op, calm>>
     ELSE /\ pc' = [pc EXCEPT ![t] = "range"]
          /\ op' = [op EXCEPT ![t].ranges = ranges]
          /\ calm' = [calm EXCEPT ![t] =
               @ /\ (quiet \/ Honest \/ \A i \in DOMAIN ranges :
                                          PartitionLba + ranges[i].sector # buf.sector)]
  /\ UNCHANGED <<broken, session, handle, buffers, cache, out, looked, quiet, faults>>

\* Only the first range starts within a sector.
OffsetOf(t) == IF op[t].rem = op[t].asked THEN op[t].pos % SectorSize ELSE 0

Buffered(sector) == sector = buf.sector

\* The next range, or the end of the read.
NextRange(t) ==
  /\ At(t, "range")
  /\ LET o == op[t] IN
     IF o.ranges = <<>>
     THEN pc' = [pc EXCEPT ![t] = "return"] /\ UNCHANGED op
     ELSE LET s == PartitionLba + Head(o.ranges).sector
              off == OffsetOf(t)
          IN /\ op' = [op EXCEPT ![t] =
                         [o EXCEPT !.ranges = Tail(o.ranges), !.sector = s, !.off = off,
                                   !.blocks = Head(o.ranges).len,
                                   !.matched = @ \/ (Buffered(s) /\ off > 0)]]
             /\ pc' = [pc EXCEPT ![t] = IF Buffered(s) THEN "take" ELSE "chunk"]
  /\ UNCHANGED <<broken, handle, mutexes, buffers, cache, out, looked, ghosts, faults>>

\* A sector's worth is taken, wherever in the sector the copy starts.
Taken(t) == Least(op[t].rem, SectorSize)

\* A bug: the sector taken is read once more.
AfterTakenSame(t) == op[t].sector

\* Where the chunks begin.
AfterTaken(t) == op[t].sector + 1

(* The buffered sector is copied, and memory behind the buffer with it if  *)
(* the copy does not start at 0.  A range of this sector only ends the     *)
(* whole read.                                                             *)
Take(t) ==
  /\ At(t, "take")
  /\ out' = [out EXCEPT ![t] = @ \o Bytes(buf.holds, op[t].off, Taken(t))]
  /\ op' = [op EXCEPT ![t].rem = @ - Taken(t), ![t].sector = AfterTaken(t),
                      ![t].blocks = @ - 1]
  /\ pc' = [pc EXCEPT ![t] = IF op[t].blocks = 1 THEN "return" ELSE "chunk"]
  /\ UNCHANGED <<broken, handle, mutexes, buffers, cache, looked, ghosts, faults>>

BlocksNow(t) == Least(op[t].blocks, ChunkSectors)

\* READ (12) of a chunk, whose result is ignored.
Delivered12(t) == [i \in 1..ChunkSectors |->
                     IF i <= BlocksNow(t) THEN op[t].sector + i - 1 ELSE chunk[i]]

(* ReadNumSectors2 up to the copy of the chunk's last sector: a chunk that *)
(* fails leaves the buffer as it was.  An image has no drive to ask.       *)
ReadChunk(t) ==
  /\ At(t, "chunk")
  /\ IF op[t].blocks = 0 \/ op[t].rem = 0
     THEN /\ pc' = [pc EXCEPT ![t] = "range"]
          /\ UNCHANGED <<broken, buffers, ghosts, faults>>
     ELSE \/ /\ disc = "drive"
             /\ chunk' = Delivered12(t)
             /\ buf' = [buf EXCEPT !.holds = chunk'[BlocksNow(t)]]
             /\ pc' = [pc EXCEPT ![t] = "mark"]
             /\ UNCHANGED <<broken, ghosts, faults>>
          \/ /\ disc = "drive"
             /\ faults < MaxFaults
             /\ faults' = faults + 1
             /\ buf' = [buf EXCEPT !.holds = chunk[BlocksNow(t)]]
             /\ calm' = [calm EXCEPT ![t] = FALSE]
             /\ quiet' = FALSE
             /\ pc' = [pc EXCEPT ![t] = "mark"]
             /\ UNCHANGED <<broken, chunk>>
          \/ /\ disc = "image"
             /\ broken' = TRUE
             /\ UNCHANGED <<pc, buffers, ghosts, faults>>
  /\ UNCHANGED <<handle, mutexes, cache, op, out, looked>>

\* A bug: the first sector of the chunk is taken for the buffered one.
LastOfChunkFirst(t) == op[t].sector

\* The sector read_sector is set to.
LastOfChunk(t) == op[t].sector + BlocksNow(t) - 1

\* The bytes of the chunk from offset off on.
ChunkBytes(k, off, n) ==
  [i \in 1..n |-> Bytes(chunk[(off + i - 1) \div SectorSize + 1],
                        (off + i - 1) % SectorSize, 1)[1]]

\* What is copied of a chunk.
ToRead(t) == Least(op[t].rem, BlocksNow(t) * SectorSize - op[t].off)

\* The sector's number is set, and the chunk's part of the read copied.
Mark(t) ==
  /\ At(t, "mark")
  /\ buf' = [buf EXCEPT !.sector = LastOfChunk(t)]
  /\ out' = [out EXCEPT ![t] = @ \o ChunkBytes(BlocksNow(t), op[t].off, ToRead(t))]
  /\ op' = [op EXCEPT ![t].rem = @ - ToRead(t), ![t].sector = @ + BlocksNow(t),
                      ![t].blocks = @ - BlocksNow(t), ![t].off = 0]
  /\ pc' = [pc EXCEPT ![t] = "chunk"]
  /\ UNCHANGED <<broken, handle, mutexes, chunk, cache, looked, ghosts, faults>>

-----------------------------------------------------------------------------
(* The cache of small files *)

\* get_udf_small_data: the first entry with the index, 0 if there is none.
EntryOf(f) ==
  IF \E i \in DOMAIN entries : entries[i].file = f
  THEN CHOOSE i \in DOMAIN entries :
         entries[i].file = f /\ \A j \in 1..(i - 1) : entries[j].file # f
  ELSE 0

(* `cached` is set before idx is, and neither is read under the mutex: the *)
(* index looked for may be any number.                                     *)
Lookup(t) ==
  /\ At(t, "lookup")
  /\ \E i \in IF op[t].file \in indexed THEN {EntryOf(op[t].file)} ELSE {0} \cup DOMAIN entries :
       /\ op' = [op EXCEPT ![t].found = i, ![t].gen = passes,
                           ![t].spoiled = IF i = 0 THEN TRUE
                                          ELSE ~entries[i].sound \/ entries[i].file # op[t].file]
       /\ pc' = [pc EXCEPT ![t] = IF i = 0 THEN "return" ELSE "serve"]
  /\ UNCHANGED <<broken, handle, mutexes, buffers, cache, out, looked, ghosts, faults>>

\* The part of the cached copy b that was asked for.
ServedFrom(b, pos, n) ==
  [i \in 1..n |-> IF pos + i \in DOMAIN b THEN b[pos + i] ELSE NoPlace]

\* Nothing keeps the entry from being freed between the lookup and the copy.
Serve(t) ==
  /\ At(t, "serve")
  /\ LET b == IF op[t].gen = passes THEN entries[op[t].found].bytes ELSE <<>>
     IN out' = [out EXCEPT ![t] = ServedFrom(b, op[t].pos, op[t].asked)]
  /\ pc' = [pc EXCEPT ![t] = "return"]
  /\ UNCHANGED <<broken, handle, mutexes, buffers, cache, op, looked, ghosts, faults>>

Unlocked(t) == IF reading = t THEN NoThread ELSE reading

(* A buffer of the file's size, of which UDFReadData wrote what it         *)
(* delivered, becomes an entry, whatever UDFReadData returned.             *)
Loaded(t) ==
  [file  |-> op[t].file,
   bytes |-> out[t] \o [i \in 1..(op[t].asked - Len(out[t])) |-> NoPlace],
   sound |-> calm[t] /\ ~op[t].cached]

\* load_udf_small_by_index
Load(t) ==
  /\ At(t, "return")
  /\ op[t].kind = "cache"
  /\ entries' = Append(entries, Loaded(t))
  /\ reading' = Unlocked(t)
  /\ out' = [out EXCEPT ![t] = <<>>]
  /\ pc' = [pc EXCEPT ![t] = "flag"]
  /\ UNCHANGED <<broken, session, handle, buffers, cached, indexed, passes, op, looked,
                 ghosts, faults>>

Flag(t) ==
  /\ At(t, "flag")
  /\ cached' = cached \cup {op[t].file}
  /\ pc' = [pc EXCEPT ![t] = "index"]
  /\ UNCHANGED <<broken, handle, mutexes, buffers, indexed, entries, passes, op, out, looked,
                 ghosts, faults>>

Index(t) ==
  /\ At(t, "index")
  /\ indexed' = indexed \cup {op[t].file}
  /\ pc' = [pc EXCEPT ![t] = "next"]
  /\ UNCHANGED <<broken, handle, mutexes, buffers, cached, entries, passes, op, out, looked,
                 ghosts, faults>>

-----------------------------------------------------------------------------
(* Raw reads *)

\* A bug: the first sector is read every time.
FetchedFirst(t) == op[t].pos

\* The sector ReadNumSectors reads next.
Fetched(t) == op[t].sector

\* ReadSector fills the buffer, or fails; an image's zeroes what it could not read.
Fetch(t) ==
  /\ At(t, "fetch")
  /\ \/ /\ buf' = [buf EXCEPT !.holds = Fetched(t)]
        /\ UNCHANGED <<ghosts, faults>>
     \/ /\ faults < MaxFaults
        /\ faults' = faults + 1
        /\ calm' = [calm EXCEPT ![t] = FALSE]
        /\ quiet' = FALSE
        /\ buf' = IF disc = "image" THEN [buf EXCEPT !.holds = NoSector] ELSE buf
  /\ pc' = [pc EXCEPT ![t] = "number"]
  /\ UNCHANGED <<broken, handle, mutexes, chunk, cache, op, out, looked>>

\* A bug: the number of the buffered sector is left as it was.
NumberKept(t) == buf.sector

\* The number ReadNumSectors gives the buffered sector.
NumberOf(t) == op[t].sector

Number(t) ==
  /\ At(t, "number")
  /\ buf' = [buf EXCEPT !.sector = NumberOf(t)]
  /\ pc' = [pc EXCEPT ![t] = "copy"]
  /\ UNCHANGED <<broken, handle, mutexes, chunk, cache, op, out, looked, ghosts, faults>>

CopySector(t) ==
  /\ At(t, "copy")
  /\ out' = [out EXCEPT ![t] = @ \o Bytes(buf.holds, 0, SectorSize)]
  /\ op' = [op EXCEPT ![t].sector = @ + 1, ![t].blocks = @ - 1]
  /\ pc' = [pc EXCEPT ![t] = IF op[t].blocks = 1 THEN "return" ELSE "fetch"]
  /\ UNCHANGED <<broken, handle, mutexes, buffers, cache, looked, ghosts, faults>>

(* A read moves the handle on by what was asked for, UDFReadData's result  *)
(* notwithstanding, and releases the session.                              *)
Return(t) ==
  /\ At(t, "return")
  /\ op[t].kind \in {"read", "raw"}
  /\ IF op[t].kind = "read"
     THEN /\ session' = NoThread
          /\ handle' = [handle EXCEPT ![t].offset = @ + op[t].asked]
     ELSE UNCHANGED <<session, handle>>
  /\ reading' = Unlocked(t)
  /\ pc' = [pc EXCEPT ![t] = "idle"]
  /\ op' = [op EXCEPT ![t] = NoCall]
  /\ out' = [out EXCEPT ![t] = <<>>]
  /\ UNCHANGED <<broken, buffers, cache, looked, ghosts, faults>>

Begin(t) == Open(t) \/ Close(t) \/ Seek(t) \/ ReadNothing(t) \/ Read(t)
              \/ ReadRaw(t) \/ CacheSmallFiles(t)
Proceed(t) == Lock(t) \/ NextRange(t) \/ Take(t) \/ ReadChunk(t) \/ Mark(t)
                \/ Lookup(t) \/ Serve(t) \/ CacheNext(t) \/ Load(t) \/ Flag(t) \/ Index(t)
                \/ Fetch(t) \/ Number(t) \/ CopySector(t) \/ Return(t)

Next == \E t \in Threads : Begin(t) \/ Proceed(t)
Spec == Init /\ [][Next]_vars

-----------------------------------------------------------------------------
(* Properties *)

\* The variables keep their types, and the mutexes belong to who is behind them.
TypeOK ==
  /\ disc \in Discs /\ broken \in BOOLEAN
  /\ session \in Threads \cup {NoThread} /\ reading \in Threads \cup {NoThread}
  /\ handle \in [Threads -> Handle]
  /\ buf \in [sector : Nat, holds : Nat \cup {NoSector}]
  /\ chunk \in [1..ChunkSectors -> Nat \cup {NoSector}]
  /\ cached \subseteq Files /\ indexed \subseteq cached
  /\ entries \in Seq(Entry) /\ passes \in Nat
  /\ pc \in [Threads -> Labels]
  /\ op \in [Threads -> Call]
  /\ out \in [Threads -> Seq(Places)]
  /\ looked \in [Threads -> Files \cup {0}]
  /\ calm \in [Threads -> BOOLEAN] /\ quiet \in BOOLEAN
  /\ calls \in 0..MaxCalls /\ faults \in 0..MaxFaults
  /\ \A t \in Threads : (Busy(t) /\ op[t].kind = "read") <=> session = t
  /\ \A t \in Threads :
       pc[t] \in {"lookup", "serve", "range", "take", "chunk", "mark"} => reading = t

\* Thread t is about to return from a call of this kind.
Returns(t, kind) == pc[t] = "return" /\ op[t].kind = kind

\* The bytes that a read starting in the buffered sector takes from behind it.
Hole(o) ==
  IF o.matched THEN {i \in 1..SectorSize : i > SectorSize - (o.pos % SectorSize)} ELSE {}

(* Every byte a read delivers is the file's byte at its place, from the    *)
(* drive, the buffer or the cache, through any split into chunks and after *)
(* whatever other threads read before.  Not covered are: the bytes taken   *)
(* from behind the sector buffer; reads that leave the first extent for    *)
(* one that does not follow it; reads in which the drive failed or another *)
(* thread's raw read or caching pass got in the way; unsound entries.      *)
RightBytes == \A t \in Threads : LET o == op[t] IN
  Returns(t, "read") /\ calm[t] /\ ~o.spoiled /\ Straight(o.file, o.pos, o.asked)
    => \A i \in DOMAIN out[t] : i \notin Hole(o) => out[t][i] = PlaceOf(o.file, o.pos + i - 1)

(* A read never writes beyond what the caller asked for.  A read of one    *)
(* range delivers all it reports, unless its start and its length cross a  *)
(* sector boundary more than its length alone.                             *)
Delivered == \A t \in Threads : LET o == op[t] IN
  /\ Len(out[t]) <= o.asked
  /\ Returns(t, "read") /\ ~o.cached /\ Straight(o.file, o.pos, o.asked)
       => (Len(out[t]) = o.asked <=> Covered(o.pos, o.asked)
                                      \/ (o.matched /\ o.asked <= SectorSize))

\* A raw read that nothing disturbed delivers the sectors it names.
RawBytes == \A t \in Threads : LET o == op[t] IN
  Returns(t, "raw") /\ calm[t]
    => out[t] = [i \in 1..o.asked |-> o.pos * SectorSize + i - 1]

(* A cached file is the file's bytes, all of them, if it was not cached    *)
(* before and nothing disturbed the pass.                                  *)
CacheSound == \A i \in DOMAIN entries : LET e == entries[i]  n == Dirlist[e.file].size IN
  e.sound /\ Straight(e.file, 0, n) => e.bytes = [p \in 1..n |-> PlaceOf(e.file, p - 1)]

(* While no sector has failed and no raw read was in another call's way,   *)
(* the buffer holds the sector it is said to hold whenever nobody is       *)
(* between its copy and its number.                                        *)
BufferHonest ==
  quiet /\ (\A t \in Threads : pc[t] \notin {"mark", "number"}) => Honest \/ buf.sector = 0

\* The log of usbdvd_udf.cpp, line 721, prints an extent's length / DATA_SECTOR_SIZE as its
\* SECTORS: lengths are in bytes.  No read leaves the extents of its file.
WithinExtents == \A t \in Threads : LET o == op[t] IN
  Returns(t, "read") /\ calm[t] /\ ~o.cached
    => \A i \in DOMAIN out[t] : i \notin Hole(o) => out[t][i] = PlaceOf(o.file, o.pos + i - 1)

=============================================================================
