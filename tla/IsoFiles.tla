------------------------------ MODULE IsoFiles ------------------------------
(***************************************************************************)
(* Files of a mounted ISO9660 disc as an application's threads use them:   *)
(* the device functions of iso9660_devoptab.cpp over ReadData and the IFO  *)
(* cache of usbdvd_datadisc.cpp, together with the two calls that reach    *)
(* the same sector buffer without the session mutex, Read_Raw_Sectors and  *)
(* Cache_IFO_Files.  Each thread has one handle.  A step is one access to  *)
(* what the threads share: the sector buffer and its number, the current   *)
(* title key, the cache.                                                   *)
(***************************************************************************)
EXTENDS DataDisc

CONSTANTS
  Threads, NoThread,
  Lengths,       \* lengths an application asks for
  RawReads,      \* <<first sector, how many>> it reads raw
  Moves,         \* distances an application seeks by
  MaxCalls,      \* bound on the calls of all threads
  MaxFaults      \* bound on the sectors the drive does not deliver

ASSUME ThreadAssumption == NoThread \notin Threads /\ IsFiniteSet(Threads)
ASSUME BoundAssumption ==
  /\ Lengths \subseteq Nat \ {0} /\ Moves \subseteq Int
  /\ RawReads \subseteq Nat \X (Nat \ {0})
  /\ {MaxCalls, MaxFaults} \subseteq Nat

VARIABLES
  disc,      \* "css" (DVD_CSS), "plain" or "image" (isofile)
  session,   \* session_mutex: the thread that holds it
  handle,    \* per thread, its open file
  buf,       \* drive_readbuffer: the sector it is said to hold, and what it holds
  currKey,   \* currenttitlekey_idx
  cached,    \* the files flagged `cached`
  entries,   \* g_ifo_cache.entries
  passes,    \* how often the cache was cleaned up
  pc,        \* per thread, where its call is
  op,        \* per thread, its call
  out,       \* per thread, the bytes delivered so far
  looked,    \* per thread, the last IFO file its caching pass took, 0 before any
  calm,      \* per thread, neither a fault nor an unlocked call disturbed its call
  quiet,     \* no fault and no overlap of calls so far
  calls, faults

shared == <<session, buf, currKey>>
cache  == <<cached, entries, passes>>
local  == <<pc, op, out, looked>>
ghosts == <<calm, quiet>>
vars   == <<disc, handle, shared, cache, local, ghosts, calls, faults>>

-----------------------------------------------------------------------------
(* Values *)

Handle == [file : Files \cup {0}, offset : Int, key : Nat \cup {NoTitle}]
Closed == [file |-> 0, offset |-> 0, key |-> NoTitle]

Labels == {"idle", "fetch", "mark", "test", "copy", "lookup", "serve", "return", "next"}
Call   == [kind : {"none", "read", "raw", "cache"}, file : Files \cup {0},
           pos : Int, asked : Nat, sector : Nat, rem : Nat,
           key : Nat \cup {NoTitle}, cached : BOOLEAN,
           found : Nat, gen : Nat, spoiled : BOOLEAN]
NoCall == [kind |-> "none", file |-> 0, pos |-> 0, asked |-> 0, sector |-> 0,
           rem |-> 0, key |-> NoTitle, cached |-> FALSE,
           found |-> 0, gen |-> 0, spoiled |-> FALSE]
Entry  == [file : Files, bytes : Seq(Byte), sound : BOOLEAN]

Css       == disc = "css"
KeyOf(f)  == IF Css THEN Dirlist[f].title ELSE NoTitle
Busy(t)   == pc[t] # "idle"

\* The buffer holds the sector it is said to hold.
Honest    == buf.content.of = buf.sector

First(o)   == IF o.kind = "raw" THEN o.pos ELSE FirstSector(o.file, o.pos)
StartOf(o) == IF o.kind = "raw" THEN 0 ELSE o.pos
Last(o)    == IF o.kind = "raw" THEN o.pos + o.asked \div SectorSize - 1
              ELSE LastSector(o.file, o.pos, o.asked)

(* A ReadData call: what it is about to deliver may be spoiled from the    *)
(* start, when its first sector is buffered and was unscrambled already.   *)
ReadCall(kind, f, pos, n) ==
  [NoCall EXCEPT !.kind = kind, !.file = f, !.pos = pos, !.asked = n, !.rem = n,
                 !.sector = FirstSector(f, pos), !.cached = f \in cached,
                 !.spoiled = Css /\ f \notin cached /\ buf.sector = FirstSector(f, pos)]
Entrance(f) == IF f \in cached THEN "lookup" ELSE "fetch"

Init ==
  /\ disc \in {"css", "plain", "image"}
  /\ session = NoThread
  /\ handle = [t \in Threads |-> Closed]
  /\ buf = [sector |-> 0, content |-> Nothing]
  /\ currKey = NoTitle
  /\ cached = {} /\ entries = <<>> /\ passes = 0
  /\ pc = [t \in Threads |-> "idle"]
  /\ op = [t \in Threads |-> NoCall]
  /\ out = [t \in Threads |-> <<>>]
  /\ looked = [t \in Threads |-> 0]
  /\ calm = [t \in Threads |-> TRUE] /\ quiet = TRUE
  /\ calls = 0 /\ faults = 0

\* A call of an idle thread.
Called(t) ==
  /\ ~Busy(t)
  /\ calls < MaxCalls
  /\ calls' = calls + 1
  /\ UNCHANGED <<disc, faults>>
Inside == UNCHANGED <<disc, calls>>

(* Thread t's call begins on the buffer: it disturbs the calls other       *)
(* threads are in, and they disturb it; fit says that the buffer is.       *)
Disturb(t, fit) ==
  /\ calm' = [u \in Threads |-> IF u = t THEN fit /\ \A v \in Threads \ {t} : ~Busy(v)
                                ELSE calm[u] /\ ~Busy(u)]
  /\ quiet' = (quiet /\ \A v \in Threads \ {t} : ~Busy(v))

-----------------------------------------------------------------------------
(* Handles *)

\* iso9660fs_open: the handle remembers the file and its title's key.
Open(t) == \E f \in Files :
  /\ Called(t)
  /\ handle[t] = Closed
  /\ handle' = [handle EXCEPT ![t] = [file |-> f, offset |-> 0, key |-> KeyOf(f)]]
  /\ UNCHANGED <<shared, cache, local, ghosts>>

(* iso9660fs_close resets the current title key without the mutex, whoever *)
(* is reading.                                                             *)
Close(t) ==
  /\ Called(t)
  /\ handle[t] # Closed
  /\ handle' = [handle EXCEPT ![t] = Closed]
  /\ currKey' = NoTitle
  /\ calm' = [u \in Threads |-> calm[u] /\ (Css => ~Busy(u))]
  /\ UNCHANGED <<session, buf, cache, local, quiet>>

\* iso9660fs_seek: from any of the three bases, and nothing bounds the result.
Seek(t) ==
  /\ Called(t)
  /\ handle[t] # Closed
  /\ session = NoThread
  /\ \E base \in {0, handle[t].offset, Dirlist[handle[t].file].size}, d \in Moves :
       handle' = [handle EXCEPT ![t].offset = base + d]
  /\ UNCHANGED <<shared, cache, local, ghosts>>

-----------------------------------------------------------------------------
(* Calls begin *)

\* A bug: the title key of the file read before stays in force.
KeyKept(t) == IF currKey = NoTitle THEN handle[t].key ELSE currKey

\* The title key iso9660fs_read puts in force on a CSS disc.
KeyFor(t) == handle[t].key

\* iso9660fs_read at or behind the end of the file.
ReadNothing(t) ==
  /\ Called(t)
  /\ handle[t] # Closed
  /\ session = NoThread
  /\ Clamp(handle[t].file, handle[t].offset, 1) = 0
  /\ UNCHANGED <<handle, shared, cache, local, ghosts>>

\* iso9660fs_read up to its call of ReadData.
Read(t) ==
  /\ Called(t)
  /\ handle[t] # Closed
  /\ session = NoThread
  /\ LET f == handle[t].file
         pos == handle[t].offset
     IN \E len \in Lengths :
          /\ Clamp(f, pos, len) > 0
          /\ op' = [op EXCEPT ![t] = ReadCall("read", f, pos, Clamp(f, pos, len))]
          /\ pc' = [pc EXCEPT ![t] = Entrance(f)]
          /\ Disturb(t, Honest \/ buf.sector # FirstSector(f, pos))
  /\ session' = t
  /\ currKey' = IF Css THEN KeyFor(t) ELSE currKey
  /\ out' = [out EXCEPT ![t] = <<>>]
  /\ UNCHANGED <<handle, buf, cache, looked>>

(* Read_Raw_Sectors: whole sectors, through the same buffer, under no      *)
(* mutex.                                                                  *)
ReadRaw(t) ==
  /\ Called(t)
  /\ \E r \in RawReads :
       op' = [op EXCEPT ![t] = [NoCall EXCEPT !.kind = "raw", !.pos = r[1], !.sector = r[1],
                                  !.asked = r[2] * SectorSize, !.rem = r[2] * SectorSize]]
  /\ pc' = [pc EXCEPT ![t] = "fetch"]
  /\ out' = [out EXCEPT ![t] = <<>>]
  /\ Disturb(t, TRUE)
  /\ UNCHANGED <<handle, shared, cache, looked>>

(* Cache_IFO_Files frees the old entries, but leaves the files flagged.    *)
(* Applications cache from one thread.                                     *)
CacheIfoFiles(t) ==
  /\ Called(t)
  /\ \A u \in Threads : op[u].kind = "cache" => ~Busy(u)
  /\ entries' = <<>>
  /\ passes' = passes + 1
  /\ looked' = [looked EXCEPT ![t] = 0]
  /\ op' = [op EXCEPT ![t] = [NoCall EXCEPT !.kind = "cache"]]
  /\ pc' = [pc EXCEPT ![t] = "next"]
  /\ Disturb(t, TRUE)
  /\ UNCHANGED <<handle, shared, cached, out>>

\* The IFO files a caching pass has still to come to.
Remaining(t) == {f \in Files : Dirlist[f].ifo /\ f > looked[t]}

\* The next IFO file of a caching pass, with its title key put in force.
CacheNext(t) ==
  /\ pc[t] = "next"
  /\ Inside
  /\ \/ /\ Remaining(t) = {}
        /\ pc' = [pc EXCEPT ![t] = "idle"]
        /\ UNCHANGED <<currKey, looked, op, out, ghosts>>
     \/ \E f \in Remaining(t) :
          /\ \A g \in Remaining(t) : f <= g
          /\ looked' = [looked EXCEPT ![t] = f]
          /\ currKey' = IF Css THEN KeyOf(f) ELSE currKey
          /\ op' = [op EXCEPT ![t] = ReadCall("cache", f, 0, Dirlist[f].size)]
          /\ out' = [out EXCEPT ![t] = <<>>]
          /\ pc' = [pc EXCEPT ![t] = IF Dirlist[f].size = 0 THEN "return" ELSE Entrance(f)]
          /\ calm' = [calm EXCEPT ![t] = @ /\ (Honest \/ buf.sector # FirstSector(f, 0))]
          /\ UNCHANGED quiet
  /\ UNCHANGED <<handle, session, buf, cache, faults>>

-----------------------------------------------------------------------------
(* Sector by sector *)

\* A bug: raw reads trust the buffer, too.
NeededOnce(t) == op[t].sector # buf.sector

\* ReadData reads a sector unless it is the buffered one, ReadNumSectors always.
Needed(t) == op[t].kind = "raw" \/ op[t].sector # buf.sector

Unscrambles(t) == op[t].kind # "raw"

\* ReadSector fills the buffer, or fails; an image's zeroes what it could not read.
Fetch(t) ==
  /\ pc[t] = "fetch"
  /\ Inside
  /\ \/ /\ ~Needed(t)
        /\ pc' = [pc EXCEPT ![t] = "test"]
        /\ UNCHANGED <<buf, ghosts, faults>>
     \/ /\ Needed(t)
        /\ buf' = [buf EXCEPT !.content = OnDisc(Css, op[t].sector)]
        /\ pc' = [pc EXCEPT ![t] = "mark"]
        /\ UNCHANGED <<ghosts, faults>>
     \/ /\ Needed(t)
        /\ faults < MaxFaults
        /\ faults' = faults + 1
        /\ calm' = [calm EXCEPT ![t] = FALSE]
        /\ quiet' = FALSE
        /\ pc' = [pc EXCEPT ![t] = "mark"]
        /\ buf' = IF disc = "image" THEN [buf EXCEPT !.content = Nothing] ELSE buf
  /\ UNCHANGED <<handle, session, currKey, cache, op, out, looked>>

\* A bug: the sector is not recorded as the buffered one.
Unmarked(t) == buf.sector

\* The sector read_sector is set to, ReadSector's result notwithstanding.
Marked(t) == op[t].sector

Mark(t) ==
  /\ pc[t] = "mark"
  /\ Inside
  /\ buf' = [buf EXCEPT !.sector = Marked(t)]
  /\ pc' = [pc EXCEPT ![t] = IF Unscrambles(t) THEN "test" ELSE "copy"]
  /\ UNCHANGED <<handle, session, currKey, cache, op, out, looked, ghosts, faults>>

\* Whether there is a title key to unscramble with.
Test(t) ==
  /\ pc[t] = "test"
  /\ Inside
  /\ op' = [op EXCEPT ![t].key = IF Css THEN currKey ELSE NoTitle]
  /\ pc' = [pc EXCEPT ![t] = "copy"]
  /\ UNCHANGED <<handle, shared, cache, out, looked, ghosts, faults>>

(* The buffer is unscrambled in place with the key in force, which may     *)
(* have changed since the test, and the sector's part of the read copied.  *)
Copy(t) ==
  /\ pc[t] = "copy"
  /\ Inside
  /\ LET o == op[t]
         off == OffsetIn(First(o), StartOf(o), o.sector)
         n == ToRead(First(o), StartOf(o), o.sector, o.rem)
         more == o.sector + 1 <= Last(o) /\ o.rem > n
     IN \E k \in {o.key, currKey} :
          LET c == IF o.key = NoTitle THEN buf.content ELSE Unscramble(k, buf.content)
          IN /\ buf' = [buf EXCEPT !.content = c]
             /\ out' = [out EXCEPT ![t] = @ \o Slice(c, off, n)]
             /\ op' = [op EXCEPT ![t].sector = @ + 1, ![t].rem = @ - n]
             /\ pc' = [pc EXCEPT ![t] = IF more THEN "fetch" ELSE "return"]
  /\ UNCHANGED <<handle, session, currKey, cache, looked, ghosts, faults>>

-----------------------------------------------------------------------------
(* The IFO cache *)

\* get_ifo_data: the first entry of the file, 0 if there is none.
EntryOf(f) ==
  IF \E i \in DOMAIN entries : entries[i].file = f
  THEN CHOOSE i \in DOMAIN entries :
         entries[i].file = f /\ \A j \in 1..(i - 1) : entries[j].file # f
  ELSE 0

(* read_mutex, which a lookup and its copy hold, keeps readers of the      *)
(* cache apart, not the pass that frees it: the entry found may be freed   *)
(* before it is copied.                                                    *)
Lookup(t) ==
  /\ pc[t] = "lookup"
  /\ Inside
  /\ LET i == EntryOf(op[t].file) IN
       /\ op' = [op EXCEPT ![t].found = i, ![t].gen = passes,
                           ![t].spoiled = IF i = 0 THEN TRUE ELSE ~entries[i].sound]
       /\ pc' = [pc EXCEPT ![t] = IF i = 0 THEN "return" ELSE "serve"]
  /\ UNCHANGED <<handle, shared, cache, out, looked, ghosts, faults>>

\* The part of the cached copy that was asked for.
ServedFrom(t) ==
  SubSeq(entries[op[t].found].bytes, op[t].pos + 1, op[t].pos + op[t].asked)

Serve(t) ==
  /\ pc[t] = "serve"
  /\ Inside
  /\ out' = [out EXCEPT ![t] = IF op[t].gen = passes THEN ServedFrom(t)
                               ELSE [i \in 1..op[t].asked |-> NoByte]]
  /\ pc' = [pc EXCEPT ![t] = "return"]
  /\ UNCHANGED <<handle, shared, cache, op, looked, ghosts, faults>>

(* A buffer of the file's size, of which ReadData wrote what it delivered, *)
(* becomes an entry, whatever ReadData returned.                           *)
Loaded(t) ==
  [file  |-> op[t].file,
   bytes |-> out[t] \o [i \in 1..(op[t].asked - Len(out[t])) |-> NoByte],
   sound |-> calm[t] /\ ~op[t].cached]

Load(t) ==
  /\ pc[t] = "return"
  /\ op[t].kind = "cache"
  /\ Inside
  /\ entries' = Append(entries, Loaded(t))
  /\ cached' = cached \cup {op[t].file}
  /\ pc' = [pc EXCEPT ![t] = "next"]
  /\ UNCHANGED <<handle, shared, passes, op, out, looked, ghosts, faults>>

(* A read moves the handle on by what was asked for, and releases the      *)
(* session; ReadData's result is ignored.                                  *)
Return(t) ==
  /\ pc[t] = "return"
  /\ op[t].kind \in {"read", "raw"}
  /\ Inside
  /\ IF op[t].kind = "read"
     THEN /\ session' = NoThread
          /\ handle' = [handle EXCEPT ![t].offset = @ + op[t].asked]
     ELSE UNCHANGED <<session, handle>>
  /\ pc' = [pc EXCEPT ![t] = "idle"]
  /\ op' = [op EXCEPT ![t] = NoCall]
  /\ out' = [out EXCEPT ![t] = <<>>]
  /\ UNCHANGED <<buf, currKey, cache, looked, ghosts, faults>>

Begin(t) == Open(t) \/ Close(t) \/ Seek(t) \/ ReadNothing(t) \/ Read(t)
              \/ ReadRaw(t) \/ CacheIfoFiles(t)
Proceed(t) == CacheNext(t) \/ Fetch(t) \/ Mark(t) \/ Test(t) \/ Copy(t)
                \/ Lookup(t) \/ Serve(t) \/ Load(t) \/ Return(t)

Next == \E t \in Threads : Begin(t) \/ Proceed(t)
Spec == Init /\ [][Next]_vars

-----------------------------------------------------------------------------
(* Properties *)

\* The variables keep their types, and only the session's reader reads.
TypeOK ==
  /\ disc \in {"css", "plain", "image"}
  /\ session \in Threads \cup {NoThread}
  /\ handle \in [Threads -> Handle]
  /\ buf \in [sector : Nat, content : Content]
  /\ currKey \in Nat \cup {NoTitle}
  /\ cached \subseteq Files /\ entries \in Seq(Entry) /\ passes \in Nat
  /\ pc \in [Threads -> Labels]
  /\ op \in [Threads -> Call]
  /\ out \in [Threads -> Seq(Byte)]
  /\ looked \in [Threads -> Files \cup {0}]
  /\ calm \in [Threads -> BOOLEAN] /\ quiet \in BOOLEAN
  /\ calls \in 0..MaxCalls /\ faults \in 0..MaxFaults
  /\ \A t \in Threads : (Busy(t) /\ op[t].kind = "read") <=> session = t

\* The title key of file f, if it needs one, is at its place in titlekeys.
KeyFits(f) ==
  Dirlist[f].scrambled => /\ Dirlist[f].title + 1 \in DOMAIN TitleKeys
                          /\ TitleKeys[Dirlist[f].title + 1] = Dirlist[f].title

\* Thread t is about to return from a call of this kind.
Returns(t, kind) == pc[t] = "return" /\ op[t].kind = kind

(* What a read delivers is the file's bytes at its position, in the clear, *)
(* on any disc and from the cache: unless a sector failed, an unlocked     *)
(* call (close, a raw read, a caching pass) came in between, the read      *)
(* began in the buffered sector of a CSS disc, or the cached copy was not  *)
(* sound.  Whatever other handles read before, with whatever keys.         *)
RightBytes == \A t \in Threads : LET o == op[t] IN
  Returns(t, "read") /\ calm[t] /\ ~o.spoiled /\ KeyFits(o.file)
    => out[t] = Wanted(o.file, o.pos, Len(out[t]))

(* A raw read that nothing disturbed delivers the sectors as they are on   *)
(* the disc, also right after a read unscrambled one of them in the        *)
(* buffer.                                                                 *)
RawBytes == \A t \in Threads : LET o == op[t] IN
  Returns(t, "raw") /\ calm[t]
    => out[t] = [i \in 1..o.asked |->
                   [sector |-> o.pos + (i - 1) \div SectorSize,
                    off    |-> (i - 1) % SectorSize,
                    text   |-> OnDisc(Css, o.pos + (i - 1) \div SectorSize).text]]

(* A read from the disc delivers as much as it reports, unless its start   *)
(* and its length cross a sector boundary more than its length alone; then *)
(* it delivers less.                                                       *)
Delivered == \A t \in Threads : LET o == op[t] IN
  Returns(t, "read") /\ ~o.cached
    => /\ Len(out[t]) <= o.asked
       /\ Len(out[t]) = o.asked <=> Covered(o.pos, o.asked)

(* A cached IFO file is the file's bytes, all of them, if it was not       *)
(* cached before and nothing disturbed the pass.                           *)
CacheSound == \A i \in DOMAIN entries : LET e == entries[i] IN
  e.sound /\ KeyFits(e.file) => e.bytes = Wanted(e.file, 0, Dirlist[e.file].size)

(* While no sector has failed and no calls have overlapped, the buffer     *)
(* holds the sector it is said to hold whenever no call is under way.      *)
BufferHonest == quiet /\ (\A t \in Threads : ~Busy(t)) => Honest

(* A handle of a CSS disc reads with its own title's key throughout,       *)
(* unless disturbed: no other handle's key is in force at any of its       *)
(* sectors.                                                                *)
OwnKey == \A t \in Threads :
  Css /\ calm[t] /\ Busy(t) /\ op[t].kind = "read" => currKey = handle[t].key

(* README.md, line 15: "Transparent CSS Descramble".  Every undisturbed    *)
(* read of a disc whose title keys are known is in the clear.              *)
TransparentDescramble == \A t \in Threads : LET o == op[t] IN
  Returns(t, "read") /\ ~o.cached /\ calm[t] /\ KeyFits(o.file)
    => \A i \in DOMAIN out[t] : out[t][i].text = "clear"

=============================================================================
