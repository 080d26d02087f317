# A verification development of libusbdvd

libusbdvd lets Nintendo Switch homebrew read discs from a USB CD, DVD or
Blu-ray drive, and ISO and cue/bin images, through the standard file
functions. This directory holds TLA+ modules that model the library's control,
TLC configurations that check them on small instances, and theorems with proofs
for the TLA+ proof system (TLAPS). Paths below are relative to `src/`.

* `PROJECT.json` maps every definition to the lines it models and lists the
  runs, mutants, hazards, findings and theorems.
* Model-check: `tlc -config bot_safety.cfg MCScsiBot.tla`; prove:
  `tlapm ScsiBotProofs.tla`.

## 1. Inventory

The library is one object, `CUSBDVD`, that owns a USB transport, a SCSI layer
and at most one file system with its device. There is no thread in it. The
concurrency is its callers': applications read files from several threads,
through newlib's device table, and two C calls (`Read_Raw_Sectors`,
`Cache_*`) reach the same state beside the table.

| component | state it keeps | operations |
|---|---|---|
| USB bulk-only transport, `source/os/switch/switch_usb.cpp` | `usb_mutex`, one DMA buffer `xfer_buf`, two endpoints each with a posted URB, a report queue and an event | enumerate, `usb_bulk_transfer` |
| SCSI command layer, `source/usbdvd_scsi.cpp` | `scsi_operation_mutex`, sense data, two support latches | `send_scsi_command`, `send_scsi_command_pass`, some 30 commands, three of which bypass the mutex |
| CSS authentication, `usbdvd_scsi.cpp`, `CSS/usbdvd_css.cpp` | AGIDs (in the drive), disc key, bus key | `GetBusKey`, `CrackTitleKey` |
| CSS key cache, `CSS/usbdvd_csscache.cpp` | a text file of disc hashes and keys | `addKey`, `keyExists`, `getKey`, `clear`, hexadecimal conversion |
| CSS cipher, `CSS/usbdvd_css.cpp`, `csstables.h` | none | table-driven arithmetic on bytes |
| Disc lifecycle facade, `source/usbdvd.cpp` | `usbdvd_ctx`, `usb_init`, the pointers to everything else; the tray; newlib's device table | three constructors, `MountDisc`, `Eject`, destructor, C wrappers |
| Data disc reads, `fs/usbdvd_datadisc.cpp` | sector buffer and number, current title key, IFO cache, `cached` flags, title keys | `ReadData`, `ReadRaw...`, `Cache_IFO_Files`, `DVDGetAllCSSKeys` |
| ISO9660 device, `fs/iso9660/iso9660_devoptab.cpp` | session mutex, file handles, one directory list | open, close, read, seek, stat, directory iteration |
| ISO9660 parser, `fs/iso9660/usbdvd_iso9660.cpp` | the directory list it fills, the calls of its recursion | descriptors, directories, Joliet, Rock Ridge |
| UDF device, `fs/udf/udf_devoptab.cpp` | handles, the pass-through ("ioctl") file and its one response buffer, one directory list | open, close, read, write, seek, directory iteration |
| UDF file system, `fs/udf/usbdvd_udf.cpp` | partitions, extents, small-file cache | parsing, `UDFReadData`, `Cache_UDF_Small_Media_Files` |
| Audio CD file system, `fs/audiocdfs/` | frame buffer and number, tracks as WAV files | read, seek, directory iteration |
| Cue sheets and helpers, `source/usbdvd_utils.cpp` | none | cue to TOC, LBA and MSF conversion |
| Examples, build files | | callers of the API |

How they interact. Everything below the devices calls down synchronously:
device, file system, data disc, SCSI, USB. There are no callbacks and no
messages but those on the cable. What is shared:

* one `xfer_buf` and two endpoints, by all commands of all threads. A URB that
  timed out is not cancelled, so it shares them with later commands too;
* one sector buffer per file system, by reads (under the session mutex), raw
  reads and caching passes (under no mutex);
* one `currenttitlekey_idx`, by all handles: set per read, reset by close;
* newlib's device table, by all objects: registered by name if the name is
  free, removed by name whosever it is;
* the tray, by the object and the user.

Hard behaviours, and what makes each component correct:

* Transport and commands: timeouts with late completions, stalls, short and
  failed transfers, commands of three threads interleaved because three
  functions take no mutex, error tests that never hold because libnx errors are
  positive. Correct: success is only reported for a command the drive has
  performed; data counted is the command's own; no CBW is taken twice but where
  its answer was lost; host and drive stay in step without faults and refused data; every command returns.
* File reads: the buffer is descrambled in place, marked before the result of
  the read is known, and reached without the mutex. Correct: a read delivers the
  file's bytes in the clear, raw reads deliver sectors as they are on the disc,
  the buffer's number names what it holds, the key in force is the handle's own.
* UDF file reads: a read is split over extents and chunks of 4 MiB; the last
  sector of a chunk stays in the sector buffer, which raw reads use under no
  mutex; small files are cached. Correct: as above, for every split.
* Facade: any sequence of construct, mount, eject and destroy on several
  objects, with discs changed by hand and commands failing. Correct: the device
  table never leads to deleted memory, a mounted object is reachable, what is
  shown is the disc in the drive, nothing is lost, no disc is shut in.
* CSS keys: keys are looked up by title number and stored in cracking order, and
  go through a cache file. Correct: a title is descrambled with its own key.
* CSS authentication: each block of a search, and each change of title in reads,
  goes through eight commands that take one of the drive's four AGIDs. Correct:
  an AGID comes back whatever fails, and a drive refuses no block to a read or a
  search that nothing went wrong for.
* Pass-through file: one response buffer for all handles, reached by write and
  close without the mutex, freed by the close of any file. Correct: a handle
  reads the response to its own request, nothing is used after it is freed, and
  a command reported as done was done.
* Directory parsers: recursive walks over sectors whose reads may fail, with
  lengths taken from the disc. Correct: mounting comes to an end, and what is
  listed is what is on the disc.
* Directory iteration: one list for all iterations of a device. Correct: an
  iteration that no other disturbs returns its own directory's entries.

`PROJECT.json` lists the hazards one by one, each at its line.

## 2. Modules

| module | models | composed of |
|---|---|---|
| `ScsiBot` | SCSI layer, bulk-only transport and drive | |
| `ScsiService` | abstract: what a locked command promises its caller | |
| `ScsiBotProofs` | all safety properties of `ScsiBot`, and that it implements `ScsiService` | extends `ScsiBot` |
| `DataDisc` | sector arithmetic of `ReadData`, descrambling as operators | |
| `IsoFiles` | ISO9660 device over data disc reads, with IFO cache and raw reads | extends `DataDisc` |
| `IsoFilesProofs` | all properties of `IsoFiles` | extends `IsoFiles` |
| `Lifecycle` | facade, device table, tray, user | |
| `LifecycleProofs` | all safety properties of `Lifecycle` | extends `Lifecycle` |
| `TitleKeys` | the search for title keys, the key vector, the cache file | |
| `CssAuth` | `GetBusKey` over the drive's AGIDs | |
| `CssSearch` | the search block by block behind authentications, and the reads of VOB files; implements `TitleKeys` | extends `TitleKeys`, `CssAuth` |
| `CssSearchProofs` | all properties of `TitleKeys`, `CssSearch` and `CssAuth`, and the refinement | extends `CssSearch` |
| `UdfExtents` | what the UDF parser leaves; from a place in a file to sectors | |
| `UdfFiles` | files of the UDF device, with the small-file cache and raw reads | extends `UdfExtents` |
| `UdfFilesProofs` | all properties of `UdfFiles` that hold | extends `UdfFiles` |
| `UdfIoctl` | the pass-through file of the UDF device | |
| `UdfIoctlProofs` | all properties of `UdfIoctl` | extends `UdfIoctl` |
| `CueSheet` | from a cue sheet to a table of contents | |
| `AudioCdFs` | tracks of an audio CD or a cue sheet as WAV files | extends `CueSheet` |
| `AudioCdFsProofs` | all properties of `AudioCdFs` and `CueSheet` | extends `AudioCdFs` |
| `DiscList` | what both directory parsers share: the list, the calls under way, reads that fail | |
| `IsoTree` | the walk over ISO9660 directories, plain, Joliet and Rock Ridge | extends `DiscList` |
| `UdfTree` | the walk over UDF directories, by the sector or in the metadata partition | extends `DiscList` |
| `DirLists` | mounting of all three kinds of discs, and the iterations over directories | extends `IsoTree`, `UdfTree` |
| `DirListsProofs` | the safety properties of `DirLists` | extends `DirLists` |
| `MCScsiBot`, `MCIsoFiles`, `MCLifecycle`, `MCCssSearch`, `MCUdfFiles`, `MCUdfIoctl`, `MCAudioCdFs`, `MCDirLists` | values and symmetry for TLC | |

### 2.1 ScsiBot: commands on the wire

A command is up to three bulk transfers: CBW, data, CSW. `stage[t]` is the stage
of thread `t`'s command and `sub[t]` where it is in `usb_bulk_transfer`. The
actions are the points at which threads and the drive can interleave:

| action | code |
|---|---|
| `Start` | a call of `send_scsi_command` ("command"), `send_scsi_command_pass` ("pass") or a function that takes no mutex ("bare": `UsbDvdUnitReady`, `UsbDvdSendPlayerKey`, `UsbDvdResetStreamingMode`) |
| `LockScsi` | `scsi_operation_mutex` |
| `EnterTransfer`, `Post` | `usb_mutex`, copy to `xfer_buf`, `usbHsEpPostBufferAsync` (fails if a URB is posted already: `PostFails`) |
| `Refuse` | the early returns of `usb_bulk_transfer`, for a data stage without a buffer (`UsbDvdInvalidateAGID` declares eight bytes and passes `NULL`) or beyond 4 MiB: nothing is posted, and the command goes on to its status (`Accepts` is the condition) |
| `TakeReport`, `Timeout` | the event came or ten seconds passed; `eventClear`, one report taken, judged by its result and size only |
| `StageDone`, `AfterCbw`, `JudgeLocked`, `JudgeBare`, `JudgeSense` | what each function makes of the result. `r < 0` never holds, so a failed CBW goes on to the next stage, as in the code |
| `Sense` | REQUEST SENSE after a failed "command", under the mutex again |
| `DevTakeCbw`, `DevTakeData`, `DevSendData`, `DevSendStatus`, `DevStall`, `DevStalled` | the drive (external), a bulk-only state machine reading and writing `xfer_buf` at the time a URB moves |

A fault is a timeout with the URB still posted, a stall or a bad status: the
counter `faults` is bounded by `MaxFaults`, the tags by `MaxCmds`. `clean` is a
history variable: no fault, no overlapping commands and no refused data stage so
far. The commands that threads may issue are `Issued`, each with its direction, the
size of its data and whether there is a buffer for them. Properties:

* `SuccessGenuine`: a checked command is said to have succeeded only if the
  drive has performed it. It holds although a transfer may take another
  transfer's report, because the CSW carries the tag and the tag is compared.
* `CleanVerdict`, `InStep`, `OwnData`: as long as the wire is `clean`, a command fails only
  when the drive said so, host and drive agree on the stage, and the count of a
  pass command is that of its own data, all of it. After a fault or an overlap the
  count need not be: one CBW that times out is enough for a later pass command
  to take an older report for its data, copy whatever the buffer holds (its own
  CBW), and succeed with its own CSW. Three pass commands of one thread do it; so do
  a bare command's overlap with a locked one, without any fault, and two more. No
  CSW tells the host: of its fields the residue is not looked at
  (`usbdvd_scsi.cpp:960`). After a refused data stage nothing of the three holds,
  without any fault: the CBW of `UsbDvdInvalidateAGID` is taken, its eight bytes
  never come, and the drive takes the next command's CBW for them.
* `Exclusive`: the mutexes exclude, also where a bare command takes `usb_mutex` in
  the middle of a locked one (a theorem only, section 5).
* `OnceUnlessLost`: a CBW is taken a second time only if the drive's answer to the
  first was lost, that is, met a URB too small for a CSW. Data stages of 4, 5, 8 and 12
  bytes are such: with one of 8 bytes TLC reaches two timed-out URBs that move one
  CBW twice, the answer to the first swallowed by a data URB. `lost` is the history
  variable that says so. Elsewhere an idle drive has sent a CSW over the buffer.
* `ServiceSpec`: refinement of `ScsiService` (tags issued, calls, verdicts).
* `EveryCommandReturns`: liveness, below.

Abstractions: all commands differ only in their data and are one action; a
message is its kind, tag, direction, size and status; tags (`randomGet`) are taken as
fresh; `usb_clear_halt` clears the stall that it follows. The bare commands
`SendPlayerKey` and `ResetStreamingMode` declare no data and send some: the
drive may refuse (`DevTakeCbw`'s second branch). The first phase of the
constructor (enumeration) and the reset functions, which nothing calls, are not
modelled.

### 2.2 DataDisc and IsoFiles: reading files

`DataDisc` holds what `ReadData` computes, over bytes `[sector, off, text]` where
`text` is `"clear"`, `"scrambled"`, `"garbled"` or `"none"`: `FirstSector`,
`LastSector`, `OffsetIn`, `ToRead`, `Clamp`, and `Unscramble`, which leaves the
sectors that are not scrambled on the disc, makes a scrambled one clear with its
title's own key, and garbles it with another key or when it is clear already.
`Wanted` is the reference: the file's bytes at a position, in the clear.
`Covered` says when `LastSector` is far enough; the code leaves out the offset in
the first sector, so it is not always.

`IsoFiles` has threads with one open handle each. A step is one access to what
they share. `Open`, `Close`, `Seek`, `ReadNothing` and `Read` are the device
functions, `ReadRaw` and `CacheIfoFiles` the calls beside them. `Read` takes the
session mutex and sets the key; then per sector `Fetch` (read the sector if the
number differs, result ignored), `Mark` (set the number), `Test` (DVD_CSS and a
key?) and `Copy` (unscramble in place and copy), or, for a cached file, `Lookup`
and `Serve`; `Load` enters a file into the cache; `Return` advances the offset
by what was asked.

* `RightBytes`: a read delivers `Wanted`, whatever other handles read before
  with whatever keys, except in the cases it names (a sector failed, an unlocked
  call came in between, the read began in the buffered sector of a CSS disc, the
  cached copy was unsound).
* `RawBytes`: a raw read that nothing disturbed delivers sectors as on the disc.
* `Delivered`: exactly when a read delivers as much as it reports.
* `CacheSound`, `BufferHonest`, `OwnKey`: cached copies, the buffer's number, the
  key in force.

The conditions `calm`, `quiet`, `spoiled` and `sound` are ghosts: they name the
disturbances under which the code makes no promise, and TLC shows the property
fails without each. Abstractions: `read_mutex`, which keeps only cache readers
apart, is left out; caching passes come from one thread at a time; the cleanup
and the append of cache entries are atomic; positions above 4 GiB are left out.
That a file's title key is at its place in `titlekeys` is a hypothesis
(`KeyFits`). `TitleKeys` discharges it for regular discs and titles below 10
(`InPlace`); a title from 10 on is never searched for (`usbdvd_datadisc.cpp:232`)
and has no key.

### 2.3 Lifecycle: the facade

`lib[o]` has the members of an object (kind, SCSI object or not, `usb_init`,
`mounted`, the pointers `fs` and `dev` per type of file system); `built` is the
heap of file systems with their devices, in slots that are reused when freed;
`registered` is newlib's table; `tray` the disc in the drive and its lock.

| action | code |
|---|---|
| `InitDrive`, `InitImage`, `InitCue` | the constructors, with their early returns; INQUIRY may fail, the sheet or the binary file be missing; `mounted` is uninitialised in an image's object, so both values |
| `MountDisc`, `MountDiscFailing`, `MountNowhere` | `MountDisc` with no command failing; with one failing, at each place it can (UNIT READY, GET CONFIGURATION, PREVENT, READ TOC, READ), the uninitialised pointer that is freed after a failed READ TOC being a possible crash; and without a SCSI object, which is a null pointer |
| `Eject`, `Destroy` | delete devices (leaving the table by name), then file systems; unlock, eject; any of the commands may fail |
| `CloseUnset` | the destructor of an audio CD's file system closes a file pointer that only a cue sheet's constructor sets: eject or destruction may end the program |
| `Insert`, `TakeOut` | the user; a locked tray stays shut |

* `RegisteredLive`: the table leads to what exists, whatever names collide.
* `Reachable`: a mounted object has one device, at its mount point, and the table
  leads there unless another device wanted the name (`contested`).
* `Current`: without failures, what is shown was read from the disc in the drive.
* `NoLeak`: what exists is pointed to by its owner. The exception (`sure`) is a
  drive that failed INQUIRY, where `usb_init` stays false, nothing counts as
  mounted and a second mount overwrites the pointers of the first.
* `TrayReleased`: without failures, a locked tray has an object to unlock it.

Abstractions: file system and device are built in one step; `cdfs_init` and
`pseudofs_init` are always set where they are tested and left out; one object has
the drive; readers inside a device while it is ejected are not modelled (no lock
of the library covers both; the application has to); the search for CSS keys
within `MountDisc` belongs to `TitleKeys`.

### 2.4 TitleKeys: finding and keeping keys

A file is descrambled with `titlekeys[title]`, but `DVDGetAllCSSKeys` appends keys
in the order in which it finds them, and the cache file keeps that order. The
number of a title is nowhere written down.

A disc is a row of blocks, each in the clear, scrambled so that its pattern
gives the key away ("weak"), scrambled otherwise ("tough"), or no MPEG block
("other"), with the VOBs' places in it. `Crack` is `CrackTitleKey`'s loop: where
it ends (`Ends`, `Length`) and what it has found by then. The loop takes the
file's size in bytes for a number of blocks, so it runs past the end of the file
into the next; the model lets it.

| action | code |
|---|---|
| `AskProtection` | `MountDisc` asks for copyright information; if the command fails, the answer is what was on the stack |
| `FoundKeys`, `SearchKeys` | `getKey`, and the branch on an empty result |
| `SearchMenu`, `SkipMenu`, `SearchTitle`, `SkipTitle` | `DVDGetAllCSSKeys`, one file at a time: VIDEO_TS.VOB or VTS_nn_0.VOB, then VTS_nn_1.VOB if the menu gave no key |
| `addKey` | a line appended, unless the hash has one or the file cannot be opened |
| `Eject`, `Quit` | the keys deleted; the program ended, in the middle of a search too |
| `clearCache` | the C call |

* `InPlace`: every protected title below 10 of a `Regular` disc has its own key at
  its number, just found or out of the cache, provided no command failed and no
  other disc has the same hash (`Trusted`). `Regular` says what it takes: titles
  without a gap, one key to a title, and every title giving something away. TLC
  finds the property broken when any of these is dropped.
* `Faithful`: keys come out of the file as they went in. `KnownStays`: no mount
  changes what the next one will find. `OneLine`, one line to a hash, is a theorem
  only (section 5).

The ghosts `clean` and `of`, in the state and in each line, say where keys come
from. Abstractions: a hash always has 32 hexadecimal digits and keys always
have digits, so `addKey`'s early returns on malformed input never happen; lines
are digits, not characters; the search over patterns in `AttackPattern` is the
difference of "weak" and "tough"; the authentication before each block is
`CssSearch`'s; a VTS_00_1.VOB, which no disc has, is excluded by
`DiscAssumption`.

### 2.5 CssAuth and CssSearch: block by block behind authentications

`GetBusKey` authenticates the host to the drive, so that it lets go of scrambled
sectors: before every block of a search and, when a file is read, whenever
`currenttitlekey_idx` is not the file's. Its result is never looked at. `CssAuth`
has one action per command:

| action | code |
|---|---|
| `UsbDvdGetAGID` | one of the drive's AGIDs, or none left |
| `UsbDvdSendChallenge`, `ReportKey1` | a failure returns the AGID; a key that no variant yields does not (`usbdvd_scsi.cpp:1151`) |
| `UsbDvdInvalidateAGID` | declares eight bytes and has no buffer to send them from (`usbdvd_scsi.cpp:247`): a drive performs it, waits for the bytes, or refuses it |
| `UsbDvdReportChallenge`, `SendKey2`, `UsbDvdGetDiscKey`, `GetASF` | results not tested; reporting the disc key is what releases the AGID |

A drive that waits for the bytes of an invalidation takes the next command's wrapper
for them, so that one fails. `slips` counts the AGIDs that the code gave up, in
the cases it does not provide for.

`CssSearch` puts `CrackTitleKey`'s loop over it: `StartSearch`, then for every
block `Authenticate` (all of `CssAuth`) and `ReadBlock` or `ReadFails`, which
end the search (`Conclude`) or go on. `MountDisc` around it is `TitleKeys`' actions
(`Mount`, `UseCache`, `NoCache`, `NoMenuVob`, `NoVob`, `StoreKeys`), with `Leave` for
`Eject` or the end of the program and `Interrupt` for its end in the middle.
`StartRead`, `FinishRead`, `CloseFile` and `CacheIfo` are what sets and resets
`currenttitlekey_idx` once the disc is mounted.

* `Searches`: this implements `TitleKeys`. The loop finds what `Crack` says, or
  fails as `TitleKeys` lets it. A step of the loop is a stutter of `TitleKeys` but for
  the last.
* `InPlace`, `Faithful`, `KnownStays`: `TitleKeys`' properties again, here with every
  command's failure in its place.
* `AgidsAccounted`: an AGID outlives its call only in the cases of `slips`.
* `NeverRefused`: as long as no command fails and there is an AGID to give, the
  drive refuses no block. One case is excepted: `Cache_IFO_Files` sets
  `currenttitlekey_idx` for each IFO file and authenticates nothing
  (`usbdvd_datadisc.cpp:357`), so the read of a VOB of the last title cached finds
  its title in force and does not authenticate either.

Abstractions: challenges, keys and variants are whether they are right;
`UsbDvdGetAGID` may or may not end what an older authentication opened, for drives
differ; commands of other kinds between two authentications are left out, but for
the first of a mount, which gets over a waiting drive; reads are of one block.

### 2.6 UdfIoctl: the pass-through file

A program writes a header (`SCSI_PASS_THROUGH_DIRECT`, with data behind it) to
`udf0:/ioctl` and reads the response. Every open file has its own offset; the
response buffer, its size and the pointer to it are the device's. `read` holds the
session mutex; `write` and `close` hold nothing.

| action | code |
|---|---|
| `Open`, `Close`, `Write`, `Read` | a handle, of the pass-through file or of another; a call begins |
| `TestBuffer`, `FreeBuffer` | the old response is freed, by write and by the close of any file; between test, `free` and the assignment other threads may run |
| `Allocate`, `AllocateFails` | `malloc` for a response |
| `Send`, `Transfer` | which branch sends the request, if any; the drive gives at most what it was asked for, or the command fails |
| `SettleDone`, `SettleFailed` | the result: size, offset 0, the response printed; or everything freed |
| `Look`, `Copy` | the end of the response, then the copy, which loads the pointer again |
| `Return` | the mutex released, the handle closed |

`heap` has the blocks that `malloc` may give, so a block that is freed twice, used
when free or read beyond its end is seen (`broken`); nothing follows such a step,
for nothing is known of it. `overlapped` records that a call without the mutex was
not alone, `foreign` that a handle read while the response was another's; `owner`,
`answer` and `had` say whose response there is, what it is and how much of it the
owner has read.

* `MemorySafe`: memory is broken only if calls have overlapped or a handle has
  read another's response. Both happen: two threads that write at the same time
  are enough for the first; for the second one thread is, which reads part of
  one response, writes a request with a shorter one to another handle and goes on
  reading from the first, whose offset is then past the end
  (`udf_devoptab.cpp:295`, an unsigned difference).
* `OneResponse`: whichever way a write ends, what is allocated is the response
  that can be read, and size and pointer agree.
* `OwnResponse`: an owner's reads are its response, in order, once, to the end. A
  response longer than 16 bits is transferred in part (`usbdvd_scsi.cpp:47`) and
  served at its full length, so its end is whatever `malloc` left (`Noise`).
* `Performed`: a write reports success only if the drive has performed the
  command, except for requests of three kinds that no branch sends (`NeverSent`)
  and which are reported as completed all the same. One of them is AGID
  invalidation with `DataIn` set to IN: the function itself sets its length to 0
  (`udf_devoptab.cpp:172-175`), after which nothing sends it.

Abstractions: a byte of a response is the tag of its request and its place;
lengths are taken modulo `LengthLimit` where the code takes 16 bits; a CDB length
that is refused is among the failures. The 18 bytes of sense that `memcpy` takes
beyond a bare header, and data out shorter than the length it declares, are reads
of the caller's memory and left out. `Look` reads size and offset in one step:
only an overlapping write could tell. The destructor's `free` is not modelled.

### 2.7 UdfExtents and UdfFiles: files of a UDF disc

`UdfExtents` starts from file entries, as they are on the disc, and has what the
parser makes of them: `ParseFileEntry` for discs up to UDF 1.50, of which only short
allocation descriptors are understood, and `ParseExtendedFileEntry` for later ones.
`SectorRanges` is `udf_extents_to_sectors`; `PlaceOf` is the reference: where the
disc's author put a byte of a file. The code multiplies the length of an extent,
which is in bytes, by the size of a sector (`Span`), so the first extent is taken
to hold everything the file has, and reads that leave it go on with whatever
follows on the disc. `Straight` says that a read does not notice: it is taken to lie in
the first extent, and the disc has its bytes there. `Covered`, as in `DataDisc`, says that
the sectors computed hold all of the read.

`UdfFiles` has threads with one open handle each. The buffers hold sectors, not
bytes, so a byte delivered is its place on the disc.

| action | code |
|---|---|
| `Open`, `Close`, `Seek`, `ReadNothing`, `Read` | the device functions; `Read` takes the session mutex and reads the flag `cached` |
| `Lock` | `read_mutex`, after which the branch is chosen |
| `NextRange` | one turn of the loop over sector ranges: is the first sector the buffered one? |
| `Take` | if so, it is copied from the buffer, and what lies behind the buffer too if the copy does not begin at 0 |
| `ReadChunk`, `Mark` | up to 4 MiB read, the last copied to the sector buffer, result ignored; then the buffer's number is set and the chunk copied out |
| `Lookup`, `Serve` | a cached file: its entry is looked for, then copied, and nothing keeps it from being freed in between |
| `ReadRaw`, `Fetch`, `Number`, `CopySector` | `Read_Raw_Sectors`, a sector at a time through the same buffer, under no mutex |
| `CacheSmallFiles`, `CacheNext`, `Load`, `Flag`, `Index` | a caching pass: old entries freed, each small file read by `UDFReadData`, appended, then flagged, then given its index |
| `Return` | offset moved by what was asked for, mutexes released |

* `RightBytes`: every byte delivered is the file's byte at that place, through any
  split into chunks, from the drive, the buffer or the cache, whatever other
  threads read before. Four things are excepted, all real: bytes taken from behind
  the sector buffer (`Hole`), reads that leave the first extent, reads that a
  failed command, a raw read or a caching pass disturbed (`calm`), and entries
  cached under such a disturbance or looked for by an index not yet set (`spoiled`).
* `Delivered`: no read writes beyond what was asked for; and exactly when a read
  delivers as much as it reports.
* `RawBytes`, `CacheSound`, `BufferHonest`: raw reads, cached copies and the
  buffer's number.
* `WithinExtents` fails (finding 1).

A regular read of an image calls through `usb_scsi_ctx`, which the image's
constructor never sets: `broken`, after which nothing follows. Cached passes do
the same, so from an image only raw reads go well. Abstractions: the descriptors'
bytes, and which entries a disc has, are the constant `FileEntries`; all entries of
a disc have the version of its descriptors; `ReadAheadSafe` and the streaming range
of `open` do nothing; caching passes come from one thread at a time; a copy from the
chunk is one step with its bookkeeping; a chunk buffer that cannot be allocated is
left out.

### 2.8 CueSheet and AudioCdFs: tracks as WAV files

A table of contents comes from the drive or from a cue sheet. `cuebin_to_TOC` is a
scan of the sheet's lines, each of which is its command and its numbers; the
reference `StartIn` says, without a scan, at which frame a track of the sheet
starts. The drive's table lacks its end: `UsbDvdSendTOC` asks for as many bytes as
the length field says, which does not count itself (`usbdvd_scsi.cpp:632`), so
SEC and FRAME of the lead-out are what the stack held (`DriveTocs`), and
the size of the last track is any number (`AnySizes`), for a cue sheet too.

`AudioCdFs` has threads that may share a handle.

| action | code |
|---|---|
| `Open` | any number in a file's name is taken, also of a track the disc does not have |
| `Close` | not while another thread uses the handle: the application has to see to that |
| `Seek`, `SeekMove` | the place to seek from is chosen, then the mutex taken and the handle moved |
| `Read` | the mutex; the bytes of the header, and the frames that hold the samples |
| `ReadFrame`, `Fetch` | one frame: buffered, read from drive or file, or not there; result ignored, number set, bytes copied |
| `Return` | the handle moved by what was asked for, the mutex released |

* `RightSamples`: as long as the drive delivers, every byte read within a track is
  the header's or the track's own, at its place, for every split over frames and
  every order of reads and seeks. Three exceptions, all real: frame 0 of a disc
  counts as buffered before anything was read, so its bytes are whatever memory
  held; a frame that could not be read is served as the one before; and so is a frame
  that a sheet promises and its binary file, cut short, does not have. Beyond the
  end of a track a read goes on into the next one; the property ends there.
* `CueFaithful`: the table made of a well-formed sheet has every track at its
  `INDEX 01`, whatever other lines there are, and ends where the file ends.

Abstractions: positions are taken modulo `PosLimit`, which stands for 2^32; a
header byte is its track and place; titles, performers and the splitting of lines
are left out; `WellFormed` excludes sheets with a track that has no
`INDEX 01`, several, or one at a minute that does not fit the table's byte, and sheets with
more tracks than the table has room for; `read_lock` is always taken under the session mutex and left out.

### 2.9 DiscList, IsoTree, UdfTree and DirLists: directories

A constructor reads the directories of a disc once, recursively, into
`disc_dirlist`. `DiscList` has that list and the calls under way (`stack`): the records
a call has read, which is next, the path it lists under. No result of a read is
tested, so a call whose read fails parses what is in its buffer, which is on the
stack: nothing it recognises, or what a call of the same depth left there
(`ReadInto`). `Advanced` is the step to the next record.

`IsoTree` is `usbdvd_iso9660.cpp`: `MountIso` chooses between `list_dir_joliet` and
`list_dir_iso9660` by sector 17; `SkipRecord`, `ListRecord` and `ReturnIso` are a turn of
their loops, with `List` for the entry and the recursion and `CleanFileName` for
`cleanFileName` and `cleanFileName_Joliet`. A record has a name, of which `Chars` has the
characters; of each only the low byte counts, and the bytes up to the first 0, 1, 2 or
semicolon make a name (`Spelt`), or a 1 or 2 makes that of the directory itself or its
parent, whose record is skipped (`Skipped`). So the record of a Joliet name may be skipped, or listed
under another name: `iso_wide` lists `A` for a directory whose name is U+0141, its files `F` and `G`
where more characters follow, and neither a directory whose name ends in U+0101 nor what is in it.
For Rock Ridge, `StartWalk`, `WalkField` and `EndWalk` are the loop over a record's
fields. It goes on until `rr_offset` is as long as the whole record, though
it starts behind the record's head, name and first field: it always runs out of
the record, and positions and lengths are in bytes because what it finds
there decides whether it ends. Between records and behind the last there are
zeros, and a field of length zero never lets `rr_offset` grow (`LengthAt`).

`UdfTree` is `usbdvd_udf.cpp`: `MountUdf`, `FailToMount` and `LoseMetadata` are the
constructors from the file set descriptor on; `ReadEntry`, `ListFile`,
`EnterDirectory`, `EnterNowhere` and `ReturnUdf` a turn of `Parse_FID_Ptr`. Descriptor
version 2 is read by the sector: of a directory only its last extent's first sector, and
a file entry whose read fails is the one before (`Before`). Version 3 is read from the
metadata partition's buffer: nothing fails there, but it must exist. What the code
copies into too small a struct (`Overruns`) or reads from where nothing
is (`Misread`, `EnterNowhere`) may end the program (`Crash`).

`DirLists` puts an audio CD's tracks beside them and adds the iterations. `DirOpen`
empties `currdirlist` (a list of the device, not of the iteration; an audio CD has none),
`Gather` appends one entry, `DirNext` returns the next, `DirClose` ends. Nothing holds
the session mutex, so the `Gather`s of two `DirOpen`s interleave.

* `ListRight`: after a mount in which no read failed, the list is exactly what is on
  the disc, each entry once, with its path and kind. The reference (`TreeBelow`, of
  `IsoEntries` and `UdfEntries`) goes over extents and sectors level by level, without a
  buffer or a stack. It holds
  for `Readable` discs; of ISO9660 discs with longer directories what is listed is at
  least true. Not readable are, in the code: directories of more than one sector
  (`usbdvd_iso9660.cpp:399`, and `usbdvd_udf.cpp:556` for version 2), Rock Ridge names that
  are not directly behind the `RR` field (`:491`), or whose walk does not end within the
  record (what it finds beyond may be taken for a name, `iso_junk`), names that `CleanFileName`
  changes or skips (in Joliet any with a character above 255, `:216`), UDF directories of several extents or
  held within their file entry, and UDF names of 16-bit characters, of which
  `UTF16_Truncate` keeps the high bytes (`usbdvd_udf.cpp:317`). Nor is a volume that is no proper
  one (`IsoProper`, `UdfProper`): a name occurs once in a directory (a file in
  several sections has a record, and so an entry, for each), directories have a name and a
  sector, and the extent of a UDF directory holds its descriptors.
* `MountEnds`: on `Sane` discs mounting comes to an end, whatever reads fail, and
  without a failure with a list. Not sane are Rock Ridge discs where the last record of a
  directory, or one of odd length, has an `RR` field (the walk meets a zero and the mount
  hangs, in the model a step that changes nothing); UDF discs of version 3 without a
  metadata partition, that is UDF 2.00 and 2.01; those whose metadata file has several
  extents, from a drive only, because the image's constructor copies them one by one;
  those of version 3 with directories within file entries; and root directories of other
  than one extent. `rocklast`, `nometa`, `mirror` and `inline` of `MCDirLists` show the first
  four when the precondition is dropped.
* `OwnEntries`: an iteration during which no other directory is opened on the device
  returns its own directory's entries, each once and in order, and all of them by its
  end. Of UDF only without a final slash in the path: it compares strings that never have
  one (`udf_devoptab.cpp:417`), as opposed to ISO9660's.
* `TypeOK`: what is read, kept and listed is of its kind, and no call goes on behind
  its records.

Abstractions: a path is its sequence of names and a name an atom, whose length in bytes is kept
where the walk depends on it; sizes, times and modes are left out; the anchor,
partition and logical volume descriptors are taken as read; an entry beyond the sector
read has a name that is no name of the disc's ("garbled").

## 3. Runs

| run | instance | shows |
|---|---|---|
| `bot_safety` | 2 threads, pass and bare commands, 2 commands, 2 faults, data of 0, 8, 12, 20 and 31 bytes and refused ones; 2.8 million states | the safety properties of `ScsiBot` and the refinement |
| `bot_live` | `FairSpec`, command and bare, 1 fault, data of 0, 8 and 12 bytes and refused ones; 600 000 states | `EveryCommandReturns` |
| `iso_reads` | 2 threads, sectors of 3 bytes, 3 files on 3 titles, 4 calls, 1 fault; 1.9 million states | the properties of `IsoFiles` |
| `iso_descramble` | no fault, 3 calls | `TransparentDescramble` fails (finding 2) |
| `life_safety` | 2 objects, 5 discs, 3 slots, 2 failures; 400 000 states | the properties of `Lifecycle` |
| `life_image` | no failure | `ImageMounted` fails (finding 3) |
| `css_search` | 5 discs, 2 mounts, 2 AGIDs, 1 failure (`MaxFailures`; `MaxFaults` 44 never binds); 166 000 states | the properties of `CssSearch`, and those of `TitleKeys`, which it implements |
| `udf_reads` | 2 threads, 4 files, from drive and image, 4 calls, 1 fault; 770 000 states | the properties of `UdfFiles` |
| `udf_extents` | the same disc as one of a later UDF version, no fault | `WithinExtents` fails (finding 1) |
| `ioctl_reads` | 2 threads, 2 handles, 5 requests, 4 calls, 2 blocks; 2.8 million states | the properties of `UdfIoctl` |
| `audio_reads` | 2 threads, 2 handles, a CD and three cue sheets, frames of 3 bytes, 5 calls, 1 fault; 2 million states | the properties of `AudioCdFs` and `CueSheet` |
| `dir_lists` | 16 discs or images of them, 1 failed read, 2 iterations, 3 calls of `diropen`; 760 000 states | the properties of `DirLists` |

Why the bounds are enough. Two threads and two commands give every
interleaving of a locked with a bare or a late transfer, and a third command
arises as REQUEST SENSE; two faults are needed for a report to be one transfer
behind and for a CBW to be taken twice. The data stages are shorter than a CSW,
longer, as long as a CBW (which an idle drive could take for one), and two that are
refused. Sectors of three bytes with reads of
2 and 5 give reads within a sector, across one boundary and across two, from
every offset; four calls let two handles read, close and read again around a
raw read or a caching pass; the three files are a VOB and an IFO of one title
and a VOB of another whose key differs. Three slots hold two objects' file
systems and a lost one; the five discs are one of each kind `MountDisc` tells
apart. The discs of `css_search` are one without CSS, one with menus of which one
is in the clear, one whose second title has no menu, another with the same hash
and other keys, and one that gives nothing away; two mounts are a search and what a
later mount makes of its keys; the one failure hits any command of any
authentication, any block or the storing of the keys; with two AGIDs in place of four,
two that are lost are all, and the drive refuses the rest. Four calls of `ioctl_reads` are a response
of five bytes read two at a time to its end, or a response half read, a shorter
one for another handle and a read past its end; two blocks are what two
overlapping writes can hold; `LengthLimit` 4 cuts the response of five to one.
In `udf_reads` sectors have three bytes and chunks two sectors: the clip of
three sectors spans two chunks, reads of 2, 3 and 7 begin and end at every offset,
one file lies in two extents that do not follow each other, one has a long
descriptor; raw reads leave the first sector of one file or the other in the buffer for a read
that follows, or overwrite it while a read goes on.
In `audio_reads` frames have three bytes and headers two: reads of 1, 3 and 5 from
every offset lie within header or frame, span both, and span three frames; five
calls let two threads open one handle, seek and read at once, and read again. The
sheets have a gap before a track, times with carries, other lines and indices,
a file that ends within a frame, and one that ends before its second track starts.
In `dir_lists` there are seven ISO9660 discs: nested plain directories, a Joliet volume beside a
different plain one, one with names whose conversion ends each of its ways, a directory of two sectors, Rock Ridge names with walks that end, with
one that does not, and with one that ends on a neighbour's bytes. The eight UDF discs are the same tree in version 2 and 3, and one of each
that the parser has trouble with: two extents of the metadata file, none, long
descriptors in version 2, a directory within its file entry, 16-bit and overlong names with
an entry of unknown type, and a directory of two extents in the second of which records
leave the sector. An audio CD is the last. One failed read is enough for a stale buffer
to be parsed in place of another directory; `MaxDepth` 6, beyond which no call goes,
is more than that adds to the trees' depth (or `MountEnds` would fail); three calls of `diropen` interleave, or reopen after an
end.
What these bounds might hide is covered by the theorems (section 5), for `ScsiBot`,
`IsoFiles`, `UdfFiles`, `Lifecycle`, `CssSearch` with `TitleKeys`, `UdfIoctl`, `AudioCdFs`
and `DirLists` entirely but for liveness. Threads, objects, handles and blocks are
interchangeable, so symmetry is sound; `bot_live` uses none.

Deadlock is checked in the runs of `ScsiBot`. The other runs turn it
off: in `IsoFiles`, `UdfFiles`, `UdfIoctl` and `AudioCdFs` everything stops when `MaxCalls` calls
have been made, in `CssSearch` after `MaxMounts` mounts and in `DirLists` after `MaxOpens`
directories, in `UdfFiles`, `UdfIoctl`, `Lifecycle` and `DirLists` when memory is broken or the
program has crashed.

Type invariants that are proved (`ScsiBot`, `IsoFiles`, `UdfFiles`, `Lifecycle`, `TitleKeys`,
`UdfIoctl`, `AudioCdFs`) are not checked again by runs.

Fairness. In `dir_lists`: weak fairness of the mount's steps (`MountAudio`, `MakeIsoList`,
`MakeUdfList`), for a constructor runs in the thread that mounts the disc, without
waiting for anybody; the iterations have none, for an application may stop.
In `bot_live`: weak fairness of each thread's progress and of the
drive's steps. The first is the kernel's scheduling; the second with `Timeout`
says that `eventWait` ends after ten seconds. Weak fairness is enough for the
mutexes because each thread issues finitely many commands.

## 4. Findings

1. `udf_extents_to_sectors` takes an extent for its length times the size of a
   sector (`usbdvd_udf.cpp:1045`), though the length is in bytes: the log at line 721
   divides it to print sectors, and line 497 adds it up to the file's size. A read
   behind the first extent delivers what follows that on the disc, not the second
   extent (`udf_extents`).
2. `README.md:15` promises transparent CSS descrambling. The sector buffer is
   descrambled in place (`usbdvd_datadisc.cpp:187`), so a second read that begins
   in the buffered sector descrambles it again: one handle reading sequentially
   in less than sectors is enough (`iso_descramble`).
3. `README.md:8` promises file image mounts. The image constructor sets `mounted`
   only if `usb_init`, which no image has (`usbdvd.cpp:132`), and the cue
   constructor clears `fileimage` after setting it (`life_image`).

## 5. Theorems

All are proved from the named assumptions on constants and nothing else, for every
number of threads, commands, faults, objects, discs and slots. Most assumptions say
that bounds are natural numbers, `NoThread` is no thread and discs are discs. Those that say
more:

* `MountAssumption` (`CssSearch`): `MaxFaults` is at least 22 for each mount. A mount
  looks up, cracks twenty keys at most and stores, so the bound never keeps a command from
  failing; without that, a search of `CssSearch` could fail where `TitleKeys` could not.
* `PlainAssumption` (`CssSearch`): a disc without CSS has no scrambled block.
* `LayoutAssumption`, `ScrambledAssumption` (`DataDisc`): scrambled sectors belong to
  files of one title only; IFO files are never scrambled. A DVD-Video disc is so.
* `NameAssumption` (`DiscList`), `IsoAssumption`, `UdfAssumption`, `DirAssumption`: the
  names that the code makes up are names, a disc's records and names are of their kind, and a
  sector of an ISO9660 directory exists. Any bytes can be read as such a record: what
  is no file entry is an entry of a type the parser does not know.
* `OwnAssumption`, `CharsAssumption`, `NamedAssumption`, `EmptyAssumption`, `SpeltAssumption`
  (`IsoTree`): a directory's records of itself and its parent are named by the bytes 0 and 1; a name has
  characters of 16 bits and its conversion is a name, the empty one if nothing is left. No low byte is
  a slash: a name with one would make two of a path, which the model, whose paths are sequences of
  names, cannot say.
* `IssuedAssumption` (`ScsiBot`): a command without data declares none, a bare command
  reads nothing, and a pass-through has its buffer and 16 bits of length.

`ScsiBotProofs`:

* `TypeCorrect`: `Spec => []TypeOK`. `MutualExclusion`: `Spec => []Exclusive`.
  Both from `Typed`: `TypeOK /\ Locks`, where `Locks` says who holds a mutex at
  which stage.
* `GenuineSuccess`: `Spec => []SuccessGenuine`. It is not inductive: a verdict is
  drawn from a CSW in `xfer_buf`, which may have been put there long ago. `Genuine`
  adds that a good CSW in the buffer and a good status in the drive are those of
  a performed command.
* `TakenOnce`: `Spec => OnceUnlessLost`, for data of every size. `OnceOnly` says that the
  CBW in the buffer of an idle drive is not one it has taken, unless its answer was lost,
  and that a CBW not yet copied to the buffer is neither there nor taken. The drive becomes
  idle by sending a CSW, which overwrites the buffer or, in a URB too small, is lost.
* `KeepsStep`, `VerdictOfDrive`, `OwnDataCounted`: `InStep`, `CleanVerdict` and `OwnData`,
  all from `StaysCalm`: `Spec => [](clean => Calm)`. `Calm` says, as long as the wire is clean,
  that one thread talks at most, and for each point of its three transfers (`Step`) what
  is posted, what is reported, what the buffer holds and at which stage of whose command
  the drive is: one of four pictures of the wire, each of which every action takes to
  another. `TagsKept`, `SameTransfer` and `StepKept` say once what most actions leave alone.
* `Implements`: `Spec => ServiceSpec`. The invariant
  `TypeOK /\ Locks /\ Genuine /\ Tagged`, with `Tagged` saying that tags in
  circulation were issued; each action is a step of the service or a stutter.

`LifecycleProofs`: `TypeCorrect`, `RegisteredLives`, `MountedReachable`,
`DiscCurrent`, `NothingLost`, `TrayIsReleased`, the types and each property of
`life_safety`, all from `Invariant`: `Spec => []Inv`. `Inv` has to say more than
the properties do:

* `RegisteredLive` needs that the table's entry has the slot's own name (else
  removing by name could leave it behind), that a file system's device is beside
  it (`Pointed`) and that objects share nothing (`Distinct`);
* `Reachable` needs `Uncontested`: a device whose name nobody else wanted is the
  only one of its name, so another object's removal cannot have hit it;
* `NoLeak` and `Reachable` need `Members`: who answered INQUIRY and is not
  mounted points to nothing, so a mount overwrites nothing;
* `Current` needs that one object has the drive and that the tray is locked
  whenever it shows a disc (`TrayInv`).

`BuildHeap` and `DeleteHeap` prove the heap's part once for all actions;
`BuildMembers` and `Deleted` the members'; then there is one lemma per action.

`CssSearchProofs`, of `TitleKeys`: `TypeCorrect`, `KeysInPlace`, `CacheFaithful`, `OneLineForHash`,
`KnownKeysStay`, for all discs, keys, sizes and numbers of failures, from
`Invariant`: `Spec => []Inv`. To `TypeOK`, `OneLine` and `Faithful`, `Inv` adds what a
search has done so far:

* `SoFar`: as long as no command has failed on a regular disc, a key has been
  appended for every number below `title` (`Filled`), each in its place (`Upto`),
  so the next key found falls on the next number. It rests on the lemma `Found`:
  on a regular disc `Crack` yields exactly one key, the title's own. Its proof
  has to find where a search ends without induction, from `Yields`.
* `StoredWell`: a line written by such a search holds a regular disc's keys in
  place. With `RoundTrip` (`KeysOf(HexOf(keys)) = keys` for all keys) the mount
  that reads the line has them in place again.

`CssSearchProofs`, of the search block by block: `SearchImplements` (the refinement `Searches`), `SearchTypeCorrect`,
`AgidsAccountedFor`, `DriveNeverRefuses`, and `SearchedInPlace`, `SearchedFaithful`,
`SearchedKnownStays`, which the refinement carries over from `TitleKeys`; all from
`SearchInvariant`: `SearchSpec => []SearchInv`. `SearchInv` is `TitleKeys`' `Inv` with

* `Unended`: no block before the one the search is at ends it, and `encrypted` is what
  they showed. So the block at which `Conclude` ends the loop is the one that `Crack`
  names, and the last step of the loop is a step of `TitleKeys`, the others stutters;
* `FaultsBounded`: what a mount may have spent of `MaxFaults` by each of its steps, so that
  a failure here is one that `TitleKeys` allows;
* `Grants`: which AGID belongs to the call or waits in the drive, at each command, and
  that the rest are counted in `slips`. The lemmas on cardinalities (`Fewer`,
  `OneLeft`, `GivenUp`) stand on `FiniteSetTheorems`;
* `Orderly` and `Opened`: without failures the drive is open to who is about to read, which
  for file reads depends on the title in force being that of the last authentication.

TLC had checked the types of a search with `idx` and `reading` in the titles of the instance;
the proof showed that nothing in the code bounds them, so `SearchTypeOK` now says natural
numbers.

`IsoFilesProofs`: `IsoTypeCorrect`, `IsoRightBytes`, `IsoRawBytes`, `IsoDelivered`,
`IsoCacheSound`, `IsoBufferHonest`, `IsoOwnKey`, from `IsoInvariant`: `Spec => []IsoInv`, for sectors
of any size, files at any place and of any length, any reads, raw reads, seeks and faults.

* `Local` says, for each call by itself and at each step, which sector it is at, how many
  bytes it has delivered and that these fit (`InPlace`): the sum that ties position,
  sector, offset and rest together. `Ends` derives from it when the loop stops short, which
  is `Covered`. Division and remainder are beyond the prover by themselves; `DivMod`
  and `DivIs` replace them by a quotient and a rest that multiply out.
* `Undisturbed` says, for a call that nothing disturbed, that it is alone, what the
  buffer holds at each step (`Held`: its sector, scrambled or in the clear, as its key will
  make it), and that what it delivered so far is what is due (`Due`).
* `Cached`: an entry of the IFO cache has its file's length, and a sound one its
  bytes; `Quiet`: the buffer is honest between calls.

`LeastIs` (a set of natural numbers that is not empty has a least element) stands for
induction where the code takes the first of several entries: it follows from
`WFMin` and `NatLessThanWellFounded`, which take no operator.

`UdfFilesProofs`: `UdfTypeCorrect`, `UdfRightBytes`, `UdfRawBytes`, `UdfDelivered`,
`UdfCacheSound`, `UdfBufferHonest`, from `UdfInvariant`: `Spec => []UdfInv`, for sectors and chunks
of any size, any extents, files, reads, raw reads, seeks and faults. The invariant has the
parts of `IsoInv`, but a read is not one run of sectors, and undisturbed calls are not alone:

* `Local` has what a call is at each step (`LocalAt`) and, for one that begins in the first
  extent, where it stands to that extent's range (`StageAt`): before it, in it (`Running`: place,
  rest and blocks left add up to `Cap`, the bytes the range's sectors hold) or past it, in
  which case `Past` says how many bytes it has delivered at least, and at most if there is
  no further range. `UdfDelivered` is `Past` at the end of the call.
* `Undisturbed` says which calls may be under way beside it (`Apart`: no raw read, and no
  caching pass beside a read from the cache), so that all others wait for `read_mutex`
  while it uses the buffers; and what it finds in them. At the start it can rely on
  the sector buffer for the ranges it has to read (`Reliable`), for no chunk read under
  the mutex makes the buffer a liar. What it delivered of the first range is the
  file's (`Good`), but for `Hole`.
* `Kept`, for entries of the cache: the file's length; if sound, the file's bytes as far as the
  first extent goes. `Quiet`: the buffer is honest but for a call between copy and number.

About the extents, `SumIs`, `SpansAre`, `NoGap` and `RangesAre` show of any list of them
that the ranges are those of neighbouring extents, from the first one reached to the last,
and `FirstRange` that a read which begins in the first extent has its first range there.
`BytesUpTo`, the running sum of extents' lengths, is a recursive function: that it is defined for
every list is proved from `LeastIs` (`SumThere`).

The proof changed the model: `Straight` had not asked for the read to end within what the code
takes for the first extent. Of a file in two extents that follow each other on the disc (3 and 11
bytes, at sectors 6 and 7) a read from byte 9 on has one range, the second extent's, and
delivers wrong bytes, as finding 1 says of any such read; `RightBytes` claimed otherwise, and the
instance, which has no such file, did not tell. TLC did once it had one.

`UdfIoctlProofs`: `TypeCorrect`, `MemoryStaysSafe`, `OneResponseHeld`, `ReadsContinue`,
`SuccessIsPerformed`, for all threads, handles, requests and blocks, from
`Invariant`: `Spec => []Inv`. `Inv` is `TypeOK`, `Shape` (what a call at each step is,
and that the reader holds the mutex) and, as long as calls have not overlapped,
`Undisturbed`: at most one call is under way, and

* when it does not change the buffer, the buffer is empty or the owner's whole
  response, with the owner's offset within it (`AtRest`);
* while a write or close works on it, `Phase` says at each step what the heap
  holds: the old response, nothing, or a block of the length declared, filled as
  far as the drive gave;
* `Progress` ties the owner's offset to what it has read, before and after the
  copy has moved it.

The lemma `Focus` reduces `Undisturbed` to the one thread that moves; then there is
one lemma per action.

`DirListsProofs`: `DirTypes` (`Spec => []TypeOK`) and `DirEntries` (`Spec => []OwnEntries`),
from `DirInvariant`: `Spec => []DirInv`, and `DirListRight` (`Spec => []ListRight`), from `DirListing`:
`Spec => [](DirInv /\ TreeInv)`, for any discs, directories as deep as any bound, any number of
iterations over any directories and any reads that fail. `DirInv` has two parts:

* `Parser`: calls are as many as the label says, the path of a call is as long as
  the call is deep, so that no entry has an empty path, whose parent `Parent` would be without
  meaning; and a walk over a record's fields or a look at a file entry has a record to go on
  with. One lemma per action; `CallOk`, `PoppedOk`, `AdvancedOk` and `ReadOk` are about the stack
  of calls and the buffers and are used by both parsers.
* `Progress`: where each iteration stands (`Stands`). `OwnEntries` speaks of iterations that
  are open; it needs that while a directory is being opened nobody else is calm, and
  that the list which all share holds, in order, what the opener looks for among the entries it has seen
  (`Gathered`, of the positions `Sought`). What an iteration has returned is then a beginning of
  that list (`First`). `GatherOne` and `GatherAll` are the step from one entry to the next and
  from the last to the end; `Gather` takes the next entry that matches, which exists
  by `LeastIs`.

Neither part says that the list is right: the parsers could list anything of the right
type, and an iteration would still return its own directory's part of it. `TreeInv` does, as long as
no read has failed. The parsers recurse, and what they have listed in between is no
subtree of the disc; but no induction over trees is needed, because the stack of calls says what is
missing (`OnDisc`):

* `Calling`: each call is of a directory of the disc, at the call's own depth, and the call
  before it has passed its record. What is *given* is what is listed, and what such
  a call lists only when it returns (`Late`: UDF lists a directory behind its contents).
* `Sound`: what is given is on the disc. `Recorded`: what a call has passed is given.
  `Fresh`: of a call's directory, only what it has passed is given, with all below that; so
  the next record's name, which occurs once, is new, and `Once` is kept.
* `Complete`: of a directory that is given, a call is under way or all it holds is given. A call that
  returns has passed all its records, so this passes from the call to the list; when no
  call is left, the root's contents are given, and `AllGiven` goes from level to level: what is
  given at one depth makes what is at the next given too. That is an induction over the depth
  alone, by the least depth with an entry missing (`LeastIs`).
* `NameRight`: where a walk over Rock Ridge fields stands, and which name it has made so far;
  `EntryRight`: the file entry in the buffer is that of the record at hand.

`Tidy` says once for both file systems what is needed of a directory by the six lemmas on calls: the
root is entered (`StartKeeps`), a record is passed over, a file listed, a directory entered,
a call returns, none is left. `IsoTidy` and `UdfTidy` show it of each. Where records
and fields begin is a running sum (`Position`), proved to be defined, and to rise strictly, from
`LeastIs`, so that a position belongs to one record.

The proof changed the model. `IsoNamed` had not asked that a walk ends: one that leaves the record and
comes to its neighbour's `NM` field takes that for a name, which `ListRight` denied
(`iso_junk` shows it when the condition is dropped). It had taken for granted what
`IsoProper` and `UdfProper` now say, and that tracks have different names. And `NameOf` was a CASE
with two guards true of one name; it now tests them in the code's order.

`AudioCdFsProofs`: `AudioTypes`, `AudioRightSamples`, `AudioCueFaithful`, from
`AudioInvariant`: `Spec => []AudioInv`, for discs and sheets of any length, frames and headers of any
size, any threads, handles, reads, seeks and faults. `AudioInv` is `TypeOK` with

* `TableRight`: every track is where the disc's author has it, and a sheet's table ends
  where its file does. What `cuebin_to_TOC` has made of the first lines of a sheet is said
  without a scan (`Known`, `Scanned`): as many tracks as `TRACK` lines so far, each at its
  `INDEX 01` if that has come. `ScanRight` carries it from line to line; that there is no sheet, and no
  number of lines, where it fails first follows from `LeastIs`, in place of
  induction, and so does that `Scan` is defined for every sheet (`ScanThere`);
* `LocalAt`: for a call, the sum that ties the position of its samples, the frame that is next and
  what is left together, from which `LastReached` derives that the loop ends with
  nothing left, and `TurnBytes` that the bytes of a turn are of the frame fetched;
* `Due`: every byte delivered so far is the one due, by its place;
* `Honest`: without faults the buffer holds the frame it names, if the disc has that frame,
  or has been left as it was at the start, which who is reading knew (`unread`);
* `CallAt`: a call's handle stays open, so that seeks and other reads on a shared handle
  change its offset, never its track.

The proof changed the model twice. `WellFormed` had let a second `INDEX 01` of a track
through if its minute did not fit; and `RightSamples` had claimed frames that a file cut short does
not have. `Start` had two cases true at once for the end of a CD; they now exclude each other.

Only model-checked: `EveryCommandReturns` and `MountEnds`, for liveness under fairness and ENABLED are
beyond the prover. So are the library's induction theorems, which take an operator: where a proof
needs induction (sums, scans, the depth of a tree), it takes a least counterexample by
`LeastIs` and refutes it. RECURSIVE operators, beyond it too, the project has none.

## 6. Not modelled

* The CSS cipher and its tables (`CryptKey`, `AttackPattern`, unscrambling of bytes), the
  hash, the splitting of a cue sheet's lines into words, byte order and time
  conversion: functions of bytes with no interleaving or state; a state-space search
  over them would test a copy of the code against itself.
* Of the parsers: volume descriptors up to the root directory, sizes and times of
  ISO9660 entries, the contents of `TF` and `PX` fields.
* Titles from 10 on: `DVDGetAllCSSKeys` does not search them, and no property says
  more of them than that.
* USB enumeration, the unused reset functions, logging, AACS detection (it reads
  directories), disc size arithmetic (32 bits, for display only), the streaming and
  read-ahead latches, which change no byte delivered.
* Examples and build files.

## 7. Plan

Every safety property that a run checks is proved, and each refinement. What is left is liveness:
`EveryCommandReturns` and `MountEnds` stay with TLC. Of the code, what could be added are the parts listed in section 6
that have state: AACS detection and the streaming latches. Neither changes a byte that is delivered.
