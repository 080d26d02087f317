------------------------------ MODULE Lifecycle -----------------------------
(***************************************************************************)
(* The facade of the library (usbdvd.cpp): objects are made for a drive,   *)
(* an ISO image or a cue sheet, discs are mounted and ejected, objects are *)
(* destroyed; beside them somebody puts discs into the drive's tray and    *)
(* takes them out whenever the tray is not locked.                         *)
(*                                                                         *)
(* A mount builds a file system and a device together; both are known by   *)
(* their slot in `built`.  A SCSI command that fails uses up one of        *)
(* MaxFaults.  MountDisc calls that change nothing (a file system is       *)
(* mounted already, no disc is ready) are stuttering steps.                *)
(***************************************************************************)
EXTENDS Integers, FiniteSets

CONSTANTS
  Objects,      \* library objects an application may have at a time
  Discs,        \* the discs at hand
  NoDisc,
  MaxBuilt,     \* bound on the file systems that exist at a time
  MaxFaults     \* bound on the commands that fail

Profiles == {"cd", "dvd", "bd", "unknown"}
Tracks   == {"audio", "data", "mixed"}
Sectors  == {"udf", "iso", "other"}    \* what sector 16 says
Disc     == [id : Nat, profile : Profiles, tracks : Tracks, sector16 : Sectors]

ASSUME DiscAssumption == Discs \subseteq Disc /\ NoDisc \notin Discs
ASSUME BoundAssumption == MaxBuilt \in Nat /\ MaxFaults \in Nat /\ IsFiniteSet(Objects)

VARIABLES
  lib,          \* per object, its members
  tray,         \* the disc in the drive, and whether the tray is locked
  built,        \* per slot, the file system and device built there
  liveFs,       \* those whose file system exists
  liveDev,      \* those whose device exists
  registered,   \* the device table: per name, the device it leads to
  crashed,      \* undefined behaviour has ended the program
  faults

heap == <<built, liveFs, liveDev, registered>>
vars == <<lib, tray, heap, crashed, faults>>

-----------------------------------------------------------------------------
(* Values *)

Types == {"cd", "iso", "udf"}
Names == {"acd0", "cdr0", "dvd0", "bdr0", "udf0", "iso0"}
NoName == "none"
NoPointers == [y \in Types |-> 0]

(* usbdvd_ctx and the members of CUSBDVD.  cdfs_init and pseudofs_init are *)
(* left out: both are always set where they are tested.                    *)
Lib == [kind : {"none", "drive", "image", "cue"}, scsi : BOOLEAN, usb_init : BOOLEAN,
        drive_found : BOOLEAN, fileimage : BOOLEAN, mounted : BOOLEAN,
        mountpoint : Names \cup {NoName}, fs : [Types -> Nat], dev : [Types -> Nat]]
NoLib == [kind |-> "none", scsi |-> FALSE, usb_init |-> FALSE, drive_found |-> FALSE,
          fileimage |-> FALSE, mounted |-> FALSE, mountpoint |-> NoName,
          fs |-> NoPointers, dev |-> NoPointers]

(* What is in a slot; sure: its owner knows what is mounted; contested:    *)
(* another device wanted its name while it was there.                      *)
Slots  == 1..MaxBuilt
Built  == [type : Types, name : Names, owner : Objects, disc : Discs \cup {NoDisc},
           sure : BOOLEAN, contested : BOOLEAN]
Unused == [type |-> "none"]

Pointers(f) == {f[y] : y \in Types} \ {0}

Init ==
  /\ lib = [o \in Objects |-> NoLib]
  /\ tray = [disc |-> NoDisc, locked |-> FALSE]
  /\ built = [i \in Slots |-> Unused] /\ liveFs = {} /\ liveDev = {}
  /\ registered = [n \in Names |-> 0]
  /\ crashed = FALSE
  /\ faults = 0

Running == ~crashed

\* Commands of a step that fail: n of them.
Failing(n) == faults + n <= MaxFaults /\ faults' = faults + n

-----------------------------------------------------------------------------
(* Building and deleting file systems and devices *)

Unlocated == Slots \ liveFs
NewSlot   == CHOOSE i \in Unlocated : TRUE

\* register_fs leaves a name alone that is registered already.
Registers(name, i) == IF registered[name] = 0 THEN i ELSE registered[name]

\* A new file system with its device, its owner's other members as given.
Build(o, members, type, name, disc) ==
  LET i == NewSlot
      same == {j \in liveDev : built[j].name = name}
  IN
  /\ Unlocated # {}
  /\ lib' = [lib EXCEPT ![o] = [members EXCEPT !.fs[type] = i, !.dev[type] = i,
                                               !.mountpoint = name]]
  /\ built' = [j \in Slots |->
       IF j = i THEN [type |-> type, name |-> name, owner |-> o, disc |-> disc,
                      sure |-> members.usb_init \/ ~members.scsi, contested |-> same # {}]
       ELSE IF j \in same THEN [built[j] EXCEPT !.contested = TRUE]
       ELSE built[j]]
  /\ liveFs' = liveFs \cup {i}
  /\ liveDev' = liveDev \cup {i}
  /\ registered' = [registered EXCEPT ![name] = Registers(name, i)]

\* A bug: devices are deleted, but stay in the device table.
UnregisteredNone(o) == {}

\* The names unregister_fs removes, whichever object's device they lead to.
Unregistered(o) == {built[i].name : i \in Pointers(lib[o].dev)}

Delete(o) ==
  /\ liveFs' = liveFs \ Pointers(lib[o].fs)
  /\ liveDev' = liveDev \ Pointers(lib[o].dev)
  /\ registered' = [n \in Names |-> IF n \in Unregistered(o) THEN 0 ELSE registered[n]]
  /\ built' = [i \in Slots |-> IF i \in Pointers(lib[o].fs) THEN Unused ELSE built[i]]

-----------------------------------------------------------------------------
(* Constructors *)

\* An object that is not there yet can be made.
Free(o) == Running /\ lib[o].kind = "none"

(* CUSBDVD(unfilter_subclass6): without a drive there is no SCSI object;   *)
(* if INQUIRY fails there is one, but usb_init stays false.  One object    *)
(* has the drive.                                                          *)
InitDrive(o) ==
  /\ Free(o)
  /\ \A p \in Objects : ~lib[p].scsi
  /\ \/ /\ lib' = [lib EXCEPT ![o] = [NoLib EXCEPT !.kind = "drive"]]
        /\ UNCHANGED faults
     \/ /\ Failing(1)
        /\ lib' = [lib EXCEPT ![o] = [NoLib EXCEPT !.kind = "drive", !.scsi = TRUE]]
     \/ /\ lib' = [lib EXCEPT ![o] = [NoLib EXCEPT !.kind = "drive", !.scsi = TRUE,
                                        !.usb_init = TRUE, !.drive_found = TRUE]]
        /\ UNCHANGED faults
  /\ UNCHANGED <<tray, heap, crashed>>

(* CUSBDVD(isofilepath): `mounted` is not initialised, and as usb_init is  *)
(* false it is not set either.                                             *)
InitImage(o) == \E sector16 \in Sectors, mounted \in BOOLEAN :
  LET members == [NoLib EXCEPT !.kind = "image", !.fileimage = TRUE, !.mounted = mounted] IN
  /\ Free(o)
  /\ IF sector16 = "other"
     THEN lib' = [lib EXCEPT ![o] = members] /\ UNCHANGED heap
     ELSE Build(o, members, sector16, "iso0", NoDisc)
  /\ UNCHANGED <<tray, crashed, faults>>

(* CUSBDVD(cuepath, binpath) clears usbdvd_ctx after it has set fileimage. *)
(* When the sheet is no good there is no file system, when the binary file *)
(* cannot be opened there is one, but no device.                           *)
InitCue(o) ==
  LET members == [NoLib EXCEPT !.kind = "cue"] IN
  /\ Free(o)
  /\ \/ lib' = [lib EXCEPT ![o] = members] /\ UNCHANGED heap
     \/ Build(o, [members EXCEPT !.mounted = TRUE], "cd", "acd0", NoDisc)
     \/ /\ Unlocated # {}
        /\ lib' = [lib EXCEPT ![o] = [members EXCEPT !.fs["cd"] = NewSlot]]
        /\ built' = [built EXCEPT ![NewSlot] =
             [type |-> "cd", name |-> "acd0", owner |-> o, disc |-> NoDisc,
              sure |-> TRUE, contested |-> FALSE]]
        /\ liveFs' = liveFs \cup {NewSlot}
        /\ UNCHANGED <<liveDev, registered>>
  /\ UNCHANGED <<tray, crashed, faults>>

-----------------------------------------------------------------------------
(* MountDisc *)

\* A bug: a disc is mounted whether or not one is mounted.
MayMountAgain(o) == Running /\ lib[o].kind # "none"

MayMount(o) == Running /\ lib[o].kind # "none" /\ ~lib[o].mounted

\* A bug: the tray is not locked for a CD.
PreventForDvd(o, p) == tray.locked \/ p \in {"dvd", "bd"}

\* UsbDvdPreventMediumRemoval(0, 1), whatever the disc turns out to be.
Prevent(o, p) == TRUE

\* The device a disc is mounted as.
Name(p, s) == IF s = "udf" THEN "udf0"
              ELSE CASE p = "cd"  -> "cdr0"
                     [] p = "dvd" -> "dvd0"
                     [] OTHER     -> "bdr0"

\* Without a drive there is no SCSI object to ask.
MountNowhere(o) ==
  /\ MayMount(o)
  /\ ~lib[o].scsi
  /\ crashed' = TRUE
  /\ UNCHANGED <<lib, tray, heap, faults>>

(* What MountDisc makes of a disc of profile p, tracks t and sector 16 s.  *)
(* An audio CD is mounted whatever usb_init says.                          *)
Recognise(o, p, t, s) ==
  CASE p = "cd" /\ t = "audio" ->
         Build(o, [lib[o] EXCEPT !.mounted = TRUE], "cd", "acd0", tray.disc)
    [] \/ p = "cd" /\ t = "data"
       \/ p \in {"dvd", "bd"} ->
         IF s = "other" THEN UNCHANGED <<lib, heap>>
         ELSE Build(o, [lib[o] EXCEPT !.mounted = lib[o].usb_init], s, Name(p, s), tray.disc)
    [] OTHER -> UNCHANGED <<lib, heap>>

\* Every command of the mount succeeds.
MountDisc(o) ==
  /\ MayMount(o)
  /\ lib[o].scsi
  /\ tray.disc # NoDisc
  /\ LET d == tray.disc IN
       /\ Recognise(o, d.profile, d.tracks, d.sector16)
       /\ tray' = [tray EXCEPT !.locked = Prevent(o, d.profile)]
  /\ UNCHANGED <<crashed, faults>>

(* One command fails.  UNIT READY may then report a drive that is ready,   *)
(* GET CONFIGURATION leaves the profile unknown, PREVENT leaves the tray   *)
(* as it is, READ TOC makes MountDisc free an uninitialised pointer, and   *)
(* READ leaves an uninitialised sector to be looked at.                    *)
MountDiscFailing(o) ==
  LET d == tray.disc IN
  /\ MayMount(o)
  /\ lib[o].scsi
  /\ Failing(1)
  /\ \/ /\ d = NoDisc
        /\ tray' = [tray EXCEPT !.locked = Prevent(o, "unknown")]
        /\ UNCHANGED <<lib, heap, crashed>>
     \/ /\ d # NoDisc
        /\ Recognise(o, "unknown", d.tracks, d.sector16)
        /\ tray' = [tray EXCEPT !.locked = Prevent(o, "unknown")]
        /\ UNCHANGED crashed
     \/ /\ d # NoDisc
        /\ Recognise(o, d.profile, d.tracks, d.sector16)
        /\ UNCHANGED <<tray, crashed>>
     \/ /\ d # NoDisc
        /\ d.profile = "cd"
        /\ crashed' \in BOOLEAN
        /\ tray' = [tray EXCEPT !.locked = Prevent(o, d.profile)]
        /\ UNCHANGED <<lib, heap>>
     \/ /\ d # NoDisc
        /\ \E s \in Sectors : Recognise(o, d.profile, d.tracks, s)
        /\ tray' = [tray EXCEPT !.locked = Prevent(o, d.profile)]
        /\ UNCHANGED crashed

-----------------------------------------------------------------------------
(* Eject and destruction *)

\* A bug: the file system is still said to be mounted.
EjectedMounted(o) == [lib[o] EXCEPT !.fs = NoPointers, !.dev = NoPointers]

\* What Eject leaves of the object; the drive is still there.
Ejected(o) == [lib[o] EXCEPT !.fs = NoPointers, !.dev = NoPointers,
                             !.mounted = FALSE, !.mountpoint = NoName]

(* Eject does nothing without a SCSI object.  If unlocking fails the drive *)
(* refuses to eject; ejecting may fail on its own.                         *)
Eject(o) ==
  /\ Running
  /\ lib[o].scsi
  /\ Delete(o)
  /\ lib' = [lib EXCEPT ![o] = Ejected(o)]
  /\ \/ tray' = [disc |-> NoDisc, locked |-> FALSE] /\ UNCHANGED faults
     \/ UNCHANGED tray /\ tray.locked /\ Failing(1)
     \/ tray' = [tray EXCEPT !.locked = FALSE] /\ Failing(1)
  /\ UNCHANGED crashed

(* The file system of an audio CD in the drive never sets binfile_fp, which *)
(* its destructor closes: eject and destruction may end the program.       *)
CloseUnset(o) ==
  /\ Running
  /\ lib[o].scsi
  /\ lib[o].fs["cd"] # 0
  /\ crashed' = TRUE
  /\ UNCHANGED <<lib, tray, heap, faults>>

\* A bug: the tray is unlocked on ejecting only.
ReleasesNothing(o) == FALSE

\* The destructor unlocks the tray if it has a drive.
Releases(o) == lib[o].scsi

Destroy(o) ==
  /\ Running
  /\ lib[o].kind # "none"
  /\ Delete(o)
  /\ lib' = [lib EXCEPT ![o] = NoLib]
  /\ \/ tray' = [tray EXCEPT !.locked = @ /\ ~Releases(o)] /\ UNCHANGED faults
     \/ lib[o].scsi /\ UNCHANGED tray /\ Failing(1)
  /\ UNCHANGED crashed

-----------------------------------------------------------------------------
(* The user at the drive *)

Insert ==
  /\ Running
  /\ tray.disc = NoDisc
  /\ \E d \in Discs : tray' = [tray EXCEPT !.disc = d]
  /\ UNCHANGED <<lib, heap, crashed, faults>>

TakeOut ==
  /\ Running
  /\ tray.disc # NoDisc
  /\ ~tray.locked
  /\ tray' = [tray EXCEPT !.disc = NoDisc]
  /\ UNCHANGED <<lib, heap, crashed, faults>>

Next ==
  \/ Insert
  \/ TakeOut
  \/ \E o \in Objects : \/ InitDrive(o) \/ InitImage(o) \/ InitCue(o)
                        \/ MountNowhere(o) \/ MountDisc(o) \/ MountDiscFailing(o)
                        \/ Eject(o) \/ CloseUnset(o) \/ Destroy(o)

Spec == Init /\ [][Next]_vars

-----------------------------------------------------------------------------
(* Properties *)

\* The variables keep their types, and pointers lead to what was built.
TypeOK ==
  /\ lib \in [Objects -> Lib]
  /\ tray \in [disc : Discs \cup {NoDisc}, locked : BOOLEAN]
  /\ built \in [Slots -> Built \cup {Unused}]
  /\ liveFs \subseteq Slots /\ liveDev \subseteq liveFs
  /\ registered \in [Names -> Slots \cup {0}]
  /\ crashed \in BOOLEAN /\ faults \in 0..MaxFaults
  /\ \A o \in Objects : Pointers(lib[o].fs) \cup Pointers(lib[o].dev) \subseteq liveFs

(* A name in the device table leads to a device that exists, and whose     *)
(* file system exists: also when two objects have wanted the same name and *)
(* either of them was ejected or destroyed.                                *)
RegisteredLive == \A n \in Names :
  registered[n] # 0 => registered[n] \in liveDev \cap liveFs

(* A mounted object is reachable: it has one device, at its mount point,   *)
(* and the table leads there unless another object wanted the same name.   *)
(* Images are left out, whose `mounted` is never initialised, and drives   *)
(* that did not answer INQUIRY, which mount one disc over the other.       *)
Reachable == \A o \in Objects :
  LET l == lib[o] IN
  l.mounted /\ (l.usb_init \/ l.kind = "cue")
    => \E i \in Pointers(l.dev) :
         /\ Pointers(l.dev) = {i} /\ Pointers(l.fs) = {i}
         /\ built[i].name = l.mountpoint
         /\ registered[l.mountpoint] # i => built[i].contested

(* What a drive's mounted file system was read from is the disc in the     *)
(* drive, however often discs are changed, as long as no command fails.    *)
Current == \A o \in Objects :
  LET l == lib[o] IN
  faults = 0 /\ l.scsi /\ l.mounted
    => /\ tray.locked
       /\ \A i \in Pointers(l.fs) : built[i].disc = tray.disc

(* Nothing is lost: what was built and not deleted is pointed to by the    *)
(* object that built it.  Where INQUIRY failed, usb_init is false and      *)
(* nothing counts as mounted, mounting again loses the first file system.  *)
NoLeak == \A i \in liveFs \cup liveDev :
  built[i].sure => /\ i \in liveFs => i \in Pointers(lib[built[i].owner].fs)
                   /\ i \in liveDev => i \in Pointers(lib[built[i].owner].dev)

(* A locked tray is some object's to unlock: no disc is shut in when the   *)
(* last object of the drive is gone.                                       *)
TrayReleased == faults = 0 /\ tray.locked => \E o \in Objects : lib[o].scsi

(* README.md, line 8: "File Image mount (.iso) (.cue/.bin)".  An image     *)
(* with a file system is shown as an image that is mounted.                *)
ImageMounted == \A o \in Objects :
  lib[o].kind \in {"image", "cue"} /\ Pointers(lib[o].dev) # {}
    => lib[o].mounted /\ lib[o].fileimage

=============================================================================
