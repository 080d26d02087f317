--------------------------- MODULE LifecycleProofs --------------------------
(***************************************************************************)
(* Proofs about the facade of the library (module Lifecycle), for any      *)
(* number of objects, discs, slots and failing commands: every safety      *)
(* property of the module follows from the invariant Inv, a conjunction of *)
(* facts about the heap (HeapInv), about the members of each object        *)
(* (Members) and about the tray (TrayInv).                                 *)
(***************************************************************************)
EXTENDS Lifecycle, TLAPS

-----------------------------------------------------------------------------
(* The invariant *)

Fs(o, y)  == lib[o].fs[y]
Dev(o, y) == lib[o].dev[y]

Typed ==
  /\ lib \in [Objects -> Lib]
  /\ built \in [Slots -> Built \cup {Unused}]
  /\ liveFs \subseteq Slots /\ liveDev \subseteq liveFs
  /\ registered \in [Names -> Slots \cup {0}]

WorldTyped ==
  /\ tray \in [disc : Discs \cup {NoDisc}, locked : BOOLEAN]
  /\ crashed \in BOOLEAN /\ faults \in 0..MaxFaults

\* A file system that exists is a record of `built`.
Filled == \A i \in liveFs : built[i] \in Built

\* A pointer leads to what exists; the device belongs to the file system
\* beside it, and a file system that has a device is beside it.
Pointed == \A o \in Objects, y \in Types :
  /\ Fs(o, y) # 0 => Fs(o, y) \in liveFs
  /\ Dev(o, y) # 0 => Dev(o, y) = Fs(o, y) /\ Dev(o, y) \in liveDev
  /\ Fs(o, y) \in liveDev => Dev(o, y) = Fs(o, y)

\* Two objects do not share a file system.
Distinct == \A o \in Objects, p \in Objects, x \in Types, y \in Types :
  o # p /\ Fs(o, x) # 0 => Fs(o, x) # Fs(p, y)

\* A registered device exists and has the name it is registered by.
Listed == \A n \in Names :
  registered[n] # 0 => registered[n] \in liveDev /\ built[registered[n]].name = n

\* An uncontested device is the only one of its name, and is registered.
Uncontested == \A i \in liveDev :
  ~built[i].contested =>
    /\ registered[built[i].name] = i
    /\ \A j \in liveDev : built[j].name = built[i].name => j = i

\* Where the owner knows what is mounted, it points there.
Owned == \A i \in liveFs :
  built[i].sure => \E y \in Types : Fs(built[i].owner, y) = i

HeapInv == Filled /\ Pointed /\ Distinct /\ Listed /\ Uncontested /\ Owned

\* The one file system a mounted object points to, and its device.
Only(o, y) ==
  /\ Dev(o, y) # 0
  /\ built[Dev(o, y)].name = lib[o].mountpoint
  /\ \A z \in Types \ {y} : Fs(o, z) = 0

MembersOf(o) ==
  /\ lib[o].kind = "none" => \A y \in Types : Fs(o, y) = 0
  /\ lib[o].scsi => lib[o].kind = "drive"
  /\ lib[o].usb_init => lib[o].scsi
  /\ lib[o].usb_init /\ ~lib[o].mounted => \A y \in Types : Fs(o, y) = 0
  /\ lib[o].scsi /\ ~lib[o].usb_init
       => \A y \in Types : Fs(o, y) # 0 => ~built[Fs(o, y)].sure
  /\ lib[o].mounted /\ (lib[o].usb_init \/ lib[o].kind = "cue")
       => \E y \in Types : Only(o, y)

Members == \A o \in Objects : MembersOf(o)

OneDrive == \A o \in Objects, p \in Objects : lib[o].scsi /\ lib[p].scsi => o = p

\* As long as no command has failed:
Shown(o) ==
  lib[o].scsi =>
    /\ lib[o].usb_init
    /\ lib[o].mounted => /\ tray.locked
                         /\ tray.disc # NoDisc
                         /\ \A y \in Types : Fs(o, y) # 0 => built[Fs(o, y)].disc = tray.disc

TrayInv == faults = 0 => /\ \A o \in Objects : Shown(o)
                         /\ tray.locked => \E o \in Objects : lib[o].scsi

Inv == Typed /\ WorldTyped /\ HeapInv /\ Members /\ OneDrive /\ TrayInv

-----------------------------------------------------------------------------
(* What building and deleting do to the heap *)

(* new in usbdvd.cpp: a new file system is at an address not in use.       *)
LEMMA NewSlotFree == ASSUME Unlocated # {}
                     PROVE  NewSlot \in Slots /\ NewSlot \notin liveFs
  BY DEF Unlocated, NewSlot

(* The members a mount or constructor sets beside the file system keep the *)
(* object's pointers.                                                      *)
SamePointers(o, members) == members.fs = lib[o].fs /\ members.dev = lib[o].dev

(* The object's members with a file system in slot i beside them.          *)
Gets(o, members, type, name, i) ==
  lib' = [lib EXCEPT ![o] = [members EXCEPT !.fs[type] = i, !.dev[type] = i,
                                            !.mountpoint = name]]

(* Build, fact by fact, with slot i for the new file system.               *)
Grown(o, members, type, name, disc, i) ==
  /\ i \notin liveFs
  /\ liveFs' = liveFs \cup {i} /\ liveDev' = liveDev \cup {i}
  /\ Gets(o, members, type, name, i)
  /\ registered' = [registered EXCEPT ![name] = IF registered[name] = 0 THEN i
                                                ELSE registered[name]]
  /\ built' \in [Slots -> Built \cup {Unused}]
  /\ built'[i] = [type |-> type, name |-> name, owner |-> o, disc |-> disc,
                  sure |-> members.usb_init \/ ~members.scsi,
                  contested |-> {j \in liveDev : built[j].name = name} # {}]
  /\ built'[i] \in Built
  /\ \A j \in liveFs :
       /\ built'[j] \in Built
       /\ built'[j].name = built[j].name /\ built'[j].owner = built[j].owner
       /\ built'[j].disc = built[j].disc /\ built'[j].sure = built[j].sure
       /\ ~built'[j].contested => /\ ~built[j].contested
                                  /\ j \in liveDev => built[j].name # name

(* MountDisc and the constructors: Build has this effect, with a new slot. *)
LEMMA BuildEffect ==
  ASSUME NEW o \in Objects, NEW members \in Lib, NEW type \in Types,
         NEW name \in Names, NEW disc \in Discs \cup {NoDisc},
         Typed, Filled, SamePointers(o, members), Build(o, members, type, name, disc)
  PROVE  \E i \in Slots : Grown(o, members, type, name, disc, i)
<1> DEFINE i == NewSlot
           same == {j \in liveDev : built[j].name = name}
           new == [type |-> type, name |-> name, owner |-> o, disc |-> disc,
                   sure |-> members.usb_init \/ ~members.scsi, contested |-> same # {}]
<1>1. i \in Slots /\ i \notin liveFs
  BY NewSlotFree DEF Build
<1>2. built' = [j \in Slots |->
        IF j = i THEN new
        ELSE IF j \in same THEN [built[j] EXCEPT !.contested = TRUE]
        ELSE built[j]]
  BY DEF Build
<1>3. new \in Built
  <2>1. (members.usb_init \/ ~members.scsi) \in BOOLEAN /\ (same # {}) \in BOOLEAN
    OBVIOUS
  <2>2. QED BY <2>1 DEF Built
<1>4. built'[i] = new
  BY <1>1, <1>2
<1>5. ASSUME NEW j \in liveFs
      PROVE  /\ built'[j] \in Built
             /\ built'[j].name = built[j].name /\ built'[j].owner = built[j].owner
             /\ built'[j].disc = built[j].disc /\ built'[j].sure = built[j].sure
             /\ ~built'[j].contested => /\ ~built[j].contested
                                        /\ j \in liveDev => built[j].name # name
  <2>1. j \in Slots /\ j # i /\ built[j] \in Built
    BY <1>1 DEF Typed, Filled
  <2>2. CASE j \in same
    <3>1. built'[j] = [built[j] EXCEPT !.contested = TRUE]
      BY <1>2, <2>1, <2>2
    <3>2. QED BY <2>1, <3>1 DEF Built
  <2>3. CASE j \notin same
    <3>1. built'[j] = built[j]
      BY <1>2, <2>1, <2>3
    <3>2. QED BY <2>1, <2>3, <3>1
  <2>4. QED BY <2>2, <2>3
<1>6. built' \in [Slots -> Built \cup {Unused}]
  <2> SUFFICES ASSUME NEW j \in Slots PROVE built'[j] \in Built \cup {Unused}
    BY <1>2
  <2>1. CASE j = i BY <2>1, <1>3, <1>4
  <2>2. CASE j \in same
    <3>1. j \in liveFs BY <2>2 DEF Typed
    <3>2. QED BY <3>1, <1>5
  <2>3. CASE j # i /\ j \notin same
    <3>1. built'[j] = built[j] BY <1>2, <2>3
    <3>2. QED BY <3>1 DEF Typed
  <2>4. QED BY <2>1, <2>2, <2>3
<1>7. /\ liveFs' = liveFs \cup {i} /\ liveDev' = liveDev \cup {i}
      /\ Gets(o, members, type, name, i)
      /\ registered' = [registered EXCEPT ![name] = IF registered[name] = 0 THEN i
                                                    ELSE registered[name]]
  BY DEF Build, Registers, Gets
<1> HIDE DEF i
<1>8. QED BY <1>1, <1>3, <1>4, <1>5, <1>6, <1>7 DEF Grown

(* The pointers after Build: o points to the new slot beside what it       *)
(* pointed to, all other objects keep their members.                       *)
LEMMA BuildPointers ==
  ASSUME NEW o \in Objects, NEW members \in Lib, NEW type \in Types, NEW name \in Names,
         NEW i \in Slots, Typed, SamePointers(o, members),
         Gets(o, members, type, name, i)
  PROVE  /\ lib' \in [Objects -> Lib]
         /\ \A p \in Objects \ {o} : lib'[p] = lib[p]
         /\ lib'[o].kind = members.kind /\ lib'[o].scsi = members.scsi
         /\ lib'[o].usb_init = members.usb_init /\ lib'[o].mounted = members.mounted
         /\ lib'[o].mountpoint = name
         /\ Fs(o, type)' = i /\ Dev(o, type)' = i
         /\ \A y \in Types \ {type} : Fs(o, y)' = Fs(o, y) /\ Dev(o, y)' = Dev(o, y)
<1> DEFINE m == [members EXCEPT !.fs[type] = i, !.dev[type] = i, !.mountpoint = name]
           fs == [members.fs EXCEPT ![type] = i]
           dev == [members.dev EXCEPT ![type] = i]
<1>1. fs \in [Types -> Nat] /\ dev \in [Types -> Nat]
  BY DEF Lib, Slots
<1>2. m = [members EXCEPT !.fs = fs, !.dev = dev, !.mountpoint = name]
  BY DEF Lib
<1>3. /\ m \in Lib
      /\ m.fs = fs /\ m.dev = dev /\ m.mountpoint = name
      /\ m.kind = members.kind /\ m.scsi = members.scsi
      /\ m.usb_init = members.usb_init /\ m.mounted = members.mounted
  BY <1>1, <1>2 DEF Lib
<1>4. lib' = [lib EXCEPT ![o] = m]
  BY DEF Gets
<1> HIDE DEF m
<1>5. lib' \in [Objects -> Lib] /\ lib'[o] = m /\ \A p \in Objects \ {o} : lib'[p] = lib[p]
  BY <1>3, <1>4 DEF Typed
<1>6. Fs(o, type)' = i /\ Dev(o, type)' = i
  BY <1>3, <1>5 DEF Fs, Dev, Lib
<1>7. ASSUME NEW y \in Types \ {type}
      PROVE  Fs(o, y)' = Fs(o, y) /\ Dev(o, y)' = Dev(o, y)
  BY <1>3, <1>5 DEF Fs, Dev, Lib, SamePointers
<1>8. QED BY <1>3, <1>5, <1>6, <1>7

(* Every object's pointers after Build, in one formula.                    *)
After(o, type, i) == \A p \in Objects, y \in Types :
  IF p = o /\ y = type THEN Fs(p, y)' = i /\ Dev(p, y)' = i
  ELSE Fs(p, y)' = Fs(p, y) /\ Dev(p, y)' = Dev(p, y)

(* Build keeps the heap in order, if what the object loses a pointer to is *)
(* nothing it was sure to have mounted.                                    *)
LEMMA BuildHeap ==
  ASSUME NEW o \in Objects, NEW members \in Lib, NEW type \in Types,
         NEW name \in Names, NEW disc \in Discs \cup {NoDisc},
         Typed, HeapInv, SamePointers(o, members), Build(o, members, type, name, disc),
         Fs(o, type) # 0 => ~built[Fs(o, type)].sure
  PROVE  Typed' /\ HeapInv'
<1>1. PICK i \in Slots : Grown(o, members, type, name, disc, i)
  BY BuildEffect DEF HeapInv
<1>2. After(o, type, i)
  <2>1. /\ \A p \in Objects \ {o} : lib'[p] = lib[p]
        /\ Fs(o, type)' = i /\ Dev(o, type)' = i
        /\ \A y \in Types \ {type} : Fs(o, y)' = Fs(o, y) /\ Dev(o, y)' = Dev(o, y)
    <3>1. Gets(o, members, type, name, i)
      BY <1>1 DEF Grown
    <3>2. QED BY <3>1, BuildPointers
  <2>2. QED BY <2>1 DEF After, Fs, Dev
<1>3. /\ i # 0 /\ liveDev \subseteq liveFs /\ liveFs \subseteq Slots /\ 0 \notin Slots
      /\ built'[i].name = name /\ built'[i].owner = o
      /\ built'[i].contested <=> {j \in liveDev : built[j].name = name} # {}
  <2>1. liveDev \subseteq liveFs /\ liveFs \subseteq Slots BY DEF Typed
  <2>2. i # 0 /\ 0 \notin Slots BY BoundAssumption DEF Slots
  <2>3. built'[i].name = name /\ built'[i].owner = o
        /\ built'[i].contested = ({j \in liveDev : built[j].name = name} # {})
    BY <1>1 DEF Grown, Grown
  <2>4. QED BY <2>1, <2>2, <2>3
<1>4. Filled'
  BY <1>1 DEF Grown, HeapInv, Filled, Grown
<1>5. Pointed'
  <2> SUFFICES ASSUME NEW p \in Objects, NEW y \in Types
      PROVE /\ Fs(p, y)' # 0 => Fs(p, y)' \in liveFs'
            /\ Dev(p, y)' # 0 => Dev(p, y)' = Fs(p, y)' /\ Dev(p, y)' \in liveDev'
            /\ Fs(p, y)' \in liveDev' => Dev(p, y)' = Fs(p, y)'
    BY DEF Pointed
  <2>1. /\ Fs(p, y) # 0 => Fs(p, y) \in liveFs
        /\ Dev(p, y) # 0 => Dev(p, y) = Fs(p, y) /\ Dev(p, y) \in liveDev
        /\ Fs(p, y) \in liveDev => Dev(p, y) = Fs(p, y)
    BY DEF HeapInv, Pointed
  <2>2. QED BY <1>1, <1>2, <1>3, <2>1 DEF Grown, After
<1>6. Distinct'
  <2> SUFFICES ASSUME NEW p \in Objects, NEW q \in Objects, NEW x \in Types, NEW y \in Types,
                      p # q, Fs(p, x)' # 0
               PROVE  Fs(p, x)' # Fs(q, y)'
    BY DEF Distinct
  <2>1. /\ Fs(p, x) # 0 => Fs(p, x) # Fs(q, y) /\ Fs(p, x) # i
        /\ Fs(q, y) # 0 => Fs(q, y) # i
    BY <1>1 DEF Grown, HeapInv, Distinct, Pointed
  <2>2. QED BY <1>2, <1>3, <2>1 DEF After
<1>7. Listed'
  <2> SUFFICES ASSUME NEW n \in Names, registered'[n] # 0
               PROVE  registered'[n] \in liveDev' /\ built'[registered'[n]].name = n
    BY DEF Listed
  <2>1. registered[n] # 0 => /\ registered[n] \in liveDev /\ registered[n] \in liveFs
                             /\ built'[registered[n]].name = n
    BY <1>1, <1>3 DEF Grown, HeapInv, Listed
  <2>2. registered'[n] = registered[n] \/ (registered'[n] = i /\ n = name)
    <3>1. CASE n = name BY <1>1, <3>1 DEF Grown, Typed
    <3>2. CASE n # name BY <1>1, <3>2 DEF Grown, Typed
    <3>3. QED BY <3>1, <3>2
  <2>3. QED BY <1>1, <1>3, <2>1, <2>2 DEF Grown
<1>8. Uncontested'
  <2> SUFFICES ASSUME NEW k \in liveDev', ~built'[k].contested
               PROVE  /\ registered'[built'[k].name] = k
                      /\ \A j \in liveDev' : built'[j].name = built'[k].name => j = k
    BY DEF Uncontested
  <2>1. CASE k = i
    <3>1. \A j \in liveDev : built[j].name # name
      BY <1>3, <2>1
    <3>2. registered[name] = 0
      BY <3>1 DEF HeapInv, Listed
    <3>3. registered'[name] = i
      BY <1>1, <3>2 DEF Grown, Typed
    <3>4. QED BY <1>1, <1>3, <2>1, <3>1, <3>3 DEF Grown
  <2>2. CASE k # i
    <3>1. /\ k \in liveDev /\ k \in liveFs /\ ~built[k].contested
          /\ built[k].name # name /\ built'[k].name = built[k].name
      BY <1>1, <1>3, <2>2 DEF Grown
    <3>2. /\ registered[built[k].name] = k
          /\ \A j \in liveDev : built[j].name = built[k].name => j = k
      BY <3>1 DEF HeapInv, Uncontested
    <3>3. registered'[built[k].name] = k
      BY <1>1, <3>1, <3>2 DEF Grown, Typed
    <3>4. QED BY <1>1, <1>3, <3>1, <3>2, <3>3 DEF Grown
  <2>3. QED BY <2>1, <2>2
<1>9. Owned'
  <2> SUFFICES ASSUME NEW k \in liveFs', built'[k].sure
               PROVE  \E y \in Types : lib'[built'[k].owner].fs[y] = k
    BY DEF Owned, Fs
  <2>1. CASE k = i BY <1>2, <1>3, <2>1 DEF After, Fs
  <2>2. CASE k # i
    <3>1. k \in liveFs /\ built[k].sure /\ built'[k].owner = built[k].owner
          /\ built[k].owner \in Objects /\ k # 0
      BY <1>1, <1>3, <2>2 DEF Grown, HeapInv, Filled, Built
    <3>2. PICK y \in Types : lib[built[k].owner].fs[y] = k
      BY <3>1 DEF HeapInv, Owned, Fs
    <3>3. ~(built[k].owner = o /\ y = type)
      BY <3>1, <3>2 DEF Fs
    <3>4. lib'[built[k].owner].fs[y] = k
      BY <1>2, <3>1, <3>2, <3>3 DEF After, Fs
    <3>5. QED BY <3>1, <3>4
  <2>3. QED BY <2>1, <2>2
<1>10. Typed'
  <2>1. lib' \in [Objects -> Lib]
    <3>1. Gets(o, members, type, name, i)
      BY <1>1 DEF Grown
    <3>2. QED BY <3>1, BuildPointers
  <2>2. built' \in [Slots -> Built \cup {Unused}]
    BY <1>1 DEF Grown
  <2>3. liveFs' \subseteq Slots /\ liveDev' \subseteq liveFs'
    BY <1>1, <1>3 DEF Grown
  <2>4. registered' \in [Names -> Slots \cup {0}]
    BY <1>1 DEF Grown, Typed
  <2>5. QED BY <2>1, <2>2, <2>3, <2>4 DEF Typed
<1>11. QED BY <1>4, <1>5, <1>6, <1>7, <1>8, <1>9, <1>10 DEF HeapInv

(* Eject and the destructor: what they leave has no pointers.              *)
Emptied(o) == \A p \in Objects, y \in Types :
  IF p = o THEN Fs(p, y)' = 0 /\ Dev(p, y)' = 0
  ELSE Fs(p, y)' = Fs(p, y) /\ Dev(p, y)' = Dev(p, y)

(* Delete, fact by fact.                                                   *)
Shrunk(o) ==
  /\ \A i \in Slots : /\ i \in liveFs' <=> i \in liveFs /\ \A y \in Types : Fs(o, y) # i
                      /\ i \in liveDev' <=> i \in liveDev /\ \A y \in Types : Dev(o, y) # i
  /\ liveFs' \subseteq liveFs /\ liveDev' \subseteq liveDev
  /\ built' \in [Slots -> Built \cup {Unused}]
  /\ \A i \in liveFs' : built'[i] = built[i]
  /\ registered' \in [Names -> Slots \cup {0}]
  /\ \A n \in Names :
       registered'[n] # 0
         => /\ registered'[n] = registered[n]
            /\ \A y \in Types : Dev(o, y) # 0 => built[Dev(o, y)].name # n
  /\ \A n \in Names :
       registered'[n] # registered[n]
         => \E y \in Types : Dev(o, y) # 0 /\ built[Dev(o, y)].name = n

LEMMA DeleteEffect ==
  ASSUME NEW o \in Objects, Typed, Delete(o)
  PROVE  Shrunk(o)
<1>1. /\ \A i \in Slots : /\ i \in Pointers(lib[o].fs) <=> \E y \in Types : Fs(o, y) = i
                          /\ i \in Pointers(lib[o].dev) <=> \E y \in Types : Dev(o, y) = i
      /\ \A y \in Types : Dev(o, y) # 0 => Dev(o, y) \in Pointers(lib[o].dev)
      /\ \A i \in Pointers(lib[o].dev) : \E y \in Types : Dev(o, y) = i /\ Dev(o, y) # 0
  <2>1. 0 \notin Slots BY BoundAssumption DEF Slots
  <2>2. QED BY <2>1 DEF Pointers, Fs, Dev
<1>2. \A i \in Slots : /\ i \in liveFs' <=> i \in liveFs /\ \A y \in Types : Fs(o, y) # i
                       /\ i \in liveDev' <=> i \in liveDev /\ \A y \in Types : Dev(o, y) # i
  BY <1>1 DEF Delete
<1>3. liveFs' \subseteq liveFs /\ liveDev' \subseteq liveDev
  BY DEF Delete
<1>4. /\ built' \in [Slots -> Built \cup {Unused}]
      /\ \A i \in liveFs' : built'[i] = built[i]
  <2>1. built' = [i \in Slots |-> IF i \in Pointers(lib[o].fs) THEN Unused ELSE built[i]]
    BY DEF Delete
  <2>2. \A i \in liveFs' : i \in Slots /\ i \notin Pointers(lib[o].fs)
    BY DEF Delete, Typed
  <2>3. QED BY <2>1, <2>2 DEF Typed
<1>5. registered' = [n \in Names |-> IF n \in Unregistered(o) THEN 0 ELSE registered[n]]
  BY DEF Delete
<1>6. registered' \in [Names -> Slots \cup {0}]
  BY <1>5 DEF Typed
<1>7. ASSUME NEW n \in Names, registered'[n] # 0
      PROVE  /\ registered'[n] = registered[n]
             /\ \A y \in Types : Dev(o, y) # 0 => built[Dev(o, y)].name # n
  <2>1. n \notin Unregistered(o) /\ registered'[n] = registered[n]
    BY <1>5, <1>7
  <2>2. QED BY <1>1, <2>1 DEF Unregistered
<1>8. ASSUME NEW n \in Names, registered'[n] # registered[n]
      PROVE  \E y \in Types : Dev(o, y) # 0 /\ built[Dev(o, y)].name = n
  <2>1. n \in Unregistered(o)
    BY <1>5, <1>8
  <2>2. QED BY <1>1, <2>1 DEF Unregistered
<1>9. QED BY <1>2, <1>3, <1>4, <1>6, <1>7, <1>8 DEF Shrunk

(* Deleting what an object points to keeps the heap in order: the other    *)
(* objects' file systems and devices are not touched, and where a name was *)
(* taken away from another object's device, that device was contested.     *)
LEMMA DeleteHeap ==
  ASSUME NEW o \in Objects, Typed, HeapInv, Delete(o), Emptied(o),
         lib' \in [Objects -> Lib]
  PROVE  Typed' /\ HeapInv'
<1>1. Shrunk(o)
  BY DeleteEffect
<1>2. /\ 0 \notin Slots /\ liveFs \subseteq Slots /\ liveDev \subseteq liveFs
      /\ liveFs' \subseteq liveFs /\ liveDev' \subseteq liveDev
  <2>1. 0 \notin Slots BY BoundAssumption DEF Slots
  <2>2. QED BY <1>1, <2>1 DEF Typed, Shrunk
<1>3. \A i \in liveFs' : built'[i] = built[i]
  BY <1>1 DEF Shrunk
<1>4. liveDev' \subseteq liveFs'
  <2> SUFFICES ASSUME NEW i \in liveDev' PROVE i \in liveFs'
    OBVIOUS
  <2>1. i \in Slots /\ i \in liveDev /\ i \in liveFs /\ i # 0
    BY <1>2
  <2>2. \A y \in Types : Dev(o, y) # i
    BY <1>1, <2>1 DEF Shrunk
  <2>3. \A y \in Types : Fs(o, y) # i
    BY <2>1, <2>2 DEF HeapInv, Pointed
  <2>4. QED BY <1>1, <2>1, <2>3 DEF Shrunk
<1>5. Typed'
  <2>1. /\ built' \in [Slots -> Built \cup {Unused}]
        /\ registered' \in [Names -> Slots \cup {0}]
    BY <1>1 DEF Shrunk
  <2>2. QED BY <1>2, <1>4, <2>1 DEF Typed
<1>6. Filled'
  BY <1>2, <1>3 DEF HeapInv, Filled
<1>7. Pointed'
  <2> SUFFICES ASSUME NEW p \in Objects, NEW y \in Types
      PROVE /\ Fs(p, y)' # 0 => Fs(p, y)' \in liveFs'
            /\ Dev(p, y)' # 0 => Dev(p, y)' = Fs(p, y)' /\ Dev(p, y)' \in liveDev'
            /\ Fs(p, y)' \in liveDev' => Dev(p, y)' = Fs(p, y)'
    BY DEF Pointed
  <2>1. CASE p = o BY <1>2, <2>1 DEF Emptied
  <2>2. CASE p # o
    <3>1. Fs(p, y)' = Fs(p, y) /\ Dev(p, y)' = Dev(p, y)
      BY <2>2 DEF Emptied
    <3>2. Fs(p, y) # 0 => Fs(p, y) \in liveFs'
      <4> SUFFICES ASSUME Fs(p, y) # 0 PROVE Fs(p, y) \in liveFs'
        OBVIOUS
      <4>1. Fs(p, y) \in liveFs /\ Fs(p, y) \in Slots
        BY <1>2 DEF HeapInv, Pointed
      <4>2. \A x \in Types : Fs(o, x) # Fs(p, y)
        BY <2>2 DEF HeapInv, Distinct
      <4>3. QED BY <1>1, <4>1, <4>2 DEF Shrunk
    <3>3. Dev(p, y) # 0 => Dev(p, y) = Fs(p, y) /\ Dev(p, y) \in liveDev'
      <4> SUFFICES ASSUME Dev(p, y) # 0
                   PROVE  Dev(p, y) = Fs(p, y) /\ Dev(p, y) \in liveDev'
        OBVIOUS
      <4>1. Dev(p, y) = Fs(p, y) /\ Dev(p, y) \in liveDev /\ Dev(p, y) \in Slots
        BY <1>2 DEF HeapInv, Pointed
      <4>2. \A x \in Types : Dev(o, x) # Dev(p, y)
        BY <2>2, <4>1 DEF HeapInv, Distinct, Pointed
      <4>3. QED BY <1>1, <4>1, <4>2 DEF Shrunk
    <3>4. Fs(p, y) \in liveDev' => Dev(p, y) = Fs(p, y)
      BY <1>2 DEF HeapInv, Pointed
    <3>5. QED BY <3>1, <3>2, <3>3, <3>4
  <2>3. QED BY <2>1, <2>2
<1>8. Distinct'
  <2> SUFFICES ASSUME NEW p \in Objects, NEW q \in Objects, NEW x \in Types, NEW y \in Types,
                      p # q, Fs(p, x)' # 0
               PROVE  Fs(p, x)' # Fs(q, y)'
    BY DEF Distinct
  <2>1. Fs(p, x) # 0 => Fs(p, x) # Fs(q, y)
    BY DEF HeapInv, Distinct
  <2>2. QED BY <2>1 DEF Emptied
<1>9. Listed'
  <2> SUFFICES ASSUME NEW n \in Names, registered'[n] # 0
               PROVE  registered'[n] \in liveDev' /\ built'[registered'[n]].name = n
    BY DEF Listed
  <2>1. /\ registered'[n] = registered[n]
        /\ \A y \in Types : Dev(o, y) # 0 => built[Dev(o, y)].name # n
    BY <1>1 DEF Shrunk
  <2>2. registered[n] \in liveDev /\ built[registered[n]].name = n
    BY <2>1 DEF HeapInv, Listed
  <2>3. registered[n] \in liveDev'
    BY <1>1, <1>2, <2>1, <2>2 DEF Shrunk
  <2>4. QED BY <1>3, <1>4, <2>1, <2>2, <2>3
<1>10. Uncontested'
  <2> SUFFICES ASSUME NEW k \in liveDev', ~built'[k].contested
               PROVE  /\ registered'[built'[k].name] = k
                      /\ \A j \in liveDev' : built'[j].name = built'[k].name => j = k
    BY DEF Uncontested
  <2>1. k \in liveDev /\ k \in liveFs' /\ built'[k] = built[k] /\ k \in liveFs /\ k \in Slots
    BY <1>2, <1>3, <1>4
  <2>2. /\ registered[built[k].name] = k
        /\ \A j \in liveDev : built[j].name = built[k].name => j = k
    BY <2>1 DEF HeapInv, Uncontested
  <2>3. built[k].name \in Names
    BY <2>1 DEF HeapInv, Filled, Built
  <2>4. registered'[built[k].name] = registered[built[k].name]
    <3>1. ASSUME NEW y \in Types, Dev(o, y) # 0, built[Dev(o, y)].name = built[k].name
          PROVE  FALSE
      <4>1. Dev(o, y) \in liveDev
        BY <3>1 DEF HeapInv, Pointed
      <4>2. Dev(o, y) = k
        BY <2>2, <3>1, <4>1
      <4>3. QED BY <1>1, <2>1, <4>2 DEF Shrunk
    <3>2. QED BY <1>1, <2>3, <3>1 DEF Shrunk
  <2>5. \A j \in liveDev' : j \in liveDev /\ built'[j] = built[j]
    BY <1>2, <1>3, <1>4
  <2>6. QED BY <2>1, <2>2, <2>4, <2>5
<1>11. Owned'
  <2> SUFFICES ASSUME NEW k \in liveFs', built'[k].sure
               PROVE  \E y \in Types : lib'[built'[k].owner].fs[y] = k
    BY DEF Owned, Fs
  <2>1. k \in liveFs /\ k \in Slots /\ k # 0 /\ built[k].sure /\ built[k].owner \in Objects
    BY <1>2, <1>3 DEF HeapInv, Filled, Built
  <2>2. PICK y \in Types : lib[built[k].owner].fs[y] = k
    BY <2>1 DEF HeapInv, Owned, Fs
  <2>3. built[k].owner # o
    BY <1>1, <2>1, <2>2 DEF Shrunk, Fs
  <2>4. lib'[built[k].owner].fs[y] = k
    BY <2>1, <2>2, <2>3 DEF Emptied, Fs
  <2>5. QED BY <1>3, <2>4
<1>12. QED BY <1>5, <1>6, <1>7, <1>8, <1>9, <1>10, <1>11 DEF HeapInv

-----------------------------------------------------------------------------
(* The members of the objects *)

(* Constructors that build nothing: the heap is as it was.                 *)
LEMMA SameHeap ==
  ASSUME Typed, HeapInv, UNCHANGED heap, lib' \in [Objects -> Lib],
         \A p \in Objects, y \in Types : Fs(p, y)' = Fs(p, y) /\ Dev(p, y)' = Dev(p, y)
  PROVE  Typed' /\ HeapInv'
<1>1. /\ built' = built /\ liveFs' = liveFs /\ liveDev' = liveDev
      /\ registered' = registered
  BY DEF heap
<1>2. Typed'
  BY <1>1 DEF Typed
<1>3. Filled' /\ Listed' /\ Uncontested'
  BY <1>1 DEF HeapInv, Filled, Listed, Uncontested
<1>4. Pointed' /\ Distinct'
  BY <1>1 DEF HeapInv, Pointed, Distinct
<1>5. Owned'
  <2> SUFFICES ASSUME NEW k \in liveFs, built[k].sure
               PROVE  \E y \in Types : lib'[built[k].owner].fs[y] = k
    BY <1>1 DEF Owned, Fs
  <2>1. built[k].owner \in Objects
    BY DEF HeapInv, Filled, Built
  <2>2. PICK y \in Types : lib[built[k].owner].fs[y] = k
    BY DEF HeapInv, Owned, Fs
  <2>3. QED BY <2>1, <2>2 DEF Fs
<1>6. QED BY <1>2, <1>3, <1>4, <1>5 DEF HeapInv

(* What a step of object o leaves of the others: their members, and what   *)
(* the records they point to say.                                          *)
Kept(o) == \A p \in Objects \ {o} :
  /\ lib'[p] = lib[p]
  /\ \A y \in Types : Fs(p, y) # 0 =>
       /\ built'[Fs(p, y)].name = built[Fs(p, y)].name
       /\ built'[Fs(p, y)].sure = built[Fs(p, y)].sure
       /\ built'[Fs(p, y)].disc = built[Fs(p, y)].disc

LEMMA OthersMembers ==
  ASSUME NEW o \in Objects, Pointed, Members, Kept(o), NEW p \in Objects \ {o}
  PROVE  MembersOf(p)'
<1>1. /\ lib'[p] = lib[p]
      /\ \A y \in Types : Fs(p, y) # 0 =>
           /\ built'[Fs(p, y)].name = built[Fs(p, y)].name
           /\ built'[Fs(p, y)].sure = built[Fs(p, y)].sure
  BY DEF Kept
<1>2. \A y \in Types : Fs(p, y)' = Fs(p, y) /\ Dev(p, y)' = Dev(p, y)
  BY <1>1 DEF Fs, Dev
<1>3. \A y \in Types : Dev(p, y) # 0 => Dev(p, y) = Fs(p, y)
  BY DEF Pointed
<1>4. MembersOf(p)
  BY DEF Members
<1>5. \A y \in Types : Only(p, y) => Only(p, y)'
  <2> SUFFICES ASSUME NEW y \in Types, Only(p, y) PROVE Only(p, y)'
    OBVIOUS
  <2>1. Dev(p, y) # 0 /\ Dev(p, y) = Fs(p, y)
        /\ built[Dev(p, y)].name = lib[p].mountpoint
    BY <1>3 DEF Only
  <2>2. lib'[p].dev[y] # 0 /\ built'[lib'[p].dev[y]].name = lib'[p].mountpoint
    BY <1>1, <2>1 DEF Fs, Dev
  <2>3. \A z \in Types \ {y} : Fs(p, z)' = 0
    BY <1>2 DEF Only
  <2>4. QED BY <2>2, <2>3 DEF Only, Dev
<1>6. lib[p].scsi /\ ~lib[p].usb_init
        => \A y \in Types : lib'[p].fs[y] # 0 => ~built'[lib'[p].fs[y]].sure
  BY <1>1, <1>4 DEF MembersOf, Fs
<1>7. /\ lib'[p].kind = "none" => \A y \in Types : lib'[p].fs[y] = 0
      /\ lib'[p].scsi => lib'[p].kind = "drive"
      /\ lib'[p].usb_init => lib'[p].scsi
      /\ lib'[p].usb_init /\ ~lib'[p].mounted => \A y \in Types : lib'[p].fs[y] = 0
  BY <1>1, <1>4 DEF MembersOf, Fs
<1>8. lib'[p].mounted /\ (lib'[p].usb_init \/ lib'[p].kind = "cue")
        => \E y \in Types : Only(p, y)'
  BY <1>1, <1>4, <1>5 DEF MembersOf
<1>9. QED BY <1>1, <1>6, <1>7, <1>8 DEF MembersOf, Fs

(* When the members o gets with a file system are those of an object that  *)
(* may get one.                                                            *)
Ready(o, members) ==
  /\ SamePointers(o, members)
  /\ members.kind # "none"
  /\ members.scsi => members.kind = "drive"
  /\ members.usb_init => members.scsi /\ members.mounted
  /\ members.usb_init \/ members.kind = "cue" => \A y \in Types : Fs(o, y) = 0
  /\ \A y \in Types : Fs(o, y) # 0 => ~built[Fs(o, y)].sure

(* Build keeps the members in order, of the object that builds and of the  *)
(* others; what it builds says which disc it was read from.                *)
LEMMA BuildMembers ==
  ASSUME NEW o \in Objects, NEW members \in Lib, NEW type \in Types,
         NEW name \in Names, NEW disc \in Discs \cup {NoDisc},
         Typed, HeapInv, Members, Ready(o, members), Build(o, members, type, name, disc)
  PROVE  /\ Kept(o) /\ Members'
         /\ lib'[o].scsi = members.scsi /\ lib'[o].usb_init = members.usb_init
         /\ lib'[o].mounted = members.mounted
         /\ members.usb_init
              => \A y \in Types : lib'[o].fs[y] # 0 => built'[lib'[o].fs[y]].disc = disc
<1>1. PICK i \in Slots : Grown(o, members, type, name, disc, i)
  BY BuildEffect DEF HeapInv, Ready
<1>2. /\ \A p \in Objects \ {o} : lib'[p] = lib[p]
      /\ lib'[o].kind = members.kind /\ lib'[o].scsi = members.scsi
      /\ lib'[o].usb_init = members.usb_init /\ lib'[o].mounted = members.mounted
      /\ lib'[o].mountpoint = name
      /\ Fs(o, type)' = i /\ Dev(o, type)' = i
      /\ \A y \in Types \ {type} : Fs(o, y)' = Fs(o, y) /\ Dev(o, y)' = Dev(o, y)
  <2>1. Gets(o, members, type, name, i)
    BY <1>1 DEF Grown
  <2>2. QED BY <2>1, BuildPointers DEF Ready
<1>3. /\ built'[i].name = name /\ built'[i].disc = disc
      /\ members.scsi /\ ~members.usb_init => ~built'[i].sure
  <2>1. built'[i].name = name /\ built'[i].disc = disc
    BY <1>1 DEF Grown
  <2>2. built'[i].sure = (members.usb_init \/ ~members.scsi)
    BY <1>1 DEF Grown
  <2>3. members.scsi /\ ~members.usb_init => ~built'[i].sure
    BY <2>2, Zenon
  <2>4. QED BY <2>1, <2>3
<1>4. Kept(o)
  <2>1. \A p \in Objects, y \in Types : Fs(p, y) # 0 => Fs(p, y) \in liveFs
    BY DEF HeapInv, Pointed
  <2>2. \A j \in liveFs : /\ built'[j].name = built[j].name
                          /\ built'[j].disc = built[j].disc /\ built'[j].sure = built[j].sure
    BY <1>1 DEF Grown
  <2>3. QED BY <1>2, <2>1, <2>2 DEF Kept
<1>5. i # 0
  BY BoundAssumption DEF Slots
<1>6. members.usb_init \/ members.kind = "cue" => Only(o, type)'
  <2>1. lib'[o].dev[type] = i
    BY <1>2 DEF Dev
  <2>2. lib'[o].dev[type] # 0 /\ built'[lib'[o].dev[type]].name = lib'[o].mountpoint
    BY <1>2, <1>3, <1>5, <2>1
  <2>3. members.usb_init \/ members.kind = "cue" => \A z \in Types \ {type} : Fs(o, z)' = 0
    BY <1>2 DEF Ready
  <2>4. QED BY <2>2, <2>3 DEF Only, Dev
<1>7. members.scsi /\ ~members.usb_init
        => \A y \in Types : lib'[o].fs[y] # 0 => ~built'[lib'[o].fs[y]].sure
  <2> SUFFICES ASSUME members.scsi, ~members.usb_init, NEW y \in Types, lib'[o].fs[y] # 0
               PROVE  ~built'[lib'[o].fs[y]].sure
    OBVIOUS
  <2>1. CASE y = type BY <1>2, <1>3, <2>1 DEF Fs
  <2>2. CASE y # type
    <3>1. lib'[o].fs[y] = lib[o].fs[y]
      BY <1>2, <2>2 DEF Fs
    <3>2. lib[o].fs[y] \in liveFs /\ ~built[lib[o].fs[y]].sure
      BY <3>1 DEF HeapInv, Pointed, Ready, Fs
    <3>3. QED BY <1>1, <3>1, <3>2 DEF Grown
  <2>3. QED BY <2>1, <2>2
<1>8. MembersOf(o)'
  <2>1. /\ lib'[o].kind = "none" => \A y \in Types : lib'[o].fs[y] = 0
        /\ lib'[o].scsi => lib'[o].kind = "drive"
        /\ lib'[o].usb_init => lib'[o].scsi
        /\ lib'[o].usb_init /\ ~lib'[o].mounted => \A y \in Types : lib'[o].fs[y] = 0
    BY <1>2 DEF Ready
  <2>2. QED BY <1>2, <1>6, <1>7, <2>1 DEF MembersOf, Fs
<1>9. Members'
  <2>1. \A p \in Objects \ {o} : MembersOf(p)'
    BY <1>4, OthersMembers DEF HeapInv
  <2>2. QED BY <1>8, <2>1 DEF Members
<1>10. members.usb_init
         => \A y \in Types : lib'[o].fs[y] # 0 => built'[lib'[o].fs[y]].disc = disc
  BY <1>2, <1>3 DEF Ready, Fs
<1>11. QED BY <1>2, <1>4, <1>9, <1>10

-----------------------------------------------------------------------------
(* The steps *)

(* A step of an object whose SCSI object neither comes nor goes.           *)
LEMMA OneDriveKept ==
  ASSUME NEW o \in Objects, OneDrive, Kept(o), lib'[o].scsi => lib[o].scsi
  PROVE  OneDrive'
  BY DEF OneDrive, Kept

\* The tray is left alone by a step of an object that has no drive.
LEMMA TrayKept ==
  ASSUME NEW o \in Objects, TrayInv, Kept(o), ~lib[o].scsi, ~lib'[o].scsi,
         UNCHANGED <<tray, faults>>
  PROVE  TrayInv'
<1> SUFFICES ASSUME faults = 0
             PROVE  /\ \A p \in Objects : Shown(p)'
                    /\ tray.locked => \E p \in Objects : lib'[p].scsi
  BY DEF TrayInv
<1>1. ASSUME NEW p \in Objects PROVE Shown(p)'
  <2>1. CASE p = o BY <2>1 DEF Shown
  <2>2. CASE p # o
    <3>1. /\ lib'[p] = lib[p]
          /\ \A y \in Types : lib[p].fs[y] # 0
               => built'[lib[p].fs[y]].disc = built[lib[p].fs[y]].disc
      BY <2>2 DEF Kept, Fs
    <3>2. Shown(p)
      BY DEF TrayInv
    <3>3. QED BY <3>1, <3>2 DEF Shown, Fs
  <2>3. QED BY <2>1, <2>2
<1>2. tray.locked => \E p \in Objects : lib'[p].scsi
  <2>1. tray.locked => \E p \in Objects : lib[p].scsi
    BY DEF TrayInv
  <2>2. \A p \in Objects : lib[p].scsi => p # o /\ lib'[p] = lib[p]
    BY DEF Kept
  <2>3. QED BY <2>1, <2>2
<1>3. QED BY <1>1, <1>2

(* An object that is not there has no pointers, no drive.                  *)
LEMMA NotThere ==
  ASSUME NEW o \in Objects, Inv, lib[o].kind = "none"
  PROVE  /\ lib[o].fs = NoPointers /\ lib[o].dev = NoPointers
         /\ ~lib[o].scsi
         /\ \A y \in Types : Fs(o, y) = 0 /\ Dev(o, y) = 0
<1>1. \A y \in Types : Fs(o, y) = 0 /\ Dev(o, y) = 0
  BY DEF Inv, Members, MembersOf, HeapInv, Pointed
<1>2. lib[o] \in Lib
  BY DEF Inv, Typed
<1>3. lib[o].fs \in [Types -> Nat] /\ lib[o].dev \in [Types -> Nat]
  BY <1>2 DEF Lib
<1>4. lib[o].fs = NoPointers /\ lib[o].dev = NoPointers
  BY <1>1, <1>3 DEF NoPointers, Fs, Dev
<1>5. ~lib[o].scsi
  BY DEF Inv, Members, MembersOf
<1>6. QED BY <1>1, <1>4, <1>5

(* A new object without a file system, that may have taken the drive.      *)
LEMMA NewObject ==
  ASSUME NEW o \in Objects, NEW members \in Lib, Inv, lib[o].kind = "none",
         members.kind # "none", members.fs = NoPointers, members.dev = NoPointers,
         members.scsi => members.kind = "drive", members.usb_init => members.scsi,
         members.mounted => members.kind = "image" /\ ~members.scsi,
         lib' = [lib EXCEPT ![o] = members], UNCHANGED heap
  PROVE  Typed' /\ HeapInv' /\ Members' /\ Kept(o)
<1>1. lib' \in [Objects -> Lib] /\ lib'[o] = members
  BY DEF Inv, Typed
<1>2. Kept(o)
  BY DEF Kept, heap, Inv, Typed
<1>3. \A p \in Objects, y \in Types : Fs(p, y)' = Fs(p, y) /\ Dev(p, y)' = Dev(p, y)
  <2> SUFFICES ASSUME NEW p \in Objects, NEW y \in Types
               PROVE  Fs(p, y)' = Fs(p, y) /\ Dev(p, y)' = Dev(p, y)
    OBVIOUS
  <2>1. CASE p = o BY <1>1, <2>1, NotThere DEF Fs, Dev
  <2>2. CASE p # o BY <1>2, <2>2 DEF Kept, Fs, Dev
  <2>3. QED BY <2>1, <2>2
<1>4. Typed' /\ HeapInv'
  BY <1>1, <1>3, SameHeap DEF Inv
<1>5. MembersOf(o)'
  <2>1. \A y \in Types : lib'[o].fs[y] = 0
    BY <1>1 DEF NoPointers
  <2>2. lib'[o].mounted => ~lib'[o].usb_init /\ lib'[o].kind # "cue"
    BY <1>1
  <2>3. QED BY <1>1, <2>1, <2>2 DEF MembersOf, Fs
<1>6. Members'
  <2>1. \A p \in Objects \ {o} : MembersOf(p)'
    BY <1>2, OthersMembers DEF Inv, HeapInv
  <2>2. QED BY <1>5, <2>1 DEF Members
<1>7. QED BY <1>2, <1>4, <1>6

LEMMA InitDriveKeeps == ASSUME Inv, NEW o \in Objects, InitDrive(o) PROVE Inv'
<1> DEFINE silent == [NoLib EXCEPT !.kind = "drive"]
           deaf   == [NoLib EXCEPT !.kind = "drive", !.scsi = TRUE]
           ready  == [NoLib EXCEPT !.kind = "drive", !.scsi = TRUE,
                                   !.usb_init = TRUE, !.drive_found = TRUE]
           Drive(m) == /\ m \in Lib /\ m.kind = "drive"
                       /\ m.fs = NoPointers /\ m.dev = NoPointers /\ m.mounted = FALSE
<1>1. /\ Drive(silent) /\ silent.scsi = FALSE /\ silent.usb_init = FALSE
      /\ Drive(deaf) /\ deaf.scsi = TRUE /\ deaf.usb_init = FALSE
      /\ Drive(ready) /\ ready.scsi = TRUE /\ ready.usb_init = TRUE
  <2>1. NoPointers \in [Types -> Nat]
    BY DEF NoPointers
  <2>2. Drive(silent) /\ silent.scsi = FALSE /\ silent.usb_init = FALSE
    BY <2>1 DEF NoLib, Lib
  <2>3. Drive(deaf) /\ deaf.scsi = TRUE /\ deaf.usb_init = FALSE
    BY <2>1 DEF NoLib, Lib
  <2>4. Drive(ready) /\ ready.scsi = TRUE /\ ready.usb_init = TRUE
    BY <2>1 DEF NoLib, Lib
  <2>5. QED BY <2>2, <2>3, <2>4
<1>2. \/ lib' = [lib EXCEPT ![o] = silent] /\ faults' = faults
      \/ lib' = [lib EXCEPT ![o] = deaf] /\ Failing(1)
      \/ lib' = [lib EXCEPT ![o] = ready] /\ faults' = faults
  BY DEF InitDrive
<1> HIDE DEF silent, deaf, ready
<1> DEFINE Made(m) == /\ Drive(m) /\ m.scsi \in BOOLEAN /\ m.usb_init \in BOOLEAN
                      /\ lib' = [lib EXCEPT ![o] = m]
                      /\ m.usb_init => m.scsi
                      /\ m.scsi /\ ~m.usb_init => faults' = faults + 1
                      /\ faults' \in 0..MaxFaults /\ faults' >= faults
<1>3. PICK m : Made(m)
  <2>1. faults \in 0..MaxFaults /\ MaxFaults \in Nat /\ faults >= faults
    BY BoundAssumption DEF Inv, WorldTyped
  <2>2. ASSUME lib' = [lib EXCEPT ![o] = silent], faults' = faults
        PROVE  Made(silent)
    BY <1>1, <2>1, <2>2
  <2>3. ASSUME lib' = [lib EXCEPT ![o] = deaf], Failing(1)
        PROVE  Made(deaf)
    <3>1. faults' = faults + 1 /\ faults' \in 0..MaxFaults /\ faults' >= faults
      BY <2>1, <2>3 DEF Failing
    <3>2. QED BY <1>1, <2>3, <3>1
  <2>4. ASSUME lib' = [lib EXCEPT ![o] = ready], faults' = faults
        PROVE  Made(ready)
    BY <1>1, <2>1, <2>4
  <2> HIDE DEF Made
  <2>5. QED BY <1>2, <2>2, <2>3, <2>4
<1>4. lib[o].kind = "none" /\ (\A p \in Objects : ~lib[p].scsi) /\ UNCHANGED <<tray, heap, crashed>>
  BY DEF InitDrive, Free
<1>5. Typed' /\ HeapInv' /\ Members' /\ Kept(o)
  BY <1>3, <1>4, NewObject
<1>6. lib'[o] = m
  BY <1>3 DEF Inv, Typed
<1>7. OneDrive'
  BY <1>4, <1>5 DEF OneDrive, Kept
<1>8. WorldTyped'
  BY <1>3, <1>4 DEF Inv, WorldTyped
<1>9. TrayInv'
  <2> SUFFICES ASSUME faults' = 0
               PROVE  /\ \A p \in Objects : Shown(p)'
                      /\ tray.locked => \E p \in Objects : lib'[p].scsi
    BY <1>4 DEF TrayInv
  <2>1. faults = 0
    BY <1>3, BoundAssumption DEF Inv, WorldTyped
  <2>2. ~tray.locked
    BY <1>4, <2>1 DEF Inv, TrayInv
  <2>3. ASSUME NEW p \in Objects PROVE Shown(p)'
    <3>1. CASE p = o
      <4>1. ~m.mounted /\ (m.scsi => m.usb_init)
        BY <1>3, <2>1
      <4>2. QED BY <1>6, <3>1, <4>1 DEF Shown
    <3>2. CASE p # o
      BY <1>4, <1>5, <3>2 DEF Shown, Kept
    <3>3. QED BY <3>1, <3>2
  <2>4. QED BY <2>2, <2>3
<1>10. QED BY <1>5, <1>7, <1>8, <1>9 DEF Inv

LEMMA InitImageKeeps == ASSUME Inv, NEW o \in Objects, InitImage(o) PROVE Inv'
<1>1. PICK sector16 \in Sectors, mounted \in BOOLEAN :
        LET members == [NoLib EXCEPT !.kind = "image", !.fileimage = TRUE, !.mounted = mounted] IN
        /\ Free(o)
        /\ IF sector16 = "other"
           THEN lib' = [lib EXCEPT ![o] = members] /\ UNCHANGED heap
           ELSE Build(o, members, sector16, "iso0", NoDisc)
        /\ UNCHANGED <<tray, crashed, faults>>
  BY DEF InitImage
<1> DEFINE m == [NoLib EXCEPT !.kind = "image", !.fileimage = TRUE, !.mounted = mounted]
<1>2. /\ m \in Lib /\ m.kind = "image" /\ m.fs = NoPointers /\ m.dev = NoPointers
      /\ m.scsi = FALSE /\ m.usb_init = FALSE
  <2>1. NoPointers \in [Types -> Nat]
    BY DEF NoPointers
  <2>2. QED BY <2>1 DEF NoLib, Lib
<1>3. /\ Free(o) /\ UNCHANGED <<tray, crashed, faults>>
      /\ \/ lib' = [lib EXCEPT ![o] = m] /\ UNCHANGED heap
         \/ sector16 # "other" /\ Build(o, m, sector16, "iso0", NoDisc)
  BY <1>1
<1> HIDE DEF m
<1>4. lib[o].kind = "none" /\ ~lib[o].scsi
  BY <1>3, NotThere DEF Free
<1>5. Typed' /\ HeapInv' /\ Members' /\ Kept(o) /\ ~lib'[o].scsi
  <2>1. CASE lib' = [lib EXCEPT ![o] = m] /\ UNCHANGED heap
    <3>1. Typed' /\ HeapInv' /\ Members' /\ Kept(o)
      BY <1>2, <1>4, <2>1, NewObject
    <3>2. lib'[o] = m
      BY <2>1 DEF Inv, Typed
    <3>3. QED BY <1>2, <3>1, <3>2
  <2>2. CASE sector16 # "other" /\ Build(o, m, sector16, "iso0", NoDisc)
    <3>1. sector16 \in Types /\ "iso0" \in Names
      BY <2>2 DEF Sectors, Types, Names
    <3>2. \A y \in Types : Fs(o, y) = 0
      BY <1>4, NotThere
    <3>3. Ready(o, m)
      BY <1>2, <1>4, <3>2, NotThere DEF Ready, SamePointers
    <3>4. Typed' /\ HeapInv'
      BY <1>2, <2>2, <3>1, <3>2, <3>3, BuildHeap DEF Ready, Inv
    <3>5. Kept(o) /\ Members' /\ lib'[o].scsi = m.scsi
      BY <1>2, <2>2, <3>1, <3>3, BuildMembers DEF Inv
    <3>6. QED BY <1>2, <3>4, <3>5
  <2>3. QED BY <1>3, <2>1, <2>2
<1>6. OneDrive'
  BY <1>5, OneDriveKept DEF Inv
<1>7. TrayInv'
  BY <1>3, <1>4, <1>5, TrayKept DEF Inv
<1>8. WorldTyped'
  BY <1>3 DEF Inv, WorldTyped
<1>9. QED BY <1>5, <1>6, <1>7, <1>8 DEF Inv

(* CUSBDVD(cuepath, binpath), where the binary file cannot be opened: a    *)
(* file system without a device.                                           *)
LEMMA CueAlone ==
  ASSUME NEW o \in Objects, NEW members \in Lib, Inv, lib[o].kind = "none",
         members.kind = "cue", members.fs = NoPointers, members.dev = NoPointers,
         ~members.scsi, ~members.usb_init, ~members.mounted, Unlocated # {},
         lib' = [lib EXCEPT ![o] = [members EXCEPT !.fs["cd"] = NewSlot]],
         built' = [built EXCEPT ![NewSlot] =
           [type |-> "cd", name |-> "acd0", owner |-> o, disc |-> NoDisc,
            sure |-> TRUE, contested |-> FALSE]],
         liveFs' = liveFs \cup {NewSlot}, UNCHANGED <<liveDev, registered>>
  PROVE  Typed' /\ HeapInv' /\ Members' /\ Kept(o) /\ ~lib'[o].scsi
<1> DEFINE new == [type |-> "cd", name |-> "acd0", owner |-> o, disc |-> NoDisc,
                   sure |-> TRUE, contested |-> FALSE]
           m == [members EXCEPT !.fs["cd"] = NewSlot]
           fs == [members.fs EXCEPT !["cd"] = NewSlot]
<1>1. PICK i \in Slots : i = NewSlot /\ i \notin liveFs /\ i # 0
  BY NewSlotFree, BoundAssumption DEF Slots
<1>2. m \in Lib /\ m.fs = fs /\ m.dev = NoPointers /\ m.kind = "cue"
      /\ m.scsi = members.scsi /\ m.usb_init = members.usb_init /\ m.mounted = members.mounted
  <2>1. fs \in [Types -> Nat]
    <3>1. NewSlot \in Nat /\ members.fs \in [Types -> Nat]
      BY <1>1 DEF Lib, Slots
    <3>2. QED BY <3>1
  <2>2. m = [members EXCEPT !.fs = fs]
    BY DEF Lib
  <2>3. QED BY <2>1, <2>2 DEF Lib
<1>3. lib' \in [Objects -> Lib] /\ lib'[o] = m /\ \A p \in Objects \ {o} : lib'[p] = lib[p]
  <2>1. lib' = [lib EXCEPT ![o] = m]
    OBVIOUS
  <2> HIDE DEF m
  <2>2. QED BY <1>2, <2>1 DEF Inv, Typed
<1> HIDE DEF m
<1>4. \A y \in Types : lib'[o].dev[y] = 0 /\ lib'[o].fs[y] = IF y = "cd" THEN i ELSE 0
  BY <1>1, <1>2, <1>3 DEF NoPointers, Types
<1>5. \A p \in Objects, y \in Types :
        /\ p # o => lib'[p].fs[y] = lib[p].fs[y] /\ lib'[p].dev[y] = lib[p].dev[y]
        /\ lib[p].fs[y] # i /\ lib[p].dev[y] # i
        /\ lib[o].fs[y] = 0 /\ lib[o].dev[y] = 0
  <2>1. \A p \in Objects, y \in Types : lib[p].fs[y] # i /\ lib[p].dev[y] # i
    BY <1>1 DEF Inv, HeapInv, Pointed, Fs, Dev
  <2>2. QED BY <1>3, <2>1, NotThere DEF Fs, Dev
<1>6. /\ new \in Built /\ built' \in [Slots -> Built \cup {Unused}] /\ built'[i] = new
      /\ \A j \in liveFs : built'[j] = built[j]
      /\ liveFs' = liveFs \cup {i} /\ liveDev' = liveDev /\ registered' = registered
  <2>1. new \in Built
    BY DEF Built, Types, Names
  <2>2. QED BY <1>1, <2>1 DEF Inv, Typed
<1>7. liveDev \subseteq liveFs /\ liveFs \subseteq Slots /\ i \notin liveDev /\ 0 \notin Slots
  BY <1>1, BoundAssumption DEF Inv, Typed, Slots
<1>8. Typed'
  BY <1>3, <1>6, <1>7 DEF Inv, Typed
<1>9. Filled'
  BY <1>6 DEF Inv, HeapInv, Filled
<1>10. Pointed'
  <2> SUFFICES ASSUME NEW p \in Objects, NEW y \in Types
      PROVE /\ lib'[p].fs[y] # 0 => lib'[p].fs[y] \in liveFs'
            /\ lib'[p].dev[y] # 0 => lib'[p].dev[y] = lib'[p].fs[y] /\ lib'[p].dev[y] \in liveDev'
            /\ lib'[p].fs[y] \in liveDev' => lib'[p].dev[y] = lib'[p].fs[y]
    BY DEF Pointed, Fs, Dev
  <2>1. CASE p = o
    BY <1>4, <1>6, <1>7, <2>1
  <2>2. CASE p # o
    BY <1>5, <1>6, <2>2 DEF Inv, HeapInv, Pointed, Fs, Dev
  <2>3. QED BY <2>1, <2>2
<1>11. Distinct'
  <2> SUFFICES ASSUME NEW p \in Objects, NEW q \in Objects, NEW x \in Types, NEW y \in Types,
                      p # q, lib'[p].fs[x] # 0
               PROVE  lib'[p].fs[x] # lib'[q].fs[y]
    BY DEF Distinct, Fs
  <2>1. CASE p = o BY <1>1, <1>4, <1>5, <2>1
  <2>2. CASE q = o BY <1>1, <1>4, <1>5, <2>2
  <2>3. CASE p # o /\ q # o BY <1>5, <2>3 DEF Inv, HeapInv, Distinct, Fs
  <2>4. QED BY <2>1, <2>2, <2>3
<1>12. Listed'
  BY <1>6, <1>7 DEF Inv, HeapInv, Listed
<1>13. Uncontested'
  BY <1>6, <1>7 DEF Inv, HeapInv, Uncontested
<1>14. Owned'
  <2> SUFFICES ASSUME NEW k \in liveFs', built'[k].sure
               PROVE  \E y \in Types : lib'[built'[k].owner].fs[y] = k
    BY DEF Owned, Fs
  <2>1. CASE k = i
    <3>1. built'[k].owner = o /\ "cd" \in Types
      BY <1>6, <2>1 DEF Types
    <3>2. QED BY <1>4, <2>1, <3>1
  <2>2. CASE k # i
    <3>1. k \in liveFs /\ built'[k] = built[k] /\ built[k].owner \in Objects
      BY <1>6, <2>2 DEF Inv, HeapInv, Filled, Built
    <3>2. PICK y \in Types : lib[built[k].owner].fs[y] = k
      BY <3>1 DEF Inv, HeapInv, Owned, Fs
    <3>3. built[k].owner # o
      BY <1>5, <1>7, <3>1, <3>2
    <3>4. QED BY <1>5, <3>1, <3>2, <3>3
  <2>3. QED BY <2>1, <2>2
<1>15. Kept(o)
  <2>1. \A p \in Objects, y \in Types : Fs(p, y) # 0 => Fs(p, y) \in liveFs
    BY DEF Inv, HeapInv, Pointed
  <2>2. QED BY <1>3, <1>6, <2>1 DEF Kept
<1>16. MembersOf(o)'
  BY <1>2, <1>3 DEF MembersOf
<1>17. Members'
  <2>1. \A p \in Objects \ {o} : MembersOf(p)'
    BY <1>15, OthersMembers DEF Inv, HeapInv
  <2>2. QED BY <1>16, <2>1 DEF Members
<1>18. HeapInv'
  BY <1>9, <1>10, <1>11, <1>12, <1>13, <1>14 DEF HeapInv
<1>19. QED BY <1>2, <1>3, <1>8, <1>15, <1>17, <1>18

LEMMA InitCueKeeps == ASSUME Inv, NEW o \in Objects, InitCue(o) PROVE Inv'
<1> DEFINE m == [NoLib EXCEPT !.kind = "cue"]
           mounted == [m EXCEPT !.mounted = TRUE]
           Alone == /\ Unlocated # {}
                    /\ lib' = [lib EXCEPT ![o] = [m EXCEPT !.fs["cd"] = NewSlot]]
                    /\ built' = [built EXCEPT ![NewSlot] =
                         [type |-> "cd", name |-> "acd0", owner |-> o, disc |-> NoDisc,
                          sure |-> TRUE, contested |-> FALSE]]
                    /\ liveFs' = liveFs \cup {NewSlot}
                    /\ UNCHANGED <<liveDev, registered>>
<1>1. /\ Free(o) /\ UNCHANGED <<tray, crashed, faults>>
      /\ \/ lib' = [lib EXCEPT ![o] = m] /\ UNCHANGED heap
         \/ Build(o, mounted, "cd", "acd0", NoDisc)
         \/ Alone
  BY DEF InitCue
<1>2. /\ m \in Lib /\ m.kind = "cue" /\ m.fs = NoPointers /\ m.dev = NoPointers
      /\ m.scsi = FALSE /\ m.usb_init = FALSE /\ m.mounted = FALSE
      /\ mounted \in Lib /\ mounted.kind = "cue"
      /\ mounted.fs = NoPointers /\ mounted.dev = NoPointers
      /\ mounted.scsi = FALSE /\ mounted.usb_init = FALSE
  <2>1. NoPointers \in [Types -> Nat]
    BY DEF NoPointers
  <2>2. QED BY <2>1 DEF NoLib, Lib
<1> HIDE DEF m, mounted
<1>3. lib[o].kind = "none" /\ ~lib[o].scsi
  BY <1>1, NotThere DEF Free
<1>4. Typed' /\ HeapInv' /\ Members' /\ Kept(o) /\ ~lib'[o].scsi
  <2>1. CASE lib' = [lib EXCEPT ![o] = m] /\ UNCHANGED heap
    <3>1. Typed' /\ HeapInv' /\ Members' /\ Kept(o)
      BY <1>2, <1>3, <2>1, NewObject
    <3>2. lib'[o] = m
      BY <2>1 DEF Inv, Typed
    <3>3. QED BY <1>2, <3>1, <3>2
  <2>2. CASE Build(o, mounted, "cd", "acd0", NoDisc)
    <3>1. "cd" \in Types /\ "acd0" \in Names
      BY DEF Types, Names
    <3>2. \A y \in Types : Fs(o, y) = 0
      BY <1>3, NotThere
    <3>3. Ready(o, mounted)
      BY <1>2, <1>3, <3>2, NotThere DEF Ready, SamePointers
    <3>4. Typed' /\ HeapInv'
      BY <1>2, <2>2, <3>1, <3>2, <3>3, BuildHeap DEF Ready, Inv
    <3>5. Kept(o) /\ Members' /\ lib'[o].scsi = mounted.scsi
      BY <1>2, <2>2, <3>1, <3>3, BuildMembers DEF Inv
    <3>6. QED BY <1>2, <3>4, <3>5
  <2>3. CASE Alone
    BY <1>2, <1>3, <2>3, CueAlone
  <2>4. QED BY <1>1, <2>1, <2>2, <2>3
<1>5. OneDrive'
  BY <1>4, OneDriveKept DEF Inv
<1>6. TrayInv'
  BY <1>1, <1>3, <1>4, TrayKept DEF Inv
<1>7. WorldTyped'
  BY <1>1 DEF Inv, WorldTyped
<1>8. QED BY <1>4, <1>5, <1>6, <1>7 DEF Inv

(* What MountDisc makes of a disc: nothing, or one file system with its    *)
(* device; whoever answered INQUIRY then counts as mounted.                *)
LEMMA RecogniseEffect ==
  ASSUME Inv, NEW o \in Objects, NEW p \in Profiles, NEW t \in Tracks, NEW s \in Sectors,
         Recognise(o, p, t, s)
  PROVE  \/ UNCHANGED <<lib, heap>>
         \/ \E m \in BOOLEAN, type \in Types, name \in Names :
              /\ lib[o].usb_init => m
              /\ Build(o, [lib[o] EXCEPT !.mounted = m], type, name, tray.disc)
<1>1. lib[o].usb_init \in BOOLEAN
  BY DEF Inv, Typed, Lib
<1>2. CASE p = "cd" /\ t = "audio"
  <2>1. Build(o, [lib[o] EXCEPT !.mounted = TRUE], "cd", "acd0", tray.disc)
    BY <1>2 DEF Recognise
  <2>2. "cd" \in Types /\ "acd0" \in Names
    BY DEF Types, Names
  <2>3. QED BY <2>1, <2>2
<1>3. CASE ((p = "cd" /\ t = "data") \/ p \in {"dvd", "bd"}) /\ s # "other"
  <2>1. Build(o, [lib[o] EXCEPT !.mounted = lib[o].usb_init], s, Name(p, s), tray.disc)
    BY <1>3 DEF Recognise
  <2>2. s \in Types
    BY <1>3 DEF Sectors, Types
  <2>3. Name(p, s) \in Names
    BY <1>3 DEF Name, Names, Profiles
  <2>4. QED BY <1>1, <2>1, <2>2, <2>3
<1>4. CASE ((p = "cd" /\ t = "data") \/ p \in {"dvd", "bd"}) /\ s = "other"
  BY <1>4 DEF Recognise
<1>5. CASE ~(p = "cd" /\ t = "audio") /\ ~(p = "cd" /\ t = "data") /\ p \notin {"dvd", "bd"}
  BY <1>5 DEF Recognise
<1>6. QED BY <1>2, <1>3, <1>4, <1>5

(* MountDisc, from the recognition of the disc on: the objects and the     *)
(* heap stay in order, and with INQUIRY answered what is mounted then was  *)
(* read from the disc in the drive.                                        *)
LEMMA MountKeeps ==
  ASSUME Inv, NEW o \in Objects, MayMount(o), lib[o].scsi,
         NEW p \in Profiles, NEW t \in Tracks, NEW s \in Sectors, Recognise(o, p, t, s)
  PROVE  /\ Typed' /\ HeapInv' /\ Members' /\ OneDrive' /\ Kept(o)
         /\ lib'[o].scsi /\ lib'[o].usb_init = lib[o].usb_init
         /\ lib[o].usb_init
              => \A y \in Types : lib'[o].fs[y] # 0 => built'[lib'[o].fs[y]].disc = tray.disc
<1>1. lib[o] \in Lib /\ lib[o].kind # "none" /\ ~lib[o].mounted
  BY DEF MayMount, Inv, Typed
<1>2. CASE UNCHANGED <<lib, heap>>
  <2>1. lib' = lib /\ UNCHANGED heap /\ built' = built
    BY <1>2 DEF heap
  <2>2. \A q \in Objects, y \in Types : Fs(q, y)' = Fs(q, y) /\ Dev(q, y)' = Dev(q, y)
    BY <2>1 DEF Fs, Dev
  <2>3. lib' \in [Objects -> Lib]
    BY <2>1 DEF Inv, Typed
  <2>4. Typed' /\ HeapInv'
    BY <2>1, <2>2, <2>3, SameHeap DEF Inv
  <2>5. Kept(o)
    BY <2>1 DEF Kept
  <2>6. Members' /\ OneDrive'
    BY <2>1 DEF Inv, Members, MembersOf, OneDrive, Only, Fs, Dev
  <2>7. lib[o].usb_init => \A y \in Types : lib'[o].fs[y] = 0
    BY <1>1, <2>1 DEF Inv, Members, MembersOf, Fs
  <2>8. QED BY <2>1, <2>4, <2>5, <2>6, <2>7
<1>3. ASSUME NEW m \in BOOLEAN, NEW type \in Types, NEW name \in Names,
             lib[o].usb_init => m,
             Build(o, [lib[o] EXCEPT !.mounted = m], type, name, tray.disc)
      PROVE  /\ Typed' /\ HeapInv' /\ Members' /\ OneDrive' /\ Kept(o)
             /\ lib'[o].scsi /\ lib'[o].usb_init = lib[o].usb_init
             /\ lib[o].usb_init
                  => \A y \in Types : lib'[o].fs[y] # 0 => built'[lib'[o].fs[y]].disc = tray.disc
  <2> DEFINE members == [lib[o] EXCEPT !.mounted = m]
  <2>1. /\ members \in Lib /\ members.fs = lib[o].fs /\ members.dev = lib[o].dev
        /\ members.kind = lib[o].kind /\ members.scsi = lib[o].scsi
        /\ members.usb_init = lib[o].usb_init /\ members.mounted = m
    BY <1>1 DEF Lib
  <2>2. Build(o, members, type, name, tray.disc)
    BY <1>3
  <2> HIDE DEF members
  <2>3. tray.disc \in Discs \cup {NoDisc}
    BY DEF Inv, WorldTyped
  <2>4. MembersOf(o)
    BY DEF Inv, Members
  <2>5. members.usb_init \/ members.kind = "cue" => \A y \in Types : Fs(o, y) = 0
    BY <1>1, <2>1, <2>4 DEF MembersOf
  <2>6. \A y \in Types : Fs(o, y) # 0 => ~built[Fs(o, y)].sure
    BY <1>1, <2>4 DEF MembersOf
  <2>7. Ready(o, members)
    BY <1>1, <1>3, <2>1, <2>4, <2>5, <2>6 DEF Ready, SamePointers, MembersOf
  <2>8. Typed' /\ HeapInv'
    BY <2>1, <2>2, <2>3, <2>6, <2>7, BuildHeap DEF Inv, Ready
  <2>9. /\ Kept(o) /\ Members'
        /\ lib'[o].scsi = members.scsi /\ lib'[o].usb_init = members.usb_init
        /\ members.usb_init
             => \A y \in Types : lib'[o].fs[y] # 0 => built'[lib'[o].fs[y]].disc = tray.disc
    BY <2>1, <2>2, <2>3, <2>7, BuildMembers, ZenonT(40) DEF Inv
  <2>10. OneDrive'
    BY <2>9, OneDriveKept DEF Inv
  <2>11. QED BY <2>1, <2>8, <2>9, <2>10
<1>4. QED BY <1>2, <1>3, RecogniseEffect

(* A disc says what it is.                                                 *)
LEMMA DiscKnown ==
  ASSUME Inv, tray.disc # NoDisc
  PROVE  /\ tray.disc.profile \in Profiles /\ tray.disc.tracks \in Tracks
         /\ tray.disc.sector16 \in Sectors
<1>1. tray.disc \in Disc
  BY DiscAssumption DEF Inv, WorldTyped
<1>2. QED BY <1>1 DEF Disc

(* After a command has failed, nothing is promised about the tray.         *)
LEMMA Failed == ASSUME Inv, Failing(1)
                PROVE  faults' \in 0..MaxFaults /\ TrayInv'
<1>1. faults' = faults + 1 /\ faults + 1 <= MaxFaults /\ faults \in 0..MaxFaults
  BY DEF Failing, Inv, WorldTyped
<1>2. faults' \in 0..MaxFaults /\ faults' # 0
  BY <1>1, BoundAssumption
<1>3. QED BY <1>2 DEF TrayInv

(* A step that changes neither the objects nor the heap.                   *)
LEMMA Untouched == ASSUME Inv, UNCHANGED <<lib, heap>>
                   PROVE  Typed' /\ HeapInv' /\ Members' /\ OneDrive'
<1>1. lib' = lib /\ UNCHANGED heap /\ built' = built
  BY DEF heap
<1>2. \A q \in Objects, y \in Types : Fs(q, y)' = Fs(q, y) /\ Dev(q, y)' = Dev(q, y)
  BY <1>1 DEF Fs, Dev
<1>3. lib' \in [Objects -> Lib]
  BY <1>1 DEF Inv, Typed
<1>4. Typed' /\ HeapInv'
  BY <1>1, <1>2, <1>3, SameHeap DEF Inv
<1>5. Members' /\ OneDrive'
  BY <1>1 DEF Inv, Members, MembersOf, OneDrive, Only, Fs, Dev
<1>6. QED BY <1>4, <1>5

(* Undefined behaviour ends the program and changes nothing else.          *)
LEMMA CrashKeeps ==
  ASSUME Inv, NEW o \in Objects, MountNowhere(o) \/ CloseUnset(o) PROVE Inv'
<1>1. UNCHANGED <<lib, heap>> /\ tray' = tray /\ faults' = faults /\ crashed' = TRUE
      /\ built' = built /\ lib' = lib
  BY DEF MountNowhere, CloseUnset, heap
<1>2. Typed' /\ HeapInv' /\ Members' /\ OneDrive'
  BY <1>1, Untouched
<1>3. WorldTyped' /\ TrayInv'
  BY <1>1 DEF Inv, WorldTyped, TrayInv, Shown, Fs
<1>4. QED BY <1>2, <1>3 DEF Inv

LEMMA MountDiscKeeps == ASSUME Inv, NEW o \in Objects, MountDisc(o) PROVE Inv'
<1> DEFINE d == tray.disc
<1>1. /\ MayMount(o) /\ lib[o].scsi /\ tray.disc # NoDisc
      /\ Recognise(o, tray.disc.profile, tray.disc.tracks, tray.disc.sector16)
      /\ tray' = [tray EXCEPT !.locked = TRUE]
      /\ crashed' = crashed /\ faults' = faults
  BY DEF MountDisc, Prevent
<1>2. /\ Typed' /\ HeapInv' /\ Members' /\ OneDrive' /\ Kept(o)
      /\ lib'[o].scsi /\ lib'[o].usb_init = lib[o].usb_init
      /\ lib[o].usb_init
           => \A y \in Types : lib'[o].fs[y] # 0 => built'[lib'[o].fs[y]].disc = tray.disc
  BY <1>1, DiscKnown, MountKeeps
<1>3. tray' \in [disc : Discs \cup {NoDisc}, locked : BOOLEAN]
      /\ tray'.disc = tray.disc /\ tray'.locked = TRUE
  BY <1>1 DEF Inv, WorldTyped
<1>4. WorldTyped'
  BY <1>1, <1>3 DEF Inv, WorldTyped
<1>5. TrayInv'
  <2> SUFFICES ASSUME faults = 0 PROVE \A p \in Objects : Shown(p)'
    BY <1>1, <1>2 DEF TrayInv
  <2> TAKE p \in Objects
  <2>1. CASE p = o
    <3>1. lib[o].usb_init
      BY <1>1 DEF Inv, TrayInv, Shown
    <3>2. QED BY <1>1, <1>2, <1>3, <2>1, <3>1 DEF Shown, Fs
  <2>2. CASE p # o
    <3>1. ~lib'[p].scsi
      BY <1>2, <2>2 DEF OneDrive
    <3>2. QED BY <3>1 DEF Shown
  <2>3. QED BY <2>1, <2>2
<1>6. QED BY <1>2, <1>4, <1>5 DEF Inv

LEMMA MountDiscFailingKeeps == ASSUME Inv, NEW o \in Objects, MountDiscFailing(o) PROVE Inv'
<1>1. MayMount(o) /\ lib[o].scsi /\ Failing(1)
  BY DEF MountDiscFailing
<1>2. tray \in [disc : Discs \cup {NoDisc}, locked : BOOLEAN] /\ crashed \in BOOLEAN
  BY DEF Inv, WorldTyped
<1>3. "unknown" \in Profiles
  BY DEF Profiles
<1>4. /\ \/ UNCHANGED <<lib, heap>>
         \/ \E p \in Profiles, t \in Tracks, s \in Sectors : Recognise(o, p, t, s)
      /\ tray' = tray \/ tray' = [tray EXCEPT !.locked = TRUE]
      /\ crashed' \in BOOLEAN
  <2>1. CASE tray.disc = NoDisc
    BY <1>2, <2>1 DEF MountDiscFailing, Prevent
  <2>2. CASE tray.disc # NoDisc
    <3>1. /\ tray.disc.profile \in Profiles /\ tray.disc.tracks \in Tracks
          /\ tray.disc.sector16 \in Sectors
      BY <2>2, DiscKnown
    <3> DEFINE d == tray.disc
    <3>2. CASE Recognise(o, "unknown", d.tracks, d.sector16) /\ crashed' = crashed
               /\ tray' = [tray EXCEPT !.locked = TRUE]
      BY <1>2, <1>3, <3>1, <3>2
    <3>3. CASE Recognise(o, d.profile, d.tracks, d.sector16) /\ crashed' = crashed
               /\ tray' = tray
      BY <1>2, <3>1, <3>3
    <3>4. CASE UNCHANGED <<lib, heap>> /\ crashed' \in BOOLEAN
               /\ tray' = [tray EXCEPT !.locked = TRUE]
      BY <3>4
    <3>5. CASE (\E s \in Sectors : Recognise(o, d.profile, d.tracks, s))
               /\ crashed' = crashed /\ tray' = [tray EXCEPT !.locked = TRUE]
      BY <1>2, <3>1, <3>5
    <3>6. QED BY <2>2, <3>2, <3>3, <3>4, <3>5 DEF MountDiscFailing, Prevent
  <2>3. QED BY <2>1, <2>2
<1>5. Typed' /\ HeapInv' /\ Members' /\ OneDrive'
  <2>1. CASE UNCHANGED <<lib, heap>>
    BY <2>1, Untouched
  <2>2. CASE \E p \in Profiles, t \in Tracks, s \in Sectors : Recognise(o, p, t, s)
    BY <1>1, <2>2, MountKeeps
  <2>3. QED BY <1>4, <2>1, <2>2
<1>6. tray' \in [disc : Discs \cup {NoDisc}, locked : BOOLEAN]
  BY <1>2, <1>4
<1>7. WorldTyped' /\ TrayInv'
  BY <1>1, <1>4, <1>6, Failed DEF WorldTyped
<1>8. QED BY <1>5, <1>7 DEF Inv

(* Eject and the destructor: after deleting what the object points to, it  *)
(* has no pointers and nothing mounted.                                    *)
LEMMA Deleted ==
  ASSUME NEW o \in Objects, NEW l \in Lib, Inv, Delete(o), lib' = [lib EXCEPT ![o] = l],
         l.fs = NoPointers, l.dev = NoPointers, ~l.mounted,
         l.scsi => l.kind = "drive", l.usb_init => l.scsi
  PROVE  Typed' /\ HeapInv' /\ Members' /\ Kept(o) /\ lib'[o] = l
<1>1. /\ lib' \in [Objects -> Lib] /\ lib'[o] = l
      /\ \A p \in Objects \ {o} : lib'[p] = lib[p]
  BY DEF Inv, Typed
<1>2. \A y \in Types : lib'[o].fs[y] = 0 /\ lib'[o].dev[y] = 0
  BY <1>1 DEF NoPointers
<1>3. Emptied(o)
  BY <1>1, <1>2 DEF Emptied, Fs, Dev
<1>4. Typed' /\ HeapInv'
  BY <1>1, <1>3, DeleteHeap DEF Inv
<1>5. Kept(o)
  <2> SUFFICES ASSUME NEW p \in Objects \ {o}, NEW y \in Types, Fs(p, y) # 0
               PROVE  built'[Fs(p, y)] = built[Fs(p, y)]
    BY <1>1 DEF Kept
  <2>1. Fs(p, y)' = Fs(p, y)
    BY <1>1 DEF Fs
  <2>2. Fs(p, y) \in liveFs'
    BY <1>4, <2>1 DEF HeapInv, Pointed
  <2>3. Shrunk(o)
    BY DeleteEffect DEF Inv
  <2>4. QED BY <2>2, <2>3 DEF Shrunk
<1>6. MembersOf(o)'
  BY <1>1, <1>2 DEF MembersOf, Fs
<1>7. Members'
  <2>1. \A p \in Objects \ {o} : MembersOf(p)'
    BY <1>5, OthersMembers DEF Inv, HeapInv
  <2>2. QED BY <1>6, <2>1 DEF Members
<1>8. QED BY <1>1, <1>4, <1>5, <1>7

LEMMA EjectKeeps == ASSUME Inv, NEW o \in Objects, Eject(o) PROVE Inv'
<1> DEFINE l == Ejected(o)
<1>1. lib[o] \in Lib
  BY DEF Inv, Typed
<1>2. /\ l \in Lib /\ l.fs = NoPointers /\ l.dev = NoPointers /\ l.mounted = FALSE
      /\ l.kind = lib[o].kind /\ l.scsi = lib[o].scsi /\ l.usb_init = lib[o].usb_init
  <2>1. NoPointers \in [Types -> Nat]
    BY DEF NoPointers
  <2>2. QED BY <1>1, <2>1 DEF Ejected, Lib
<1>3. lib[o].scsi /\ Delete(o) /\ lib' = [lib EXCEPT ![o] = l] /\ crashed' = crashed
  BY DEF Eject
<1> HIDE DEF l
<1>4. MembersOf(o)
  BY DEF Inv, Members
<1>5. Typed' /\ HeapInv' /\ Members' /\ Kept(o) /\ lib'[o] = l
  BY <1>2, <1>3, <1>4, Deleted DEF MembersOf
<1>6. OneDrive'
  BY <1>2, <1>5, OneDriveKept DEF Inv
<1>7. tray \in [disc : Discs \cup {NoDisc}, locked : BOOLEAN] /\ crashed \in BOOLEAN
      /\ faults \in 0..MaxFaults
  BY DEF Inv, WorldTyped
<1>8. tray' \in [disc : Discs \cup {NoDisc}, locked : BOOLEAN]
  <2>1. \/ tray' = [disc |-> NoDisc, locked |-> FALSE]
        \/ tray' = tray
        \/ tray' = [tray EXCEPT !.locked = FALSE]
    BY DEF Eject
  <2>2. NoDisc \in Discs \cup {NoDisc}
    OBVIOUS
  <2>3. [disc |-> NoDisc, locked |-> FALSE] \in [disc : Discs \cup {NoDisc}, locked : BOOLEAN]
    BY <2>2, Zenon
  <2>4. [tray EXCEPT !.locked = FALSE] \in [disc : Discs \cup {NoDisc}, locked : BOOLEAN]
    BY <1>7
  <2>5. QED BY <1>7, <2>1, <2>3, <2>4
<1>9. faults' \in 0..MaxFaults /\ TrayInv'
  <2>1. CASE Failing(1)
    BY <2>1, Failed
  <2>2. CASE faults' = faults
    <3> SUFFICES ASSUME faults = 0 PROVE TrayInv'
      BY <1>7, <2>2 DEF TrayInv
    <3>1. ASSUME NEW p \in Objects PROVE Shown(p)'
      <4>1. CASE p = o
        <5>1. lib[o].usb_init
          BY <1>3 DEF Inv, TrayInv, Shown
        <5>2. QED BY <1>2, <1>5, <4>1, <5>1 DEF Shown
      <4>2. CASE p # o
        <5>1. ~lib'[p].scsi
          BY <1>2, <1>3, <1>5, <1>6, <4>2 DEF OneDrive
        <5>2. QED BY <5>1 DEF Shown
      <4>3. QED BY <4>1, <4>2
    <3>2. lib'[o].scsi
      BY <1>2, <1>3, <1>5
    <3>3. QED BY <3>1, <3>2 DEF TrayInv
  <2>3. QED BY <2>1, <2>2 DEF Eject
<1>10. QED BY <1>3, <1>5, <1>6, <1>7, <1>8, <1>9 DEF Inv, WorldTyped

LEMMA DestroyKeeps == ASSUME Inv, NEW o \in Objects, Destroy(o) PROVE Inv'
<1>1. /\ NoLib \in Lib /\ NoLib.fs = NoPointers /\ NoLib.dev = NoPointers
      /\ NoLib.mounted = FALSE /\ NoLib.scsi = FALSE /\ NoLib.usb_init = FALSE
  <2>1. NoPointers \in [Types -> Nat]
    BY DEF NoPointers
  <2>2. QED BY <2>1 DEF NoLib, Lib
<1>2. Delete(o) /\ lib' = [lib EXCEPT ![o] = NoLib] /\ crashed' = crashed
  BY DEF Destroy
<1>3. Typed' /\ HeapInv' /\ Members' /\ Kept(o) /\ lib'[o] = NoLib
  BY <1>1, <1>2, Deleted
<1>4. OneDrive'
  BY <1>1, <1>3, OneDriveKept DEF Inv
<1>5. /\ tray \in [disc : Discs \cup {NoDisc}, locked : BOOLEAN] /\ crashed \in BOOLEAN
      /\ faults \in 0..MaxFaults /\ lib[o].scsi \in BOOLEAN
  BY DEF Inv, Typed, WorldTyped, Lib
<1>6. \/ /\ tray' = [tray EXCEPT !.locked = tray.locked /\ ~lib[o].scsi]
         /\ faults' = faults
      \/ tray' = tray /\ Failing(1)
  BY DEF Destroy, Releases
<1>7. tray' \in [disc : Discs \cup {NoDisc}, locked : BOOLEAN]
  <2>1. (tray.locked /\ ~lib[o].scsi) \in BOOLEAN
    OBVIOUS
  <2>2. QED BY <1>5, <1>6, <2>1
<1>8. faults' \in 0..MaxFaults /\ TrayInv'
  <2>1. CASE Failing(1)
    BY <2>1, Failed
  <2>2. CASE /\ tray' = [tray EXCEPT !.locked = tray.locked /\ ~lib[o].scsi]
             /\ faults' = faults
    <3>1. CASE lib[o].scsi
      <4>1. tray'.locked = FALSE
        BY <1>5, <2>2, <3>1
      <4>2. \A p \in Objects : ~lib'[p].scsi
        BY <1>1, <1>3, <3>1 DEF Inv, OneDrive, Kept
      <4>3. QED BY <1>5, <2>2, <4>1, <4>2 DEF TrayInv, Shown
    <3>2. CASE ~lib[o].scsi
      <4>1. (tray.locked /\ ~lib[o].scsi) = tray.locked
        BY <1>5, <3>2
      <4>2. tray' = tray
        BY <1>5, <2>2, <4>1
      <4>3. QED BY <1>1, <1>3, <1>5, <2>2, <3>2, <4>2, TrayKept DEF Inv
    <3>3. QED BY <3>1, <3>2
  <2>3. QED BY <1>6, <2>1, <2>2
<1>9. QED BY <1>2, <1>3, <1>4, <1>5, <1>7, <1>8 DEF Inv, WorldTyped

(* The user changes the disc only when nothing is mounted from it.         *)
LEMMA UserKeeps == ASSUME Inv, Insert \/ TakeOut PROVE Inv'
<1>1. /\ UNCHANGED <<lib, heap>> /\ lib' = lib /\ built' = built
      /\ crashed' = crashed /\ faults' = faults
      /\ tray.disc = NoDisc \/ ~tray.locked
      /\ \E d \in Discs \cup {NoDisc} : tray' = [tray EXCEPT !.disc = d]
  BY DEF Insert, TakeOut, heap
<1>2. tray \in [disc : Discs \cup {NoDisc}, locked : BOOLEAN]
  BY DEF Inv, WorldTyped
<1>3. tray' \in [disc : Discs \cup {NoDisc}, locked : BOOLEAN] /\ tray'.locked = tray.locked
  BY <1>1, <1>2
<1>4. Typed' /\ HeapInv' /\ Members' /\ OneDrive'
  BY <1>1, Untouched
<1>5. TrayInv'
  <2> SUFFICES ASSUME faults = 0
               PROVE  /\ \A p \in Objects : Shown(p)'
                      /\ tray'.locked => \E p \in Objects : lib'[p].scsi
    BY <1>1 DEF TrayInv
  <2>1. \A p \in Objects : Shown(p)
    BY DEF Inv, TrayInv
  <2>2. \A p \in Objects : lib[p].scsi => lib[p].usb_init /\ ~lib[p].mounted
    BY <1>1, <2>1 DEF Shown
  <2>3. \A p \in Objects : Shown(p)'
    BY <1>1, <2>2 DEF Shown
  <2>4. tray'.locked => \E p \in Objects : lib'[p].scsi
    BY <1>1, <1>3 DEF Inv, TrayInv
  <2>5. QED BY <2>3, <2>4
<1>6. QED BY <1>1, <1>3, <1>4, <1>5 DEF Inv, WorldTyped

LEMMA InitInv == Init => Inv
<1> SUFFICES ASSUME Init PROVE Inv
  OBVIOUS
<1>1. NoPointers \in [Types -> Nat]
  BY DEF NoPointers
<1>2. /\ NoLib \in Lib /\ NoLib.kind = "none" /\ NoLib.fs = NoPointers /\ NoLib.dev = NoPointers
      /\ NoLib.mounted = FALSE /\ NoLib.scsi = FALSE /\ NoLib.usb_init = FALSE
  BY <1>1 DEF NoLib, Lib
<1>3. \A o \in Objects : lib[o] = NoLib
  BY DEF Init
<1>4. Typed
  BY <1>2 DEF Init, Typed
<1>5. WorldTyped
  <2>1. [disc |-> NoDisc, locked |-> FALSE] \in [disc : Discs \cup {NoDisc}, locked : BOOLEAN]
    <3>1. NoDisc \in Discs \cup {NoDisc}
      OBVIOUS
    <3>2. QED BY <3>1, Zenon
  <2>2. crashed \in BOOLEAN
    BY DEF Init
  <2>3. faults \in 0..MaxFaults
    <3>1. MaxFaults \in Nat
      BY BoundAssumption
    <3>2. faults = 0
      BY DEF Init
    <3>3. QED BY <3>1, <3>2
  <2>4. QED BY <2>1, <2>2, <2>3 DEF Init, WorldTyped
<1>6. \A o \in Objects, y \in Types : Fs(o, y) = 0 /\ Dev(o, y) = 0
  BY <1>2, <1>3 DEF Fs, Dev, NoPointers
<1>7. HeapInv
  BY <1>6 DEF Init, HeapInv, Filled, Pointed, Distinct, Listed, Uncontested, Owned
<1>8. Members
  BY <1>2, <1>3, <1>6 DEF Members, MembersOf
<1>9. OneDrive /\ TrayInv
  BY <1>2, <1>3 DEF Init, OneDrive, TrayInv, Shown
<1>10. QED BY <1>4, <1>5, <1>7, <1>8, <1>9 DEF Inv

LEMMA NextInv == Inv /\ [Next]_vars => Inv'
<1> SUFFICES ASSUME Inv, [Next]_vars PROVE Inv'
  OBVIOUS
<1>1. CASE Insert \/ TakeOut
  BY <1>1, UserKeeps
<1>2. ASSUME NEW o \in Objects, InitDrive(o) PROVE Inv'
  BY <1>2, InitDriveKeeps
<1>3. ASSUME NEW o \in Objects, InitImage(o) PROVE Inv'
  BY <1>3, InitImageKeeps
<1>4. ASSUME NEW o \in Objects, InitCue(o) PROVE Inv'
  BY <1>4, InitCueKeeps
<1>5. ASSUME NEW o \in Objects, MountNowhere(o) PROVE Inv'
  BY <1>5, CrashKeeps
<1>6. ASSUME NEW o \in Objects, MountDisc(o) PROVE Inv'
  BY <1>6, MountDiscKeeps
<1>7. ASSUME NEW o \in Objects, MountDiscFailing(o) PROVE Inv'
  BY <1>7, MountDiscFailingKeeps
<1>8. ASSUME NEW o \in Objects, Eject(o) PROVE Inv'
  BY <1>8, EjectKeeps
<1>9. ASSUME NEW o \in Objects, Destroy(o) PROVE Inv'
  BY <1>9, DestroyKeeps
<1>10. ASSUME NEW o \in Objects, CloseUnset(o) PROVE Inv'
  BY <1>10, CrashKeeps
<1>11. CASE UNCHANGED vars
  <2>1. /\ UNCHANGED <<lib, heap>> /\ lib' = lib /\ built' = built /\ tray' = tray
        /\ crashed' = crashed /\ faults' = faults
    BY <1>11 DEF vars, heap
  <2>2. Typed' /\ HeapInv' /\ Members' /\ OneDrive'
    BY <2>1, Untouched
  <2>3. WorldTyped' /\ TrayInv'
    BY <2>1 DEF Inv, WorldTyped, TrayInv, Shown, Fs
  <2>4. QED BY <2>2, <2>3 DEF Inv
<1>12. QED BY <1>1, <1>2, <1>3, <1>4, <1>5, <1>6, <1>7, <1>8, <1>9, <1>10, <1>11 DEF Next

(* The invariant holds of every behaviour of the facade.                   *)
THEOREM Invariant == Spec => []Inv
  BY InitInv, NextInv, PTL DEF Spec

-----------------------------------------------------------------------------
(* The properties *)

(* The members, pointers and slots of the facade keep their types, and a   *)
(* pointer of any object leads to a file system that exists.               *)
THEOREM TypeCorrect == Spec => []TypeOK
<1>1. Inv => TypeOK
  <2> SUFFICES ASSUME Inv PROVE TypeOK
    OBVIOUS
  <2>1. \A o \in Objects : Pointers(lib[o].fs) \cup Pointers(lib[o].dev) \subseteq liveFs
    BY DEF Inv, Typed, HeapInv, Pointed, Pointers, Fs, Dev
  <2>2. QED BY <2>1 DEF Inv, Typed, WorldTyped, TypeOK
<1>2. QED BY <1>1, Invariant, PTL

(* register_fs, unregister_fs: a name in the device table never leads to a *)
(* device that was deleted, however the names of objects collide.          *)
THEOREM RegisteredLives == Spec => []RegisteredLive
<1>1. Inv => RegisteredLive
  BY DEF Inv, Typed, HeapInv, Listed, RegisteredLive
<1>2. QED BY <1>1, Invariant, PTL

(* MountDisc and the cue sheet constructor: a mounted object has one       *)
(* device, and its mount point leads there unless the name was contested.  *)
THEOREM MountedReachable == Spec => []Reachable
<1>1. Inv => Reachable
  <2> SUFFICES ASSUME Inv, NEW o \in Objects, lib[o].mounted,
                      lib[o].usb_init \/ lib[o].kind = "cue"
               PROVE  \E i \in Pointers(lib[o].dev) :
                        /\ Pointers(lib[o].dev) = {i} /\ Pointers(lib[o].fs) = {i}
                        /\ built[i].name = lib[o].mountpoint
                        /\ registered[lib[o].mountpoint] # i => built[i].contested
    BY DEF Reachable
  <2>1. PICK y \in Types : Only(o, y)
    BY DEF Inv, Members, MembersOf
  <2>2. /\ Dev(o, y) # 0 /\ Fs(o, y) = Dev(o, y) /\ Dev(o, y) \in liveDev
        /\ \A z \in Types \ {y} : Fs(o, z) = 0 /\ Dev(o, z) = 0
        /\ built[Dev(o, y)].name = lib[o].mountpoint
    BY <2>1 DEF Only, Inv, HeapInv, Pointed
  <2>3. Pointers(lib[o].dev) = {Dev(o, y)} /\ Pointers(lib[o].fs) = {Dev(o, y)}
    BY <2>2 DEF Pointers, Fs, Dev
  <2>4. registered[built[Dev(o, y)].name] # Dev(o, y) => built[Dev(o, y)].contested
    BY <2>2 DEF Inv, HeapInv, Uncontested
  <2>5. QED BY <2>2, <2>3, <2>4
<1>2. QED BY <1>1, Invariant, PTL

(* MountDisc, Eject and the tray: what a drive shows as mounted is the     *)
(* disc in it.                                                             *)
THEOREM DiscCurrent == Spec => []Current
<1>1. Inv => Current
  BY DEF Inv, TrayInv, Shown, Current, Pointers, Fs
<1>2. QED BY <1>1, Invariant, PTL

(* MountDisc, Eject and the destructor lose no file system or device.      *)
THEOREM NothingLost == Spec => []NoLeak
<1>1. Inv => NoLeak
  <2> SUFFICES ASSUME Inv, NEW i \in liveFs \cup liveDev, built[i].sure
               PROVE  /\ i \in liveFs => i \in Pointers(lib[built[i].owner].fs)
                      /\ i \in liveDev => i \in Pointers(lib[built[i].owner].dev)
    BY DEF NoLeak
  <2>1. i \in liveFs /\ i # 0 /\ built[i].owner \in Objects
    BY BoundAssumption DEF Inv, Typed, Slots, HeapInv, Filled, Built
  <2>2. PICK y \in Types : lib[built[i].owner].fs[y] = i
    BY <2>1 DEF Inv, HeapInv, Owned, Fs
  <2>3. i \in liveDev => lib[built[i].owner].dev[y] = i
    BY <2>1, <2>2 DEF Inv, HeapInv, Pointed, Fs, Dev
  <2>4. QED BY <2>1, <2>2, <2>3 DEF Pointers
<1>2. QED BY <1>1, Invariant, PTL

(* The destructor unlocks the tray: a locked tray is some object's.        *)
THEOREM TrayIsReleased == Spec => []TrayReleased
<1>1. Inv => TrayReleased
  BY DEF Inv, TrayInv, TrayReleased
<1>2. QED BY <1>1, Invariant, PTL

=============================================================================
