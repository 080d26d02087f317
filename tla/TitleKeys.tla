------------------------------ MODULE TitleKeys ------------------------------
(***************************************************************************)
(* The title keys of a mounted CSS disc: MountDisc's search for them       *)
(* (usbdvd.cpp), DVDGetAllCSSKeys (fs/usbdvd_datadisc.cpp), CrackTitleKey  *)
(* (usbdvd_scsi.cpp) and the cache file that keeps them between mounts     *)
(* (CSS/usbdvd_csscache.cpp).                                              *)
(*                                                                         *)
(* A file is descrambled with the key at its title's number in titlekeys,  *)
(* but keys are stored in the order in which they were found, and the      *)
(* cache keeps that order and no numbers.                                  *)
(***************************************************************************)
EXTENDS Integers, Sequences, FiniteSets

CONSTANTS
  Discs,        \* the discs a user has
  Hash,         \* disc_hash of each
  HasCss,       \* the discs with CSS
  Blocks,       \* of each disc, its blocks from the first VOB's on, from 1
  Vob,          \* of each disc, the VOBs at <<title, part>>: [lba, size]
  SectorSize,   \* bytes in a block
  MaxClear,     \* CrackTitleKey gives up after so many blocks in the clear
  NoDisc,
  MaxFaults     \* bound on the searches that fail by a failing command

KeyLen == 5
Key    == [1..KeyLen -> 0..255]
NoKey  == [i \in 1..KeyLen |-> 0]

\* A byte is two digits, a key ten.
KeyDigits == 10

\* Titles 0 to 9 are searched for keys.
Searched == 10
Parts    == {0, 1}

(* A block is in the clear, scrambled so that its pattern gives the key    *)
(* away ("weak") or not ("tough"), or no MPEG block at all ("other").      *)
Block == [text : {"clear", "weak", "tough", "other"}, key : Key]
File  == [lba : Nat \ {0}, size : Nat \ {0}]

ASSUME DiscAssumption ==
  /\ NoDisc \notin Discs /\ HasCss \subseteq Discs /\ DOMAIN Hash = Discs
  /\ \A d \in Discs : /\ Blocks[d] \in Seq(Block)
                      /\ DOMAIN Vob[d] \subseteq (Nat \X Parts) \ {<<0, 1>>}
                      /\ \A v \in DOMAIN Vob[d] : Vob[d][v] \in File
ASSUME BoundAssumption == SectorSize \in Nat \ {0} /\ {MaxClear, MaxFaults} \subseteq Nat

VARIABLES
  cache,      \* the cache file's lines, without its comment
  pc,         \* where MountDisc is
  disc,       \* the disc in the drive
  css,        \* DVD_CSS
  title,      \* the title whose key is searched for
  titlekeys,
  clean,      \* no command failed in the search that found titlekeys
  of,         \* the disc it searched
  faults

vars == <<cache, pc, disc, css, title, titlekeys, clean, of, faults>>

-----------------------------------------------------------------------------
(* CrackTitleKey *)

(* The n-th block of a search from file f on: the file's size, in bytes,   *)
(* is taken for its length in blocks, so a search runs past its end.       *)
Exists(d, f, n) == f.lba + n - 1 \in DOMAIN Blocks[d]
Nth(d, f, n)    == Blocks[d][f.lba + n - 1]
Scrambled(b)    == b.text \in {"weak", "tough"}

\* The search ends with the n-th block.
Ends(d, f, n) ==
  \/ ~Exists(d, f, n)
  \/ Nth(d, f, n).text \in {"other", "weak"}
  \/ n >= f.size
  \/ n >= MaxClear /\ \A i \in 1..n : ~Scrambled(Nth(d, f, i))

Length(d, f) == CHOOSE n \in 1 .. Len(Blocks[d]) + 1 :
  Ends(d, f, n) /\ \A m \in 1..n-1 : ~Ends(d, f, m)

(* What CrackTitleKey finds, if no command fails: a key, which is NoKey if *)
(* there was nothing but clear blocks, or nothing.                         *)
Crack(d, f) ==
  LET n    == Length(d, f)
      Read == {i \in 1..n : Exists(d, f, i) /\ Nth(d, f, i).text # "other"}
  IN  IF ~Exists(d, f, n) THEN <<>>
      ELSE IF Nth(d, f, n).text = "weak" THEN <<Nth(d, f, n).key>>
      ELSE IF Read # {} /\ \A i \in Read : ~Scrambled(Nth(d, f, i)) THEN <<NoKey>>
      ELSE <<>>

-----------------------------------------------------------------------------
(* The cache file *)

\* A bug: the high digit is the whole byte.
HexOfBytes(keys) ==
  [n \in 1 .. KeyDigits * Len(keys) |->
     keys[1 + (n - 1) \div KeyDigits][1 + ((n - 1) % KeyDigits) \div 2]]

\* keyToHexString: two digits for each byte, ten for each key, in a row.
HexOf(keys) ==
  [n \in 1 .. KeyDigits * Len(keys) |->
     LET byte == keys[1 + (n - 1) \div KeyDigits]
                     [1 + ((n - 1) % KeyDigits) \div 2]
     IN  IF n % 2 = 1 THEN byte \div 16 ELSE byte % 16]

\* A bug: the digits of a byte are taken in the wrong order.
KeysOfSwapped(hex) ==
  [k \in 1 .. Len(hex) \div KeyDigits |->
     [b \in 1..KeyLen |-> LET p == (k - 1) * KeyDigits + (b - 1) * 2
                          IN  hex[p + 1] + 16 * hex[p + 2]]]

\* hexStringToKeys.
KeysOf(hex) ==
  IF Len(hex) % KeyDigits # 0 THEN <<>>
  ELSE [k \in 1 .. Len(hex) \div KeyDigits |->
          [b \in 1..KeyLen |-> LET p == (k - 1) * KeyDigits + (b - 1) * 2
                               IN  16 * hex[p + 1] + hex[p + 2]]]

(* A line is a hash and digits.  With them, for the properties only, the   *)
(* keys as they were found, the disc they were found on and whether no     *)
(* command failed then.                                                    *)
Line == [hash : {Hash[d] : d \in Discs}, hex : Seq(0..15),
         keys : Seq(Key), of : Discs, clean : BOOLEAN]

Matches(lines, h) == {i \in DOMAIN lines : lines[i].hash = h}
First(lines, h) ==
  lines[CHOOSE i \in Matches(lines, h) : \A j \in Matches(lines, h) : i <= j]

keyExists(lines, h) == Matches(lines, h) # {}

\* getKey: the digits of the first line with the hash, none if there is no line.
getKey(lines, h) == IF Matches(lines, h) = {} THEN <<>> ELSE First(lines, h).hex

\* A bug: the file is not opened for appending.
Truncated(line) == <<line>>

\* The file with a line more.
Appended(line) == Append(cache, line)

-----------------------------------------------------------------------------
Init ==
  /\ cache = <<>>
  /\ pc = "idle" /\ disc = NoDisc /\ css = FALSE
  /\ title = 0 /\ titlekeys = <<>> /\ clean = TRUE /\ of = NoDisc
  /\ faults = 0

\* The search for one file's key: what the disc gives away, or nothing if a command fails.
Outcome(d, f, keys) ==
  \/ keys = Crack(d, f) /\ UNCHANGED <<clean, faults>>
  \/ keys = <<>> /\ faults < MaxFaults /\ faults' = faults + 1 /\ clean' = FALSE

(* MountDisc has made the file system and asks whether the disc is a CSS   *)
(* disc; if that command fails, the answer is whatever the stack held.     *)
AskProtection(d) ==
  /\ pc = "idle"
  /\ disc' = d
  /\ \/ css' = (d \in HasCss) /\ UNCHANGED faults
     \/ faults < MaxFaults /\ faults' = faults + 1 /\ css' \in BOOLEAN
  /\ pc' = IF css' THEN "lookup" ELSE "mounted"
  /\ UNCHANGED <<cache, title, titlekeys, clean, of>>

\* The cache has a line for the disc: keys in the line's order.
FoundKeys ==
  /\ pc = "lookup" /\ getKey(cache, Hash[disc]) # <<>>
  /\ titlekeys' = titlekeys \o KeysOf(getKey(cache, Hash[disc]))
  /\ clean' = First(cache, Hash[disc]).clean /\ of' = First(cache, Hash[disc]).of
  /\ pc' = "mounted"
  /\ UNCHANGED <<cache, disc, css, title, faults>>

\* No line, an empty one, or the file cannot be opened.
SearchKeys ==
  /\ pc = "lookup"
  /\ \/ getKey(cache, Hash[disc]) = <<>> /\ UNCHANGED faults
     \/ faults < MaxFaults /\ faults' = faults + 1
  /\ pc' = "menu" /\ title' = 0
  /\ of' = disc /\ clean' = TRUE
  /\ UNCHANGED <<cache, disc, css, titlekeys>>

NextTitle ==
  /\ title' = title + 1
  /\ pc' = IF title + 1 < Searched THEN "menu" ELSE "store"

\* VIDEO_TS.VOB for title 0, VTS_nn_0.VOB for the others.
Menu == <<title, 0>>

\* A bug: no place is kept for the key of a VIDEO_TS.VOB that is not there.
ForNoMenuNothing == <<>>

\* What is appended for title 0 when there is no VIDEO_TS.VOB.
ForNoMenu == <<NoKey>>

\* The menu's file is searched; if it gives a key, the title's own is not.
SearchMenu ==
  /\ pc = "menu" /\ Menu \in DOMAIN Vob[disc]
  /\ \E keys \in {<<>>, Crack(disc, Vob[disc][Menu])} :
       /\ Outcome(disc, Vob[disc][Menu], keys)
       /\ titlekeys' = titlekeys \o keys
       /\ IF keys = <<>> /\ title # 0 THEN pc' = "title" /\ UNCHANGED title ELSE NextTitle
  /\ UNCHANGED <<cache, disc, css, of>>

SkipMenu ==
  /\ pc = "menu" /\ Menu \notin DOMAIN Vob[disc]
  /\ IF title = 0
     THEN titlekeys' = titlekeys \o ForNoMenu /\ NextTitle
     ELSE pc' = "title" /\ UNCHANGED <<title, titlekeys>>
  /\ UNCHANGED <<cache, disc, css, clean, of, faults>>

SearchTitle ==
  /\ pc = "title" /\ <<title, 1>> \in DOMAIN Vob[disc]
  /\ \E keys \in {<<>>, Crack(disc, Vob[disc][<<title, 1>>])} :
       /\ Outcome(disc, Vob[disc][<<title, 1>>], keys)
       /\ titlekeys' = titlekeys \o keys
  /\ NextTitle
  /\ UNCHANGED <<cache, disc, css, of>>

SkipTitle ==
  /\ pc = "title" /\ <<title, 1>> \notin DOMAIN Vob[disc]
  /\ NextTitle
  /\ UNCHANGED <<cache, disc, css, titlekeys, clean, of, faults>>

\* addKey: appended unless there is a line for the hash, or the file cannot be opened.
addKey ==
  /\ pc = "store"
  /\ LET line == [hash |-> Hash[disc], hex |-> HexOf(titlekeys),
                  keys |-> titlekeys, of |-> disc, clean |-> clean]
     IN  \/ /\ cache' = IF keyExists(cache, Hash[disc]) THEN cache ELSE Appended(line)
            /\ UNCHANGED faults
         \/ UNCHANGED cache /\ faults < MaxFaults /\ faults' = faults + 1
  /\ pc' = "mounted"
  /\ UNCHANGED <<disc, css, title, titlekeys, clean, of>>

Nothing ==
  /\ pc' = "idle" /\ disc' = NoDisc /\ css' = FALSE
  /\ title' = 0 /\ titlekeys' = <<>> /\ clean' = TRUE /\ of' = NoDisc
  /\ UNCHANGED faults

\* Eject, with the file system and its keys deleted.
Eject == pc = "mounted" /\ Nothing /\ UNCHANGED cache

\* The program ends in the middle of a search, which takes minutes.
Quit == pc \notin {"idle", "mounted"} /\ Nothing /\ UNCHANGED cache

clearCache ==
  /\ pc \in {"idle", "mounted"}
  /\ cache # <<>> /\ cache' = <<>>
  /\ UNCHANGED <<pc, disc, css, title, titlekeys, clean, of, faults>>

Next ==
  \/ \E d \in Discs : AskProtection(d)
  \/ FoundKeys \/ SearchKeys
  \/ SearchMenu \/ SkipMenu \/ SearchTitle \/ SkipTitle
  \/ addKey \/ Eject \/ Quit \/ clearCache

Spec == Init /\ [][Next]_vars

-----------------------------------------------------------------------------
(* Properties *)

TypeOK ==
  /\ cache \in Seq(Line)
  /\ pc \in {"idle", "lookup", "menu", "title", "store", "mounted"}
  /\ disc \in Discs \cup {NoDisc} /\ (disc = NoDisc <=> pc = "idle")
  /\ css \in BOOLEAN /\ title \in 0..Searched
  /\ titlekeys \in Seq(Key)
  /\ clean \in BOOLEAN /\ of \in Discs \cup {NoDisc}
  /\ faults \in 0..MaxFaults

\* The blocks of a title, whatever CrackTitleKey makes of them.
BlocksOf(d, t) ==
  {i \in DOMAIN Blocks[d] : \E p \in Parts :
     /\ <<t, p>> \in DOMAIN Vob[d]
     /\ i \in Vob[d][<<t, p>>].lba ..
              Vob[d][<<t, p>>].lba + (Vob[d][<<t, p>>].size - 1) \div SectorSize}
Titles(d)     == {v[1] : v \in DOMAIN Vob[d]}
Protected(d, t) == {i \in BlocksOf(d, t) : Scrambled(Blocks[d][i])}

(* The VOB of title t that is searched first leads to a weak block of the  *)
(* title through nothing but blocks of the title, soon enough, or the      *)
(* title is not protected and holds nothing but its own blocks in the      *)
(* clear up to a block that ends a search.                                 *)
FirstVob(d, t) == IF <<t, 0>> \in DOMAIN Vob[d] THEN Vob[d][<<t, 0>>] ELSE Vob[d][<<t, 1>>]
Yields(d, t) == LET f == FirstVob(d, t) IN
  \E last \in DOMAIN Blocks[d] :
     /\ f.lba <= last /\ last < f.lba + f.size
     /\ \A i \in f.lba .. last - 1 : i \in BlocksOf(d, t) /\ Blocks[d][i].text \in {"clear", "tough"}
     /\ \/ /\ last \in BlocksOf(d, t) /\ Blocks[d][last].text = "weak"
           /\ last - f.lba < MaxClear
        \/ /\ Protected(d, t) = {} /\ f.lba < last
           /\ Blocks[d][last].text = "other"

(* A disc as discs are mastered: titles numbered without a gap, one key to *)
(* a title, and every title gives its key away.                            *)
Regular(d) ==
  /\ \A t \in Titles(d) : 1..t \subseteq Titles(d)
  /\ \A t \in Titles(d) : Yields(d, t)
  /\ \A t \in Titles(d) : \A i, j \in Protected(d, t) : Blocks[d][i].key = Blocks[d][j].key

\* The keys in use were found on this disc, by a search in which no command failed.
Trusted == pc = "mounted" /\ css /\ of = disc /\ clean

(* Every protected title that is searched for has its own key at its       *)
(* number, whether the keys were just found or come from the cache: on     *)
(* every regular disc, although neither the search nor the cache notes     *)
(* the number.                                                             *)
Placed(d, keys) ==
  \A t \in Titles(d) \cap 0 .. Searched - 1 : \A i \in Protected(d, t) :
     t + 1 \in DOMAIN keys /\ keys[t + 1] = Blocks[d][i].key
InPlace == Trusted => Placed(disc, titlekeys) \/ ~Regular(disc)

(* What a mount takes from the cache is what an earlier mount found, key   *)
(* for key: no key is lost, merged or changed on the way through the file. *)
Faithful == \A i \in DOMAIN cache : KeysOf(cache[i].hex) = cache[i].keys

(* The cache has one line for a hash, although a disc none of whose titles *)
(* gave its key away is stored as an empty line, not found by getKey and   *)
(* searched again on each mount.                                           *)
OneLine == \A i, j \in DOMAIN cache : cache[i].hash = cache[j].hash => i = j

(* What is known of a disc stays known, and stays the same, until the      *)
(* cache is cleared: no later mount, of this disc or of another, changes   *)
(* what the next mount will find.                                          *)
KnownStays == [][
  cache' # <<>> => \A d \in Discs : keyExists(cache, Hash[d]) =>
                     /\ keyExists(cache', Hash[d])
                     /\ getKey(cache', Hash[d]) = getKey(cache, Hash[d])]_vars

=============================================================================
