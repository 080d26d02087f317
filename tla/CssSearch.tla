------------------------------ MODULE CssSearch ------------------------------
(***************************************************************************)
(* The search for title keys block by block, each block behind an          *)
(* authentication of its own (CrackTitleKey, usbdvd_scsi.cpp), and after   *)
(* the mount the reads of VOB files, behind an authentication whenever the *)
(* title changes (iso9660fs_read, fs/iso9660/iso9660_devoptab.cpp).        *)
(*                                                                         *)
(* TitleKeys takes a search for a file's key as one step that finds what   *)
(* the disc gives away or fails.  Here it is the loop of the code over a   *)
(* drive that refuses scrambled blocks to who is not authenticated; that   *)
(* the loop amounts to the step is the property Searches.                  *)
(***************************************************************************)
EXTENDS TitleKeys, CssAuth

CONSTANT MaxMounts   \* bound on the mounts

(* One mount has at most 22 commands and file accesses that may fail with  *)
(* an effect on the keys: the question for CSS, the look into the cache, a *)
(* search for title 0, two for each other title, and the store.            *)
ASSUME MountAssumption == MaxMounts \in Nat /\ MaxFaults >= 22 * MaxMounts

\* A disc without CSS holds nothing scrambled.
ASSUME PlainAssumption == \A d \in Discs \ HasCss : \A i \in DOMAIN Blocks[d] : ~Scrambled(Blocks[d][i])

NoTitle == -1

VARIABLES
  at,        \* the block of the file CrackTitleKey is at, 0 outside of it
  encrypted, \* i_encrypted > 0
  loaded,    \* the disc in the drive, mounted or not
  idx,       \* currenttitlekey_idx
  reading,   \* the title whose VOB is being read
  mounts,
  lent,      \* idx was put in force by a caching pass, not by a read
  relies,    \* the read under way is not authenticated because of that
  refused    \* the drive refused a block, and not because of that

search  == <<at, encrypted>>
reader  == <<idx, reading, lent, relies, refused>>
medium  == <<loaded, mounts>>
allvars == <<vars, authvars, search, reader, medium>>

SearchInit ==
  /\ Init /\ AuthInit
  /\ at = 0 /\ encrypted = FALSE /\ loaded = NoDisc /\ mounts = 0
  /\ idx = NoTitle /\ reading = NoTitle
  /\ lent = FALSE /\ relies = FALSE /\ refused = FALSE

\* A failing call of a step of TitleKeys is one of those that may fail.
Counted == IF faults' = faults THEN UNCHANGED failures ELSE Failed

-----------------------------------------------------------------------------
(* MountDisc around the search *)

(* A disc is put in, or found in the drive where another run of the        *)
(* program left it; commands before this one got over a waiting drive.     *)
Mount(d) ==
  /\ mounts < MaxMounts /\ mounts' = mounts + 1
  /\ AskProtection(d) /\ Counted
  /\ loaded' = d
  /\ IF d = loaded
     THEN taken' = taken \ pending /\ pending' = {} /\ UNCHANGED <<asf, slips>>
     ELSE DriveReset
  /\ UNCHANGED <<auth, mine, search, reader>>

UseCache == FoundKeys /\ UNCHANGED <<authvars, search, reader, medium>>

Around(step) ==
  /\ step /\ Counted
  /\ UNCHANGED <<auth, mine, drive, slips, search, reader, medium>>
NoCache   == Around(SearchKeys)
NoMenuVob == Around(SkipMenu)
NoVob     == Around(SkipTitle)
StoreKeys == Around(addKey)

Forget ==
  /\ auth' = "idle" /\ mine' = {} /\ at' = 0 /\ encrypted' = FALSE
  /\ idx' = NoTitle /\ reading' = NoTitle
  /\ lent' = FALSE /\ relies' = FALSE /\ refused' = FALSE

\* Eject, or the end of the program, which leaves the disc in the drive as it is.
Leave ==
  /\ Eject /\ auth = "idle" /\ Forget
  /\ \/ loaded' = NoDisc /\ DriveReset
     \/ UNCHANGED <<loaded, drive, slips>>
  /\ UNCHANGED <<failures, mounts>>

\* The program ends in the middle of a search, and perhaps of an authentication.
Interrupt ==
  /\ Quit /\ Forget
  /\ slips' = slips + Cardinality(mine \cap taken)
  /\ UNCHANGED <<drive, failures, medium>>

-----------------------------------------------------------------------------
(* CrackTitleKey *)

Vobs == IF pc = "menu" THEN {Menu} ELSE IF pc = "title" THEN {<<title, 1>>} ELSE {}

StartSearch ==
  /\ at = 0 /\ Vobs # {} /\ Vobs \subseteq DOMAIN Vob[disc]
  /\ at' = 1 /\ encrypted' = FALSE
  /\ auth' = "agid"
  /\ UNCHANGED <<vars, mine, drive, slips, failures, reader, medium>>

Authenticate == GetBusKey /\ UNCHANGED <<vars, search, reader, medium>>

\* The search of the file ends with these keys: DVDGetAllCSSKeys goes on.
Conclude(keys) ==
  /\ titlekeys' = titlekeys \o keys
  /\ IF pc = "menu" /\ keys = <<>> /\ title # 0
     THEN pc' = "title" /\ UNCHANGED title
     ELSE NextTitle
  /\ at' = 0 /\ encrypted' = FALSE
  /\ auth' = "idle"

NoBlockThere(f)  == ~Exists(disc, f, at)
Shut(b)          == Scrambled(b) /\ ~asf

\* READ (12) fails: the search returns, whatever it has seen.
ReadFails ==
  /\ at > 0 /\ auth = "over"
  /\ \E v \in Vobs : LET f == Vob[disc][v] IN
       \/ /\ Performed /\ NoBlockThere(f)
          /\ UNCHANGED <<taken, clean, faults, refused>>
       \/ /\ Performed /\ ~NoBlockThere(f) /\ Shut(Nth(disc, f, at))
          /\ refused' = TRUE
          /\ faults' = faults + 1 /\ clean' = FALSE
          /\ UNCHANGED taken
       \/ /\ NotPerformed
          /\ faults' = faults + 1 /\ clean' = FALSE
          /\ UNCHANGED refused
  /\ Conclude(<<>>)
  /\ UNCHANGED <<cache, disc, css, of, mine, asf, slips, medium, idx, reading, lent, relies>>

\* A bug: only the last block read counts.
EncryptedLost(b) == Scrambled(b)

\* i_encrypted > 0 after block b.
EncryptedWith(b) == encrypted \/ Scrambled(b)

NoneScrambled(s) == IF s THEN <<>> ELSE <<NoKey>>

(* The block was read: the search ends at one that is none of the stream,  *)
(* at one that gives the key away, at the file's size or when there was    *)
(* nothing but clear blocks for too long; or it goes on.                   *)
ReadBlock ==
  /\ at > 0 /\ auth = "over"
  /\ Performed
  /\ \E v \in Vobs : LET f == Vob[disc][v] IN
       /\ ~NoBlockThere(f) /\ ~Shut(Nth(disc, f, at))
       /\ LET b == Nth(disc, f, at) IN
            IF b.text = "other"
            THEN Conclude(IF at > 1 THEN NoneScrambled(encrypted) ELSE <<>>)
            ELSE IF b.text = "weak"
            THEN Conclude(<<b.key>>)
            ELSE IF at >= f.size \/ (at >= MaxClear /\ ~EncryptedWith(b))
            THEN Conclude(NoneScrambled(EncryptedWith(b)))
            ELSE /\ at' = at + 1 /\ encrypted' = EncryptedWith(b)
                 /\ auth' = "agid"
                 /\ UNCHANGED <<pc, title, titlekeys>>
  /\ UNCHANGED <<cache, disc, css, clean, of, faults, mine, taken, asf, slips, medium, reader>>

-----------------------------------------------------------------------------
(* Reading VOB files of a mounted disc, under the session mutex *)

\* A bug: only the first file read after a mount or a close authenticates.
OnceOnly(t) == idx = NoTitle

\* iso9660fs_read authenticates unless the title in force is the file's.
Stale(t) == idx # t

StartRead ==
  /\ pc = "mounted" /\ reading = NoTitle
  /\ \E t \in Titles(disc) :
       /\ reading' = t
       /\ auth' = IF css /\ Stale(t) THEN "agid" ELSE "over"
       /\ relies' = (idx = t /\ lent)
  /\ UNCHANGED <<vars, mine, drive, slips, failures, search, medium, idx, lent, refused>>

\* One block of the file, now that the title is in force; ReadData ignores the result.
FinishRead ==
  /\ reading # NoTitle /\ auth = "over"
  /\ IF css THEN idx' = reading /\ lent' = relies ELSE UNCHANGED <<idx, lent>>
  /\ \E i \in BlocksOf(disc, reading) :
       \/ /\ Performed /\ UNCHANGED taken
          /\ refused' = (refused \/ (Shut(Blocks[disc][i]) /\ ~relies))
       \/ NotPerformed /\ UNCHANGED refused
  /\ reading' = NoTitle /\ relies' = FALSE /\ auth' = "idle"
  /\ UNCHANGED <<vars, mine, asf, slips, search, medium>>

\* iso9660fs_close resets the index without the mutex.
CloseFile ==
  /\ pc = "mounted" /\ idx # NoTitle
  /\ idx' = NoTitle /\ lent' = FALSE
  /\ UNCHANGED <<vars, authvars, search, medium, reading, relies, refused>>

(* Cache_IFO_Files puts the title of each IFO file in force and            *)
(* authenticates nothing; VIDEO_TS.IFO has none.                           *)
CacheIfo ==
  /\ pc = "mounted" /\ css
  /\ idx' \in {NoTitle} \cup (Titles(disc) \ {0})
  /\ lent' = (idx' # NoTitle)
  /\ UNCHANGED <<vars, authvars, search, medium, reading, relies, refused>>

ClearCache == Around(clearCache)

SearchNext ==
  \/ \E d \in Discs : Mount(d)
  \/ UseCache \/ NoCache \/ NoMenuVob \/ NoVob \/ StoreKeys \/ Leave \/ Interrupt \/ ClearCache
  \/ StartSearch \/ Authenticate \/ ReadFails \/ ReadBlock
  \/ StartRead \/ FinishRead \/ CloseFile \/ CacheIfo

SearchSpec == SearchInit /\ [][SearchNext]_allvars

-----------------------------------------------------------------------------
(* Properties *)

SearchTypeOK ==
  /\ TypeOK /\ AuthTypeOK
  /\ at \in Nat /\ (at > 0 => pc \in {"menu", "title"})
  /\ encrypted \in BOOLEAN /\ loaded \in Discs \cup {NoDisc}
  /\ disc # NoDisc => loaded = disc
  /\ {idx, reading} \subseteq Nat \cup {NoTitle}
  /\ auth # "idle" <=> at > 0 \/ reading # NoTitle
  /\ {lent, relies, refused} \subseteq BOOLEAN /\ mounts \in 0..MaxMounts

(* The loop over blocks and authentications finds what TitleKeys says a    *)
(* search finds, or fails as TitleKeys lets it: an authentication that     *)
(* goes wrong costs a key, and never yields another.                       *)
Searches == Spec

(* As long as no command fails and the drive has an AGID to give, it       *)
(* refuses no block, neither to a search nor to a file read, be the keys   *)
(* just found or from the cache; except to a read that finds its title put *)
(* in force by a caching pass (fs/usbdvd_datadisc.cpp, line 357), which    *)
(* authenticated nothing.                                                  *)
NeverRefused == failures = 0 /\ slips < Cardinality(Agids) => ~refused

=============================================================================
