------------------------------- MODULE CssAuth -------------------------------
(***************************************************************************)
(* GetBusKey (usbdvd_scsi.cpp): the authentication that makes a drive let  *)
(* go of scrambled sectors.  Each call takes one of the drive's            *)
(* authentication grants (AGIDs) and goes through eight commands, any of   *)
(* which may fail; an AGID the call does not see released stays taken.     *)
(*                                                                         *)
(* A module that calls GetBusKey sets auth to "agid" and goes on when it   *)
(* is "over".  What the drive does is external: it checks the order of the *)
(* commands, opens on the right second key and releases the AGID with the  *)
(* disc key.  A command that fails is not performed.                       *)
(***************************************************************************)
EXTENDS Integers, FiniteSets

CONSTANTS
  Agids,       \* the drive's AGIDs: there are four
  MaxFailures  \* bound on the commands and file accesses that fail

ASSUME AuthAssumption == IsFiniteSet(Agids) /\ MaxFailures \in Nat

VARIABLES
  auth,      \* the command GetBusKey sends next
  mine,      \* its AGID, if it has one
  taken,     \* the AGIDs the drive has granted and not seen returned
  pending,   \* the AGID of an invalidation whose data the drive waits for
  asf,       \* the drive's Authentication Success Flag
  slips,     \* AGIDs given up since the drive had none taken
  failures

drive    == <<taken, pending, asf>>
authvars == <<auth, mine, taken, pending, asf, slips, failures>>

AuthTypeOK ==
  /\ auth \in {"idle", "agid", "challenge", "key1", "invalidate", "challenge2",
               "key2", "wrongkey2", "disckey", "nodisckey", "asf", "over"}
  /\ taken \subseteq Agids /\ mine \subseteq Agids /\ pending \subseteq taken
  /\ Cardinality(mine) <= 1 /\ Cardinality(pending) <= 1
  /\ asf \in BOOLEAN /\ slips \in Nat /\ failures \in 0..MaxFailures

AuthInit ==
  /\ auth = "idle" /\ mine = {} /\ taken = {} /\ pending = {} /\ asf = FALSE
  /\ slips = 0 /\ failures = 0

-----------------------------------------------------------------------------
(* Commands *)

\* The drive performs the command.
Performed == pending = {} /\ UNCHANGED <<pending, failures>>

\* A call fails, out of the budget of those that may.
Failed == failures < MaxFailures /\ failures' = failures + 1

(* The command fails, or the drive takes its wrapper for the data it waits *)
(* for and performs the invalidation instead.                              *)
NotPerformed ==
  \/ pending # {} /\ taken' = taken \ pending /\ pending' = {} /\ UNCHANGED failures
  \/ pending = {} /\ Failed /\ UNCHANGED <<taken, pending>>

\* The drive with another disc in it, or none.
DriveReset == taken' = {} /\ pending' = {} /\ asf' = FALSE /\ slips' = 0

(* UsbDvdGetAGID.  A new authentication may end what an older one opened.  *)
UsbDvdGetAGID ==
  /\ auth = "agid"
  /\ \/ /\ Performed
        /\ \E a \in Agids \ taken : mine' = {a} /\ taken' = taken \cup {a}
        /\ asf' \in {asf, FALSE}
        /\ auth' = "challenge"
     \/ /\ Performed /\ Agids \subseteq taken
        /\ auth' = "over"
        /\ UNCHANGED <<mine, taken, asf>>
     \/ /\ NotPerformed
        /\ auth' = "over"
        /\ UNCHANGED <<mine, asf>>
  /\ UNCHANGED slips

\* The host's challenge; if the drive does not take it, the AGID is returned.
UsbDvdSendChallenge ==
  /\ auth = "challenge"
  /\ \/ Performed /\ auth' = "key1" /\ UNCHANGED taken
     \/ NotPerformed /\ auth' = "invalidate"
  /\ UNCHANGED <<mine, asf, slips>>

(* ReportKey1 and the search for the variant that yields the drive's key.  *)
(* If there is none, the call ends, and the AGID with it.                  *)
ReportKey1 ==
  /\ auth = "key1"
  /\ \/ Performed /\ auth' = "challenge2" /\ UNCHANGED <<mine, taken, slips>>
     \/ NotPerformed /\ auth' = "invalidate" /\ UNCHANGED <<mine, slips>>
     \/ /\ Failed /\ pending = {}
        /\ auth' = "over"
        /\ mine' = {} /\ slips' = slips + 1
        /\ UNCHANGED <<taken, pending>>
  /\ UNCHANGED asf

(* UsbDvdInvalidateAGID declares eight bytes of data and has no buffer to  *)
(* send them from, so they are not sent.  A drive that goes by the command *)
(* performs it; one that goes by the wrapper waits for them.               *)
UsbDvdInvalidateAGID ==
  /\ auth = "invalidate"
  /\ \/ Performed /\ taken' = taken \ mine /\ UNCHANGED slips
     \/ pending = {} /\ pending' = mine /\ UNCHANGED <<taken, slips, failures>>
     \/ NotPerformed /\ slips' = slips + 1
  /\ auth' = "over" /\ mine' = {}
  /\ UNCHANGED asf

\* The result is not tested: without the drive's challenge the second key is wrong.
UsbDvdReportChallenge ==
  /\ auth = "challenge2"
  /\ \/ Performed /\ auth' = "key2" /\ UNCHANGED taken
     \/ NotPerformed /\ auth' = "wrongkey2"
  /\ UNCHANGED <<mine, asf, slips>>

\* The result is not tested; with a refused key the drive may drop the AGID.
SendKey2 ==
  /\ auth \in {"key2", "wrongkey2"}
  /\ \/ /\ Performed /\ auth = "key2"
        /\ asf' = TRUE /\ auth' = "disckey" /\ UNCHANGED taken
     \/ /\ Performed /\ auth = "wrongkey2"
        /\ asf' = FALSE /\ auth' = "nodisckey" /\ taken' \in {taken, taken \ mine}
     \/ NotPerformed /\ auth' = "nodisckey" /\ UNCHANGED asf
  /\ UNCHANGED <<mine, slips>>

\* A bug: the disc key is not asked for, so that the AGID stays taken.
KeptAgid == taken

\* Reporting the disc key ends the authentication in the drive.
FreedAgid == taken \ mine

(* The disc key is not used, and the result not tested; but its report is  *)
(* what releases the AGID.                                                 *)
UsbDvdGetDiscKey ==
  /\ auth \in {"disckey", "nodisckey"}
  /\ \/ /\ Performed /\ auth = "disckey"
        /\ taken' = FreedAgid /\ UNCHANGED slips
     \/ /\ Performed /\ auth = "nodisckey"
        /\ slips' = slips + Cardinality(mine \cap taken) /\ UNCHANGED taken
     \/ NotPerformed /\ slips' = slips + Cardinality(mine \cap taken)
  /\ auth' = "asf"
  /\ UNCHANGED <<mine, asf>>

\* What GetASF reports only decides GetBusKey's result, which no caller looks at.
GetASF ==
  /\ auth = "asf"
  /\ \/ Performed /\ UNCHANGED taken
     \/ NotPerformed
  /\ auth' = "over" /\ mine' = {}
  /\ UNCHANGED <<asf, slips>>

GetBusKey ==
  \/ UsbDvdGetAGID \/ UsbDvdSendChallenge \/ ReportKey1 \/ UsbDvdInvalidateAGID
  \/ UsbDvdReportChallenge \/ SendKey2 \/ UsbDvdGetDiscKey \/ GetASF

-----------------------------------------------------------------------------
(* Properties *)

(* An AGID outlives the call that took it only if the drive could not be   *)
(* authenticated, did not report its disc key or did not take the AGID     *)
(* back, or if the program ended: whatever else fails, GetBusKey returns   *)
(* it.  Four such AGIDs, and the drive authenticates nobody.               *)
AgidsAccounted == Cardinality(taken \ (mine \cup pending)) <= slips

=============================================================================
