------------------------------ MODULE MCScsiBot ------------------------------
(***************************************************************************)
(* Instances of ScsiBot for TLC.  The threads are interchangeable, so      *)
(* safety runs may use their permutations as a symmetry set; liveness runs *)
(* do not.                                                                 *)
(***************************************************************************)
EXTENDS ScsiBot, TLC

ThreadSymmetry == Permutations(Threads)

Command(dir, size) == [kind |-> "command", dir |-> dir, size |-> size, buf |-> TRUE]
Pass(dir, size)    == [kind |-> "pass", dir |-> dir, size |-> size, buf |-> TRUE]
Bare(dir, size)    == [kind |-> "bare", dir |-> dir, size |-> size, buf |-> TRUE]

Eject          == Command("none", 0)
GetAGID        == Command("in", 8)
InvalidateAGID == [Command("out", 8) EXCEPT !.buf = FALSE]
Read12TooLong  == Command("in", USB_TRANS_BUF_SIZE + 2048)
UnitReady      == Bare("none", 0)
SendPlayerKey  == Bare("out", 12)

\* A pass-through without data, with a read shorter and one longer than a CSW, and
\* with a write as long as a CBW; commands whose data are refused; and the commands
\* that take no mutex.
SafetyCommands ==
  {Pass("none", 0), Pass("in", 8), Pass("in", 20), Pass("out", CBWSize),
   InvalidateAGID, Read12TooLong, UnitReady, SendPlayerKey}

LiveCommands == {Eject, GetAGID, InvalidateAGID, Read12TooLong, UnitReady, SendPlayerKey}
=============================================================================
