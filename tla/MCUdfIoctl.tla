----------------------------- MODULE MCUdfIoctl -----------------------------
(* Requests for UdfIoctl.                                                  *)
EXTENDS UdfIoctl, TLC

Base == [dir |-> "in", length |-> 1, data |-> FALSE, command |-> "any",
         whole |-> TRUE]

(* A response of 5 of which 1 is transferred, the two rewritten commands,  *)
(* data out, and less than a header.                                       *)
MCRequests ==
  {[Base EXCEPT !.length = 5],
   [Base EXCEPT !.command = "features"], [Base EXCEPT !.command = "invalidate"],
   [Base EXCEPT !.dir = "out", !.data = TRUE],
   [Base EXCEPT !.dir = "other", !.whole = FALSE]}
MCReadLengths == {2}

Symmetry == Permutations(Threads) \cup Permutations(Handles) \cup Permutations(Blocks)
=============================================================================
