----------------------------- MODULE MCIsoFiles -----------------------------
(* Small discs for IsoFiles: two titles and an IFO file, sectors of three  *)
(* bytes.                                                                  *)
EXTENDS IsoFiles, TLC

Vob1 == [lba |-> 2, size |-> 5, title |-> 1, scrambled |-> TRUE, ifo |-> FALSE]
Ifo1 == [lba |-> 4, size |-> 4, title |-> 1, scrambled |-> FALSE, ifo |-> TRUE]
Vob2 == [lba |-> 6, size |-> 2, title |-> 2, scrambled |-> TRUE, ifo |-> FALSE]

MCDirlist   == <<Vob1, Ifo1, Vob2>>
MCTitleKeys == <<-1, 1, 2>>
MCMoves     == {-1}
MCRawReads  == {<<2, 2>>, <<4, 1>>}
ThreadSymmetry == Permutations(Threads)
=============================================================================
