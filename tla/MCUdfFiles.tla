----------------------------- MODULE MCUdfFiles -----------------------------
(* A small disc for UdfFiles: sectors of three bytes, chunks of two        *)
(* sectors.  A clip of three sectors, a small clip information file, a     *)
(* file in two extents that the disc does not hold one after the other,    *)
(* and one with a long allocation descriptor.                              *)
EXTENDS UdfFiles, TLC

Clip  == [alloc |-> 0, infoLen |-> 8, small |-> FALSE,
          descs |-> <<[location |-> 1, length |-> 8]>>]
Info  == [alloc |-> 0, infoLen |-> 4, small |-> TRUE,
          descs |-> <<[location |-> 4, length |-> 4]>>]
Split == [alloc |-> 0, infoLen |-> 11, small |-> FALSE,
          descs |-> <<[location |-> 6, length |-> 3], [location |-> 9, length |-> 8]>>]
Long  == [alloc |-> 1, infoLen |-> 2, small |-> FALSE,
          descs |-> <<[location |-> 12, length |-> 2]>>]

MCFileEntries == <<Clip, Info, Split, Long>>
MCMoves       == {-1, 2}
MCRawReads    == {<<4, 2>>, <<7, 1>>}
ThreadSymmetry == Permutations(Threads)
=============================================================================
