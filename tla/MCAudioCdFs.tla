---------------------------- MODULE MCAudioCdFs ----------------------------
(* Discs for AudioCdFs: two tracks of one and two frames on a CD; an image *)
(* whose second track has a gap before it, and whose file ends within a    *)
(* frame; one whose first track starts late, at a time with a carry, and   *)
(* whose indices come with other lines; one whose file is cut short.       *)
EXTENDS AudioCdFs, TLC

L(command, number, min, sec, frame) ==
  [command |-> command, number |-> number, min |-> min, sec |-> sec, frame |-> frame]
Remark == L("other", 0, 0, 0, 0)

Cd      == [kind |-> "drive", sheet |-> <<>>, starts |-> <<0, 1>>, bytes |-> 9]
Gap     == [kind |-> "bin", starts |-> <<>>, bytes |-> 13,
            sheet |-> <<L("TRACK", 1, 0, 0, 0), L("INDEX", 1, 0, 0, 0),
                        L("TRACK", 2, 0, 0, 0), L("INDEX", 0, 0, 0, 1), L("INDEX", 1, 0, 0, 2)>>]
Late    == [kind |-> "bin", starts |-> <<>>, bytes |-> 4653 * 3,
            sheet |-> <<Remark, L("TRACK", 1, 0, 0, 0), Remark, L("INDEX", 1, 0, 1, 74), L("INDEX", 2, 0, 3, 0),
                        L("TRACK", 2, 0, 0, 0), L("INDEX", 0, 1, 1, 73), L("INDEX", 1, 1, 2, 1)>>]
Cut     == [kind |-> "bin", starts |-> <<>>, bytes |-> 3,
            sheet |-> <<L("TRACK", 1, 0, 0, 0), L("INDEX", 1, 0, 0, 0),
                        L("TRACK", 2, 0, 0, 0), L("INDEX", 1, 0, 0, 2)>>]

MCDiscs    == {Cd, Gap, Late, Cut}
MCMoves    == {-4, 0, 3}
MCAnySizes == {-2, 7}
Symmetry   == Permutations(Threads) \cup Permutations(Handles)
=============================================================================
