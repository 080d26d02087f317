----------------------------- MODULE MCLifecycle ----------------------------
(* A disc of each kind for Lifecycle.                                      *)
EXTENDS Lifecycle, TLC

Audio == [id |-> 1, profile |-> "cd", tracks |-> "audio", sector16 |-> "other"]
CdRom == [id |-> 2, profile |-> "cd", tracks |-> "data", sector16 |-> "iso"]
Dvd   == [id |-> 3, profile |-> "dvd", tracks |-> "data", sector16 |-> "iso"]
Bd    == [id |-> 4, profile |-> "bd", tracks |-> "data", sector16 |-> "udf"]
Blank == [id |-> 5, profile |-> "dvd", tracks |-> "data", sector16 |-> "other"]

MCDiscs == {Audio, CdRom, Dvd, Bd, Blank}
ObjectSymmetry == Permutations(Objects)
=============================================================================
