----------------------------- MODULE MCDirLists -----------------------------
(***************************************************************************)
(* Discs for DirLists: plain, Joliet and Rock Ridge volumes, Joliet names  *)
(* with characters above 255, directories of more than a sector, UDF       *)
(* volumes of both versions with directories each parser reads and some it *)
(* does not, and an audio CD.                                              *)
(***************************************************************************)
EXTENDS DirLists, TLC

R(n, len, isdir, lba) == [name |-> n, nlen |-> len, dir |-> isdir, lba |-> lba, rr |-> <<>>]
Dot(lba, up) == <<R(".", 1, TRUE, lba), R("..", 1, TRUE, up)>>
Fld(id, len, n) == [id |-> id, len |-> len, name |-> n]
RockFields(n) == <<Fld("RR", 5, ""), Fld("NM", 7, n), Fld("PX", 36, "")>>
RR(n, isdir, lba, real) == [R(n, 2, isdir, lba) EXCEPT !.rr = RockFields(real)]
RockDot(lba, up) == <<[R(".", 1, TRUE, lba) EXCEPT !.rr = <<Fld("RR", 5, ""), Fld("PX", 36, ""), Fld("TF", 19, "")>>],
                      R("..", 1, TRUE, up)>>
Vol_(v, r, j, s) == [vd17 |-> v, root |-> r, joliet |-> j, sectors |-> s]

MCIso ==
  ("iso_plain" :> Vol_("other", 20, 0,
      20 :> <<Dot(20, 20) \o <<R("A", 1, TRUE, 21), R("F", 1, FALSE, 40)>>>> @@
      21 :> <<Dot(21, 20) \o <<R("B", 1, TRUE, 22), R("G", 1, FALSE, 41)>>>> @@
      22 :> <<Dot(22, 21) \o <<R("H", 3, FALSE, 42)>>>>))
  @@ ("iso_joliet" :> Vol_("joliet", 20, 30,
      20 :> <<Dot(20, 20) \o <<R("A", 1, TRUE, 21)>>>> @@
      21 :> <<Dot(21, 20) \o <<R("F", 1, FALSE, 40)>>>> @@
      30 :> <<Dot(30, 30) \o <<R("A", 2, TRUE, 31), R("F", 2, FALSE, 40)>>>> @@
      31 :> <<Dot(31, 30) \o <<R("G", 2, FALSE, 41)>>>>))
  @@ ("iso_wide" :> Vol_("joliet", 20, 30,
      20 :> <<Dot(20, 20)>> @@
      30 :> <<Dot(30, 30) \o <<R("low_A", 2, TRUE, 31), R("low_1", 4, TRUE, 32),
                                R("low_2", 2, FALSE, 43)>>>> @@
      31 :> <<Dot(31, 30) \o <<R("A", 2, FALSE, 40), R("low_0", 4, FALSE, 41),
                                R("low_;", 6, FALSE, 42)>>>> @@
      32 :> <<Dot(32, 30) \o <<R("F", 2, FALSE, 44)>>>>))
  @@ ("iso_long" :> Vol_("other", 20, 0,
      20 :> <<Dot(20, 20) \o <<R("A", 1, TRUE, 22), R("F", 1, FALSE, 40)>>, <<R("G", 1, FALSE, 41)>>>> @@
      22 :> <<Dot(22, 20) \o <<R("H", 3, FALSE, 42)>>>>))
  @@ ("iso_rock" :> Vol_("other", 240, 0,
      240 :> <<RockDot(240, 240) \o <<RR("A", TRUE, 241, "Aa"), RR("F", FALSE, 251, "Ff"), R("Z", 1, FALSE, 255)>>>> @@
      241 :> <<RockDot(241, 240) \o <<RR("G", FALSE, 252, "Gg"), R("Y", 1, FALSE, 254)>>>>))
  @@ ("iso_junk" :> Vol_("other", 240, 0,
      240 :> <<RockDot(240, 240) \o <<RR("F", FALSE, 276, "Ff"), RR("G", FALSE, 270, "Gg"), R("Z", 1, FALSE, 255)>>>>))
  @@ ("iso_rocklast" :> Vol_("other", 20, 0,
      20 :> <<Dot(20, 20) \o <<RR("F", FALSE, 40, "Ff"), RR("G", FALSE, 42, "Gg")>>>>))

\* Names with characters above 255, called after what matters of their low bytes,
\* and names as they are on the disc, one with a version.
Wide == "low_A" :> <<321>> @@ "low_0" :> <<70, 256>> @@ "low_1" :> <<65, 257>>
        @@ "low_2" :> <<258>> @@ "low_;" :> <<71, 20027, 72>>
MCChars == Wide @@ "." :> <<0>> @@ ".." :> <<1>> @@ "A" :> <<65>> @@ "B" :> <<66>> @@ "F" :> <<70>>
           @@ "G" :> <<71>> @@ "H" :> <<72, 59, 49>> @@ "Y" :> <<89>> @@ "Z" :> <<90>>
MCSpelt == <<>> :> "" @@ <<65>> :> "A" @@ <<66>> :> "B" @@ <<70>> :> "F" @@ <<71>> :> "G"
           @@ <<72>> :> "H" @@ <<89>> :> "Y" @@ <<90>> :> "Z"

FE(kind, alloc, exts) == [type |-> kind, alloc |-> alloc, extents |-> exts]
Ext(at, size) == [at |-> at, size |-> size]
Dir(at, size) == FE("dir", 0, <<Ext(at, size)>>)
File(at) == FE("file", 0, <<Ext(at, 10)>>)
D(n, len, icb) == [name |-> n, nlen |-> len, wide |-> FALSE, icb |-> icb]
Up(icb) == <<D("", 0, icb)>>
U(version, meta, root, fe_, fids) ==
  [version |-> version, meta |-> meta, root |-> root, fe |-> fe_, fids |-> fids]

Nested(version, meta, alloc) ==
  U(version, meta, 1,
    1 :> FE("dir", alloc, <<Ext(11, 120)>>) @@ 2 :> FE("dir", alloc, <<Ext(12, 84)>>) @@
    3 :> File(50) @@ 4 :> File(51),
    11 :> (Up(1) \o <<D("A", 2, 2), D("F", 2, 3)>>) @@ 12 :> (Up(1) \o <<D("G", 3, 4)>>))

MCUdf ==
  ("udf_two" :> Nested(2, 0, 0))
  @@ ("udf_three" :> Nested(3, 1, 1))
  @@ ("udf_mirror" :> Nested(3, 2, 0))
  @@ ("udf_nometa" :> Nested(3, 0, 0))
  @@ ("udf_longad" :> [Nested(2, 0, 0) EXCEPT !.fe[2].alloc = 1])
  @@ ("udf_inline" :> [Nested(3, 1, 1) EXCEPT !.fe[2].alloc = 3, !.fe[2].extents = <<>>])
  @@ ("udf_wide" :> [Nested(2, 0, 0) EXCEPT !.fids[12][2].wide = TRUE, !.fids[11][3].nlen = 255,
                                            !.fe[4].type = "other"])
  @@ ("udf_long" :> [Nested(2, 0, 0) EXCEPT
        !.fids[11] = Up(1) \o <<D("F", 80, 3), D("A", 2, 2), D("G", 2, 4)>>,
        !.fe[2].extents = <<Ext(13, 84), Ext(12, 84)>>])

MCTracks == "cd" :> <<"T1", "T2">>

MCSystem ==
  [d \in DOMAIN MCIso |-> "iso"] @@ [d \in DOMAIN MCUdf |-> "udf"] @@ [d \in {"cd"} |-> "audio"]
MCNames == {"", ".", "..", "A", "Aa", "B", "F", "Ff", "G", "Gg", "H", "T1", "T2", "Y", "Z",
            "garbled", "nul"} \cup DOMAIN Wide
MCDiscs == DOMAIN MCSystem

Opened(dir, slash) == [dir |-> dir, slash |-> slash]
MCPlaces == {Opened(<<>>, FALSE), Opened(<<"A">>, FALSE), Opened(<<"A">>, TRUE)}

=============================================================================
