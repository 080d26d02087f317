----------------------------- MODULE MCCssSearch -----------------------------
(* Small discs for CssSearch, in blocks of two bytes.                      *)
EXTENDS CssSearch, TLC

K1 == <<1, 16, 255, 0, 171>>
K2 == <<2, 16, 254, 9, 18>>
B(text, key) == [text |-> text, key |-> key]
Clear == B("clear", NoKey)
Other == B("other", NoKey)
At(lba, size) == [lba |-> lba, size |-> size]

CONSTANTS plain, menus, regular, twin, tough, many
MCHasCss == Discs \ {plain}

(* menus    a VIDEO_TS.VOB, a menu in the clear before its scrambled title *)
(* regular  no VIDEO_TS.VOB, two protected titles, the second with no menu *)
(* twin     another disc with regular's hash                               *)
(* tough    nothing gives its key away                                     *)
(* many     a title more than are searched, and blocks of its own for each *)
MCHash == [d \in Discs |-> IF d = twin THEN "regular" ELSE ToString(d)]
MCBlocks ==
  plain   :> <<Clear, Other>> @@
  menus   :> <<Clear, Other, Clear, B("tough", K1), B("weak", K1), Other,
               Clear, Other>> @@
  regular :> <<B("weak", K1), B("weak", K1), Other, B("tough", K2), B("weak", K2), Other>> @@
  twin    :> <<B("weak", K2), B("weak", K2), Other, B("tough", K1), B("weak", K1), Other>> @@
  tough   :> <<B("tough", K1), Clear, Other, B("tough", K2), Other>> @@
  many    :> [i \in 1..20 |-> IF i % 2 = 0 THEN Other ELSE
                              B("weak", IF i % 4 = 1 THEN K1 ELSE K2)]
TwoTitles == <<1, 0>> :> At(1, 2) @@ <<1, 1>> :> At(2, 2) @@ <<2, 1>> :> At(4, 4)
MCVob ==
  plain   :> (<<1, 1>> :> At(1, 2)) @@
  menus   :> (<<0, 0>> :> At(1, 2) @@ <<1, 0>> :> At(3, 2) @@ <<1, 1>> :> At(4, 4)
              @@ <<2, 0>> :> At(7, 2)) @@
  regular :> TwoTitles @@
  twin    :> TwoTitles @@
  tough   :> (<<0, 0>> :> At(1, 3) @@ <<1, 1>> :> At(4, 2)) @@
  many    :> [v \in (1..10) \X {1} |-> At(2 * v[1] - 1, 2)]
=============================================================================
