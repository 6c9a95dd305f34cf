----------------------------- MODULE MCBalance -----------------------------
(***************************************************************************)
(* Small instances of Balance.                                             *)
(***************************************************************************)
EXTENDS Balance, TLC

CONSTANTS k1, k2, a, b, c

TwoDirs == {k1, k2}
ThreeAssets == {a, b, c}
ThreeDisks == 1 .. 3

\* a and b are of k1, c is of k2.
Grouped == (a :> k1) @@ (b :> k1) @@ (c :> k2)
Sizes == (a :> 2) @@ (b :> 1) @@ (c :> 2)
Rooms == <<4, 6, 5>>
AllHot == [d \in ThreeDisks |-> "HOT"]

\* Both directories should be on a warm disk.
Months == (k1 :> 8) @@ (k2 :> 10)

\* Three calls, or two and a crash.
ThreeEvents == uploads + deletes + crashes <= 3
=============================================================================
