----------------------------- MODULE MCAssetApi -----------------------------
(***************************************************************************)
(* Small instances of AssetApi.                                            *)
(***************************************************************************)
EXTENDS AssetApi, TLC

CONSTANTS h1, h2, d1, d2, m1, m2, x1, x2, k1, k2, k3

TwoHandlers == {h1, h2}
TwoDisks == {d1, d2}
TwoDirs == {m1, m2}
TwoNames == {x1, x2}
ThreeKeys == {k1, k2, k3}

\* Three devices have the asset: one under another name, one with another date.
ThreeDevices == {[key |-> k1, dir |-> m1, name |-> x1],
                 [key |-> k2, dir |-> m1, name |-> x2],
                 [key |-> k3, dir |-> m2, name |-> x1]}

\* Handlers are alike, and so are disks.
Alike == Permutations({h1, h2}) \union Permutations({d1, d2})

Budget(uploads, deletes, scans, crashes, ios) ==
  [upload |-> uploads, delete |-> deletes, scan |-> scans, crash |-> crashes,
   io |-> ios]

\* Two uploads, two deletions and a scan; anything fails, but only once.
FailureBudget == Budget(2, 2, 1, 1, 1)
OneFailure == used["crash"] + used["io"] <= 1
=============================================================================
