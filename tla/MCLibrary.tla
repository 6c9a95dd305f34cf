----------------------------- MODULE MCLibrary -----------------------------
(***************************************************************************)
(* Small instances of Library: a is in the inbox, b and c are uploaded.    *)
(***************************************************************************)
EXTENDS Library, TLC

CONSTANTS h1, h2, a, b, c

\* Handlers are alike, and so are the two assets that are uploaded.
Alike == Permutations({h1, h2}) \union Permutations({b, c})

TwoHandlers == {h1, h2}
ThreeAssets == {a, b, c}
JustA == {a}
TheOthers == {b, c}
AnyWay == {"copy", "rename", "move"}

Budget(imports, uploads, deletes, crashes, kills, ios) ==
  [import |-> imports, upload |-> uploads, delete |-> deletes,
   crash |-> crashes, kill |-> kills, io |-> ios]

\* One run of the importer beside two uploads and a deletion; anything fails, but
\* only once.
FailureBudget == Budget(1, 2, 1, 1, 1, 1)
OneFailure == used["crash"] + used["kill"] + used["io"] <= 1
=============================================================================
