----------------------------- MODULE MCTaskCreation -----------------------------
(* Instances of TaskCreation for TLC.                                      *)
EXTENDS TaskCreation, TLC

CONSTANTS r1, r2, r3, r4, r5, k1, k2

\* Two requests and a different body under one key, a keyed and a keyless one.
CreationKeyOf  == r1 :> k1 @@ r2 :> k1 @@ r3 :> k1 @@ r4 :> k2 @@ r5 :> NoKey
CreationBodyOf == r1 :> 1 @@ r2 :> 1 @@ r3 :> 2 @@ r4 :> 1 @@ r5 :> 1

=============================================================================
