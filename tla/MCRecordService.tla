--------------------------- MODULE MCRecordService ---------------------------
(***************************************************************************)
(* RecordService on a small instance for TLC.                              *)
(***************************************************************************)
EXTENDS RecordService, TLC

CONSTANTS c1, c2, c3, u1, u2

\* Two devices of one user, one device of another user.
DeviceOwners == c1 :> u1 @@ c2 :> u1 @@ c3 :> u2

\* The devices of u1, the types and the contents are interchangeable.
Symmetry ==
  {p @@ q @@ r : p \in Permutations({c1, c2}), q \in Permutations(Types),
                 r \in Permutations(Data)}
=============================================================================
