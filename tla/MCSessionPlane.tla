--------------------------- MODULE MCSessionPlane ---------------------------
(***************************************************************************)
(* Instances of the session plane for TLC.  Identities of one kind are     *)
(* interchangeable: no definition tells two of them apart.                 *)
(***************************************************************************)
EXTENDS SessionPlane, TLC

Symmetry ==
    UNION {Permutations(Sessions), Permutations(Challenges),
           Permutations(Requests), Permutations(Fingerprints),
           Permutations(Handlers), Permutations(Sweepers),
           Permutations(Acceptors)}
=============================================================================
