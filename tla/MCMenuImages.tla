---------------------------- MODULE MCMenuImages ----------------------------
(* Two items, either of which may carry an image of the first versions,     *)
(* and two images to upload.                                                *)
EXTENDS MenuImages, TLC

CONSTANTS i1, i2, a1, a2, l1, l2

MCLegacyAsset == i1 :> l1 @@ i2 :> l2

Symmetry == Permutations({a1, a2})
=============================================================================
