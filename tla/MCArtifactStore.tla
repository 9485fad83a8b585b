-------------------------- MODULE MCArtifactStore ---------------------------
(* Two processes and three keys.  Both put k1; k2 is put by the first alone *)
(* and k3 by the second.  Identical bytes under k1 and k2 meet in one raw   *)
(* file, those of k3 are stored under .html.                                *)
EXTENDS ArtifactStore

CONSTANTS k1, k2, k3, w1, w2

ThreeKeys == {k1, k2, k3}
Suffixes == [k \in ThreeKeys |-> IF k = k3 THEN ".html" ELSE ".zip"]
Shared == [w \in Writers |-> IF w = w1 THEN {k1, k2} ELSE {k1, k3}]
=============================================================================
