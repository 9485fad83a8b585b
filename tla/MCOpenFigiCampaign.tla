------------------------ MODULE MCOpenFigiCampaign -------------------------
(* Instances of OpenFigiCampaign for TLC.                                   *)
EXTENDS OpenFigiCampaign

SaysOf == [i \in Isins |-> IF i % 2 = 0 THEN "no_match" ELSE "matched_single"]
=============================================================================
