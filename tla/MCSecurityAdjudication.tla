------------------------ MODULE MCSecurityAdjudication ------------------------
(* Two ISINs, one of them later, and two issuers.  GLEIF publishes its first *)
(* file twice, the second time without an issuer for the first ISIN, and     *)
(* lists one issuer twice in its second; FIRDS has one file.                 *)
EXTENDS SecurityAdjudication, TLC

CONSTANTS i1, i2, lei1, lei2

Says(one, two) == (i1 :> one) @@ (i2 :> two)

Files ==
    [gleif |-> << <<Says(<<lei1>>, <<lei1>>), Says(<<>>, <<lei2>>)>>,
                  <<Says(<<lei1, lei1>>, <<lei2, lei1>>)>> >>,
     firds |-> << <<Says(<<lei2>>, <<lei2>>)>>, << >> >>]
=============================================================================
