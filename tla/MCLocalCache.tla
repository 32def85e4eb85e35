---------------------------- MODULE MCLocalCache ----------------------------
EXTENDS LocalCache, TLC

CONSTANTS k1, k2, k3, big, small

MCLen == big :> 2 @@ small :> 1

(* RTF becomes its plain text, which is shorter; NaN becomes null, which   *)
(* is longer.                                                              *)
MCRewrites == {<<big, small>>, <<small, big>>}

=============================================================================
