---------------------------- MODULE MCRetrieval ----------------------------
(***************************************************************************)
(* Instances of Retrieval for TLC: a short version (v1) and a longer one.  *)
(***************************************************************************)
EXTENDS Retrieval, TLC
CONSTANTS v1, v2, fixed, section, b1, b2, q1

MCVersions == {v1, v2}
MCCount == (v1 :> 1) @@ (v2 :> 2)
=============================================================================
