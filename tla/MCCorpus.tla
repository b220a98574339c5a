------------------------------ MODULE MCCorpus ------------------------------
(***************************************************************************)
(* Two documents for TLC, of which the second is published with text at    *)
(* one time and as a scan at another.                                      *)
(***************************************************************************)
EXTENDS Corpus
CONSTANTS printed, scan

MCServed == <<{printed}, {printed, scan}>>
=============================================================================
