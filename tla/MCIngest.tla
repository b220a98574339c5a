------------------------------ MODULE MCIngest ------------------------------
(***************************************************************************)
(* Instances of Ingest for TLC: a scanned document without text (v0), a    *)
(* short version (v1) and a longer one (v2).                               *)
(***************************************************************************)
EXTENDS Ingest, TLC
CONSTANTS v0, v1, v2, i1, i2, fixed, MaxSlips, MaxTorn

MCVersions == {v0, v1, v2}
MCIngesters == {i1, i2}
MCSymmetry == Permutations(MCIngesters)
MCCount == (v0 :> 0) @@ (v1 :> 1) @@ (v2 :> 2)

\* What the next steps and the properties depend on: neither the histories that
\* only IngestKilled reads, nor what a process holds and will not read again.
Held(i) ==
  <<pc[i], run[i], todo[i], blocks[i],
    IF run[i] = Offline THEN <<>> ELSE <<done[i], edited[i]>>,
    IF run[i] = Offline /\ blocks[i] # None THEN <<>> ELSE <<refresh[i]>>,
    IF pc[i] \in {"converted", "dropped"} THEN <<>> ELSE <<key[i]>>>>
MCView == <<chunks, files, crowd, slipped, [i \in Ingesters |-> Held(i)]>>

\* Bounds: the digests under which other bytes were converted, and the entries of
\* a document that are torn.  A state beyond them is checked, and not continued.
FewFaults ==
  /\ Cardinality(slipped) <= MaxSlips
  /\ \A d \in Docs : Cardinality({v \in Versions : cache[d][v] = Torn}) <= MaxTorn
=============================================================================
