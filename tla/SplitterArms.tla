---------------------------- MODULE SplitterArms ----------------------------
(***************************************************************************)
(* The two splitters of the ablation, fixed_size and section_respecting:   *)
(* this one, and the one that does not respect sections, over the same     *)
(* document.                                                               *)
(***************************************************************************)
EXTENDS Chunking

FixedSize == INSTANCE Chunking WITH respect <- FALSE

Unlabelled == \A i \in 1..Len(source) : source[i].kind \notin {"heading", "table"}

\* "A converter that labels nothing makes this identical to fixed_size"
\* (chunking.py:45): over blocks without headings and tables every step of
\* section_respecting, dividing or packing, is one of fixed_size.
ArmsAgree == [][Unlabelled => FixedSize!ChunkingNext]_chunkingVars
=============================================================================
