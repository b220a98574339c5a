------------------------------ MODULE MCBlocks ------------------------------
(***************************************************************************)
(* Documents for TLC: a page with up to two things of every sort; up to    *)
(* MaxPages pages of one text each, with a running header before, after    *)
(* and within a broken word, and a line three times on a page; and         *)
(* LongPages pages, with a header on any of them.                          *)
(***************************************************************************)
EXTENDS Blocks
CONSTANTS MaxPages, LongPages

MCMapped == [l \in Lines |-> CASE l = "damaged" -> "content" [] l = "null" -> "" [] OTHER -> l]

Text(lines) == [what |-> "text", text |-> lines, placed |-> TRUE, exports |-> TRUE]

Sorts == {[what |-> w, text |-> t, placed |-> p, exports |-> e] :
            w \in {"heading", "text", "table", "picture"},
            t \in {<<"content", "">>, <<"null">>, <<"damaged", "null", "rest">>},
            p \in BOOLEAN, e \in BOOLEAN}
Bodies == {<<"header", "content">>, <<"item", "item", "item", "clause">>,
           <<"broken", "", "header", "rest">>, <<"header">>}

MCDocuments ==
  {<< <<>>, <<s, Text(<<"content">>)>>, <<s>> >> : s \in Sorts}
  \cup {[n \in DOMAIN f |-> <<Text(f[n])>>] : f \in UNION {[1..n -> Bodies] : n \in 2..MaxPages}}
  \cup {[n \in 1..LongPages |-> <<Text(IF n \in on THEN <<"header", "clause">> ELSE <<"clause">>)>>] :
         on \in SUBSET (1..LongPages)}
=============================================================================
