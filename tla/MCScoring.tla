----------------------------- MODULE MCScoring -----------------------------
(***************************************************************************)
(* For TLC: pages of four lines with up to three output blocks; tables of  *)
(* up to seven nodes, as MinerU and the gold page write them; and texts of *)
(* up to four characters.                                                  *)
(***************************************************************************)
EXTENDS Scoring

Of(n, values) == [1..n -> values]
UpTo(n, values) == UNION {Of(k, values) : k \in 0..n}

PageLines == {[class |-> "blank", text |-> <<>>], [class |-> "row", text |-> <<"|", "x">>],
              [class |-> "prose", text |-> <<"x", "y">>], [class |-> "prose", text |-> <<"x", "x">>],
              [class |-> "prose", text |-> <<"y">>]}
Outs == Of(3, {<<"|", "x">>, <<"x", "y">>, <<"x", "x">>}) \cup {<<<<"y">>, <<>>, <<"x">>>>, <<>>}
Nothing == [page |-> <<>>, out |-> <<>>, a |-> <<>>, b |-> <<>>]
PageInputs == {[Nothing EXCEPT !.page = p, !.out = o] : p \in Of(4, PageLines), o \in Outs}

Cells == {<<>>, <<"x">>, <<"x", "y">>, <<"y">>}
Tables == {<<r>> : r \in Of(1, Cells) \cup Of(2, Cells)}
          \cup {<<r, s>> : r, s \in Of(1, {<<"x">>, <<"y">>})}
          \cup {<<r, s>> : r \in Of(1, {<<"x">>}), s \in Of(2, {<<>>, <<"x">>, <<"y">>})}
TableInputs == {[Nothing EXCEPT !.a = TableNodes(Markdown(t)), !.b = TableNodes(u)] :
                  t \in {v \in Tables : Markdown(v) # <<>>}, u \in Tables}

TextInputs == {[Nothing EXCEPT !.a = TextNodes(t), !.b = TextNodes(u)] :
                 t, u \in UpTo(4, {"x", "y"})}

MCInputs == PageInputs \cup TableInputs \cup TextInputs
=============================================================================
