----------------------------- MODULE MCDirectory -----------------------------
EXTENDS Directory

Rows == 1..4
LowerA == "A" :> "a"
Numbers == 2 :> <<"2">> @@ 3 :> <<"3">>
Ranks == "-" :> 1 @@ "2" :> 2 @@ "3" :> 3 @@ "_" :> 4 @@ "a" :> 5 @@ "u" :> 6
RandomOnes == {<<"u", "2">>}
FallbackOnes == {<<"u", "-", "a">>}

\* "a.A@u", which is a-a-u, or a-a as an email; "a_", which a search must not take
\* for the beginning of those; and "--", which leaves nothing.
TrickyInputs == {<<"a", ".", "A", "@", "u">>, <<"a", "_">>, <<"-", "-">>}

\* Every text of up to six of these characters.
AllProbes == UNION {[1..n -> {"a", "A", "_", "-", "."}] : n \in 0..6}
=============================================================================
