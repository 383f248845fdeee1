----------------------------- MODULE MCListener -----------------------------
(* Instances of Listener for TLC; words have three or four characters. *)
EXTENDS Listener

(* Every short text, and texts of two and three lines of all kinds. *)
Chars == {"a", SP, LF, BAD}
ShortTexts == UNION {[1..n -> Chars] : n \in 1..6}

Lines == {<<"a", "b", "c", SP>>, <<"a", "b", "c", SP, "d">>, <<"a", "b", "c", "d", SP, "e", "f">>,
          <<"a", "b", "c", "d", "e", SP, "f">>, <<"a", "b", SP, "c">>, <<"a", "b", "c">>, << >>,
          <<"a", "b", "c", SP, "d", SP>>, <<"a", "b", "c", SP, BAD>>}
TwoLines == {l \o <<LF>> \o m \o e : l \in Lines, m \in Lines, e \in {<<LF>>, << >>}}
ThreeLines == {m \o <<LF>> \o l : l \in TwoLines, m \in {<<"a", "b", "c", SP, "d">>, <<"a", "b", "c", SP>>}}
SomeTexts == ShortTexts \union TwoLines \union ThreeLines
=============================================================================
