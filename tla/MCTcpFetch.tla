----------------------------- MODULE MCTcpFetch -----------------------------
(* Instances of TcpFetch for TLC. *)
EXTENDS TcpFetch

TwoLetters == <<"n", "m">>

(* Nothing, something that looks like a header and ends as an answer ends,  *)
(* and more than a block.                                                  *)
SomeFiles == {<< >>, <<"n", SP, "1", LF>>, <<"x", SP, "1", "0", SP, LF, "y">>}
OldSome == {<< >>, <<"o", "o", "o", "o", "o">>}
=============================================================================
