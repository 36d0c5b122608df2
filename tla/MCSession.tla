----------------------------- MODULE MCSession -----------------------------
(***************************************************************************)
(* Session for TLC: what one read may bring.                               *)
(***************************************************************************)
EXTENDS Session

\* A part of a frame, a frame, two frames at once, one the router ignores.
ManyFrames == {<< >>, <<"JOIN">>, <<"junk", "SHOOT">>, <<"JOIN", "JOIN">>}

=============================================================================
