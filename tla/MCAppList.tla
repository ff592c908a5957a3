----------------------------- MODULE MCAppList -----------------------------
(* An instance of AppList for TLC: one application (ids do not interact).  *)
EXTENDS AppList

CONSTANTS b1, b2

Visible(b) == [body |-> b, hidden |-> FALSE, runs |-> TRUE, gen |-> NoSource]

(* Of the two contents one has a TryExec that is not found: what Hidden     *)
(* refuses is in the autostart files.                                      *)
MCAppFiles == {Visible(b1), [Visible(b2) EXCEPT !.runs = FALSE]}
MCAutoFiles == {Visible(b2), [Visible(b2) EXCEPT !.hidden = TRUE]}
=============================================================================
