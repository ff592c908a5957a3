----------------------------- MODULE MCIdentify -----------------------------
(* An instance of Identify for TLC: units whose names can be confused.     *)
EXTENDS Identify, TLC

Unit(kind, id, instance) == [kind |-> kind, id |-> id, instance |-> instance, owner |-> "me", nested |-> FALSE]

Editor == <<"edit", "-", "or">>
Dotted == <<".", "org", ".", "a", "@", "b", "\\", "x", "2d">>
Colon == <<"a", ":", "b">>
Tool == <<"tool">>

MCApps == {Editor, Dotted, Colon, Tool, <<"or">>, <<"edit">>}

(* Units of AM, units of others with the same application, an id that      *)
(* escaping must keep apart from another, and groups of no unit of ours.   *)
MCUnits ==
  { Unit("launch", Editor, "i1"), Unit("launch", Dotted, "i2"), Unit("launch", Colon, "i3"),
    Unit("scope", Editor, "77"), Unit("bus", Tool, ""), Unit("autostart", Tool, "autostart"),
    Unit("session", <<>>, ""), Unit("command", <<"/", "bin", "/", "tool">>, "r1"),
    [Unit("bus", Tool, "") EXCEPT !.owner = "other"],
    [Unit("launch", Tool, "i5") EXCEPT !.nested = TRUE] }
=============================================================================
