----------------------------- MODULE UnitNames -----------------------------
(***************************************************************************)
(* How the id of an application becomes part of the name of its unit       *)
(* (escapeApplicationId) and how AM takes unit names and the paths of      *)
(* control groups apart (processUnitName, parseCGroupsPath).               *)
(*                                                                         *)
(* A name is a sequence of atoms: the characters these functions look at,  *)
(* the hexadecimal digits of a byte, and words of characters that are      *)
(* always kept.                                                            *)
(***************************************************************************)
EXTENDS Integers, Sequences, FiniteSets, SequencesExt

(* The bytes that are escaped wherever they are, and the dot, by digits.   *)
Escapable == {"-", "@", "\\", " "}
Byte == [h \in {"2d", "40", "5c", "20", "2e"} |->
           CASE h = "2d" -> "-" [] h = "40" -> "@" [] h = "5c" -> "\\" [] h = "20" -> " " [] h = "2e" -> "."]
Escape(c) == <<"\\", "x", CHOOSE h \in DOMAIN Byte : Byte[h] = c>>

escapeApplicationId_NoEscape(id) == [i \in DOMAIN id |-> IF id[i] = "/" THEN "-" ELSE id[i]]
escapeApplicationId(id) ==
  FlattenSeq([i \in DOMAIN id |->
    CASE id[i] = "/" -> <<"-">>
      [] id[i] \in Escapable \/ (i = 1 /\ id[i] = ".") -> Escape(id[i])
      [] OTHER -> <<id[i]>>])

(* A "\x" with two digits is a byte; the "-" of a "/" stays a "-".         *)
EscapeAt(text, i) ==
  i \in 1..(Len(text) - 2) /\ text[i] = "\\" /\ text[i + 1] = "x" /\ text[i + 2] \in DOMAIN Byte
unescapeApplicationId(text) ==
  FlattenSeq([i \in DOMAIN text |->
    CASE EscapeAt(text, i) -> <<Byte[text[i + 2]]>>
      [] EscapeAt(text, i - 1) \/ EscapeAt(text, i - 2) -> <<>>
      [] OTHER -> <<text[i]>>])

-----------------------------------------------------------------------------
Places(text, c) == {i \in DOMAIN text : text[i] = c}
LastPlace(text, c) == CHOOSE i \in Places(text, c) : \A j \in Places(text, c) : j <= i
UpTo(text, i) == SubSeq(text, 1, i)
From(text, i) == SubSeq(text, i, Len(text))
StartsWith(text, prefix) == Len(text) >= Len(prefix) /\ UpTo(text, Len(prefix)) = prefix
EndsWith(text, suffix) == Len(text) >= Len(suffix) /\ From(text, Len(text) - Len(suffix) + 1) = suffix

(* What follows the last c, and what is left; all of it without a c.       *)
PopSuffix(text, c) ==
  IF Places(text, c) = {} THEN [suffix |-> text, rest |-> <<>>]
  ELSE [suffix |-> From(text, LastPlace(text, c) + 1), rest |-> UpTo(text, LastPlace(text, c) - 1)]

NoUnit == [found |-> FALSE, applicationID |-> <<>>, launcher |-> <<>>, instanceID |-> <<>>]
UnitInfo(app, launcher, instance) ==
  [found |-> TRUE, applicationID |-> unescapeApplicationId(app), launcher |-> launcher, instanceID |-> instance]

AppPrefix == <<"app", "-">>

FromSuffixes(unit, instanceSeparator) ==
  LET name     == UpTo(unit, LastPlace(unit, ".") - 1)
      instance == PopSuffix(name, instanceSeparator)
      app      == PopSuffix(instance.rest, "-")
  IN UnitInfo(app.suffix, app.rest, instance.suffix)

(* [app-<launcher>-]<id>@<instance>.service, app-<launcher>-<id>-<n>.scope, *)
(* or the unit of something AM did not start.                              *)
processUnitName(unitName) ==
  LET unit == From(unitName, Len(AppPrefix) + 1)
  IN CASE ~StartsWith(unitName, AppPrefix) /\ Places(unitName, ".") = {} -> NoUnit
       [] ~StartsWith(unitName, AppPrefix) /\ Places(unitName, ".") # {} ->
            UnitInfo(UpTo(unitName, LastPlace(unitName, ".") - 1), <<>>, <<>>)
       [] StartsWith(unitName, AppPrefix) /\ EndsWith(unit, <<".", "service">>) -> FromSuffixes(unit, "@")
       [] StartsWith(unitName, AppPrefix) /\ EndsWith(unit, <<".", "scope">>) -> FromSuffixes(unit, "-")
       [] OTHER -> NoUnit

-----------------------------------------------------------------------------
(***************************************************************************)
(* /proc/<pid>/cgroup: lines [controllers, path], the path split at "/".   *)
(* A line is split at ":", so a path ends for AM at its first ":".         *)
(***************************************************************************)
CutAtColon(path) ==
  LET cuts == {i \in DOMAIN path : Places(path[i], ":") # {}}
      cut  == CHOOSE i \in cuts : \A j \in cuts : i <= j
      name == path[cut]
      at   == CHOOSE i \in Places(name, ":") : \A j \in Places(name, ":") : i <= j
  IN IF cuts = {} THEN path
     ELSE UpTo(path, cut - 1) \o (IF at = 1 THEN <<>> ELSE <<UpTo(name, at - 1)>>)

UserSlice(uid) == <<"user", "-", uid, ".", "slice">>

(* The line of the unified hierarchy, or the last of systemd's own.        *)
TargetPath_Named(lines) ==
  LET named == {i \in DOMAIN lines : lines[i].controllers = "name=systemd"}
  IN IF named = {} THEN <<>> ELSE CutAtColon(lines[CHOOSE i \in named : \A j \in named : j <= i].path)
TargetPath(lines) ==
  LET unified == {i \in DOMAIN lines : lines[i].controllers = ""}
      named   == {i \in DOMAIN lines : lines[i].controllers = "name=systemd"}
  IN IF unified # {} THEN CutAtColon(lines[CHOOSE i \in unified : \A j \in unified : i <= j].path)
     ELSE IF named # {} THEN CutAtColon(lines[CHOOSE i \in named : \A j \in named : j <= i].path)
     ELSE <<>>

(* The innermost group of a path of this user, <<>> for any other.         *)
parseCGroupsPath_AnyUser(lines, uid) ==
  LET path == TargetPath(lines)
  IN IF Len(path) >= 2 /\ path[1] = <<"user", ".", "slice">> THEN Last(path) ELSE <<>>
parseCGroupsPath(lines, uid) ==
  LET path == TargetPath(lines)
  IN IF Len(path) >= 2 /\ path[1] = <<"user", ".", "slice">> /\ path[2] = UserSlice(uid) THEN Last(path) ELSE <<>>
=============================================================================
