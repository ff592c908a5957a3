------------------------------ MODULE ExecLine ------------------------------
(***************************************************************************)
(* The command line of a launch, as functions: field codes (processExec),  *)
(* launch options (generateCommand), what app-launch-helper reads          *)
(* (cmdParse) and hands to systemd (processExecStart).                     *)
(*                                                                         *)
(* A text is a sequence of atoms.  The atoms of what the code takes apart  *)
(* are characters; a word that is only carried along, like a key, a path   *)
(* or the name of an icon, is one atom.  A line is a sequence of           *)
(* arguments, as splitExecArguments takes it from the text of Exec.        *)
(***************************************************************************)
EXTENDS Integers, Sequences, FiniteSets, SequencesExt

Has(text, c) == \E i \in DOMAIN text : text[i] = c

(***************************************************************************)
(* The text of Exec.                                                       *)
(***************************************************************************)
(* unescapeValue: the escapes of every value of a desktop file.            *)
Escapes ==
  [c \in {"s", "n", "t", "r", "\\", ";"} |->
     CASE c = "s" -> " " [] c = "n" -> "newline" [] c = "t" -> "tab" [] c = "r" -> "return" [] OTHER -> c]
UnescapeStep(s, c) ==
  IF s.escape THEN [text |-> s.text \o (IF c \in DOMAIN Escapes THEN <<Escapes[c]>> ELSE <<"\\", c>>), escape |-> FALSE]
  ELSE IF c = "\\" THEN [s EXCEPT !.escape = TRUE]
  ELSE [s EXCEPT !.text = Append(@, c)]
UnescapeValue(text) ==
  LET read[i \in 0..Len(text)] ==
        IF i = 0 THEN [text |-> <<>>, escape |-> FALSE] ELSE UnescapeStep(read[i - 1], text[i])
      end == read[Len(text)]
  IN IF end.escape THEN Append(end.text, "\\") ELSE end.text

(* splitExecArguments, character by character; a backslash keeps the next  *)
(* character, in double quotes only one that is special there.             *)
Blanks == {" ", "newline", "tab", "return"}
Take(s, chars) == [s EXCEPT !.word = @ \o chars, !.has = TRUE, !.escape = FALSE]
SplitStep(s, c) ==
  CASE s.escape /\ s.quote = "" -> Take(s, <<c>>)
    [] s.escape /\ s.quote = "\"" -> Take(s, IF c \in {"\"", "\\", "$", "backtick"} THEN <<c>> ELSE <<"\\", c>>)
    [] ~s.escape /\ c = "\\" /\ s.quote # "apostrophe" -> [s EXCEPT !.escape = TRUE]
    [] ~s.escape /\ s.quote = "" /\ c \in {"\"", "apostrophe"} -> [s EXCEPT !.quote = c, !.has = TRUE]
    [] ~s.escape /\ s.quote # "" /\ c = s.quote -> [s EXCEPT !.quote = ""]
    [] ~s.escape /\ s.quote = "" /\ c \in Blanks ->
         IF s.has THEN [s EXCEPT !.words = Append(@, s.word), !.word = <<>>, !.has = FALSE] ELSE s
    [] OTHER -> Take(s, <<c>>)

(* <<>> is what an unterminated quote or a last backslash comes to.        *)
SplitExec(text) ==
  LET read[i \in 0..Len(text)] ==
        IF i = 0 THEN [words |-> <<>>, word |-> <<>>, quote |-> "", has |-> FALSE, escape |-> FALSE]
        ELSE SplitStep(read[i - 1], text[i])
      end == read[Len(text)]
  IN IF end.quote # "" \/ end.escape THEN <<>>
     ELSE IF end.has THEN Append(end.words, end.word) ELSE end.words

-----------------------------------------------------------------------------
(***************************************************************************)
(* Field codes.  look has what the codes stand for: icon (<<>> if none),   *)
(* name, path, and fields, the resources of the launch.                    *)
(***************************************************************************)
FieldCodes == {"f", "F", "u", "U"}
Deprecated == {"d", "D", "n", "N", "v", "m"}
IconOption == <<"-", "-", "icon">>

NoTask == [command |-> <<>>, arg |-> <<>>, percent |-> FALSE, dynamic |-> FALSE, exclusive |-> FALSE,
           argNum |-> -1, location |-> -1, local |-> FALSE, items |-> <<>>, bad |-> FALSE]

(* Only the first field code is expanded, later and only if there are      *)
(* resources: in one run of the program (%F, %U) or in one for each.       *)
Field(t, c, fields) ==
  IF t.exclusive \/ fields = <<>> THEN [t EXCEPT !.exclusive = TRUE]
  ELSE [t EXCEPT !.exclusive = TRUE, !.dynamic = TRUE,
                 !.argNum = Len(t.command), !.location = Len(t.arg), !.local = c \in {"f", "F"},
                 !.items = IF c \in {"F", "U"} THEN <<fields>> ELSE [i \in DOMAIN fields |-> <<fields[i]>>],
                 !.arg = @ \o <<"%", c>>]

Icon(t, icon) ==
  IF icon = <<>> THEN t
  ELSE [t EXCEPT !.command = @ \o (IF t.arg = <<>> THEN <<>> ELSE <<t.arg>>) \o <<IconOption, icon>>, !.arg = <<>>]

Code(t, c, look) ==
  CASE c \in FieldCodes -> Field(t, c, look.fields)
    [] c = "i" -> Icon(t, look.icon)
    [] c = "c" -> [t EXCEPT !.arg = @ \o look.name]
    [] c = "k" -> [t EXCEPT !.arg = @ \o look.path]
    [] c = "%" -> [t EXCEPT !.arg = Append(@, "%")]
    [] c \in Deprecated -> t
    [] OTHER -> [t EXCEPT !.bad = TRUE]

Character(t, c, look) ==
  IF t.percent THEN Code([t EXCEPT !.percent = FALSE], c, look)
  ELSE IF c = "%" THEN [t EXCEPT !.percent = TRUE]
  ELSE [t EXCEPT !.arg = Append(@, c)]

(* An argument that becomes empty is dropped, unless it held the field.    *)
Argument(t, a, look) ==
  LET read[i \in 0..Len(a)] ==
        IF i = 0 THEN [t EXCEPT !.arg = <<>>, !.dynamic = FALSE] ELSE Character(read[i - 1], a[i], look)
      r   == read[Len(a)]
      arg == IF r.percent THEN Append(r.arg, "%") ELSE r.arg
  IN IF ~Has(a, "%") THEN [t EXCEPT !.command = Append(@, a)]
     ELSE [r EXCEPT !.percent = FALSE, !.arg = <<>>,
                    !.command = IF r.dynamic \/ arg # <<>> THEN Append(@, arg) ELSE @]

(* An item without resources runs the command at least once.               *)
ProcessExec(line, look) ==
  LET read[i \in 0..Len(line)] == IF i = 0 THEN NoTask ELSE Argument(read[i - 1], line[i], look)
  IN [read[Len(line)] EXCEPT !.items = IF @ = <<>> THEN << <<>> >> ELSE @]

(* The launch is refused: an unknown code, no program, nothing left of it. *)
Invalid(line, task) == line = <<>> \/ task.bad \/ task.command = <<>> \/ line[1] = <<>>

(* QString::replace(location, 2, text), which does nothing behind the end. *)
ReplaceCode(arg, location, text) ==
  IF location \notin 0..Len(arg) THEN arg
  ELSE SubSeq(arg, 1, location) \o text \o SubSeq(arg, location + 3, Len(arg))

-----------------------------------------------------------------------------
(***************************************************************************)
(* Hooks and the compatibility file.                                       *)
(***************************************************************************)
(* Per directory a function from file names (here their rank) to command   *)
(* lines; NoHook is a file that cannot be used, which shadows nothing.     *)
NoHook == <<>>
HookIn(dirs, n) ==
  LET found == {i \in DOMAIN dirs : n \in DOMAIN dirs[i] /\ dirs[i][n] # NoHook}
  IN IF found = {} THEN NoHook ELSE dirs[CHOOSE i \in found : \A j \in found : i <= j][n]
LoadHooks(dirs) ==
  FlattenSeq([n \in 1..Max({0} \cup UNION {DOMAIN dirs[i] : i \in DOMAIN dirs}) |-> HookIn(dirs, n)])

(* A list of applications, each with its groups; reading stops at the      *)
(* first that has a group of another name.                                 *)
LoadCompatibility(file) ==
  LET read == {i \in DOMAIN file : \A j \in 1..i : "other" \notin DOMAIN file[j].groups}
  IN [id \in {file[i].id : i \in read} |-> file[CHOOSE i \in read : file[i].id = id].groups]

CompatGroup(file, id, group) ==
  LET config == LoadCompatibility(file)
  IN IF id \in DOMAIN config /\ group \in DOMAIN config[id] THEN config[id][group] ELSE [exec |-> <<>>, env |-> <<>>]
GetExec(file, id, group) == CompatGroup(file, id, group).exec
GetEnv(file, id) == CompatGroup(file, id, "entry").env

-----------------------------------------------------------------------------
(***************************************************************************)
(* Environment assignments.  wordexp splits at blanks and tabs and refuses *)
(* ";" and the end of a line.                                              *)
(***************************************************************************)
SplitAt(text, blanks) ==
  LET read[i \in 0..Len(text)] ==
        IF i = 0 THEN [words |-> <<>>, word |-> <<>>]
        ELSE IF text[i] \in blanks THEN [words |-> Append(read[i - 1].words, read[i - 1].word), word |-> <<>>]
        ELSE [read[i - 1] EXCEPT !.word = Append(@, text[i])]
      words == Append(read[Len(text)].words, read[Len(text)].word)
  IN FlattenSeq([i \in DOMAIN words |-> IF words[i] = <<>> THEN <<>> ELSE <<words[i]>>])

IsAppId(word) == word # <<>> /\ word[1] = "DSG_APP_ID"

(* One assignment that cannot be expanded leaves all of them as they are.  *)
UnescapeEnvs(words) ==
  IF \E i \in DOMAIN words : ~IsAppId(words[i]) /\ (Has(words[i], ";") \/ Has(words[i], "newline")) THEN words
  ELSE FlattenSeq([i \in DOMAIN words |-> IF IsAppId(words[i]) THEN <<words[i]>> ELSE SplitAt(words[i], {" ", "tab"})])

-----------------------------------------------------------------------------
(***************************************************************************)
(* Launch options, in the order of QVariantMap.                            *)
(***************************************************************************)
OptionKeys == <<"_builtIn_searchExec", "_hooks", "env", "path", "uid", "unsetEnv">>

Kind(k) == CASE k = "--" -> "split" [] k \in {"_hooks", "uid"} -> "app" [] OTHER -> "systemd"
Priority(k) == IF k = "_hooks" THEN 1 ELSE 0

(* The comparison of generateCommand: not a strict order, two options of   *)
(* the same kind and priority each come before the other.                  *)
Before(k, l) ==
  \/ Kind(k) = Kind(l) /\ Priority(k) >= Priority(l)
  \/ Kind(k) # Kind(l) /\ <<Kind(k), Kind(l)>> \notin {<<"app", "systemd">>, <<"app", "split">>, <<"split", "systemd">>}

(* std::sort of up to 16 elements is an insertion sort: an element goes to *)
(* the front, or to where the elements on its left no longer come after it. *)
Insert(sorted, k) ==
  LET stops == {j \in DOMAIN sorted : ~Before(k, sorted[j])}
      at    == IF sorted = <<>> \/ Before(k, sorted[1]) THEN 0
               ELSE CHOOSE j \in stops : \A i \in stops : i <= j
  IN SubSeq(sorted, 1, at) \o <<k>> \o SubSeq(sorted, at + 1, Len(sorted))

Sorted(keys) ==
  LET given == FlattenSeq([i \in DOMAIN OptionKeys |-> IF OptionKeys[i] \in keys THEN <<OptionKeys[i]>> ELSE <<>>]) \o <<"--">>
      sorted[i \in 0..Len(given)] == IF i = 0 THEN <<>> ELSE Insert(sorted[i - 1], given[i])
  IN sorted[Len(given)]

Setting(key, word) == <<"-", "-", key, "=">> \o word
Settings(key, words) == [i \in DOMAIN words |-> Setting(key, words[i])]

RunAs == << <<"pkexec">>, <<"-", "-", "user">>, <<"name">>, <<"env">>, <<"DISPLAY", "=", ":0">>, <<"XAUTHORITY", "=", "file">> >>

(* generateCommandLine of each option; val[k] is the value of option k.    *)
OptionArgs(k, val) ==
  CASE k = "--" -> << <<"-", "-">> >>
    [] k = "_builtIn_searchExec" -> Settings("ExecSearchPath", val[k])
    [] k = "env" -> Settings("Environment", val[k])
    [] k = "unsetEnv" -> Settings("UnsetEnvironment", val[k])
    [] k = "path" -> IF val[k] = <<>> THEN <<>> ELSE <<Setting("WorkingDirectory", val[k])>>
    [] k = "_hooks" -> val[k]
    [] k = "uid" -> IF val[k] = "other" THEN RunAs ELSE <<>>

GenerateCommand(val) ==
  LET order == Sorted(DOMAIN val)
  IN FlattenSeq([i \in DOMAIN order |-> OptionArgs(order[i], val)])

-----------------------------------------------------------------------------
(***************************************************************************)
(* app-launch-helper.                                                      *)
(***************************************************************************)
IsOption(a) == Len(a) >= 3 /\ a[1] = "-" /\ a[2] = "-"
(* The value follows the first "=" after a key that is not empty. *)
HasPair(a) == IsOption(a) /\ Has(a, "=") /\ a[3] # "="
Equals_Last(a) == CHOOSE i \in DOMAIN a : a[i] = "=" /\ \A j \in (i + 1)..Len(a) : a[j] # "="
Equals(a) == CHOOSE i \in DOMAIN a : a[i] = "=" /\ \A j \in 1..(i - 1) : a[j] # "="
Key(a) == IF Equals(a) = 4 THEN a[3] ELSE "longer"
Value(a) == SubSeq(a, Equals(a) + 1, Len(a))

(* The options end at the first "--".  Type is ignored, and so is an       *)
(* ExecSearchPath that is not absolute; of several names the last counts.  *)
Ignored(a) == Key(a) \in {"Type", "unitName"} \/ (Key(a) = "ExecSearchPath" /\ ~(Value(a) # <<>> /\ Value(a)[1] = "/"))

Properties(options) == {<<Key(a), Value(a)>> : a \in {a \in options : HasPair(a) /\ ~Ignored(a)}}

CmdParse(args) ==
  LET cuts    == {i \in DOMAIN args : args[i] = <<"-", "-">>}
      cut     == IF cuts = {} THEN Len(args) + 1 ELSE CHOOSE i \in cuts : \A j \in cuts : i <= j
      options == {args[i] : i \in 1..(cut - 1)}
      names   == {i \in 1..(cut - 1) : HasPair(args[i]) /\ Key(args[i]) = "unitName"}
  IN [refused |-> \E a \in options : ~HasPair(a),
      name    |-> IF names = {} THEN <<>> ELSE Value(args[CHOOSE i \in names : \A j \in names : j <= i]),
      props   |-> Properties(options),
      command |-> SubSeq(args, cut + 1, Len(args))]

(* Without a name or a command the request has no body, and systemd        *)
(* refuses it.                                                             *)
Startable(u) == ~u.refused /\ u.name # <<>> /\ u.command # <<>>

(* encodeArgument: systemd expands variables and takes ";" for a separator. *)
Encode_NoDollar(arg) == IF arg = <<";">> THEN <<"\\", ";">> ELSE arg
Encode(arg) ==
  IF arg = <<";">> THEN <<"\\", ";">>
  ELSE FlattenSeq([i \in DOMAIN arg |-> IF arg[i] = "$" THEN <<"$", "$">> ELSE <<arg[i]>>])

ExecStart(command) == [i \in DOMAIN command |-> Encode(command[i])]

(* systemd: "$$" is a dollar sign, a "$" before a name is its value.       *)
DecodeStep(s, c) ==
  IF s.dollar THEN [text |-> Append(s.text, IF c = "$" THEN "$" ELSE "value"), dollar |-> FALSE]
  ELSE IF c = "$" THEN [s EXCEPT !.dollar = TRUE]
  ELSE [s EXCEPT !.text = Append(@, c)]
Decode(arg) ==
  LET read[i \in 0..Len(arg)] ==
        IF i = 0 THEN [text |-> <<>>, dollar |-> FALSE] ELSE DecodeStep(read[i - 1], arg[i])
  IN IF arg = <<"\\", ";">> THEN <<";">> ELSE read[Len(arg)].text
=============================================================================
