-------------------------- MODULE MCLaunchRequest --------------------------
(* An instance of LaunchRequest for TLC: Exec lines, resources and options *)
(* that go together in every way that one of them can disturb another.     *)
EXTENDS LaunchRequest, TLC

File(n) == [url |-> <<"file://", n>>, scheme |-> "file", path |-> <<"/", n>>]
Plain == [url |-> <<"$">>, scheme |-> "plain", path |-> <<"$">>]
Remote == [url |-> <<"https">>, scheme |-> "remote", path |-> <<>>]
Bad == [url |-> <<":">>, scheme |-> "invalid", path |-> <<>>]

MCAtoms == STRING

Fields == {<<>>, <<File("a")>>, <<File("a"), Plain>>, <<Remote>>, <<Plain, Remote, File("a")>>, <<Bad>>}

Prog == <<"p">>
Lines ==
  { <<Prog>>, <<Prog, <<"%", "f">>>>, <<Prog, <<"x">>, <<"%", "F">>, <<"y">>>>, <<Prog, <<"-", "%", "u", "%", "%">>>>,
    <<Prog, <<"%", "U">>, <<"%", "f">>, <<"%", "k">>>>, <<Prog, <<"%", "i">>, <<"%", "c", "$", "%">>, <<";">>>>,
    <<Prog, <<"%", "x">>>>, <<Prog, <<"%", "d">>, <<"-", "-", "env", "=", "z">>, <<"-", "-">>, <<"%", "F">>>>,
    <<Prog, <<"x">>, <<"y", "z", "%", "F">>>>,
    << <<"%", "f">> >>, <<>> }

NoFiles == [n \in {} |-> <<>>]
Base ==
  [exec |-> <<Prog>>, quoting |-> "plain", autostart |-> FALSE, asked |-> "none", actions |-> NoFiles, compatFile |-> <<>>, override |-> <<>>,
   look |-> [icon |-> <<"icon">>, name |-> <<"n", ";">>, path |-> <<"/", "app">>, fields |-> <<>>],
   environ |-> <<>>, env |-> <<>>, unset |-> <<>>, path |-> <<>>, uid |-> "none", callerHooks |-> <<>>,
   extra |-> <<>>, entryPath |-> <<>>, terminal |-> FALSE, hookDirs |-> <<NoFiles, NoFiles>>, searchPath |-> <<>>]

Assign(k, v) == <<k, "=">> \o v
Options ==
  { Base,
    [Base EXCEPT !.look.icon = <<>>, !.look.name = <<>>, !.look.path = <<>>, !.extra = << <<"-", "-">>, <<"$">> >>],
    [Base EXCEPT !.environ = Assign("A", <<"1", " ">>) \o Assign("B", <<"2">>), !.env = <<Assign("C", <<"=", "3">>)>>,
                 !.unset = << <<"D">> >>, !.searchPath = << <<"/", "bin">>, <<"bin">> >>, !.entryPath = <<"/", "e">>],
    [Base EXCEPT !.environ = Assign("A", <<"1", ";">>) \o Assign("B", <<"2">>), !.env = <<Assign("C", <<"1", " ", "2">>)>>,
                 !.path = <<"/", "o">>, !.entryPath = <<"/", "e">>, !.callerHooks = << <<"bad">> >>],
    [Base EXCEPT !.uid = "other", !.hookDirs = <<(2 :> << <<"mine">> >>), (1 :> << <<"hook">>, <<"-", "-", "Type", "=">> >>) @@ (2 :> << <<"shadowed">> >>)>>, !.callerHooks = << <<"bad">> >>,
                 !.terminal = TRUE, !.extra = << <<";">> >>],
    [Base EXCEPT !.uid = "same", !.hookDirs = <<(1 :> NoHook), (1 :> << <<"hook">> >>)>>] }

Plainly == {[Base EXCEPT !.exec = l, !.look.fields = f] : l \in Lines, f \in Fields}

(* Words that need quotes, in each kind of them. *)
Special == { <<Prog, <<"a", " ", "tab", "\"">>, <<>>, <<"\\", "$">>>>, <<Prog, <<"\\", "\\", "s">>, <<"%", "f">>, <<"backtick", ";">>>> }
Quotings ==
  {[Base EXCEPT !.exec = l, !.quoting = q, !.look.fields = <<File("a")>>,
                !.actions = ("act" :> l), !.asked = a] :
     l \in Special, q \in {"plain", "double", "single", "open"}, a \in {"none", "act"}}
Optioned == {[o EXCEPT !.exec = l, !.look.fields = <<File("a")>>] : o \in Options, l \in Lines}

(* Exec lines from elsewhere than the entry. *)
Group(exec) == [exec |-> exec, env |-> <<Assign("E", <<"5">>)>>]
Compat == [id |-> "app", groups |-> ("entry" :> Group(<< <<"compat">>, <<"%", "u">> >>)) @@ ("act" :> Group(<<>>))]
Broken == [id |-> "other", groups |-> ("other" :> Group(<<Prog>>))]
Elsewhere ==
  {[Base EXCEPT !.exec = <<Prog, <<"%", "F">>>>, !.look.fields = <<File("a")>>, !.actions = ("act" :> <<Prog, <<"act">>>>),
                !.asked = a, !.autostart = l, !.compatFile = c, !.override = o, !.uid = u, !.quoting = IF u = "none" THEN "double" ELSE "plain"] :
     a \in {"none", "act", "unknown"}, l \in BOOLEAN, c \in {<<>>, <<Compat, Broken>>, <<Broken, Compat>>},
     o \in {<<>>, << <<"wrap">>, <<FullExec>>, <<"end">> >>, << <<"%", "q">> >>}, u \in {"none", "unknown"}}

(* Lines that the quoting, the field codes or systemd read in a way of     *)
(* their own.                                                              *)
Odd ==
  {[Base EXCEPT !.exec = <<Prog, w>>, !.quoting = q] :
     w \in {<<"x", "%", "i", "y">>, <<"\\", ";">>, <<"a", "apostrophe", " ">>}, q \in {"plain", "single"}}
  \cup {[Base EXCEPT !.exec = <<Prog, <<"\\", "n">>>>, !.actions = ("act" :> <<Prog, <<"newline", "x", "return">>>>), !.asked = a,
                     !.environ = Assign("A", <<"1">>) \o <<"tab">> \o Assign("B", <<"2">>), !.quoting = q] :
           a \in {"none", "act"}, q \in {"plain", "double"}}
  \cup {[Base EXCEPT !.override = << <<"wrap">>, w, <<"end">> >>, !.quoting = q] :
           w \in {<<FullExec>>, <<"a", FullExec>>}, q \in {"double", "open"}}

MCRequests == Plainly \cup Quotings \cup Optioned \cup Elsewhere \cup Odd
=============================================================================
