---------------------------- MODULE MCEntryFiles ----------------------------
(* An instance of EntryFiles for TLC: short files of every order of lines, *)
(* files that go on from a valid beginning, and requests.                  *)
EXTENDS EntryFiles, TLC

MCStrings == STRING

A == ActionGroup("a")
E(key, locale, word) == Entry(key, locale, <<word>>)

DesktopLines ==
  { Blank, Junk, Broken, Header(Main), Header(A), Header(<<>>), Header(<<"X-Other">>),
    E("Name", "default", "n"), E("Name", "zh", "z"), E("Name", "!", "m"), E("Exec", "zh", "x"), E("Exec", "default", "y"),
    Entry("Actions", "default", <<"a", "">>), Entry("Actions", "default", <<"a", "a">>), E("Type", "default", "Link"),
    E("Bad_Key", "default", "b"), E("Hidden", "default", "h") }
ListLines ==
  { Blank, Junk, Broken, Header(<<"Default Applications">>), Header(<<"Added Associations">>),
    E("type", "default", "x"), Entry("type", "default", <<"y", "">>), Entry("type", "default", <<"", "">>),
    Entry("other", "default", <<"u", "v">>), Entry("other", "default", <<>>) }

UpToLen(lines, n) == UNION {[1..k -> lines] : k \in 0..n}
Valid == <<Header(Main), E("Name", "default", "n"), E("Type", "default", "Application")>>

MCFiles ==
  {[reader |-> "desktop", text |-> t] : t \in UpToLen(DesktopLines, 2) \cup {Valid \o u : u \in UpToLen(DesktopLines, 3)}}
  \cup {[reader |-> r, text |-> t] : r \in {"list", "desktopList"}, 
                                  t \in UpToLen(ListLines, 3) \cup {<<Header(<<"Default Applications">>)>> \o u : u \in UpToLen(ListLines, 3)}}

(* The files that a single desktop's reader does not come to the end of.   *)
LeftOutFiles == {[reader |-> "desktopList", text |-> t] : t \in UpToLen(ListLines, 2)}

Default(word) == "default" :> <<word>>
Request(keys, actions, listed, icon, names) ==
  [keys |-> keys, actions |-> actions, listed |-> listed, names |-> names,
   value |-> ("Type" :> Default("Application")) @@ ("Name" :> (Default("n") @@ ("zh" :> <<"z">>))) @@ ("GenericName" :> Empty)
             @@ ("URL" :> Default("u")) @@ ("Icon" :> icon) @@ ("Exec" :> (Default("x") @@ ("a" :> <<"y">>) @@ ("b" :> <<>>)))]

MCRequested ==
  LET base == {"Type", "Name"}
  IN {Request(base \cup more, actions, listed, icon, names) :
        more \in SUBSET {"Actions", "ActionName", "Icon", "Exec", "GenericName"},
        actions \in {<<>>, <<"a">>, <<"a", "b", "">>, <<"b", "b">>}, listed \in BOOLEAN,
        icon \in {Empty, Default("i"), "a" :> <<"i">>},
        names \in {Empty, "a" :> Default("na"), ("a" :> Default("na")) @@ ("b" :> ("zh" :> <<"nb">>))}}
     \cup {[Request(keys, <<>>, TRUE, Empty, Empty) EXCEPT !.value["Type"] = Default("Link")] :
             keys \in {base, base \cup {"URL"}, {"Name"}, {"Type"}}}
     \cup {[Request(base, <<>>, TRUE, Empty, Empty) EXCEPT !.value["Name"] = n] : n \in {Empty, "!" :> <<"m">>}}
     \cup {Request(base \cup {"Actions", "ActionName"}, <<"a", "b">>, FALSE, Empty, "all of it" :> Default("na"))}
     \cup {[Request(base \cup {"Bad_Key"}, <<>>, TRUE, Empty, Empty) EXCEPT !.value = @ @@ ("Bad_Key" :> Default("b"))]}
=============================================================================
