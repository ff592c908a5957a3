----------------------------- MODULE EntryFiles -----------------------------
(***************************************************************************)
(* Desktop files and lists of default applications: how they are read      *)
(* (DesktopFileParser, MimeFileParser, the shared Parser), changed,        *)
(* generated (DesktopFileGenerator) and written again (toString).          *)
(*                                                                         *)
(* A file is a sequence of lines without their blanks:                     *)
(*   blank     nothing, or a comment                                       *)
(*   header    [group];  broken: another line that begins with "["         *)
(*   entry     key[locale]=text;  junk: another line                       *)
(* A text is the sequence of what is between its semicolons, <<>> the      *)
(* empty one.  The name of a group is the sequence of its words: of an     *)
(* action's group, the prefix and the action.                              *)
(***************************************************************************)
EXTENDS Integers, Sequences, FiniteSets, SequencesExt

CONSTANTS Strings,     \* what keys, locales and texts are made of
          Files,       \* files to read: [reader, text]
          Requested    \* what users ask addUserApplication to generate

VARIABLES input,   \* a member of Files or Requested
          text,    \* the file
          next,    \* the first of its lines not yet taken
          line,    \* the line the parser is at
          at,      \* where the parser is
          groups,  \* what it has read
          group,   \* the group it is in
          first,   \* no group was left yet (isFirstGroup)
          err,     \* a ParserError
          kept     \* what AM has written to the file, or NotWritten

vars == <<input, text, next, line, at, groups, group, first, err, kept>>
parser == <<next, line, at, groups, group, first, err>>

-----------------------------------------------------------------------------
(***************************************************************************)
(* Lines, names and maps.                                                  *)
(***************************************************************************)
Main == <<"Desktop Entry">>
ActionGroup(action) == <<"Desktop Action", action>>
IsAction(name) == Len(name) = 2 /\ name[1] = "Desktop Action"
Associations == {<<"Added Associations">>, <<"Removed Associations">>}

(* Keys with a text for each locale. *)
LocaleKeys == {"Name", "GenericName", "Comment", "Keywords"}
InvalidKeys == {"Bad_Key"}
InvalidLocales == {"", "!", "unmatched"}

Line(kind, name, key, locale, value) ==
  [kind |-> kind, name |-> name, key |-> key, locale |-> locale, value |-> value]
Header(name) == Line("header", name, "", "", <<>>)
Entry(key, locale, value) == Line("entry", <<>>, key, locale, value)
Blank == Line("blank", <<>>, "", "", <<>>)
Junk == Line("junk", <<>>, "", "", <<>>)
Broken == Line("broken", <<>>, "", "", <<>>)
NoLine == Line("none", <<>>, "", "", <<>>)
BeginsGroup(l) == l.kind \in {"header", "broken"}

Words == Seq(Strings)
FileLine ==
  [kind : {"header", "broken", "entry", "blank", "junk"}, name : Words, key : Strings, locale : Strings, value : Words]

Empty == [k \in {} |-> <<>>]
Put(map, k, v) == [x \in DOMAIN map \cup {k} |-> IF x = k THEN v ELSE map[x]]
Keep(seq, Test(_)) == FlattenSeq([i \in DOMAIN seq |-> IF Test(seq[i]) THEN <<seq[i]>> ELSE <<>>])

(* Texts by locale, and what is read from a file: groups of keys of texts, *)
(* where a key that is in no locale of its own has one text.               *)
TextMap(texts) == IsFiniteSet(DOMAIN texts) /\ DOMAIN texts \subseteq Strings /\ texts \in [DOMAIN texts -> Words]
EntriesType(entries, localized) ==
  /\ entries = [k \in DOMAIN entries |-> entries[k]]
  /\ IsFiniteSet(DOMAIN entries) /\ DOMAIN entries \subseteq Strings
  /\ \A k \in DOMAIN entries :
       TextMap(entries[k]) /\ (k \notin localized => DOMAIN entries[k] = {"default"})
ContentType(content, localized) ==
  /\ content = [g \in DOMAIN content |-> content[g]]
  /\ IsFiniteSet(DOMAIN content) /\ DOMAIN content \subseteq Words
  /\ \A g \in DOMAIN content : EntriesType(content[g], localized)

NotWritten == Empty

-----------------------------------------------------------------------------
(***************************************************************************)
(* Parser::skip and Parser::atEnd.  Without another line skip leaves the   *)
(* line as it is.                                                          *)
(***************************************************************************)
Ahead == {i \in next..Len(text) : text[i].kind # "blank"}
SkipTo == CHOOSE i \in Ahead : \A j \in Ahead : i <= j
SkipLine == IF Ahead = {} THEN line ELSE text[SkipTo]
SkipNext_Twice == IF Ahead = {} THEN Len(text) + 1 ELSE SkipTo + 2
SkipNext == IF Ahead = {} THEN Len(text) + 1 ELSE SkipTo + 1
AtEnd == line = NoLine /\ next > Len(text)

IsFile == "reader" \in DOMAIN input
Reader == IF IsFile THEN input.reader ELSE "desktop"
IsDesktop == Reader = "desktop"

BeginReading(file) ==
  /\ text' = file
  /\ next' = 1 /\ line' = NoLine /\ groups' = Empty /\ group' = <<>> /\ first' = TRUE
  /\ at' = "open" /\ err' = "NoError"

Fail(e) == at' = "done" /\ err' = e

(* DesktopEntry::parse does not read an empty file, the list's reader does. *)
Open ==
  /\ at = "open"
  /\ IF IsDesktop /\ text = <<>>
       THEN Fail("OpenFailed") /\ UNCHANGED <<next, line>>
       ELSE at' = "groups" /\ line' = SkipLine /\ next' = SkipNext /\ UNCHANGED err
  /\ UNCHANGED <<input, text, groups, group, first, kept>>

(* checkMainEntryValidation. *)
ValidMain ==
  /\ Main \in DOMAIN groups
  /\ {"Name", "Type"} \subseteq DOMAIN groups[Main]
  /\ groups[Main]["Type"]["default"] # <<>>
  /\ groups[Main]["Type"]["default"] = <<"Link">> => "URL" \in DOMAIN groups[Main]

Finish ==
  /\ at = "groups" /\ (AtEnd \/ line = NoLine)
  /\ IF IsDesktop /\ ~ValidMain THEN Fail("MissingInfo") ELSE Fail("NoError")
  /\ UNCHANGED <<input, text, next, line, groups, group, first, kept>>

(* A desktop file has each group once; a list may come back to one, and    *)
(* one of a single desktop has no associations.                            *)
AddGroup_Uncleared ==
  /\ at = "groups" /\ ~AtEnd /\ line.kind = "header" /\ ~(IsDesktop /\ line.name \in DOMAIN groups)
  /\ groups' = IF line.name \in DOMAIN groups THEN groups ELSE Put(groups, line.name, Empty)
  /\ at' = "entries" /\ group' = line.name
  /\ UNCHANGED <<input, text, next, line, first, err, kept>>
AddGroup ==
  /\ at = "groups" /\ ~AtEnd /\ line # NoLine
  /\ CASE line.kind # "header" \/ (IsDesktop /\ line.name \in DOMAIN groups) ->
            Fail("InvalidFormat") /\ UNCHANGED <<line, groups, group>>
       [] line.kind = "header" /\ Reader = "desktopList" /\ line.name \in Associations ->
            at' = "skipped" /\ UNCHANGED <<line, groups, group, err>>
       [] OTHER ->
            /\ groups' = IF line.name \in DOMAIN groups THEN groups ELSE Put(groups, line.name, Empty)
            /\ at' = "entries" /\ group' = line.name /\ line' = NoLine /\ UNCHANGED err
  /\ UNCHANGED <<input, text, next, first, kept>>

(* The lines of a group that is left out are taken up to the next group.   *)
SkipGroup ==
  /\ at = "skipped"
  /\ IF AtEnd THEN at' = "groups" /\ UNCHANGED <<line, next>>
     ELSE /\ line' = SkipLine /\ next' = SkipNext
          /\ at' = IF SkipLine = NoLine \/ BeginsGroup(SkipLine) THEN "groups" ELSE "skipped"
  /\ UNCHANGED <<input, text, groups, group, first, err, kept>>

(* The first group with a name must be the main one. *)
LeaveGroup ==
  IF IsDesktop /\ first /\ group # <<>>
    THEN /\ first' = FALSE
         /\ IF group = Main THEN at' = "groups" /\ UNCHANGED err ELSE Fail("InvalidFormat")
    ELSE at' = "groups" /\ UNCHANGED <<first, err>>

(* addEntry of the desktop file: the first of several counts, for each     *)
(* locale if the key has locales; other keys forget theirs.                *)
KeyedLocale(l) == IF l.key \in LocaleKeys THEN l.locale ELSE "default"
Ignored(l) ==
  l.kind # "entry" \/ l.key \in InvalidKeys \/ l.locale \in InvalidLocales
DesktopEntries_Last(entries, l) ==
  IF Ignored(l) THEN entries
  ELSE Put(entries, l.key, Put(IF l.key \in DOMAIN entries THEN entries[l.key] ELSE Empty, KeyedLocale(l), l.value))
DesktopEntries(entries, l) ==
  IF Ignored(l) \/ (l.key \in DOMAIN entries /\ KeyedLocale(l) \in DOMAIN entries[l.key]) THEN entries
  ELSE Put(entries, l.key, Put(IF l.key \in DOMAIN entries THEN entries[l.key] ELSE Empty, KeyedLocale(l), l.value))

(* addEntry of the list: applications without the empty ones; a text that  *)
(* is empty or comes twice makes the whole list unreadable.                *)
Applications_All(value) == value
Applications(value) == Keep(value, LAMBDA a : a # "")
ListRefuses(entries, l) ==
  l.kind = "entry" /\ (l.value = <<>> \/ (l.key \in DOMAIN entries /\ entries[l.key]["default"] # <<>>))
ListEntries(entries, l) ==
  IF l.kind # "entry" THEN entries ELSE Put(entries, l.key, [d \in {"default"} |-> Applications(l.value)])

AddEntry ==
  LET l == SkipLine
  IN /\ at = "entries"
     /\ IF AtEnd THEN LeaveGroup /\ UNCHANGED <<line, next, groups>>
        ELSE /\ next' = SkipNext
             /\ IF (IsDesktop /\ l = NoLine) \/ BeginsGroup(l)
                  THEN LeaveGroup /\ line' = l /\ UNCHANGED groups
                ELSE IF ~IsDesktop /\ ListRefuses(groups[group], l)
                  THEN Fail("InvalidFormat") /\ line' = NoLine /\ UNCHANGED <<groups, first>>
                ELSE /\ groups' = [groups EXCEPT ![group] =
                                     IF IsDesktop THEN DesktopEntries(@, l) ELSE ListEntries(@, l)]
                     /\ line' = NoLine /\ UNCHANGED <<at, first, err>>
     /\ UNCHANGED <<input, text, group, kept>>

-----------------------------------------------------------------------------
(***************************************************************************)
(* Writing.  QMap's order of keys is left to CHOOSE.                       *)
(***************************************************************************)
EntryLines(key, texts) ==
  LET locales == SetToSeq(DOMAIN texts)
  IN [i \in DOMAIN locales |-> Entry(key, locales[i], texts[locales[i]])]
GroupLines(name, entries) ==
  LET keys == SetToSeq(DOMAIN entries)
  IN <<Header(name)>> \o FlattenSeq([i \in DOMAIN keys |-> EntryLines(keys[i], entries[keys[i]])]) \o <<Blank>>

ActionsOf(content) ==
  IF "Actions" \in DOMAIN content[Main] THEN Keep(content[Main]["Actions"]["default"], LAMBDA a : a # "") ELSE <<>>

(* The main group, the groups of the actions it names, all other groups.   *)
DesktopText_NoActions(content) ==
  LET others == SetToSeq({g \in DOMAIN content : g # Main /\ ~IsAction(g)})
  IN GroupLines(Main, content[Main])
     \o FlattenSeq([i \in DOMAIN others |-> GroupLines(others[i], content[others[i]])])
DesktopText(content) ==
  LET named  == Keep(ActionsOf(content), LAMBDA a : ActionGroup(a) \in DOMAIN content)
      others == SetToSeq({g \in DOMAIN content : g # Main /\ ~IsAction(g)})
  IN GroupLines(Main, content[Main])
     \o FlattenSeq([i \in DOMAIN named |-> GroupLines(ActionGroup(named[i]), content[ActionGroup(named[i])])])
     \o FlattenSeq([i \in DOMAIN others |-> GroupLines(others[i], content[others[i]])])

(* Each application is followed by a semicolon. *)
ListText(content) ==
  LET names  == SetToSeq(DOMAIN content)
      ended(entries) == [k \in DOMAIN entries |->
                           [d \in {"default"} |-> IF entries[k][d] = <<>> THEN <<>> ELSE Append(entries[k][d], "")]]
  IN FlattenSeq([i \in DOMAIN names |-> GroupLines(names[i], ended(content[names[i]]))])

Writable == at = "done" /\ err = "NoError" /\ kept = NotWritten

(* saveAutostartEntry of an application's entry, marked as generated, with *)
(* the value of Hidden that was asked for or found in the old file.        *)
WriteAutostart ==
  /\ Writable /\ IsDesktop
  /\ \E hidden \in {"true", "false"} :
       LET value(v) == [d \in {"default"} |-> <<v>>]
           marked   == Put(Put(groups[Main], "X-Deepin-GenerateSource", value("path")), "Hidden", value(hidden))
       IN /\ kept' = [groups EXCEPT ![Main] = marked]
          /\ BeginReading(DesktopText(kept'))
  /\ UNCHANGED input

(* MimeApps::insertToSection and writeToFile. *)
WriteList ==
  /\ Writable /\ Reader = "list"
  /\ \E type \in {"type", "new"} :
       LET name    == <<"Default Applications">>
           entries == IF name \in DOMAIN groups THEN groups[name] ELSE Empty
           old     == IF type \in DOMAIN entries THEN entries[type]["default"] ELSE <<>>
       IN kept' = Put(groups, name, Put(entries, type, [d \in {"default"} |-> Append(old, "app")]))
  /\ BeginReading(ListText(kept'))
  /\ UNCHANGED input

-----------------------------------------------------------------------------
(***************************************************************************)
(* DesktopFileGenerator.  A request has                                    *)
(*   keys      the keys it has a value for                                 *)
(*   value     texts of plain keys, maps from locales (of Name and         *)
(*             GenericName) or from actions (of Icon and Exec) to texts    *)
(*   actions   of Actions;  listed: it is a list, not a string             *)
(*   names     ActionName, a map from actions to maps from locales         *)
(***************************************************************************)
CheckValidation(r) ==
  /\ {"Type", "Name"} \subseteq r.keys /\ r.value["Type"]["default"] # <<>>
  /\ r.value["Type"]["default"] = <<"Link">> => "URL" \in r.keys

(* What the maps of a caller are converted to. *)
RequestType(r) ==
  /\ DOMAIN r = {"keys", "value", "actions", "listed", "names"}
  /\ IsFiniteSet(r.keys) /\ r.keys \subseteq Strings /\ r.actions \in Words /\ r.listed \in BOOLEAN
  /\ \A k \in r.keys \ {"Actions", "ActionName"} :
       TextMap(r.value[k]) /\ (k \notin LocaleKeys \cup {"Icon", "Exec"} => DOMAIN r.value[k] = {"default"})
  /\ \A a \in DOMAIN r.names : TextMap(r.names[a])

(* A map given for an action's Icon or Exec must not be empty. *)
PerAction(r, key) == IF key \in r.keys THEN r.value[key] ELSE Empty
Filled(map, k) == k \in DOMAIN map /\ map[k] # <<>>

(* toStringList of a string is one element, the whole string. *)
AsOneAction(actions) ==
  CASE actions = <<>> -> <<"">>
    [] Len(actions) = 1 -> actions
    [] OTHER -> <<"all of it">>
ActionList(r) == IF r.listed THEN r.actions ELSE AsOneAction(r.actions)
Actions(r) == {a \in Range(ActionList(r)) : a # ""}

ActionsRefused(r) ==
  /\ "Actions" \in r.keys
  /\ \/ "ActionName" \notin r.keys \/ DOMAIN r.names = {} \/ ActionList(r) = <<>>
     \/ \E k \in {"Icon", "Exec"} : k \in r.keys /\ DOMAIN r.value[k] = {}
     \/ ~(Actions(r) \subseteq DOMAIN r.names)

ActionEntries(r, action) ==
  LET given == {k \in {"Icon", "Exec"} : Filled(PerAction(r, k), action)}
  IN [k \in given \cup {"Name"} |->
        IF k = "Name" THEN r.names[action] ELSE [d \in {"default"} |-> r.value[k][action]]]

MainRefused(r) == "Name" \in r.keys /\ DOMAIN r.value["Name"] = {}

MainEntries(r) ==
  LET taken == {k \in r.keys \ {"ActionName"} :
                  /\ k \in {"Icon", "Exec"} => Filled(r.value[k], "default")
                  /\ k = "GenericName" => DOMAIN r.value[k] # {}}
  IN [k \in taken \cup {"X-Deepin-CreateBy"} |->
        CASE k = "X-Deepin-CreateBy" -> [d \in {"default"} |-> <<"AM">>]
          [] k = "Actions" -> [d \in {"default"} |-> r.actions]
          [] k \in {"Icon", "Exec"} -> [d \in {"default"} |-> r.value[k]["default"]]
          [] OTHER -> r.value[k]]

Refused(r) == ~CheckValidation(r) \/ ActionsRefused(r) \/ MainRefused(r)

Content_MainOnly(r) == [g \in {Main} |-> MainEntries(r)]
Content(r) ==
  LET actions == IF "Actions" \in r.keys THEN {ActionGroup(a) : a \in Actions(r)} ELSE {}
  IN [g \in actions \cup {Main} |-> IF g = Main THEN MainEntries(r) ELSE ActionEntries(r, g[2])]

Generate ==
  /\ at = "generate"
  /\ IF Refused(input)
       THEN at' = "refused" /\ UNCHANGED <<text, next, line, groups, group, first, err, kept>>
       ELSE kept' = Content(input) /\ BeginReading(DesktopText(kept'))
  /\ UNCHANGED input

-----------------------------------------------------------------------------
(* The strings of the code are strings. *)
ASSUME StringsAssumption ==
  {"", "default", "Desktop Entry", "Desktop Action", "Default Applications", "Name", "Icon", "Exec", "Actions",
   "X-Deepin-GenerateSource", "path", "Hidden", "true", "false", "X-Deepin-CreateBy", "AM", "type", "new", "app",
   "all of it"} \subseteq Strings
ASSUME FilesAssumption ==
  Files \subseteq [reader : {"desktop", "list", "desktopList"}, text : Seq(FileLine)]
ASSUME RequestedAssumption == \A r \in Requested : RequestType(r)

Init ==
  /\ input \in Files \cup Requested
  /\ text = (IF IsFile THEN input.text ELSE <<>>)
  /\ at = (IF IsFile THEN "open" ELSE "generate")
  /\ next = 1 /\ line = NoLine /\ groups = Empty /\ group = <<>> /\ first = TRUE
  /\ err = "NoError" /\ kept = NotWritten

Read == Open \/ Finish \/ AddGroup \/ SkipGroup \/ AddEntry

Next == Read \/ WriteAutostart \/ WriteList \/ Generate

(* The reading is a loop of its own.                                       *)
Spec == Init /\ [][Next]_vars /\ WF_vars(Read)

-----------------------------------------------------------------------------
(***************************************************************************)
(* What a file means, by its lines and not by the way they are taken.      *)
(***************************************************************************)
HeadersBefore(i) == {j \in 1..i : BeginsGroup(text[j])}
HeaderOf(i) == CHOOSE j \in HeadersBefore(i) : \A k \in HeadersBefore(i) : k <= j
LeftOut(name) == Reader = "desktopList" /\ name \in Associations

(* The lines that are read as entries of a group. *)
EntriesIn(name) ==
  {i \in DOMAIN text : /\ text[i].kind = "entry" /\ HeadersBefore(i) # {} /\ text[HeaderOf(i)].name = name
                       /\ ~(IsDesktop /\ Ignored(text[i]))}
KeyLines(name, key, locale) ==
  {i \in EntriesIn(name) : text[i].key = key /\ (IF IsDesktop THEN KeyedLocale(text[i]) ELSE "default") = locale}
Locales(name, key) ==
  {IF IsDesktop THEN KeyedLocale(text[i]) ELSE "default" : i \in {j \in EntriesIn(name) : text[j].key = key}}

(* The first line counts in a desktop file; in a list only the last can    *)
(* have applications.                                                      *)
TextOf(name, key, locale) ==
  LET lines == KeyLines(name, key, locale)
  IN IF IsDesktop THEN text[CHOOSE i \in lines : \A j \in lines : i <= j].value
     ELSE Applications(text[CHOOSE i \in lines : \A j \in lines : j <= i].value)

Named == {i \in DOMAIN text : text[i].kind = "header" /\ ~LeftOut(text[i].name)}
Meaning ==
  [g \in {text[i].name : i \in Named} |->
    [k \in {text[i].key : i \in EntriesIn(g)} |-> [loc \in Locales(g, k) |-> TextOf(g, k, loc)]]]

Contentful == {i \in DOMAIN text : text[i].kind # "blank"}
GroupsInForm ==
  /\ \A i \in Contentful : text[i].kind = "header" \/ HeadersBefore(i) # {}
  /\ \A i \in DOMAIN text : text[i].kind # "broken"
DesktopInForm ==
  /\ text # <<>> /\ GroupsInForm
  /\ \A i, j \in Named : text[i].name = text[j].name => i = j
  /\ \A i \in Named : text[i].name \notin {<<>>, Main} => \E j \in Named : j < i /\ text[j].name = Main
  /\ Main \in DOMAIN Meaning /\ {"Name", "Type"} \subseteq DOMAIN Meaning[Main]
  /\ Meaning[Main]["Type"]["default"] # <<>>
  /\ Meaning[Main]["Type"]["default"] = <<"Link">> => "URL" \in DOMAIN Meaning[Main]
ListInForm ==
  /\ GroupsInForm
  /\ \A i \in Named : \A j \in EntriesIn(text[i].name) :
       /\ text[j].value # <<>>
       /\ \A k \in EntriesIn(text[i].name) :
            k < j /\ text[k].key = text[j].key => Applications(text[k].value) = <<>>

-----------------------------------------------------------------------------
(* The type of the file and of the parser: a group that is being read has  *)
(* been added, and reading stops at a line only with an error.             *)
TypeOK ==
  /\ text \in Seq(FileLine) /\ line \in FileLine \cup {NoLine} /\ next \in 1..(Len(text) + 1)
  /\ at \in {"generate", "refused", "open", "groups", "skipped", "entries", "done"}
  /\ err \in {"NoError", "OpenFailed", "InvalidFormat", "MissingInfo"}
  /\ first \in BOOLEAN /\ group \in Words /\ ContentType(groups, IF IsDesktop THEN LocaleKeys ELSE {})
  /\ at = "entries" => group \in DOMAIN groups
  /\ at = "done" /\ err = "NoError" => AtEnd

(* A file is read if and only if its lines are in form, and what is read   *)
(* is what they mean, whatever the order of groups, comments and repeated  *)
(* or localized keys (skip, addGroup and addEntry of both parsers,         *)
(* DesktopEntry::parse).                                                   *)
ReadsMeaning ==
  at = "done" =>
    /\ err = "NoError" <=> IF IsDesktop THEN DesktopInForm ELSE ListInForm
    /\ err = "NoError" => groups = Meaning

(* What AM has written, it reads again:                                    *)
(*  - an autostart file made of an entry, with every group that toString   *)
(*    keeps and with the marks that were added;                            *)
(*  - a list that was changed, with all of its groups, types and           *)
(*    applications, unless it had a type without any;                      *)
(*  - a file generated for a user, with all that was generated, and each   *)
(*    action of its list has a group with a name, if the user gave keys    *)
(*    and locales that can be read, a text at least for each key, and      *)
(*    several actions as a list.                                           *)
(* An action that is named twice would be written twice (saveAutostartEntry, *)
(* insertToSection, generate, both toString and both parsers).             *)
Once(seq) == \A i, j \in DOMAIN seq : seq[i] = seq[j] => i = j
AutostartKeeps ==
  IsDesktop /\ IsFile /\ Once(ActionsOf(kept)) =>
    /\ err = "NoError"
    /\ groups = [g \in {g \in DOMAIN kept : IsAction(g) => g[2] \in Range(ActionsOf(kept))} |-> kept[g]]
ListKeeps ==
  ~IsDesktop /\ (\A g \in DOMAIN kept : \A k \in DOMAIN kept[g] : kept[g][k]["default"] # <<>>)
    => err = "NoError" /\ groups = kept
Readable(content) ==
  \A g \in DOMAIN content : \A k \in DOMAIN content[g] :
    k \notin InvalidKeys /\ DOMAIN content[g][k] # {} /\ DOMAIN content[g][k] \cap InvalidLocales = {}
GeneratedReads ==
  ~IsFile /\ Once(ActionsOf(kept)) /\ Readable(kept) /\ (input.listed \/ Len(input.actions) <= 1) =>
    /\ err = "NoError" /\ groups = kept
    /\ \A a \in Range(ActionsOf(groups)) : ActionGroup(a) \in DOMAIN groups /\ "Name" \in DOMAIN groups[ActionGroup(a)]
WrittenReads == at = "done" /\ kept # NotWritten => AutostartKeeps /\ ListKeeps /\ GeneratedReads

(* Reading ends, unless the file of a single desktop ends in a group that  *)
(* is left out (see SkippedGroupEnds).                                     *)
EndsLeftOut ==
  LET headers == HeadersBefore(Len(text))
  IN headers # {} /\ LeftOut(text[HeaderOf(Len(text))].name)
ReadingEnds == (at = "open" /\ ~EndsLeftOut) ~> at = "done"

(* A group of associations in the file of a single desktop is skipped, and *)
(* the rest of the file is read ("skip this group", mimefileparser.cpp:64). *)
SkippedGroupEnds == at = "open" ~> at = "done"
=============================================================================
