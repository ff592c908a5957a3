--------------------------- MODULE LaunchRequest ---------------------------
(***************************************************************************)
(* One call of ApplicationService::Launch at a time: how the command and   *)
(* the settings of its units come from the desktop file, the caller's      *)
(* options and AM's own, through the job's pool threads to the helper and  *)
(* to systemd.  The threads share what the job's lambda captured.          *)
(*                                                                         *)
(* A request r is the call with what the application has at the time:      *)
(*   exec, autostart    the words of the entry's Exec (<<>>: none), and    *)
(*                      whether this is a launch at login                  *)
(*   quoting            how its author wrote these and other words as text *)
(*   asked, actions     the action asked for, and the Exec of each         *)
(*   compatFile, override   compatibility file and session override        *)
(*   look               what field codes stand for, and the resources      *)
(*   environ, env, unset, path, uid, callerHooks, extra   options          *)
(*   entryPath, terminal, hookDirs, searchPath   of the entry and of AM    *)
(* A resource is [url, scheme, path].                                      *)
(***************************************************************************)
EXTENDS ExecLine

CONSTANTS Requests, Threads, NoRequest,
          Atoms     \* the strings a text is made of

Text == Seq(Atoms)
Texts == Seq(Text)
ResourceType == [url : Text, scheme : {"file", "plain", "remote", "invalid"}, path : Text]

(* Files of hooks per directory, and the groups of a compatibility file.   *)
HooksType(dirs) ==
  /\ LET ranks == UNION {DOMAIN dirs[i] : i \in DOMAIN dirs} IN ranks \subseteq Nat /\ IsFiniteSet(ranks)
  /\ DOMAIN dirs \subseteq Nat
  /\ \A i \in DOMAIN dirs : \A n \in DOMAIN dirs[i] : dirs[i][n] \in Texts
CompatType(file) ==
  \A i \in DOMAIN file : \A g \in DOMAIN file[i].groups :
    file[i].groups[g].exec \in Texts /\ file[i].groups[g].env \in Texts

RequestType(r) ==
  /\ {r.exec, r.override, r.env, r.unset, r.extra, r.searchPath} \subseteq Texts
  /\ {r.environ, r.path, r.entryPath, r.look.icon, r.look.name, r.look.path} \subseteq Text
  /\ \A a \in DOMAIN r.actions : r.actions[a] \in Texts
  /\ r.look.fields \in Seq(ResourceType)
  /\ HooksType(r.hookDirs) /\ CompatType(r.compatFile)

ASSUME ThreadsAssumption == IsFiniteSet(Threads)
ASSUME RequestsAssumption == NoRequest \notin Requests /\ \A r \in Requests : RequestType(r)
(* Atoms has the characters and the words that the program itself writes.  *)
ASSUME AtomsAssumption ==
  {" ", "newline", "tab", "return", ";", "\\", "\"", "$", "backtick", "apostrophe", "%", "-", "=", "!AM_FULL!",
   "icon", "e", "keep-open", "deepin-terminal", "DSG_APP_ID", "app", "app-DDE-app@instance.service",
   "unitName", "SyslogIdentifier", "SourcePath", "ExecSearchPath", "Environment", "UnsetEnvironment",
   "WorkingDirectory", "longer", "pkexec", "user", "name", "env", "DISPLAY", ":0", "XAUTHORITY", "file"}
    \subseteq Atoms

VARIABLES job,      \* the call and the items of its job not yet begun
          shared,   \* the captures of the lambda, which items move from
          worker,   \* the pool threads
          units,    \* what systemd was asked to run for this job
          overlap   \* of this job ran: no item ("none"), one item "alone", "more", or some "raced" at a capture

vars == <<job, shared, worker, units, overlap>>

-----------------------------------------------------------------------------
(***************************************************************************)
(* Launch.                                                                 *)
(***************************************************************************)
FullExec == "!AM_FULL!"

(* How the author of a file writes words: each in quotes of one kind (no   *)
(* single quotes around an apostrophe), with backslashes, or with a quote  *)
(* that does not end; a value may be escaped once more, as the desktop     *)
(* entry specification has it.                                             *)
Quoted(word, quoting) ==
  LET escaped(special) == FlattenSeq([i \in DOMAIN word |-> IF word[i] \in special THEN <<"\\", word[i]>> ELSE <<word[i]>>])
  IN CASE word = <<FullExec>> -> word
       [] word # <<FullExec>> /\ (quoting \in {"double", "open"} \/ word = <<>>) ->
            <<"\"">> \o escaped({"\"", "\\", "$", "backtick"}) \o <<"\"">>
       [] word \notin {<<FullExec>>, <<>>} /\ quoting = "single" /\ ~Has(word, "apostrophe") ->
            <<"apostrophe">> \o word \o <<"apostrophe">>
       [] OTHER -> escaped({"\"", "\\", "apostrophe"} \cup Blanks)
Written(words, quoting) ==
  FlattenSeq([i \in DOMAIN words |-> (IF i = 1 THEN <<>> ELSE <<" ">>) \o Quoted(words[i], quoting)])
    \o (IF quoting = "open" THEN <<" ", "\"">> ELSE <<>>)
EscapedValue(text) == FlattenSeq([i \in DOMAIN text |-> IF text[i] = "\\" THEN <<"\\", "\\">> ELSE <<text[i]>>])

(* The Exec of an action is unescaped before it is split, that of the      *)
(* entry is not.                                                           *)
MainExec(r) == Written(r.exec, r.quoting)
EntryExec(r) ==
  IF ~r.autostart /\ r.asked \in DOMAIN r.actions /\ r.actions[r.asked] # <<>>
    THEN UnescapeValue(EscapedValue(Written(r.actions[r.asked], r.quoting)))
    ELSE MainExec(r)
HasExec(r) == r.exec # <<>> \/ (~r.autostart /\ r.asked \in DOMAIN r.actions /\ r.actions[r.asked] # <<>>)

(* processCompatibility: the session's override, which may hold the Exec   *)
(* of the entry, goes before the compatibility file.  An action that was   *)
(* asked for, supported or not, is looked up there instead of the entry.   *)
CompatExec(r) == GetExec(r.compatFile, "app", IF r.asked = "none" THEN "entry" ELSE r.asked)
ResolveExecValue(text, original) ==
  FlattenSeq([i \in DOMAIN text |-> IF text[i] = FullExec THEN original ELSE <<text[i]>>])

ProcessCompatibility(r) ==
  IF r.override # <<>> THEN ResolveExecValue(Written(r.override, r.quoting), EntryExec(r))
  ELSE IF CompatExec(r) # <<>> THEN Written(CompatExec(r), r.quoting) ELSE EntryExec(r)

LineOf(r) == SplitExec(ProcessCompatibility(r))

AppId == <<"DSG_APP_ID", "=", "app">>

(* The Environ property is one word here, whatever it holds. *)
AppendExtraEnvironments(r) ==
  (IF r.environ = <<>> THEN <<>> ELSE <<r.environ>>) \o r.env \o <<AppId>>

Environments(r) ==
  UnescapeEnvs(AppendExtraEnvironments(r) \o (IF CompatExec(r) # <<>> THEN GetEnv(r.compatFile, "app") ELSE <<>>))

(* The caller's hooks and search path are dropped, AM's are set.           *)
OptionValue(r, k) ==
  CASE k = "_builtIn_searchExec" -> r.searchPath
    [] k = "_hooks" -> LoadHooks(r.hookDirs)
    [] k = "env" -> Environments(r)
    [] k = "path" -> IF r.path # <<>> THEN r.path ELSE r.entryPath
    [] k = "uid" -> r.uid
    [] k = "unsetEnv" -> r.unset
    [] k = "--" -> <<>>

OptionsOf(r) ==
  LET keys == {k \in Range(OptionKeys) : (k = "_hooks" => LoadHooks(r.hookDirs) # <<>>) /\ (k = "uid" => r.uid # "none")}
  IN [k \in keys \cup {"--"} |-> OptionValue(r, k)]

Terminal == << <<"deepin-terminal">>, <<"-", "-", "keep-open">>, <<"-", "e">> >>

Commands(r) == GenerateCommand(OptionsOf(r)) \o (IF r.terminal THEN Terminal ELSE <<>>)

NoJob == [state |-> "idle", request |-> NoRequest, items |-> <<>>, local |-> FALSE, location |-> -1, adding |-> FALSE]
NoCaptures == [cmds |-> <<>>, command |-> <<>>, argNum |-> -1, extra |-> <<>>]
Resting_Unset == [at |-> "rest", value |-> <<>>, args |-> <<>>, resources |-> <<>>, index |-> -1, late |-> FALSE]
Resting == [at |-> "rest", value |-> <<>>, args |-> <<>>, resources |-> <<>>, index |-> 0, late |-> FALSE]

TaskOf(r) == ProcessExec(LineOf(r), r.look)

Init ==
  /\ job = NoJob /\ shared = NoCaptures /\ units = <<>> /\ overlap = "none"
  /\ worker = [w \in Threads |-> Resting]

(* getpwuid of a user that does not exist is used without a check.         *)
Launch(r) ==
  LET task == TaskOf(r)
  IN /\ job.state = "idle"
     /\ CASE ~HasExec(r) -> UNCHANGED <<job, shared>>
          [] HasExec(r) /\ r.uid = "unknown" -> job' = [NoJob EXCEPT !.state = "crashed"] /\ UNCHANGED shared
          [] HasExec(r) /\ r.uid # "unknown" /\ Invalid(LineOf(r), task) ->
               UNCHANGED <<job, shared>>
          [] OTHER ->
               /\ job' = [state |-> "running", request |-> r, items |-> task.items,
                           local |-> task.local, location |-> task.location, adding |-> TRUE]
               /\ shared' = [cmds |-> Commands(r), command |-> task.command,
                             argNum |-> task.argNum, extra |-> r.extra]
     /\ UNCHANGED <<worker, units, overlap>>

-----------------------------------------------------------------------------
(***************************************************************************)
(* The lambda, statement by statement.  addJob keeps a lambda of its own   *)
(* until it returns, with which that of the items shares its lists.        *)
(***************************************************************************)
AddJobReturns ==
  /\ job.state = "running" /\ job.adding
  /\ job' = [job EXCEPT !.adding = FALSE]
  /\ UNCHANGED <<shared, worker, units, overlap>>

(* operator<<(QList &&) copies a list that is shared; one that is not it   *)
(* moves from, which leaves the size but not the texts.                    *)
Moved(list) == [i \in DOMAIN list |-> <<>>]
LeftBy_Copied(list) == list
LeftBy(list) == IF job.adding THEN list ELSE Moved(list)

At(w, place) == job.state = "running" /\ worker[w].at = place
Busy == {w \in Threads : worker[w].at # "rest"}

BeginItem(w) ==
  /\ At(w, "rest") /\ job.items # <<>>
  /\ worker' = [worker EXCEPT ![w] = [Resting EXCEPT !.at = "options", !.value = Head(job.items)]]
  /\ job' = [job EXCEPT !.items = Tail(@)]
  /\ overlap' = CASE overlap = "none" -> "alone" [] overlap = "alone" -> "more" [] OTHER -> overlap
  /\ UNCHANGED <<shared, units>>

UnitName == <<"app-DDE-app@instance.service">>

OwnSettings ==
  <<Setting("unitName", UnitName), Setting("SyslogIdentifier", <<"app">>), Setting("SourcePath", job.request.look.path)>>

(* Threads W at the same statement that changes a capture: more than one   *)
(* is a data race, in which all of them may have what one should (or see   *)
(* DataRace).  worker[w].late: the item took its options from lists that   *)
(* are no longer shared with addJob.                                       *)
Together(W) == overlap' = IF Cardinality(W) > 1 THEN "raced" ELSE overlap
Advance(W, step(_)) == worker' = [w \in Threads |-> IF w \in W THEN step(w) ELSE worker[w]]

TakeOptions(W) ==
  /\ \A w \in W : At(w, "options")
  /\ Advance(W, LAMBDA w : [worker[w] EXCEPT !.at = "resources", !.args = OwnSettings \o shared.cmds,
                                            !.late = ~job.adding])
  /\ shared' = [shared EXCEPT !.cmds = LeftBy(@)]
  /\ Together(W) /\ UNCHANGED <<job, units>>

Usable(resource) == resource.scheme \in {"file", "plain"}

(* A resource that cannot be used is erased, and argNum, an index into the *)
(* command, is lowered as if it were one into the resources.               *)
Formatted(value, argNum) ==
  LET read[i \in 0..Len(value)] ==
        IF i = 0 THEN [texts |-> <<>>, argNum |-> argNum]
        ELSE IF Usable(value[i]) THEN [read[i - 1] EXCEPT !.texts = Append(@, value[i].path)]
        ELSE [read[i - 1] EXCEPT !.argNum = IF Len(read[i - 1].texts) < @ THEN @ - 1 ELSE @]
  IN read[Len(value)]

FormatResources(w) ==
  LET value == worker[w].value
      local == Formatted(value, shared.argNum)
  IN /\ At(w, "resources")
     /\ IF job.local
          THEN /\ worker' = [worker EXCEPT ![w].at = "command", ![w].resources = local.texts]
               /\ shared' = [shared EXCEPT !.argNum = local.argNum]
          ELSE /\ worker' = [worker EXCEPT ![w].at = "command",
                                           ![w].resources = [i \in DOMAIN value |-> value[i].url]]
               /\ UNCHANGED shared
     /\ UNCHANGED <<job, units, overlap>>

(* The words one argument of the command becomes in this item.             *)
Expanded(w, arg) ==
  LET texts == worker[w].resources
  IN IF worker[w].index # shared.argNum THEN <<arg>>
     ELSE IF texts = <<>> THEN <<ReplaceCode(arg, job.location, <<>>)>>
     ELSE <<ReplaceCode(arg, job.location, Head(texts))>> \o Tail(texts)

TakeArgument(W) ==
  /\ shared.command # <<>> /\ \A w \in W : At(w, "command")
  /\ Advance(W, LAMBDA w : [worker[w] EXCEPT !.args = @ \o Expanded(w, Head(shared.command)),
                                            !.resources = IF worker[w].index # shared.argNum THEN @ ELSE <<>>,
                                            !.index = @ + 1])
  /\ shared' = [shared EXCEPT !.command = Tail(@)]
  /\ Together(W) /\ UNCHANGED <<job, units>>

AppendExtraArgs(W) ==
  /\ shared.command = <<>> /\ \A w \in W : At(w, "command")
  /\ Advance(W, LAMBDA w : [worker[w] EXCEPT !.at = "helper", !.args = @ \o shared.extra])
  /\ shared' = [shared EXCEPT !.extra = LeftBy(@)]
  /\ Together(W) /\ UNCHANGED <<job, units>>

(* The helper asks systemd for the unit, or fails; the item is done.       *)
RunHelper(w) ==
  LET u == CmdParse(worker[w].args)
  IN /\ At(w, "helper")
     /\ units' = IF Startable(u)
                   THEN Append(units, [name |-> u.name, props |-> u.props, value |-> worker[w].value,
                                       command |-> ExecStart(u.command), late |-> worker[w].late])
                   ELSE units
     /\ worker' = [worker EXCEPT ![w] = Resting]
     /\ UNCHANGED <<job, shared, overlap>>

Changes(place) == (place = "command" /\ shared.command # <<>>) \/ (place \in {"options", "command"} /\ ~job.adding)
DataRace ==
  /\ job.state = "running"
  /\ \E v, w \in Busy : v # w /\ worker[v].at = worker[w].at /\ Changes(worker[w].at)
  /\ job' = [NoJob EXCEPT !.state = "crashed"]
  /\ shared' = NoCaptures /\ worker' = [w \in Threads |-> Resting]
  /\ UNCHANGED <<units, overlap>>

EndJob_Started ==
  /\ job.state = "running" /\ ~job.adding /\ job.items = <<>> /\ Busy = {}
  /\ units # <<>>
  /\ job' = NoJob /\ units' = <<>> /\ overlap' = "none"
  /\ shared' = NoCaptures
  /\ UNCHANGED worker
EndJob ==
  /\ job.state = "running" /\ ~job.adding /\ job.items = <<>> /\ Busy = {}
  /\ job' = NoJob /\ units' = <<>> /\ overlap' = "none"
  /\ shared' = NoCaptures
  /\ UNCHANGED worker

(* systemd starts a process that died again.                               *)
Restart ==
  /\ job.state = "crashed"
  /\ job' = NoJob /\ units' = <<>> /\ overlap' = "none"
  /\ UNCHANGED <<shared, worker>>

Item(w) ==
  \/ BeginItem(w) \/ TakeOptions({w}) \/ FormatResources(w)
  \/ TakeArgument({w}) \/ AppendExtraArgs({w}) \/ RunHelper(w)

Race(v, w) ==
  /\ v # w /\ Changes(worker[w].at)
  /\ TakeOptions({v, w}) \/ TakeArgument({v, w}) \/ AppendExtraArgs({v, w})

Next ==
  \/ \E r \in Requests : Launch(r)
  \/ \E w \in Threads : Item(w)
  \/ \E v, w \in Threads : Race(v, w)
  \/ AddJobReturns \/ DataRace \/ EndJob \/ Restart

(* The pool's threads and the main thread keep running; the job ends with  *)
(* the last item.                                                          *)
Fairness == (\A w \in Threads : WF_vars(Item(w))) /\ WF_vars(AddJobReturns) /\ WF_vars(EndJob)

Spec == Init /\ [][Next]_vars /\ Fairness

-----------------------------------------------------------------------------
(***************************************************************************)
(* What a unit should run, read from the desktop entry specification: by   *)
(* positions in the Exec line, not argument by argument.                   *)
(***************************************************************************)
(* A "%" starts a code unless it is itself escaped, or ends its argument.  *)
CodeAt(arg, i) ==
  /\ i \in 1..(Len(arg) - 1) /\ arg[i] = "%"
  /\ LET before == {j \in 0..(i - 1) : \A k \in (j + 1)..(i - 1) : arg[k] = "%"}
     IN (i - 1 - (CHOOSE j \in before : \A k \in before : j <= k)) % 2 = 0

FieldPlaces(line) ==
  {p \in {<<n, i>> : n \in DOMAIN line, i \in 1..Max({Len(line[m]) : m \in DOMAIN line})} :
     CodeAt(line[p[1]], p[2]) /\ line[p[1]][p[2] + 1] \in FieldCodes}
FirstField(line) ==
  CHOOSE p \in FieldPlaces(line) :
    \A q \in FieldPlaces(line) : p[1] < q[1] \/ (p[1] = q[1] /\ p[2] <= q[2])

Resources(line, value) ==
  LET p == FirstField(line)
  IN [i \in DOMAIN value |-> IF line[p[1]][p[2] + 1] \in {"f", "F"} THEN value[i].path ELSE value[i].url]

TextAt(line, n, i, look, value) ==
  LET arg == line[n]
  IN CASE CodeAt(arg, i) /\ arg[i + 1] \in FieldCodes ->
            IF value # <<>> /\ FirstField(line) = <<n, i>> THEN Head(Resources(line, value)) ELSE <<>>
       [] CodeAt(arg, i) /\ arg[i + 1] = "c" -> look.name
       [] CodeAt(arg, i) /\ arg[i + 1] = "k" -> look.path
       [] CodeAt(arg, i) /\ arg[i + 1] = "%" -> <<"%">>
       [] CodeAt(arg, i) /\ arg[i + 1] \in Deprecated -> <<>>
       [] CodeAt(arg, i - 1) -> <<>>
       [] OTHER -> <<arg[i]>>

WordsOf(line, n, look, value) ==
  LET arg    == line[n]
      text   == FlattenSeq([i \in DOMAIN arg |-> TextAt(line, n, i, look, value)])
      opened == value # <<>> /\ FieldPlaces(line) # {} /\ FirstField(line)[1] = n
  IN CASE arg = <<"%", "i">> -> IF look.icon = <<>> THEN <<>> ELSE <<IconOption, look.icon>>
       [] arg # <<"%", "i">> /\ opened -> <<text>> \o Tail(Resources(line, value))
       [] OTHER -> IF text = <<>> /\ Has(arg, "%") THEN <<>> ELSE <<text>>

(* A hook file takes the place of those of the same name in the later      *)
(* directories, which are AM's own.                                        *)
HooksInOrder(r) ==
  LET dirs       == r.hookDirs
      usable(n)  == {i \in DOMAIN dirs : n \in DOMAIN dirs[i] /\ dirs[i][n] # NoHook}
      hook(n)    == IF usable(n) = {} THEN <<>>
                    ELSE CHOOSE h \in {dirs[i][n] : i \in usable(n)} :
                           \E i \in usable(n) : h = dirs[i][n] /\ usable(n) \cap 0..(i - 1) = {}
      names      == UNION {DOMAIN dirs[i] : i \in DOMAIN dirs}
  IN FlattenSeq([n \in 1..Max({0} \cup names) |-> hook(n)])

(* The words that are meant, however they were written. *)
MeantEntry(r) ==
  IF ~r.autostart /\ r.asked \in DOMAIN r.actions /\ r.actions[r.asked] # <<>> THEN r.actions[r.asked] ELSE r.exec
MeantLine(r) ==
  IF r.override # <<>>
    THEN FlattenSeq([i \in DOMAIN r.override |-> IF r.override[i] = <<FullExec>> THEN MeantEntry(r) ELSE <<r.override[i]>>])
  ELSE IF CompatExec(r) # <<>> THEN CompatExec(r) ELSE MeantEntry(r)

(* What a line means is open where a word has more around an icon's code,  *)
(* and where an override puts the entry's Exec into a word or after a      *)
(* quote that does not end.                                                *)
OneReading(r) ==
  /\ LET line == MeantLine(r)
     IN \A n \in DOMAIN line : \A i \in DOMAIN line[n] :
          CodeAt(line[n], i) /\ line[n][i + 1] = "i" => line[n] = <<"%", "i">>
  /\ r.override # <<>> =>
       r.quoting # "open" /\ \A i \in DOMAIN r.override : Has(r.override[i], FullExec) => r.override[i] = <<FullExec>>

WantedCommand(r, value) ==
  LET line == MeantLine(r)
  IN HooksInOrder(r) \o (IF r.uid = "other" THEN RunAs ELSE <<>>) \o (IF r.terminal THEN Terminal ELSE <<>>)
     \o FlattenSeq([n \in DOMAIN line |-> WordsOf(line, n, r.look, value)]) \o r.extra

DecodedCommand(u) == [i \in DOMAIN u.command |-> Decode(u.command[i])]

AllUsable(value) == \A i \in DOMAIN value : Usable(value[i])

Skipped(value) == SelectSeq(value, Usable)

-----------------------------------------------------------------------------
(* The type of the job, the captures of its lambda and the pool threads.   *)
TypeOK ==
  /\ job \in [state : {"idle", "running", "crashed"}, request : Requests \cup {NoRequest}, items : Seq(Seq(ResourceType)),
             local : BOOLEAN, location : Int, adding : BOOLEAN]
  /\ shared \in [cmds : Texts, command : Texts, argNum : Int, extra : Texts]
  /\ worker \in [Threads -> [at : {"rest", "options", "resources", "command", "helper"},
                             value : Seq(ResourceType), args : Texts, resources : Texts, index : Nat, late : BOOLEAN]]
  /\ units \in Seq([name : Text, props : SUBSET (Atoms \X Text), value : Seq(ResourceType), command : Texts, late : BOOLEAN])
  /\ overlap \in {"none", "alone", "more", "raced"}

(* What systemd executes, once it has undone the helper's escapes, is AM's *)
(* hooks, the change of user, the terminal, the expanded Exec and the      *)
(* extra arguments, each word once and whole, however it was quoted in the *)
(* desktop file: for the first item of the job, as long as no other began, *)
(* when no local field code got a resource that is not local, the line has *)
(* one reading, and no word is "\;", which encodeArgument makes of ";" too *)
(* (processExec, the job's lambda, generateCommand, cmdParse,              *)
(* encodeArgument).                                                        *)
CommandIntact ==
  \A i \in DOMAIN units :
    LET wanted == WantedCommand(job.request, units[i].value)
    IN overlap = "alone" /\ (TaskOf(job.request).local => AllUsable(units[i].value))
         /\ OneReading(job.request) /\ <<"\\", ";">> \notin Range(wanted)
         => DecodedCommand(units[i]) = wanted

(* And the unit has the settings of the request: no word of the command,   *)
(* the extra arguments or the hooks became one (the "--" of generateCommand *)
(* and cmdParse's split at the first "=").                                 *)
WantedSettings(r) ==
  LET path == OptionValue(r, "path")
  IN {<<"SourcePath", r.look.path>>, <<"SyslogIdentifier", <<"app">>>>}
     \cup {<<"Environment", e>> : e \in Range(Environments(r))}
     \cup {<<"UnsetEnvironment", e>> : e \in Range(r.unset)}
     \cup {<<"ExecSearchPath", e>> : e \in {e \in Range(r.searchPath) : e # <<>> /\ e[1] = "/"}}
     \cup (IF path = <<>> THEN {} ELSE {<<"WorkingDirectory", path>>})
SettingsIntact ==
  \A i \in DOMAIN units :
    overlap = "alone" => units[i].props = WantedSettings(job.request)

UnitIntact == CommandIntact /\ SettingsIntact

(* All items of a launch carry the same unit name, with which systemd has  *)
(* one unit.  Of the items that take the options when addJob has returned  *)
(* at most one asks for it, barring a data race on a capture: it moves     *)
(* them away, and the helper refuses the next.                             *)
OneLateUnit ==
  overlap # "raced" => \A i, j \in DOMAIN units : units[i].late /\ units[j].late => i = j

(* A job that began ends, whatever its resources and its threads do.       *)
JobEnds == job.state = "running" ~> job.state # "running"

(* A resource that %f or %F cannot take is skipped: the unit runs the      *)
(* command without it ("Remote file not supported yet, skipping",          *)
(* applicationservice.cpp:594).                                            *)
RemoteSkipped ==
  \A i \in DOMAIN units :
    overlap = "alone" =>
      \/ DecodedCommand(units[i]) = WantedCommand(job.request, Skipped(units[i].value))
      \/ DecodedCommand(units[i]) = WantedCommand(job.request, << [url |-> <<>>, scheme |-> "plain", path |-> <<>>] >>)
=============================================================================
