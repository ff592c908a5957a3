--------------------------- MODULE AppList_proofs ---------------------------
(***************************************************************************)
(* Proofs about AppList: the type invariant, that a scan deletes no stored *)
(* records of an application whose file is in some directory, that the     *)
(* list follows the files after an undisturbed scan, and that the value    *)
(* asked of AutoStart outlives reloads and restarts.                       *)
(***************************************************************************)
EXTENDS AppList, FiniteSetTheorems, TLAPS

USE IdsAssumption, FilesAssumption, ValuesAssumption, BoundsAssumption

Files == [Source -> [Ids -> Content \cup {NoFile}]]

LEMMA ValuesDistinct ==
  /\ NoFile \notin Entry /\ BadFile \notin Entry /\ NoFile # BadFile
  /\ NotListed \notin App /\ NoSource \notin Source
BY DEF Content

LEMMA SourceType ==
  /\ \A d \in Dirs : AppDir(d) \in Source /\ AutoDir(d) \in Source
  /\ UserAuto \in Source
  /\ AppDir("user") # AppDir("sys")
  /\ \A s \in Source : s = AppDir("user") \/ s = AppDir("sys") \/ s = AutoDir("user") \/ s = AutoDir("sys")
BY DEF Source, AppDir, AutoDir, UserAuto, Dirs

LEMMA FileType ==
  ASSUME files \in Files, NEW s \in Source, NEW id \in Ids,
         files[s][id] # NoFile, files[s][id] # BadFile
  PROVE  files[s][id] \in Entry
BY DEF Files, Content

LEMMA AppFields ==
  ASSUME NEW a \in App
  PROVE  /\ a.entry \in Entry /\ a.src \in Source
         /\ a.auto \in Source \cup {NoSource} /\ a.autoEntry \in Entry \cup {NoEntry}
BY DEF App

LEMMA EntryFields ==
  ASSUME NEW e \in Entry
  PROVE  e.body \in Bodies /\ e.hidden \in BOOLEAN /\ e.runs \in BOOLEAN /\ e.gen \in Source \cup {NoSource}
BY DEF Entry

LEMMA WinnerType ==
  ASSUME NEW kind \in {"app", "auto"}, NEW id \in Ids
  PROVE  /\ Winner(kind, id) \in Source \cup {NoSource}
         /\ Winner(kind, id) # NoSource => files[Winner(kind, id)][id] # NoFile
BY DEF Winner, Exists, Source, Dirs

LEMMA CreatedType ==
  ASSUME files \in Files, NEW s \in Source, NEW id \in Ids
  PROVE  Created(id, s) \in App \cup {NotListed}
BY DEF Created, App, Files

LEMMA SyncedEntryType ==
  ASSUME files \in Files, NEW id \in Ids, NEW a \in App, NeedsSync(id, a)
  PROVE  SyncedEntry(id, a) \in Entry
<1>1. a.auto \in Source /\ files[a.auto][id] \in Entry
  BY AppFields DEF NeedsSync, Generated
<1>2. a.entry \in Entry /\ a.src \in Source /\ files[a.auto][id].hidden \in BOOLEAN
  BY <1>1, AppFields, EntryFields
<1> QED BY <1>2 DEF SyncedEntry, Entry

LEMMA SyncedAppType ==
  ASSUME files \in Files, NEW id \in Ids, NEW a \in App, NEW torn
  PROVE  SyncedApp(id, a, torn) \in App
<1>1. CASE NeedsSync(id, a) /\ id \notin torn
  <2>1. SyncedEntry(id, a) \in Entry BY <1>1, SyncedEntryType
  <2> HIDE DEF SyncedEntry
  <2> QED BY <1>1, <2>1 DEF SyncedApp, App
<1>2. CASE ~(NeedsSync(id, a) /\ id \notin torn)
  BY <1>2 DEF SyncedApp
<1> QED BY <1>1, <1>2

LEMMA UpdatedType ==
  ASSUME files \in Files, NEW id \in Ids, NEW a \in App, NEW s \in Source, files[s][id] \in Entry
  PROVE  Updated(id, a, s) \in App
<1> DEFINE b == [a EXCEPT !.entry = files[s][id]]
<1>1. b \in App BY DEF App
<1>2. [b EXCEPT !.src = s] \in App
  <2> HIDE DEF b
  <2> QED BY <1>1 DEF App
<1> HIDE DEF b
<1> QED BY <1>1, <1>2 DEF Updated, b

LEMMA AttachedType ==
  ASSUME files \in Files, NEW id \in Ids, NEW a \in App \cup {NotListed}, Starts(id)
  PROVE  Attached(id, a) \in App \cup {NotListed}
<1> DEFINE w == Winner("auto", id)
           e == files[w][id]
           owner == IF a = NotListed /\ Generated(e) THEN Created(id, e.gen) ELSE a
<1>1. w \in Source /\ e \in Entry
  BY WinnerType, FileType DEF Starts
<1>2. owner \in App \cup {NotListed}
  <2>1. CASE a = NotListed /\ Generated(e)
    <3>1. e.gen \in Source BY <1>1, <2>1, EntryFields DEF Generated
    <3> HIDE DEF e
    <3> QED BY <2>1, <3>1, CreatedType
  <2> QED BY <2>1
<1>3. owner # NotListed => [owner EXCEPT !.auto = w, !.autoEntry = e] \in App
  <2> HIDE DEF w, e, owner
  <2> QED BY <1>1, <1>2 DEF App
<1>4. [entry |-> e, src |-> w, auto |-> w, autoEntry |-> NoEntry] \in App
  <2> HIDE DEF w, e
  <2> QED BY <1>1 DEF App
<1>5. Attached(id, a) = IF owner # NotListed THEN [owner EXCEPT !.auto = w, !.autoEntry = e]
                        ELSE IF Generated(e) THEN NotListed
                        ELSE [entry |-> e, src |-> w, auto |-> w, autoEntry |-> NoEntry]
  BY DEF Attached
<1> QED
  <2> HIDE DEF w, e, owner
  <2> QED BY <1>2, <1>3, <1>4, <1>5

(* Syncing writes only where a file is, and leaves a file there. *)
LEMMA SyncedFilesType ==
  ASSUME files \in Files, NEW ids \in SUBSET Ids, NEW apps, NEW torn,
         \A id \in ids : apps[id] \in App
  PROVE  /\ SyncedFiles(ids, apps, torn) \in Files
         /\ \A s \in Source, id \in Ids : SyncedFiles(ids, apps, torn)[s][id] = NoFile <=> files[s][id] = NoFile
<1> DEFINE new(s, id) == IF id \in ids /\ apps[id].auto = s /\ NeedsSync(id, apps[id])
                         THEN SyncedFile(id, apps[id], torn) ELSE files[s][id]
<1>1. ASSUME NEW s \in Source, NEW id \in Ids
      PROVE  new(s, id) \in Content \cup {NoFile} /\ (new(s, id) = NoFile <=> files[s][id] = NoFile)
  <2>1. CASE id \in ids /\ apps[id].auto = s /\ NeedsSync(id, apps[id])
    <3>1. SyncedEntry(id, apps[id]) \in Entry BY <2>1, SyncedEntryType
    <3>2. SyncedFile(id, apps[id], torn) \in Content
      <4> HIDE DEF SyncedEntry
      <4> QED BY <3>1 DEF SyncedFile, Content
    <3>3. files[s][id] # NoFile BY <2>1, ValuesDistinct DEF NeedsSync, Generated
    <3>4. NoFile \notin Content BY ValuesAssumption
    <3>5. new(s, id) = SyncedFile(id, apps[id], torn) BY <2>1
    <3> HIDE DEF SyncedFile, new
    <3> QED BY <3>2, <3>3, <3>4, <3>5
  <2>2. CASE ~(id \in ids /\ apps[id].auto = s /\ NeedsSync(id, apps[id]))
    <3>1. new(s, id) = files[s][id] BY <2>2
    <3> HIDE DEF new
    <3> QED BY <3>1 DEF Files
  <2> QED BY <2>1, <2>2
<1>2. SyncedFiles(ids, apps, torn) = [s \in Source |-> [id \in Ids |-> new(s, id)]]
  BY DEF SyncedFiles
<1> HIDE DEF new
<1> QED BY <1>1, <1>2 DEF Files

LEMMA TornWritesType ==
  ASSUME NEW ids \in SUBSET Ids, NEW apps, NEW torn \in TornWrites(ids, apps), faults \in 0..MaxFaults
  PROVE  torn \subseteq Ids /\ faults + Cardinality(torn) \in 0..MaxFaults
<1>1. torn \subseteq Ids /\ faults + Cardinality(torn) <= MaxFaults BY DEF TornWrites
<1>2. Cardinality(torn) \in Nat BY <1>1, FS_Subset, FS_CardinalityType
<1> QED BY <1>1, <1>2
-----------------------------------------------------------------------------
(***************************************************************************)
(* The inductive invariant: an application that is still in left at a      *)
(* point of the scan had no file in the directories already read, at some  *)
(* time since the scan began.                                              *)
(***************************************************************************)
ScanInv ==
  /\ left \subseteq Listed
  /\ left \cap seen = {}
  /\ pc \in {"down", "idle"} => left = {}
  /\ pc \in {"user", "sys", "auto"} => NoFiles \subseteq absent
  /\ pc \in {"sys", "auto"} => \A id \in left : <<"user", id>> \in absent
  /\ pc = "auto" => \A id \in left : <<"sys", id>> \in absent

IInv == TypeOK /\ ScanInv

LEMMA ListType == ASSUME TypeOK, NEW id \in Ids, list[id] # NotListed PROVE list[id] \in App
BY DEF TypeOK

(* What BeginScan does to the invariant, whatever else its caller changes. *)
LEMMA BeginScanInv ==
  ASSUME TypeOK, BeginScan, UNCHANGED <<files, list>>
  PROVE  /\ ScanInv'
         /\ pc' \in {"user"} /\ left' \subseteq Ids /\ seen' \subseteq Ids
         /\ dirty' \in BOOLEAN /\ missed' \in BOOLEAN /\ absent' \subseteq Dirs \X Ids
<1>1. NoFiles' = NoFiles /\ Listed' = Listed BY DEF NoFiles, Listed
<1>2. NoFiles \subseteq Dirs \X Ids /\ Listed \subseteq Ids BY DEF NoFiles, Listed
<1> QED BY <1>1, <1>2 DEF BeginScan, ScanInv

LEMMA InitIInv == Init => IInv
<1> SUFFICES ASSUME Init PROVE IInv
  OBVIOUS
<1>1. files \in Files
  <2>1. AppFiles \cup AutoFiles \subseteq Content BY FilesAssumption DEF Content
  <2> QED BY <2>1 DEF Init, Files
<1>2. TypeOK
  <2>1. conf \in [Ids -> Override] /\ known \in [Ids -> Override] BY DEF Init, Override
  <2>2. list \in [Ids -> App \cup {NotListed}] /\ wish \in [Ids -> {"none", "on", "off"}] BY DEF Init
  <2>3. edits \in 0..MaxEdits /\ faults \in 0..MaxFaults BY DEF Init
  <2>4. /\ records \subseteq Ids /\ loaded \subseteq Ids /\ ready \subseteq Ids /\ overrideSig \subseteq Ids
        /\ left \subseteq Ids /\ seen \subseteq Ids /\ absent \subseteq Dirs \X Ids
        /\ pc \in {"down", "idle", "user", "sys", "auto"}
        /\ dirSignal \in BOOLEAN /\ timer \in BOOLEAN /\ dirty \in BOOLEAN /\ missed \in BOOLEAN
    BY DEF Init
  <2> QED BY <1>1, <2>1, <2>2, <2>3, <2>4 DEF TypeOK, Files
<1>3. ScanInv BY DEF Init, ScanInv
<1> QED BY <1>2, <1>3 DEF IInv

LEMMA ScanDirInv ==
  ASSUME IInv, NEW d \in Dirs, ScanDir(d)
  PROVE  IInv'
<1> DEFINE here == {id \in Ids : Exists(AppDir(d), id)} \ seen
           updates == {id \in here \cap left : files[AppDir(d)][id] # BadFile}
           apps == [id \in Ids |->
                     IF id \in updates THEN Updated(id, list[id], AppDir(d))
                     ELSE IF id \in here \ left THEN Created(id, AppDir(d))
                     ELSE list[id]]
<1>1. files \in Files /\ AppDir(d) \in Source BY SourceType DEF IInv, TypeOK, Files
<1>2. TypeOK /\ left \subseteq Listed /\ left \subseteq Ids BY DEF IInv, ScanInv, TypeOK
<1>3. ASSUME NEW id \in updates PROVE apps[id] \in App
  <2>1. files[AppDir(d)][id] \in Entry BY <1>1, FileType DEF Exists
  <2>2. list[id] \in App BY <1>2, ListType DEF Listed
  <2>3. Updated(id, list[id], AppDir(d)) \in App BY <1>1, <2>1, <2>2, UpdatedType
  <2> QED BY <2>3
<1>4. ASSUME NEW id \in Ids, id \notin updates PROVE apps[id] \in App \cup {NotListed}
  <2>1. CASE id \in here \ left BY <1>1, <1>4, <2>1, CreatedType
  <2>2. CASE id \notin here \ left BY <1>2, <1>4, <2>2 DEF TypeOK
  <2> QED BY <2>1, <2>2
<1>5. ASSUME NEW id \in left PROVE id \notin updates => apps[id] = list[id]
  BY <1>2
<1>6. /\ pc = d /\ pc' = (IF d = "user" THEN "sys" ELSE "auto")
      /\ seen' = seen \cup here /\ left' = left \ here
      /\ loaded' = loaded \cup {id \in here \ left : files[AppDir(d)][id] # BadFile /\ ~files[AppDir(d)][id].hidden}
      /\ UNCHANGED <<conf, records, known, ready, overrideSig, dirSignal, timer, edits, absent>>
  BY DEF ScanDir
<1>7. PICK torn \in TornWrites(updates, apps) :
          /\ list' = [id \in Ids |-> IF id \in updates THEN SyncedApp(id, apps[id], torn) ELSE apps[id]]
          /\ files' = SyncedFiles(updates, apps, torn)
          /\ faults' = faults + Cardinality(torn)
          /\ dirty' = (dirty \/ torn # {}) /\ missed' = (missed \/ torn # {})
          /\ wish' = [id \in Ids |-> IF id \in torn THEN "none" ELSE wish[id]]
  BY DEF ScanDir
<1>8. here \subseteq Ids /\ updates \subseteq Ids /\ updates \subseteq left OBVIOUS
<1>9. here = {id \in Ids : Exists(AppDir(d), id)} \ seen OBVIOUS
<1> HIDE DEF apps, updates, here
<1>10. files' \in Files /\ \A s \in Source, id \in Ids : files'[s][id] = NoFile <=> files[s][id] = NoFile
  BY <1>1, <1>3, <1>7, <1>8, SyncedFilesType
<1>11. \A id \in Ids : list'[id] \in App \cup {NotListed}
  BY <1>1, <1>3, <1>4, <1>7, <1>8, SyncedAppType
<1>12. TypeOK'
  <2>1. list' \in [Ids -> App \cup {NotListed}] BY <1>7, <1>11
  <2>2. faults' \in 0..MaxFaults
    BY <1>2, <1>7, <1>8, TornWritesType DEF TypeOK
  <2>3. wish' \in [Ids -> {"none", "on", "off"}] BY <1>2, <1>7 DEF TypeOK
  <2>4. dirty' \in BOOLEAN /\ missed' \in BOOLEAN BY <1>2, <1>7 DEF TypeOK
  <2>5. loaded' \subseteq Ids /\ left' \subseteq Ids /\ seen' \subseteq Ids BY <1>2, <1>6, <1>8 DEF TypeOK
  <2>6. pc' \in {"sys", "auto"} BY <1>6
  <2> QED BY <1>2, <1>6, <1>10, <2>1, <2>2, <2>3, <2>4, <2>5, <2>6 DEF TypeOK, Files
<1>13. ScanInv'
  <2>1. left' \subseteq Listed'
    <3> SUFFICES ASSUME NEW id \in left' PROVE id \in Ids /\ list'[id] # NotListed
      BY DEF Listed
    <3>1. id \in left /\ id \in Ids /\ list[id] # NotListed BY <1>2, <1>6 DEF Listed
    <3>2. CASE id \in updates BY <1>1, <1>3, <1>7, <3>1, <3>2, SyncedAppType, ValuesDistinct
    <3>3. CASE id \notin updates BY <1>5, <1>7, <3>1, <3>3
    <3> QED BY <3>2, <3>3
  <2>2. left' \cap seen' = {} BY <1>6 DEF IInv, ScanInv
  <2>3. NoFiles' = NoFiles
    <3>1. \A x \in Dirs \X Ids : AppDir(x[1]) \in Source /\ x[2] \in Ids BY SourceType
    <3> QED BY <1>10, <3>1 DEF NoFiles
  <2>4. NoFiles \subseteq absent /\ absent' = absent BY <1>6 DEF IInv, ScanInv, Dirs
  <2>5. ASSUME NEW id \in left' PROVE <<d, id>> \in absent'
    <3>1. id \in Ids /\ id \notin here /\ id \notin seen BY <1>2, <1>6 DEF IInv, ScanInv
    <3>2. files[AppDir(d)][id] = NoFile
      BY <1>1, <1>9, <3>1, ValuesDistinct DEF Exists
    <3>3. <<d, id>> \in NoFiles BY <3>1, <3>2 DEF NoFiles
    <3> QED BY <2>4, <3>3
  <2>6. pc = "sys" => \A id \in left : <<"user", id>> \in absent BY DEF IInv, ScanInv
  <2>7. left' \subseteq left BY <1>6
  <2>8. d \in {"user", "sys"} BY DEF Dirs
  <2>9. pc' = "auto" => d = "sys" /\ pc = "sys" BY <1>6, <2>8
  <2>10. pc' \in {"sys", "auto"} => \A id \in left' : <<"user", id>> \in absent'
    BY <1>6, <2>4, <2>5, <2>6, <2>7, <2>8
  <2>11. pc' = "auto" => \A id \in left' : <<"sys", id>> \in absent' BY <2>5, <2>9
  <2>12. pc' \notin {"down", "idle"} BY <1>6
  <2> QED BY <2>1, <2>2, <2>3, <2>4, <2>10, <2>11, <2>12 DEF ScanInv
<1> QED BY <1>12, <1>13 DEF IInv

LEMMA FinishScanInv == IInv /\ FinishScan => IInv'
<1> SUFFICES ASSUME IInv, FinishScan PROVE IInv'
  OBVIOUS
<1> DEFINE kept == [id \in Ids |-> IF id \in Removed THEN NotListed ELSE list[id]]
           starts == {id \in Ids : Starts(id)}
           apps == [id \in Ids |-> IF id \in starts THEN Attached(id, kept[id]) ELSE kept[id]]
           updates == {id \in starts : apps[id] # NotListed}
<1>1. TypeOK /\ files \in Files BY DEF IInv, TypeOK, Files
<1>2. ASSUME NEW id \in Ids PROVE apps[id] \in App \cup {NotListed}
  <2>1. kept[id] \in App \cup {NotListed} BY <1>1 DEF TypeOK
  <2> HIDE DEF kept
  <2>2. CASE id \in starts BY <1>1, <2>1, <2>2, AttachedType
  <2>3. CASE id \notin starts BY <2>1, <2>3
  <2> QED BY <2>2, <2>3
<1>3. /\ pc' = "idle" /\ left' = {} /\ records' = records \ Removed
      /\ loaded' = loaded \cup {id \in Ids : Winner("auto", id) # NoSource /\ files[Winner("auto", id)][id] # BadFile}
      /\ UNCHANGED <<conf, known, ready, overrideSig, seen, dirSignal, timer, edits, absent>>
  BY DEF FinishScan
<1>4. PICK torn \in TornWrites(updates, apps) :
          /\ list' = [id \in Ids |-> IF id \in updates THEN SyncedApp(id, apps[id], torn) ELSE apps[id]]
          /\ files' = SyncedFiles(updates, apps, torn)
          /\ faults' = faults + Cardinality(torn)
          /\ dirty' = (dirty \/ torn # {}) /\ missed' = (missed \/ torn # {})
          /\ wish' = [id \in Ids |-> IF id \in torn THEN "none" ELSE wish[id]]
  BY DEF FinishScan
<1>5. updates \subseteq Ids /\ \A id \in updates : apps[id] # NotListed OBVIOUS
<1> HIDE DEF kept, starts, apps, updates
<1>6. files' \in Files BY <1>1, <1>2, <1>4, <1>5, SyncedFilesType
<1>7. \A id \in Ids : list'[id] \in App \cup {NotListed} BY <1>1, <1>2, <1>4, <1>5, SyncedAppType
<1>8. list' \in [Ids -> App \cup {NotListed}] BY <1>4, <1>7
<1>9. faults' \in 0..MaxFaults BY <1>1, <1>4, <1>5, TornWritesType DEF TypeOK
<1>10. wish' \in [Ids -> {"none", "on", "off"}] BY <1>1, <1>4 DEF TypeOK
<1>11. dirty' \in BOOLEAN /\ missed' \in BOOLEAN BY <1>1, <1>4 DEF TypeOK
<1>12. loaded' \subseteq Ids /\ records' \subseteq Ids BY <1>1, <1>3 DEF TypeOK
<1>13. TypeOK' BY <1>1, <1>3, <1>6, <1>8, <1>9, <1>10, <1>11, <1>12 DEF TypeOK, Files
<1>14. ScanInv' BY <1>3 DEF ScanInv
<1> QED BY <1>13, <1>14 DEF IInv

(* Calls, signals and edits: the invariant needs that they keep the listed *)
(* applications listed while a scan runs, and record files that disappear. *)
LEMMA PutType ==
  ASSUME TypeOK, NEW s \in Source, NEW id \in Ids, NEW c \in Content \cup {NoFile}, Put(s, id, c)
  PROVE  /\ files' \in Files
         /\ files'[s][id] = c
         /\ \A t \in Source, i \in Ids : t # s \/ i # id => files'[t][i] = files[t][i]
<1> DEFINE g == [files[s] EXCEPT ![id] = c]
<1>1. files' = [files EXCEPT ![s] = g] BY DEF Put
<1>2. g \in [Ids -> Content \cup {NoFile}] /\ g[id] = c /\ \A i \in Ids : i # id => g[i] = files[s][i]
  BY DEF TypeOK
<1> HIDE DEF g
<1> QED BY <1>1, <1>2 DEF TypeOK, Files

LEMMA ChangesInv ==
  ASSUME IInv, NEW s \in Source, NEW id \in Ids, NEW c \in Content \cup {NoFile}, NEW told \in BOOLEAN,
         Put(s, id, c), Changes(s, id, told)
  PROVE  /\ files' \in Files
         /\ dirty' \in BOOLEAN /\ missed' \in BOOLEAN /\ dirSignal' \in BOOLEAN
         /\ wish' \in [Ids -> {"none", "on", "off"}]
         /\ absent' \subseteq Dirs \X Ids
         /\ absent \subseteq absent'
         /\ NoFiles \subseteq absent => NoFiles' \subseteq absent'
<1>1. TypeOK BY DEF IInv
<1>2. files' \in Files /\ files'[s][id] = c
      /\ \A t \in Source, i \in Ids : t # s \/ i # id => files'[t][i] = files[t][i]
  BY <1>1, PutType
<1>3. absent' = IF s[1] = "app" /\ files'[s][id] = NoFile THEN absent \cup {<<s[2], id>>} ELSE absent
  BY DEF Changes
<1>4. <<s[2], id>> \in Dirs \X Ids BY DEF Source
<1>5. ASSUME NoFiles \subseteq absent, NEW x \in NoFiles' PROVE x \in absent'
  <2>1. x \in Dirs \X Ids /\ files'[AppDir(x[1])][x[2]] = NoFile BY <1>5 DEF NoFiles
  <2>2. AppDir(x[1]) \in Source /\ x[2] \in Ids BY <2>1, SourceType
  <2>3. CASE AppDir(x[1]) = s /\ x[2] = id
    <3>1. s[1] = "app" /\ s[2] = x[1] BY <2>3 DEF AppDir
    <3>2. x = <<s[2], id>> BY <2>1, <2>3, <3>1
    <3>3. files'[s][id] = NoFile BY <2>1, <2>3
    <3> QED BY <1>3, <3>1, <3>2, <3>3
  <2>4. CASE AppDir(x[1]) # s \/ x[2] # id
    <3>1. files[AppDir(x[1])][x[2]] = NoFile BY <1>2, <2>1, <2>2, <2>4
    <3>2. x \in NoFiles BY <2>1, <3>1 DEF NoFiles
    <3> QED BY <1>3, <1>5, <3>2
  <2> QED BY <2>3, <2>4
<1>6. /\ dirty' \in BOOLEAN /\ missed' \in BOOLEAN /\ dirSignal' \in BOOLEAN
      /\ wish' \in [Ids -> {"none", "on", "off"}]
  BY <1>1 DEF Changes, TypeOK
<1> QED BY <1>1, <1>2, <1>3, <1>4, <1>5, <1>6 DEF TypeOK

LEMMA SetAutoStartInv ==
  ASSUME IInv, NEW id \in Ids, NEW on \in BOOLEAN, SetAutoStart(id, on)
  PROVE  IInv'
<1> DEFINE e == NewAutoEntry(id, list[id], on)
<1>1. TypeOK /\ list[id] \in App BY ListType DEF IInv, SetAutoStart, Listed
<1>2. e \in Entry
  <2> DEFINE reuse == Exists(list[id].auto, id) /\ list[id].autoEntry # NoEntry /\ ~Generated(list[id].autoEntry)
             base == IF reuse THEN list[id].autoEntry ELSE list[id].entry
             src == IF reuse THEN list[id].auto ELSE list[id].src
  <2>1. base \in Entry /\ src \in Source BY <1>1, AppFields DEF Exists
  <2>2. e = [base EXCEPT !.gen = src, !.hidden = ~on] BY DEF NewAutoEntry
  <2> HIDE DEF base, src
  <2> QED BY <2>1, <2>2 DEF Entry
<1>3. [list[id] EXCEPT !.auto = UserAuto, !.autoEntry = e] \in App
  <2> HIDE DEF e
  <2> QED BY <1>1, <1>2, SourceType DEF App
<1>4. list' = [list EXCEPT ![id] = [list[id] EXCEPT !.auto = UserAuto, !.autoEntry = e]]
  <2> HIDE DEF NewAutoEntry
  <2> QED BY <1>1 DEF SetAutoStart, TypeOK
<1>5. Put(UserAuto, id, e) BY DEF SetAutoStart
<1>6. /\ pc = "idle" /\ dirty' = TRUE /\ missed' = TRUE
      /\ wish' = [wish EXCEPT ![id] = IF ~on THEN "off" ELSE IF Startable(id, e) THEN "on" ELSE "none"]
      /\ UNCHANGED <<conf, records, known, loaded, ready, overrideSig, pc, left, seen, dirSignal, timer, edits, faults, absent>>
  BY DEF SetAutoStart
<1> HIDE DEF e
<1>7. files' \in Files BY <1>1, <1>2, <1>5, PutType, SourceType DEF Content
<1>8. list' \in [Ids -> App \cup {NotListed}] BY <1>1, <1>3, <1>4 DEF TypeOK
<1>9. wish' \in [Ids -> {"none", "on", "off"}] BY <1>1, <1>6 DEF TypeOK
<1>10. TypeOK' BY <1>1, <1>6, <1>7, <1>8, <1>9 DEF TypeOK, Files
<1>11. ScanInv' BY <1>6 DEF ScanInv, IInv
<1> QED BY <1>10, <1>11 DEF IInv

LEMMA SetAutoStartFailsInv ==
  ASSUME IInv, NEW id \in Ids, SetAutoStartFails(id)
  PROVE  IInv'
<1>1. TypeOK BY DEF IInv
<1>2. files' \in Files BY <1>1, PutType, SourceType DEF SetAutoStartFails, Content
<1>3. TypeOK' BY <1>1, <1>2 DEF SetAutoStartFails, TypeOK, Files, am
<1>4. ScanInv' BY DEF SetAutoStartFails, ScanInv, IInv, am
<1> QED BY <1>3, <1>4 DEF IInv

LEMMA AddUserInv ==
  ASSUME IInv, NEW id \in Ids, NEW e \in AppFiles, AddUserApplication(id, e)
  PROVE  IInv'
<1> DEFINE s == AppDir("user")
           new == IF Shown(id, e) THEN [entry |-> e, src |-> s, auto |-> NoSource, autoEntry |-> NoEntry] ELSE NotListed
           told == files[s][id] = NoFile \/ files'[s][id] = NoFile
<1>1. TypeOK /\ e \in Entry /\ s \in Source BY FilesAssumption, SourceType DEF IInv, Dirs
<1>2. new \in App \cup {NotListed} BY <1>1 DEF App
<1>3. PICK c \in Content \cup {NoFile} : Put(s, id, c)
  BY <1>1 DEF AddUserApplication, Content
<1>4. Changes(s, id, told) BY DEF AddUserApplication
<1>5. /\ pc = "idle" /\ edits < MaxEdits /\ edits' = edits + 1
      /\ list' = list \/ list' = [list EXCEPT ![id] = new]
      /\ loaded' = loaded \/ loaded' = loaded \cup {id}
      /\ UNCHANGED <<conf, records, known, ready, overrideSig, pc, left, seen, timer, faults>>
  BY DEF AddUserApplication
<1> HIDE DEF s, new
<1>6. told \in BOOLEAN OBVIOUS
<1> HIDE DEF told
<1>7. /\ files' \in Files
      /\ dirty' \in BOOLEAN /\ missed' \in BOOLEAN /\ dirSignal' \in BOOLEAN
      /\ wish' \in [Ids -> {"none", "on", "off"}]
      /\ absent' \subseteq Dirs \X Ids
  BY <1>1, <1>3, <1>4, <1>6, ChangesInv
<1>8. edits' \in 0..MaxEdits BY <1>1, <1>5 DEF TypeOK
<1>9. list' \in [Ids -> App \cup {NotListed}] BY <1>1, <1>2, <1>5 DEF TypeOK
<1>10. TypeOK' BY <1>1, <1>5, <1>7, <1>8, <1>9 DEF TypeOK, Files
<1>11. ScanInv' BY <1>5 DEF ScanInv, IInv
<1> QED BY <1>10, <1>11 DEF IInv

(* The edits that leave the program's own state alone. *)
LEMMA EditInv ==
  ASSUME IInv, NEW s \in Source, NEW id \in Ids, NEW c \in Content \cup {NoFile}, NEW told \in BOOLEAN,
         edits < MaxEdits, edits' = edits + 1, Put(s, id, c), Changes(s, id, told),
         UNCHANGED <<conf, list, records, known, loaded, ready, overrideSig, pc, left, seen, timer, faults>>
  PROVE  IInv'
<1>1. TypeOK /\ ScanInv BY DEF IInv
<1>2. /\ files' \in Files
      /\ dirty' \in BOOLEAN /\ missed' \in BOOLEAN /\ dirSignal' \in BOOLEAN
      /\ wish' \in [Ids -> {"none", "on", "off"}]
      /\ absent' \subseteq Dirs \X Ids
      /\ absent \subseteq absent'
      /\ NoFiles \subseteq absent => NoFiles' \subseteq absent'
  BY ChangesInv
<1>3. edits' \in 0..MaxEdits BY <1>1 DEF TypeOK
<1>4. TypeOK' BY <1>1, <1>2, <1>3 DEF TypeOK, Files
<1>5. Listed' = Listed BY DEF Listed
<1>6. ScanInv' BY <1>1, <1>2, <1>5 DEF ScanInv
<1> QED BY <1>4, <1>6 DEF IInv

LEMMA OthersInv ==
  ASSUME IInv, NEW id \in Ids,
         \/ DeleteUserApplication(id)
         \/ \E d \in Dirs, c \in AppFiles \cup {NoFile, BadFile}, inPlace \in BOOLEAN : EditApp(d, id, c, inPlace)
         \/ \E d \in Dirs, c \in AutoFiles \cup {NoFile, BadFile} : EditAuto(d, id, c)
  PROVE  IInv'
<1>1. AppFiles \subseteq Content /\ AutoFiles \subseteq Content /\ BadFile \in Content
  BY FilesAssumption DEF Content
<1>2. CASE DeleteUserApplication(id)
  <2>1. AppDir("user") \in Source /\ TRUE \in BOOLEAN BY SourceType DEF Dirs
  <2> QED BY <1>2, <2>1, EditInv DEF DeleteUserApplication
<1>3. ASSUME NEW d \in Dirs, NEW c \in AppFiles \cup {NoFile, BadFile}, NEW inPlace \in BOOLEAN, EditApp(d, id, c, inPlace)
      PROVE  IInv'
  <2>1. AppDir(d) \in Source /\ c \in Content \cup {NoFile} /\ (pc # "down" /\ ~inPlace) \in BOOLEAN
    BY <1>1, SourceType
  <2>2. /\ edits < MaxEdits /\ edits' = edits + 1 /\ Put(AppDir(d), id, c)
        /\ Changes(AppDir(d), id, pc # "down" /\ ~inPlace)
        /\ UNCHANGED <<conf, list, records, known, loaded, ready, overrideSig, pc, left, seen, timer, faults>>
    BY <1>3 DEF EditApp
  <2> QED BY <2>1, <2>2, EditInv
<1>4. ASSUME NEW d \in Dirs, NEW c \in AutoFiles \cup {NoFile, BadFile}, EditAuto(d, id, c)
      PROVE  IInv'
  <2>1. AutoDir(d) \in Source /\ c \in Content \cup {NoFile} /\ FALSE \in BOOLEAN BY <1>1, SourceType
  <2>2. /\ edits < MaxEdits /\ edits' = edits + 1 /\ Put(AutoDir(d), id, c)
        /\ Changes(AutoDir(d), id, FALSE)
        /\ UNCHANGED <<conf, list, records, known, loaded, ready, overrideSig, pc, left, seen, timer, faults>>
    BY <1>4 DEF EditAuto
  <2> QED BY <2>1, <2>2, EditInv
<1> QED BY <1>2, <1>3, <1>4

(* The steps that only begin a scan, read an override or store a record. *)
LEMMA SignalsInv ==
  ASSUME IInv,
         \/ DirectoryChanged \/ ReloadTimeout \/ ReloadApplications \/ Start \/ Stop
         \/ \E id \in Ids :
              \/ OverrideChanged(id) \/ OverrideReady(id) \/ Record(id)
              \/ \E o \in Override : EditOverride(id, o)
  PROVE  IInv'
<1>1. TypeOK /\ ScanInv BY DEF IInv
<1>2. CASE DirectoryChanged
  <2>1. TypeOK' BY <1>1, <1>2 DEF TypeOK, DirectoryChanged, hist
  <2>2. ScanInv' BY <1>1, <1>2 DEF ScanInv, DirectoryChanged, hist, Listed
  <2> QED BY <2>1, <2>2 DEF IInv
<1>3. CASE ReloadTimeout
  <2>1. BeginScan /\ UNCHANGED <<files, list>> BY <1>3 DEF ReloadTimeout
  <2>2. TypeOK' BY <1>1, <1>3, <2>1, BeginScanInv DEF TypeOK, ReloadTimeout
  <2> QED BY <1>1, <2>1, <2>2, BeginScanInv DEF IInv
<1>4. CASE ReloadApplications
  <2>1. BeginScan /\ UNCHANGED <<files, list>> BY <1>4 DEF ReloadApplications
  <2>2. TypeOK' BY <1>1, <1>4, <2>1, BeginScanInv DEF TypeOK, ReloadApplications
  <2> QED BY <1>1, <2>1, <2>2, BeginScanInv DEF IInv
<1>5. CASE Start
  <2>1. BeginScan /\ UNCHANGED <<files, list>> BY <1>5 DEF Start
  <2>2. TypeOK' BY <1>1, <1>5, <2>1, BeginScanInv DEF TypeOK, Start
  <2> QED BY <1>1, <2>1, <2>2, BeginScanInv DEF IInv
<1>6. CASE Stop
  <2>a. list' \in [Ids -> App \cup {NotListed}] BY <1>6 DEF Stop
  <2>b. known' \in [Ids -> Override] BY <1>6 DEF Stop, Override
  <2>c. faults' \in 0..MaxFaults BY <1>1, <1>6 DEF TypeOK, Stop
  <2>1. TypeOK' BY <1>1, <1>6, <2>a, <2>b, <2>c DEF TypeOK, Stop
  <2>2. ScanInv' BY <1>6 DEF ScanInv, Stop
  <2> QED BY <2>1, <2>2 DEF IInv
<1>7. ASSUME NEW id \in Ids, OverrideChanged(id) PROVE IInv'
  <2>1. BeginScan /\ UNCHANGED <<files, list>> BY <1>7 DEF OverrideChanged
  <2>2. /\ overrideSig' \subseteq Ids /\ known' \in [Ids -> Override]
        /\ wish' \in [Ids -> {"none", "on", "off"}]
        /\ UNCHANGED <<files, conf, list, records, loaded, ready, dirSignal, timer, edits, faults>>
    BY <1>1, <1>7 DEF TypeOK, OverrideChanged
  <2>3. TypeOK' BY <1>1, <2>1, <2>2, BeginScanInv DEF TypeOK
  <2> QED BY <1>1, <2>1, <2>3, BeginScanInv DEF IInv
<1>8. ASSUME NEW id \in Ids, OverrideReady(id) PROVE IInv'
  <2>1. TypeOK' BY <1>1, <1>8 DEF TypeOK, OverrideReady
  <2>2. ScanInv' BY <1>1, <1>8 DEF ScanInv, OverrideReady, Listed
  <2> QED BY <2>1, <2>2 DEF IInv
<1>9. ASSUME NEW id \in Ids, Record(id) PROVE IInv'
  <2>1. TypeOK' BY <1>1, <1>9 DEF TypeOK, Record, hist
  <2>2. ScanInv' BY <1>1, <1>9 DEF ScanInv, Record, hist, Listed
  <2> QED BY <2>1, <2>2 DEF IInv
<1>10. ASSUME NEW id \in Ids, NEW o \in Override, EditOverride(id, o) PROVE IInv'
  <2>1. TypeOK' BY <1>1, <1>10 DEF TypeOK, EditOverride
  <2>2. Listed' = Listed /\ NoFiles' = NoFiles BY <1>10 DEF EditOverride, Listed, NoFiles
  <2>3. ScanInv' BY <1>1, <1>10, <2>2 DEF ScanInv, EditOverride
  <2> QED BY <2>1, <2>3 DEF IInv
<1> QED BY <1>2, <1>3, <1>4, <1>5, <1>6, <1>7, <1>8, <1>9, <1>10

LEMMA NextIInv == IInv /\ [Next]_vars => IInv'
<1> SUFFICES ASSUME IInv, [Next]_vars PROVE IInv'
  OBVIOUS
<1>1. CASE UNCHANGED vars
  <2>1. TypeOK' BY <1>1 DEF IInv, TypeOK, vars, am, hist
  <2>2. Listed' = Listed /\ NoFiles' = NoFiles BY <1>1 DEF Listed, NoFiles, vars, am
  <2>3. ScanInv' BY <1>1, <2>2 DEF IInv, ScanInv, vars, am, hist
  <2> QED BY <2>1, <2>3 DEF IInv
<1>2. CASE Scan BY <1>2, ScanDirInv, FinishScanInv DEF Scan
<1>3. CASE Start \/ DirectoryChanged \/ ReloadTimeout \/ ReloadApplications \/ Stop
  BY <1>3, SignalsInv
<1>4. ASSUME NEW id \in Ids, OverrideChanged(id) \/ OverrideReady(id) \/ Record(id)
      PROVE  IInv'
  BY <1>4, SignalsInv
<1>5. ASSUME NEW id \in Ids, NEW o \in Override, EditOverride(id, o) PROVE IInv'
  BY <1>5, SignalsInv
<1> QED
  BY <1>1, <1>2, <1>3, <1>4, <1>5, SetAutoStartInv, SetAutoStartFailsInv, AddUserInv, OthersInv DEF Next

(* Only the last step of a scan deletes records, those of the applications *)
(* still in left.                                                          *)
LEMMA NextRecords ==
  ASSUME IInv, [Next]_vars
  PROVE  \A id \in records \ records' : \A d \in Dirs : <<d, id>> \in absent
<1>1. CASE FinishScan
  <2>1. records' = records \ left /\ pc = "auto" BY <1>1 DEF FinishScan, Removed
  <2> QED BY <2>1 DEF IInv, ScanInv, Dirs
<1>2. ASSUME ~FinishScan PROVE records \subseteq records'
  <2>1. CASE UNCHANGED vars BY <2>1 DEF vars, am
  <2>2. CASE Next /\ ~FinishScan
    BY <2>2 DEF Next, Scan, ScanDir, Start, DirectoryChanged, ReloadTimeout, ReloadApplications, OverrideChanged,
       OverrideReady, SetAutoStart, SetAutoStartFails, AddUserApplication, DeleteUserApplication, Record,
       EditApp, EditAuto, EditOverride, Stop, am
  <2> QED BY <1>2, <2>1, <2>2
<1> QED BY <1>1, <1>2

-----------------------------------------------------------------------------
(***************************************************************************)
(* What a scan leaves behind.  FInv follows one application through the    *)
(* steps of a scan, as long as nobody changes what the program reads of    *)
(* it: nobody changed anything, or AutoStart was asked for since.          *)
(***************************************************************************)
Scanning == pc \in {"user", "sys", "auto"}

(* Overrides are read by DConfig objects that are ready, and a program     *)
(* that is down has neither them nor a list.                               *)
OverridesRead ==
  /\ overrideSig \subseteq ready
  /\ \A id \in Ids \ ready : known[id] = "none"
  /\ pc = "down" => ready = {} /\ Listed = {}

(* Autostart files are in autostart directories. *)
AutoPaths == \A id \in Listed : list[id].auto \in {NoSource, AutoDir("user"), AutoDir("sys")}

(* Whoever was listed when the scan began is in left or has been seen. *)
ListedSeen == (Scanning => Listed \subseteq left \cup seen) /\ (pc = "user" => seen = {})

(* Nobody changed what the program reads of id since the scan began, or    *)
(* since AutoStart was asked for.                                          *)
Steady(id) == ~dirty \/ wish[id] = "on"

(* What a scan has seen of id, it has read as it is. *)
Reads(id) ==
  LET w == Winner("app", id)
  IN files[w][id] # BadFile /\ Shown(id, files[w][id]) => id \in Listed /\ list[id].entry = files[w][id]
SeenIsRead(id) ==
  pc \in {"sys", "auto"} /\ Steady(id) =>
    /\ id \in seen <=> Exists(AppDir("user"), id) \/ (pc = "auto" /\ Exists(AppDir("sys"), id))
    /\ id \in seen => Reads(id)

Follows(id) ==
  LET w == Winner("app", id)
  IN IF w = NoSource THEN id \in Listed <=> StartedAlone(id) ELSE Reads(id)
FollowsWhenIdle(id) == pc = "idle" /\ ~dirty => Follows(id)

Starting(id) == id \in Listed /\ IsAutoStart(id, list[id])

OnKept(id) ==
  wish[id] = "on" =>
    /\ LET e == files[UserAuto][id]
       IN e \in Entry /\ ~e.hidden /\ e.runs /\ e.gen # NoSource /\ Exists(e.gen, id)
    /\ Winner("app", id) # NoSource /\ Plain(files[Winner("app", id)][id])
    /\ id \in Listed => list[id].auto \in {UserAuto, NoSource}
    /\ pc = "idle" \/ id \in left \/ (known[id] # "none" /\ pc # "down") => Starting(id)
    /\ pc \in {"sys", "auto"} /\ id \in seen => id \in Listed /\ list[id].src = Winner("app", id)

OffKept(id) ==
  wish[id] = "off" =>
    /\ files[UserAuto][id] \in Entry /\ files[UserAuto][id].hidden
    /\ id \in Listed =>
         \/ list[id].auto = NoSource
         \/ list[id].auto = UserAuto /\ list[id].autoEntry # NoEntry /\ list[id].autoEntry.hidden

IdInv(id) == SeenIsRead(id) /\ FollowsWhenIdle(id) /\ OnKept(id) /\ OffKept(id)
FInv == OverridesRead /\ AutoPaths /\ ListedSeen /\ \A id \in Ids : IdInv(id)

(* What depends on the files and the override of one application only.     *)
SameFiles(id) == \A s \in Source : files'[s][id] = files[s][id]

LEMMA ExistsSame ==
  ASSUME NEW id \in Ids, \A s \in Source : files'[s][id] = NoFile <=> files[s][id] = NoFile
  PROVE  /\ \A s \in Source \cup {NoSource} : Exists(s, id)' <=> Exists(s, id)
         /\ Winner("app", id)' = Winner("app", id) /\ Winner("auto", id)' = Winner("auto", id)
<1>1. \A s \in Source \cup {NoSource} : Exists(s, id)' <=> Exists(s, id) BY DEF Exists
<1>2. /\ <<"app", "user">> \in Source /\ <<"app", "sys">> \in Source
      /\ <<"auto", "user">> \in Source /\ <<"auto", "sys">> \in Source
  BY DEF Source, Dirs
<1> QED BY <1>1, <1>2 DEF Winner

LEMMA ShownSame ==
  ASSUME NEW id \in Ids, known'[id] = known[id], NEW CONSTANT e
  PROVE  Shown(id, e)' <=> Shown(id, e)
BY DEF Shown, TryExecRefuses

LEMMA CreatedSame ==
  ASSUME NEW id \in Ids, NEW s \in Source, files'[s][id] = files[s][id], known'[id] = known[id]
  PROVE  Created(id, s)' = Created(id, s)
BY DEF Created, Shown, TryExecRefuses

(* The autostart file that counts, if it can be read. *)
LEMMA WinnerEntry ==
  ASSUME TypeOK, NEW kind \in {"app", "auto"}, NEW id \in Ids,
         Winner(kind, id) # NoSource, files[Winner(kind, id)][id] # BadFile
  PROVE  Winner(kind, id) \in Source /\ files[Winner(kind, id)][id] \in Entry
BY WinnerType, FileType DEF TypeOK, Files

LEMMA StartsSame ==
  ASSUME TypeOK, NEW id \in Ids, SameFiles(id), known'[id] = known[id]
  PROVE  /\ Starts(id)' <=> Starts(id)
         /\ StartedAlone(id)' <=> StartedAlone(id)
<1> DEFINE w == Winner("auto", id)
           e == files[w][id]
<1>1. /\ \A s \in Source \cup {NoSource} : Exists(s, id)' <=> Exists(s, id)
      /\ Winner("auto", id)' = w
  BY ExistsSame DEF SameFiles
<1>2. w # NoSource => w \in Source /\ files'[w][id] = e BY WinnerType DEF SameFiles
<1>3. w # NoSource /\ e # BadFile => e \in Entry /\ e.gen \in Source \cup {NoSource}
  BY WinnerEntry, EntryFields
<1>4. Starts(id)' <=> Starts(id)
  BY <1>1, <1>2, <1>3 DEF Starts, Shown, TryExecRefuses, Generated
<1>5. \A s \in Source : Created(id, s)' = Created(id, s)
  BY CreatedSame DEF SameFiles
<1>6. StartedAlone(id)' <=> StartedAlone(id)
  BY <1>1, <1>2, <1>3, <1>4, <1>5 DEF StartedAlone, Starts, Generated
<1> QED BY <1>4, <1>6

LEMMA ReadsSame ==
  ASSUME TypeOK, NEW id \in Ids, SameFiles(id), known'[id] = known[id], list'[id] = list[id],
         Winner("app", id) # NoSource
  PROVE  Reads(id)' <=> Reads(id)
<1>1. /\ Winner("app", id)' = Winner("app", id) /\ Winner("app", id) \in Source
      /\ files'[Winner("app", id)][id] = files[Winner("app", id)][id]
  BY ExistsSame, WinnerType DEF SameFiles
<1> QED BY <1>1 DEF Reads, Shown, TryExecRefuses, Listed

LEMMA AutoStartSame ==
  ASSUME TypeOK, NEW id \in Ids, \A s \in Source : files'[s][id] = NoFile <=> files[s][id] = NoFile,
         list'[id] = list[id]
  PROVE  Starting(id)' <=> Starting(id)
<1>1. id \in Listed => list[id].auto \in Source \cup {NoSource} BY ListType, AppFields DEF Listed
<1>2. \A s \in Source \cup {NoSource} : Exists(s, id)' <=> Exists(s, id) BY ExistsSame
<1> QED BY <1>1, <1>2 DEF Starting, IsAutoStart, Listed

(* A step that leaves what concerns id alone. *)
LEMMA UntouchedInv ==
  ASSUME TypeOK, NEW id \in Ids, IdInv(id),
         SameFiles(id), known'[id] = known[id], list'[id] = list[id], wish'[id] = wish[id],
         pc' = pc, id \in left' <=> id \in left, id \in seen' <=> id \in seen,
         dirty => dirty'
  PROVE  IdInv(id)'
<1>1. /\ \A s \in Source \cup {NoSource} : Exists(s, id)' <=> Exists(s, id)
      /\ Winner("app", id)' = Winner("app", id) /\ Winner("auto", id)' = Winner("auto", id)
  BY ExistsSame DEF SameFiles
<1>2. id \in Listed' <=> id \in Listed BY DEF Listed
<1>3. Steady(id)' => Steady(id) BY DEF Steady
<1>4. Winner("app", id) # NoSource => (Reads(id)' <=> Reads(id)) BY ReadsSame
<1>5. SeenIsRead(id)'
  <2>1. Exists(AppDir("user"), id)' <=> Exists(AppDir("user"), id) BY <1>1, SourceType DEF Dirs
  <2>2. Exists(AppDir("sys"), id)' <=> Exists(AppDir("sys"), id) BY <1>1, SourceType DEF Dirs
  <2>3. Exists(AppDir("user"), id) \/ Exists(AppDir("sys"), id) => Winner("app", id) # NoSource
    BY SourceType DEF Winner, AppDir, Dirs
  <2> QED BY <1>3, <1>4, <2>1, <2>2, <2>3 DEF IdInv, SeenIsRead
<1>6. FollowsWhenIdle(id)'
  BY <1>1, <1>2, <1>4, StartsSame DEF IdInv, FollowsWhenIdle, Follows
<1>7. OnKept(id)'
  <2>1. files'[UserAuto][id] = files[UserAuto][id] BY SourceType DEF SameFiles
  <2>2. Winner("app", id) # NoSource => files'[Winner("app", id)][id] = files[Winner("app", id)][id]
    BY WinnerType DEF SameFiles
  <2>3. Starting(id)' <=> Starting(id) BY AutoStartSame DEF SameFiles
  <2>4. files[UserAuto][id] \in Entry => files[UserAuto][id].gen \in Source \cup {NoSource} BY EntryFields
  <2> QED BY <1>1, <1>2, <2>1, <2>2, <2>3, <2>4 DEF IdInv, OnKept, Plain
<1>8. OffKept(id)'
  <2>1. files'[UserAuto][id] = files[UserAuto][id] BY SourceType DEF SameFiles
  <2> QED BY <1>2, <2>1 DEF IdInv, OffKept
<1> QED BY <1>5, <1>6, <1>7, <1>8 DEF IdInv

(* A step that changes a file of id, and takes back what was wished. *)
LEMMA ResetInv ==
  ASSUME NEW id \in Ids, dirty' = TRUE, wish'[id] = "none"
  PROVE  IdInv(id)'
BY DEF IdInv, SeenIsRead, Steady, FollowsWhenIdle, OnKept, OffKept

-----------------------------------------------------------------------------
(***************************************************************************)
(* Edits, calls and signals.                                               *)
(***************************************************************************)
LEMMA InitFInv == Init => FInv
<1> SUFFICES ASSUME Init PROVE FInv
  OBVIOUS
<1>1. Listed = {} BY DEF Init, Listed
<1>2. OverridesRead /\ AutoPaths /\ ListedSeen
  BY <1>1 DEF Init, OverridesRead, AutoPaths, ListedSeen, Scanning
<1>3. \A id \in Ids : IdInv(id)
  BY DEF Init, IdInv, SeenIsRead, FollowsWhenIdle, OnKept, OffKept
<1> QED BY <1>2, <1>3 DEF FInv

(* A file of id is written, and nothing else changes but what is recorded. *)
LEMMA EditedInv ==
  ASSUME TypeOK, FInv, NEW s \in Source, NEW id \in Ids, NEW c \in Content \cup {NoFile}, Put(s, id, c),
         dirty' = TRUE, wish' = [wish EXCEPT ![id] = "none"],
         UNCHANGED <<list, known, ready, overrideSig, pc, left, seen>>
  PROVE  FInv'
<1>1. \A j \in Ids : j # id => SameFiles(j) /\ wish'[j] = wish[j]
  BY PutType DEF SameFiles, TypeOK
<1>2. wish'[id] = "none" BY DEF TypeOK
<1>3. ASSUME NEW j \in Ids PROVE IdInv(j)'
  BY <1>1, <1>2, UntouchedInv, ResetInv DEF FInv
<1>4. Listed' = Listed BY DEF Listed
<1>5. OverridesRead' /\ AutoPaths' /\ ListedSeen'
  BY <1>4 DEF FInv, OverridesRead, AutoPaths, ListedSeen, Scanning
<1> QED BY <1>3, <1>5 DEF FInv

LEMMA EditsFInv ==
  ASSUME TypeOK, FInv, NEW id \in Ids,
         \/ SetAutoStartFails(id) \/ DeleteUserApplication(id)
         \/ \E d \in Dirs, c \in AppFiles \cup {NoFile, BadFile}, inPlace \in BOOLEAN : EditApp(d, id, c, inPlace)
         \/ \E d \in Dirs, c \in AutoFiles \cup {NoFile, BadFile} : EditAuto(d, id, c)
  PROVE  FInv'
<1>1. AppFiles \subseteq Content /\ AutoFiles \subseteq Content /\ BadFile \in Content
  BY FilesAssumption DEF Content
<1>2. PICK s \in Source, c \in Content \cup {NoFile} : Put(s, id, c)
  BY <1>1, SourceType DEF SetAutoStartFails, DeleteUserApplication, EditApp, EditAuto, Dirs
<1>3. /\ dirty' = TRUE /\ wish' = [wish EXCEPT ![id] = "none"]
      /\ UNCHANGED <<list, known, ready, overrideSig, pc, left, seen>>
  BY DEF SetAutoStartFails, DeleteUserApplication, EditApp, EditAuto, Changes, am
<1> QED BY <1>2, <1>3, EditedInv

LEMMA AddUserFInv ==
  ASSUME TypeOK, FInv, NEW id \in Ids, NEW e \in AppFiles, AddUserApplication(id, e)
  PROVE  FInv'
<1> DEFINE new == IF Shown(id, e) THEN [entry |-> e, src |-> AppDir("user"), auto |-> NoSource, autoEntry |-> NoEntry]
                  ELSE NotListed
<1>1. e \in Content /\ AppDir("user") \in Source BY FilesAssumption, SourceType DEF Content, Dirs
<1>2. PICK c \in Content \cup {NoFile} : Put(AppDir("user"), id, c)
  BY <1>1 DEF AddUserApplication
<1>3. /\ pc = "idle" /\ dirty' = TRUE /\ wish' = [wish EXCEPT ![id] = "none"]
      /\ list' = list \/ list' = [list EXCEPT ![id] = new]
      /\ UNCHANGED <<known, ready, overrideSig, pc, left, seen>>
  BY DEF AddUserApplication, Changes
<1>4. new = NotListed \/ new.auto = NoSource OBVIOUS
<1> HIDE DEF new
<1>5. \A j \in Ids : j # id => SameFiles(j) /\ wish'[j] = wish[j] /\ list'[j] = list[j]
  BY <1>1, <1>2, <1>3, PutType DEF SameFiles, TypeOK
<1>6. wish'[id] = "none" /\ (list'[id] = list[id] \/ list'[id] = new) BY <1>3 DEF TypeOK
<1>7. ASSUME NEW j \in Ids PROVE IdInv(j)'
  BY <1>3, <1>5, <1>6, UntouchedInv, ResetInv DEF FInv
<1>8. AutoPaths'
  <2>1. ASSUME NEW j \in Listed' PROVE list'[j].auto \in {NoSource, AutoDir("user"), AutoDir("sys")}
    <3>1. j \in Ids /\ list'[j] # NotListed BY DEF Listed
    <3>2. CASE list'[j] = list[j] BY <3>1, <3>2 DEF FInv, AutoPaths, Listed
    <3>3. CASE list'[j] = new BY <1>4, <3>1, <3>3
    <3> QED BY <1>5, <1>6, <3>1, <3>2, <3>3
  <2> QED BY <2>1 DEF AutoPaths
<1>9. OverridesRead' /\ ListedSeen'
  BY <1>3 DEF FInv, OverridesRead, ListedSeen, Scanning
<1> QED BY <1>7, <1>8, <1>9 DEF FInv

(* The value asked of AutoStart is what the files and the list say then.   *)
LEMMA SetAutoStartFInv ==
  ASSUME TypeOK, FInv, NEW id \in Ids, NEW on \in BOOLEAN, SetAutoStart(id, on)
  PROVE  FInv'
<1> DEFINE a == list[id]
           reuse == Exists(a.auto, id) /\ a.autoEntry # NoEntry /\ ~Generated(a.autoEntry)
           base == IF reuse THEN a.autoEntry ELSE a.entry
           src == IF reuse THEN a.auto ELSE a.src
           e == NewAutoEntry(id, a, on)
<1>1. a \in App BY ListType DEF SetAutoStart, Listed
<1>2. base \in Entry /\ src \in Source BY <1>1, AppFields DEF Exists
<1>3. e \in Entry /\ e.hidden = ~on /\ e.gen = src /\ e # NoFile /\ e # NoEntry
  <2>1. e = [base EXCEPT !.gen = src, !.hidden = ~on] BY DEF NewAutoEntry
  <2> HIDE DEF base, src, e
  <2>2. e \in Entry /\ e.hidden = ~on /\ e.gen = src BY <1>2, <2>1 DEF Entry
  <2> QED BY <2>2, ValuesDistinct, ValuesAssumption
<1>4. /\ pc = "idle" /\ dirty' = TRUE /\ Put(UserAuto, id, e)
      /\ list' = [list EXCEPT ![id].auto = UserAuto, ![id].autoEntry = e]
      /\ wish' = [wish EXCEPT ![id] = IF ~on THEN "off" ELSE IF Startable(id, e) THEN "on" ELSE "none"]
      /\ UNCHANGED <<known, ready, overrideSig, pc, left, seen>>
  BY DEF SetAutoStart
<1> HIDE DEF base, src, e
<1>5. /\ files'[UserAuto][id] = e
      /\ \A t \in Source, i \in Ids : t # UserAuto \/ i # id => files'[t][i] = files[t][i]
  BY <1>3, <1>4, PutType, SourceType DEF Content
<1>6. list'[id] # NotListed /\ list'[id].auto = UserAuto /\ list'[id].autoEntry = e
  <2>1. list'[id] = [a EXCEPT !.auto = UserAuto, !.autoEntry = e] BY <1>4 DEF TypeOK
  <2> HIDE DEF a
  <2>2. list'[id] \in App /\ list'[id].auto = UserAuto /\ list'[id].autoEntry = e
    BY <1>1, <1>3, <2>1, SourceType DEF App
  <2> QED BY <2>2, ValuesDistinct
<1>7. \A j \in Ids : j # id => SameFiles(j) /\ wish'[j] = wish[j] /\ list'[j] = list[j]
  BY <1>4, <1>5 DEF SameFiles, TypeOK
<1>8. ASSUME NEW j \in Ids, j # id PROVE IdInv(j)'
  BY <1>4, <1>7, <1>8, UntouchedInv DEF FInv
<1>9. IdInv(id)'
  <2>1. SeenIsRead(id)' /\ FollowsWhenIdle(id)' BY <1>4 DEF SeenIsRead, FollowsWhenIdle
  <2>2. OnKept(id)'
    <3> SUFFICES ASSUME wish'[id] = "on" PROVE OnKept(id)'
      BY DEF OnKept
    <3>1. on /\ Startable(id, e) BY <1>4 DEF TypeOK
    <3>2. /\ Exists(src, id) /\ e \in Entry /\ ~e.hidden /\ e.runs /\ Winner("app", id) # NoSource
          /\ Plain(files[Winner("app", id)][id])
      BY <1>3, <3>1 DEF Startable, Plain
    <3>3. /\ files'[UserAuto][id].gen # NoSource
          /\ Exists(files[UserAuto][id].gen, id)'
      <4>1. PICK g \in Source : g = src BY <1>2
      <4>2. files'[g][id] # NoFile BY <1>3, <1>5, <3>2, <4>1 DEF Exists
      <4>3. files'[UserAuto][id].gen = g /\ g # NoSource BY <1>3, <1>5, <4>1, ValuesDistinct
      <4> QED BY <4>2, <4>3 DEF Exists
    <3>4. /\ Winner("app", id)' = Winner("app", id)
          /\ files'[Winner("app", id)][id] = files[Winner("app", id)][id]
      <4>1. files'[AppDir("user")][id] = files[AppDir("user")][id] /\ files'[AppDir("sys")][id] = files[AppDir("sys")][id]
        BY <1>5, SourceType DEF AppDir, UserAuto, AutoDir, Dirs
      <4> QED BY <3>2, <4>1 DEF Winner, Exists, AppDir
    <3>5. Starting(id)'
      BY <1>3, <1>5, <1>6, <3>2, SourceType, ValuesDistinct DEF Starting, IsAutoStart, Listed, Exists
    <3>6. pc' = "idle" BY <1>4
    <3> QED BY <1>3, <1>5, <1>6, <3>2, <3>3, <3>4, <3>5, <3>6 DEF OnKept, Plain
  <2>3. OffKept(id)'
    <3> SUFFICES ASSUME wish'[id] = "off" PROVE OffKept(id)'
      BY DEF OffKept
    <3>1. ~on BY <1>4 DEF TypeOK
    <3> QED BY <1>3, <1>5, <1>6, <3>1 DEF OffKept
  <2> QED BY <2>1, <2>2, <2>3 DEF IdInv
<1>10. AutoPaths'
  <2>1. ASSUME NEW j \in Listed' PROVE list'[j].auto \in {NoSource, AutoDir("user"), AutoDir("sys")}
    BY <1>6, <1>7 DEF FInv, AutoPaths, Listed, UserAuto
  <2> QED BY <2>1 DEF AutoPaths
<1>11. OverridesRead' /\ ListedSeen'
  BY <1>4 DEF FInv, OverridesRead, ListedSeen, Scanning
<1> QED BY <1>8, <1>9, <1>10, <1>11 DEF FInv

(* The beginning of a scan: everyone listed is to be seen. *)
LEMMA BeginScanFInv ==
  ASSUME TypeOK, FInv, BeginScan, pc \in {"idle", "down"},
         UNCHANGED <<files, list, ready>>, overrideSig' \subseteq overrideSig,
         \A id \in Ids : \/ known'[id] = known[id] /\ wish'[id] = wish[id]
                         \/ id \in ready /\ wish'[id] = "none"
  PROVE  FInv'
<1>1. Listed' = Listed /\ left' = Listed /\ seen' = {} /\ pc' = "user" BY DEF BeginScan, Listed
<1>2. OverridesRead' /\ AutoPaths' /\ ListedSeen'
  BY <1>1 DEF FInv, OverridesRead, AutoPaths, ListedSeen, Scanning
<1>3. ASSUME NEW id \in Ids PROVE IdInv(id)'
  <2>1. SeenIsRead(id)' /\ FollowsWhenIdle(id)' BY <1>1 DEF SeenIsRead, FollowsWhenIdle
  <2>2. CASE wish'[id] = "none" BY <2>1, <2>2 DEF IdInv, OnKept, OffKept
  <2>3. CASE known'[id] = known[id] /\ wish'[id] = wish[id]
    <3>1. \A s \in Source \cup {NoSource} : Exists(s, id)' <=> Exists(s, id) BY DEF Exists
    <3>2. Winner("app", id)' = Winner("app", id) BY DEF Winner, Exists
    <3>3. Starting(id)' <=> Starting(id) BY AutoStartSame
    <3>4. pc = "down" => Listed = {} /\ known[id] = "none" BY DEF FInv, OverridesRead
    <3>5. OnKept(id)'
      BY <1>1, <2>3, <3>1, <3>2, <3>3, <3>4, EntryFields DEF FInv, IdInv, OnKept
    <3>6. OffKept(id)' BY <1>1, <2>3 DEF FInv, IdInv, OffKept
    <3> QED BY <2>1, <3>5, <3>6 DEF IdInv
  <2> QED BY <2>2, <2>3
<1> QED BY <1>2, <1>3 DEF FInv

LEMMA SignalsFInv ==
  ASSUME TypeOK, FInv,
         \/ DirectoryChanged \/ ReloadTimeout \/ ReloadApplications \/ Start \/ Stop
         \/ \E id \in Ids :
              \/ OverrideChanged(id) \/ OverrideReady(id) \/ Record(id)
              \/ \E o \in Override : EditOverride(id, o)
         \/ UNCHANGED vars
  PROVE  FInv'
<1>1. CASE ReloadTimeout BY <1>1, BeginScanFInv DEF ReloadTimeout
<1>2. CASE ReloadApplications BY <1>2, BeginScanFInv DEF ReloadApplications
<1>3. CASE Start BY <1>3, BeginScanFInv DEF Start
<1>4. ASSUME NEW id \in Ids, OverrideChanged(id) PROVE FInv'
  <2>1. /\ id \in ready /\ wish' = [wish EXCEPT ![id] = "none"] /\ known' = [known EXCEPT ![id] = conf[id]]
        /\ BeginScan /\ pc = "idle" /\ UNCHANGED <<files, list, ready>> /\ overrideSig' \subseteq overrideSig
    BY <1>4 DEF OverrideChanged, FInv, OverridesRead
  <2>2. \A j \in Ids : \/ known'[j] = known[j] /\ wish'[j] = wish[j]
                       \/ j \in ready /\ wish'[j] = "none"
    BY <2>1 DEF TypeOK
  <2> QED BY <2>1, <2>2, BeginScanFInv
<1>5. CASE Stop
  <2>1. Listed' = {} /\ pc' = "down" /\ ready' = {} /\ overrideSig' = {} /\ left' = {} /\ seen' = {}
        /\ \A id \in Ids : known'[id] = "none"
    BY <1>5 DEF Stop, Listed
  <2>2. UNCHANGED <<files, wish>> BY <1>5 DEF Stop
  <2>3. OverridesRead' /\ AutoPaths' /\ ListedSeen' BY <2>1 DEF OverridesRead, AutoPaths, ListedSeen, Scanning
  <2>4. ASSUME NEW id \in Ids PROVE IdInv(id)'
    <3>1. SeenIsRead(id)' /\ FollowsWhenIdle(id)' BY <2>1 DEF SeenIsRead, FollowsWhenIdle
    <3>2. Winner("app", id)' = Winner("app", id) BY <2>2 DEF Winner, Exists
    <3>3. OnKept(id)' BY <2>1, <2>2, <3>2 DEF FInv, IdInv, OnKept, Exists
    <3>4. OffKept(id)' BY <2>1, <2>2 DEF FInv, IdInv, OffKept
    <3> QED BY <3>1, <3>3, <3>4 DEF IdInv
  <2> QED BY <2>3, <2>4 DEF FInv
<1>6. ASSUME NEW id \in Ids, OverrideReady(id) PROVE FInv'
  <2>1. /\ id \in Ids \ ready /\ ready' = ready \cup {id} /\ known' = [known EXCEPT ![id] = conf[id]]
        /\ dirty' = (dirty \/ conf[id] # "none")
        /\ wish' = [wish EXCEPT ![id] = IF conf[id] = "none" THEN @ ELSE "none"]
        /\ UNCHANGED <<files, list, overrideSig, pc, left, seen>> /\ pc = "idle"
    BY <1>6 DEF OverrideReady
  <2>2. known[id] = "none" BY <2>1 DEF FInv, OverridesRead
  <2>3. Listed' = Listed BY <2>1 DEF Listed
  <2>4. \A j \in Ids \ ready' : known'[j] = known[j] BY <2>1 DEF TypeOK
  <2>5. OverridesRead' /\ AutoPaths' /\ ListedSeen'
    BY <2>1, <2>3, <2>4 DEF FInv, OverridesRead, AutoPaths, ListedSeen, Scanning
  <2>6. ASSUME NEW j \in Ids PROVE IdInv(j)'
    <3>1. CASE j = id /\ conf[id] # "none"
      <4>1. dirty' = TRUE /\ wish'[j] = "none" BY <2>1, <3>1 DEF TypeOK
      <4> QED BY <4>1, ResetInv
    <3>2. CASE j # id \/ conf[id] = "none"
      <4>1. SameFiles(j) /\ known'[j] = known[j] /\ list'[j] = list[j] /\ wish'[j] = wish[j] /\ (dirty => dirty')
        BY <2>1, <2>2, <3>2 DEF SameFiles, TypeOK
      <4> QED BY <2>1, <4>1, UntouchedInv DEF FInv
    <3> QED BY <3>1, <3>2
  <2> QED BY <2>5, <2>6 DEF FInv
<1>7. ASSUME UNCHANGED <<files, list, known, ready, pc, left, seen, dirty, wish>>, overrideSig' \subseteq ready
      PROVE  FInv'
  <2>1. Listed' = Listed BY <1>7 DEF Listed
  <2>2. OverridesRead' /\ AutoPaths' /\ ListedSeen'
    BY <1>7, <2>1 DEF FInv, OverridesRead, AutoPaths, ListedSeen, Scanning
  <2>3. ASSUME NEW j \in Ids PROVE IdInv(j)' BY <1>7, UntouchedInv DEF FInv, SameFiles
  <2> QED BY <2>2, <2>3 DEF FInv
<1>8. CASE DirectoryChanged BY <1>7, <1>8 DEF DirectoryChanged, hist, FInv, OverridesRead
<1>9. ASSUME NEW id \in Ids, Record(id) PROVE FInv'
  BY <1>7, <1>9 DEF Record, hist, FInv, OverridesRead
<1>10. ASSUME NEW id \in Ids, NEW o \in Override, EditOverride(id, o) PROVE FInv'
  BY <1>7, <1>10 DEF EditOverride, FInv, OverridesRead
<1>11. CASE UNCHANGED vars BY <1>7, <1>11 DEF vars, am, hist, FInv, OverridesRead
<1> QED BY <1>1, <1>2, <1>3, <1>4, <1>5, <1>6, <1>8, <1>9, <1>10, <1>11

-----------------------------------------------------------------------------
(***************************************************************************)
(* The steps of a scan, seen from one application.                         *)
(***************************************************************************)
LEMMA AutoDirsApart ==
  /\ \A d \in Dirs : AppDir(d) \in Source /\ AppDir(d) \notin {NoSource, AutoDir("user"), AutoDir("sys")}
  /\ UserAuto \in Source
BY ValuesDistinct DEF AppDir, AutoDir, UserAuto, Source, Dirs

LEMMA FirstIsWinner ==
  ASSUME NEW id \in Ids, NEW d \in Dirs, Exists(AppDir(d), id), d = "sys" => ~Exists(AppDir("user"), id)
  PROVE  Winner("app", id) = AppDir(d)
BY DEF Winner, AppDir, Dirs

LEMMA WinnerExists ==
  ASSUME NEW id \in Ids
  PROVE  Winner("app", id) # NoSource <=> Exists(AppDir("user"), id) \/ Exists(AppDir("sys"), id)
BY ValuesDistinct DEF Winner, AppDir, Source, Dirs

(* Syncing rewrites one file of an application, and of the application     *)
(* only the copy of it.                                                    *)
LEMMA SyncedFilesAt ==
  ASSUME NEW ids \in SUBSET Ids, NEW apps, NEW torn, files' = SyncedFiles(ids, apps, torn), NEW id \in Ids
  PROVE  \A s \in Source :
           files'[s][id] = IF id \in ids /\ apps[id].auto = s /\ NeedsSync(id, apps[id])
                           THEN SyncedFile(id, apps[id], torn) ELSE files[s][id]
BY DEF SyncedFiles

LEMMA SyncedEntryFields ==
  ASSUME TypeOK, NEW id \in Ids, NEW a \in App, NeedsSync(id, a)
  PROVE  /\ SyncedEntry(id, a) \in Entry /\ a.auto \in Source
         /\ SyncedEntry(id, a).runs = a.entry.runs /\ SyncedEntry(id, a).gen = a.src
         /\ SyncedEntry(id, a).hidden = files[a.auto][id].hidden
         /\ SyncedEntry(id, a).body = a.entry.body
<1>1. a.auto \in Source /\ files[a.auto][id] \in Entry
  BY AppFields DEF NeedsSync, Generated
<1>2. a.entry \in Entry /\ a.src \in Source /\ files[a.auto][id].hidden \in BOOLEAN
  BY <1>1, AppFields, EntryFields
<1>3. SyncedEntry(id, a) = [a.entry EXCEPT !.gen = a.src, !.hidden = files[a.auto][id].hidden]
  BY DEF SyncedEntry
<1> QED BY <1>1, <1>2, <1>3 DEF Entry

LEMMA SyncedAppFields ==
  ASSUME TypeOK, NEW id \in Ids, NEW a \in App, NEW torn
  PROVE  /\ SyncedApp(id, a, torn) \in App /\ SyncedApp(id, a, torn) # NotListed
         /\ SyncedApp(id, a, torn).entry = a.entry /\ SyncedApp(id, a, torn).src = a.src
         /\ SyncedApp(id, a, torn).auto = a.auto
         /\ NeedsSync(id, a) /\ id \notin torn => SyncedApp(id, a, torn).autoEntry = SyncedEntry(id, a)
         /\ ~NeedsSync(id, a) \/ id \in torn => SyncedApp(id, a, torn).autoEntry = a.autoEntry
<1>1. SyncedApp(id, a, torn) \in App BY SyncedAppType DEF TypeOK, Files
<1>2. CASE NeedsSync(id, a) /\ id \notin torn
  <2> HIDE DEF SyncedEntry
  <2>1. SyncedApp(id, a, torn) = [a EXCEPT !.autoEntry = SyncedEntry(id, a)] BY <1>2 DEF SyncedApp
  <2> QED BY <1>1, <1>2, <2>1, ValuesDistinct DEF App
<1>3. CASE ~(NeedsSync(id, a) /\ id \notin torn)
  BY <1>1, <1>3, ValuesDistinct DEF SyncedApp
<1> QED BY <1>2, <1>3

LEMMA UpdatedFields ==
  ASSUME TypeOK, NEW id \in Ids, NEW a \in App, NEW s \in Source, files[s][id] \in Entry
  PROVE  /\ Updated(id, a, s) \in App
         /\ Updated(id, a, s).entry = files[s][id]
         /\ Updated(id, a, s).auto = a.auto /\ Updated(id, a, s).autoEntry = a.autoEntry
         /\ IsAutoStart(id, a) /\ ~files[s][id].hidden => Updated(id, a, s).src = s
         /\ Updated(id, a, s).src \in {a.src, s}
<1> DEFINE b == [a EXCEPT !.entry = files[s][id]]
<1>1. /\ b \in App /\ b.entry = files[s][id] /\ b.src = a.src /\ b.auto = a.auto /\ b.autoEntry = a.autoEntry
      BY DEF App
<1>2. Updated(id, a, s) = IF IsAutoStart(id, b) THEN [b EXCEPT !.src = s] ELSE b BY DEF Updated
<1>3. /\ [b EXCEPT !.src = s] \in App /\ [b EXCEPT !.src = s].src = s
      /\ [b EXCEPT !.src = s].entry = b.entry /\ [b EXCEPT !.src = s].auto = b.auto
      /\ [b EXCEPT !.src = s].autoEntry = b.autoEntry
  <2> HIDE DEF b
  <2> QED BY <1>1 DEF App
<1> HIDE DEF b
<1>4. IsAutoStart(id, a) /\ ~files[s][id].hidden => IsAutoStart(id, b) BY <1>1 DEF IsAutoStart
<1> QED BY <1>1, <1>2, <1>3, <1>4

(* A scan writes autostart files only, and creates and removes none.       *)
LEMMA SyncKeepsFiles ==
  ASSUME TypeOK, NEW ids \in SUBSET Ids, NEW apps, NEW torn, files' = SyncedFiles(ids, apps, torn),
         \A id \in ids : apps[id] \in App /\ apps[id].auto \in {NoSource, AutoDir("user"), AutoDir("sys")}
  PROVE  /\ \A s \in Source, id \in Ids : files'[s][id] = NoFile <=> files[s][id] = NoFile
         /\ \A d \in Dirs, id \in Ids : files'[AppDir(d)][id] = files[AppDir(d)][id]
<1>1. \A s \in Source, id \in Ids : files'[s][id] = NoFile <=> files[s][id] = NoFile
  <2>1. files \in Files /\ \A id \in ids : apps[id] \in App BY DEF TypeOK, Files
  <2> QED BY <2>1, SyncedFilesType
<1>2. \A d \in Dirs, id \in Ids : files'[AppDir(d)][id] = files[AppDir(d)][id]
  <2> SUFFICES ASSUME NEW d \in Dirs, NEW id \in Ids PROVE files'[AppDir(d)][id] = files[AppDir(d)][id]
    OBVIOUS
  <2>1. AppDir(d) \in Source /\ ~(id \in ids /\ apps[id].auto = AppDir(d)) BY AutoDirsApart
  <2> QED BY <2>1, SyncedFilesAt
<1> QED BY <1>1, <1>2

LEMMA ScanDirFInv ==
  ASSUME IInv, FInv, NEW d \in Dirs, ScanDir(d)
  PROVE  FInv'
<1> DEFINE here == {id \in Ids : Exists(AppDir(d), id)} \ seen
           updates == {id \in here \cap left : files[AppDir(d)][id] # BadFile}
           apps == [id \in Ids |->
                     IF id \in updates THEN Updated(id, list[id], AppDir(d))
                     ELSE IF id \in here \ left THEN Created(id, AppDir(d))
                     ELSE list[id]]
<1>1. TypeOK /\ AppDir(d) \in Source /\ left \subseteq Listed /\ left \cap seen = {}
  BY AutoDirsApart DEF IInv, ScanInv
<1>2. /\ pc = d /\ pc' = (IF d = "user" THEN "sys" ELSE "auto") /\ d \in {"user", "sys"}
      /\ seen' = seen \cup here /\ left' = left \ here
      /\ UNCHANGED <<known, ready, overrideSig>>
  BY DEF ScanDir, Dirs
<1>3. PICK torn \in TornWrites(updates, apps) :
          /\ list' = [id \in Ids |-> IF id \in updates THEN SyncedApp(id, apps[id], torn) ELSE apps[id]]
          /\ files' = SyncedFiles(updates, apps, torn)
          /\ dirty' = (dirty \/ torn # {})
          /\ wish' = [id \in Ids |-> IF id \in torn THEN "none" ELSE wish[id]]
  BY DEF ScanDir
<1>4. ASSUME NEW id \in updates
      PROVE  /\ id \in here /\ id \in left /\ id \notin seen /\ Exists(AppDir(d), id)
             /\ list[id] \in App /\ files[AppDir(d)][id] \in Entry
             /\ apps[id] = Updated(id, list[id], AppDir(d))
  BY <1>1, ListType, FileType DEF Listed, TypeOK, Files, Exists
<1>5. ASSUME NEW id \in Ids, id \notin updates
      PROVE  /\ list'[id] = IF id \in here \ left THEN Created(id, AppDir(d)) ELSE list[id]
             /\ id \in here \cap left => files[AppDir(d)][id] = BadFile
             /\ SameFiles(id)
  <2>1. \A s \in Source : files'[s][id] = files[s][id] BY <1>3, <1>5, SyncedFilesAt
  <2> QED BY <1>3, <1>5, <2>1 DEF SameFiles
<1>6. /\ here \subseteq Ids /\ updates \subseteq Ids
      /\ \A id \in Ids : id \in here <=> Exists(AppDir(d), id) /\ id \notin seen
  OBVIOUS
<1> HIDE DEF here, updates, apps
<1>7. ASSUME NEW id \in updates
      PROVE  /\ apps[id] \in App /\ apps[id].entry = files[AppDir(d)][id]
             /\ apps[id].auto = list[id].auto /\ apps[id].autoEntry = list[id].autoEntry
             /\ IsAutoStart(id, list[id]) /\ ~files[AppDir(d)][id].hidden => apps[id].src = AppDir(d)
             /\ apps[id].auto \in {NoSource, AutoDir("user"), AutoDir("sys")}
  <2>1. apps[id].auto = list[id].auto BY <1>1, <1>4, <1>6, UpdatedFields
  <2>2. list[id].auto \in {NoSource, AutoDir("user"), AutoDir("sys")}
    BY <1>1, <1>4 DEF FInv, AutoPaths
  <2> QED BY <1>1, <1>4, <1>6, <2>1, <2>2, UpdatedFields
<1>8. ASSUME NEW id \in updates
      PROVE  /\ list'[id] \in App /\ id \in Listed' /\ list'[id].entry = files[AppDir(d)][id]
             /\ list'[id].src = apps[id].src /\ list'[id].auto = list[id].auto
             /\ NeedsSync(id, apps[id]) /\ id \notin torn => list'[id].autoEntry = SyncedEntry(id, apps[id])
             /\ ~NeedsSync(id, apps[id]) \/ id \in torn => list'[id].autoEntry = list[id].autoEntry
  <2>1. list'[id] = SyncedApp(id, apps[id], torn) /\ id \in Ids BY <1>3, <1>6
  <2>2. apps[id] \in App /\ apps[id].entry = files[AppDir(d)][id] /\ apps[id].auto = list[id].auto
        /\ apps[id].autoEntry = list[id].autoEntry
    BY <1>7
  <2>3. /\ SyncedApp(id, apps[id], torn) \in App /\ SyncedApp(id, apps[id], torn) # NotListed
        /\ SyncedApp(id, apps[id], torn).entry = apps[id].entry /\ SyncedApp(id, apps[id], torn).src = apps[id].src
        /\ SyncedApp(id, apps[id], torn).auto = apps[id].auto
        /\ NeedsSync(id, apps[id]) /\ id \notin torn => SyncedApp(id, apps[id], torn).autoEntry = SyncedEntry(id, apps[id])
        /\ ~NeedsSync(id, apps[id]) \/ id \in torn => SyncedApp(id, apps[id], torn).autoEntry = apps[id].autoEntry
    <3>1. PICK a \in App : a = apps[id] BY <2>2
    <3>2. TypeOK BY <1>1
    <3>3. /\ SyncedApp(id, a, torn) \in App /\ SyncedApp(id, a, torn) # NotListed
          /\ SyncedApp(id, a, torn).entry = a.entry /\ SyncedApp(id, a, torn).src = a.src
          /\ SyncedApp(id, a, torn).auto = a.auto
      BY <2>1, <3>2, SyncedAppFields
    <3>4. /\ NeedsSync(id, a) /\ id \notin torn => SyncedApp(id, a, torn).autoEntry = SyncedEntry(id, a)
          /\ ~NeedsSync(id, a) \/ id \in torn => SyncedApp(id, a, torn).autoEntry = a.autoEntry
      BY <2>1, <3>2, SyncedAppFields
    <3> QED BY <3>1, <3>3, <3>4
  <2> QED BY <2>1, <2>2, <2>3 DEF Listed
<1>9. ASSUME NEW id \in here \ left
      PROVE  /\ list'[id] = Created(id, AppDir(d))
             /\ id \in Listed' => /\ files[AppDir(d)][id] \in Entry /\ Shown(id, files[AppDir(d)][id])
                                  /\ list'[id].entry = files[AppDir(d)][id] /\ list'[id].src = AppDir(d)
                                  /\ list'[id].auto = NoSource
             /\ files[AppDir(d)][id] \in Entry /\ Shown(id, files[AppDir(d)][id]) => id \in Listed'
  <2>1. list'[id] = Created(id, AppDir(d)) BY <1>4, <1>5, <1>6
  <2>2. /\ list'[id] # NotListed => /\ files[AppDir(d)][id] \in Entry /\ Shown(id, files[AppDir(d)][id])
                                    /\ list'[id].entry = files[AppDir(d)][id] /\ list'[id].src = AppDir(d)
                                    /\ list'[id].auto = NoSource
    BY <2>1 DEF Created
  <2>3. files[AppDir(d)][id] \in Entry /\ Shown(id, files[AppDir(d)][id]) => list'[id] # NotListed
    <3>1. ASSUME files[AppDir(d)][id] \in Entry
          PROVE  [entry |-> files[AppDir(d)][id], src |-> AppDir(d), auto |-> NoSource, autoEntry |-> NoEntry] \in App
      BY <1>1, <3>1 DEF App
    <3> QED BY <2>1, <3>1, ValuesDistinct DEF Created
  <2> QED BY <1>6, <2>1, <2>2, <2>3 DEF Listed
<1>10. /\ \A s \in Source, id \in Ids : files'[s][id] = NoFile <=> files[s][id] = NoFile
       /\ \A e \in Dirs, id \in Ids : files'[AppDir(e)][id] = files[AppDir(e)][id]
  BY <1>1, <1>3, <1>6, <1>7, SyncKeepsFiles
<1>11. ASSUME NEW id \in Ids
       PROVE  /\ \A s \in Source \cup {NoSource} : Exists(s, id)' <=> Exists(s, id)
              /\ Winner("app", id)' = Winner("app", id)
              /\ Winner("app", id) # NoSource =>
                   files'[Winner("app", id)][id] = files[Winner("app", id)][id]
  <2>1. Winner("app", id) # NoSource => Winner("app", id) \in {AppDir("user"), AppDir("sys")}
    BY DEF Winner, AppDir
  <2> QED BY <1>10, <2>1, ExistsSame DEF Dirs
<1>12. ASSUME NEW id \in Ids, Steady(id)' PROVE Steady(id) /\ id \notin torn
  BY <1>3, <1>12 DEF Steady, TypeOK
(* Where id is read, it is read from the directory that counts. *)
<1>13. ASSUME NEW id \in here, Steady(id)
       PROVE  Winner("app", id) = AppDir(d) /\ Exists(AppDir(d), id)
  <2>1. id \in Ids /\ Exists(AppDir(d), id) /\ id \notin seen BY <1>6
  <2>2. d = "sys" => ~Exists(AppDir("user"), id) BY <1>2, <1>13, <2>1 DEF FInv, IdInv, SeenIsRead
  <2> QED BY <2>1, <2>2, FirstIsWinner
<1>14. ASSUME NEW id \in Ids PROVE SeenIsRead(id)'
  <2> SUFFICES ASSUME Steady(id)'
               PROVE  /\ id \in seen' <=> \/ Exists(AppDir("user"), id)'
                                          \/ pc' = "auto" /\ Exists(AppDir("sys"), id)'
                      /\ id \in seen' => Reads(id)'
    BY DEF SeenIsRead
  <2>1. Steady(id) BY <1>12
  <2>2. /\ pc = "user" => id \notin seen
        /\ pc = "sys" => (id \in seen <=> Exists(AppDir("user"), id))
    BY <2>1 DEF FInv, ListedSeen, IdInv, SeenIsRead
  <2>3. id \in seen' <=> Exists(AppDir("user"), id) \/ (pc' = "auto" /\ Exists(AppDir("sys"), id))
    BY <1>2, <1>6, <2>2
  <2>4. \A e \in Dirs : Exists(AppDir(e), id)' <=> Exists(AppDir(e), id) BY <1>11, SourceType
  <2>5. CASE id \in here
    <3>1. Winner("app", id) = AppDir(d) /\ Exists(AppDir(d), id) BY <1>13, <2>1, <2>5
    <3>2. files'[AppDir(d)][id] = files[AppDir(d)][id] BY <1>10
    <3>3. /\ files[AppDir(d)][id] \in Entry \cup {BadFile}
      BY <1>1, <3>1, FileType DEF TypeOK, Files, Exists
    <3>4. files[AppDir(d)][id] # BadFile /\ Shown(id, files[AppDir(d)][id]) =>
            id \in Listed' /\ list'[id].entry = files[AppDir(d)][id]
      BY <1>5, <1>8, <1>9, <2>5, <3>3
    <3>5. Reads(id)' BY <1>2, <1>11, <3>1, <3>2, <3>4 DEF Reads, Shown, TryExecRefuses
    <3> QED BY <2>3, <2>4, <3>5 DEF Dirs
  <2>6. CASE id \notin here
    <3>1. list'[id] = list[id] /\ SameFiles(id) BY <1>4, <1>5, <2>6
    <3>2. id \in seen => Winner("app", id) # NoSource /\ Reads(id)
      BY <1>2, <2>1, <2>2, WinnerExists DEF FInv, IdInv, SeenIsRead
    <3>3. id \in seen => Reads(id)' BY <1>1, <1>2, <3>1, <3>2, ReadsSame
    <3> QED BY <1>2, <2>3, <2>4, <2>6, <3>3 DEF Dirs
  <2> QED BY <2>5, <2>6
<1>15. ASSUME NEW id \in Ids, wish'[id] # "none" PROVE wish[id] = wish'[id] /\ id \notin torn
  BY <1>3, <1>15
<1>16. ASSUME NEW id \in Ids, wish'[id] = "on" PROVE OnKept(id)'
  <2> DEFINE w == Winner("app", id)
             f == files[UserAuto][id]
  <2>1. wish[id] = "on" /\ id \notin torn /\ Steady(id) BY <1>15, <1>16 DEF Steady
  <2>2. /\ f \in Entry /\ ~f.hidden /\ f.runs /\ f.gen # NoSource /\ Exists(f.gen, id)
        /\ w # NoSource /\ w \in Source /\ Plain(files[w][id])
        /\ id \in Listed => list[id].auto \in {UserAuto, NoSource}
        /\ id \in left \/ known[id] # "none" => Starting(id)
        /\ id \in seen => id \in Listed /\ list[id].src = w
    BY <1>2, <2>1, WinnerType DEF FInv, IdInv, OnKept, ListedSeen
  <2>3. UserAuto \in Source /\ UserAuto # NoSource BY SourceType, ValuesDistinct
  <2>4. CASE id \in updates
    <3>1. w = AppDir(d) BY <1>4, <1>13, <2>1, <2>4
    <3>2. Starting(id) /\ list[id].auto = UserAuto
      BY <1>4, <2>2, <2>4 DEF Starting, IsAutoStart, Exists
    <3>3. apps[id].src = w /\ apps[id].auto = UserAuto /\ apps[id].entry = files[w][id]
      BY <1>7, <2>2, <2>4, <3>1, <3>2 DEF Plain, Starting
    <3>4. NeedsSync(id, apps[id]) BY <2>2, <2>3, <3>3 DEF NeedsSync, Generated
    <3>5. /\ SyncedEntry(id, apps[id]) \in Entry /\ SyncedEntry(id, apps[id]).runs = files[w][id].runs
          /\ SyncedEntry(id, apps[id]).gen = w /\ SyncedEntry(id, apps[id]).hidden = f.hidden
      BY <1>1, <1>6, <1>7, <2>4, <3>3, <3>4, SyncedEntryFields
    <3>6. files'[UserAuto][id] = SyncedEntry(id, apps[id])
      BY <1>3, <1>6, <2>1, <2>3, <2>4, <3>3, <3>4, SyncedFilesAt DEF SyncedFile
    <3>7. list'[id].autoEntry = SyncedEntry(id, apps[id]) /\ list'[id].auto = UserAuto /\ list'[id].src = w /\ id \in Listed'
      BY <1>8, <2>1, <2>4, <3>2, <3>3, <3>4
    <3> HIDE DEF SyncedEntry
    <3>8. SyncedEntry(id, apps[id]) # NoEntry BY <3>5, ValuesAssumption
    <3>9. Starting(id)'
      <4>1. Exists(UserAuto, id)' BY <2>3, <3>5, <3>6, ValuesDistinct DEF Exists
      <4> QED BY <2>2, <3>5, <3>7, <3>8, <4>1 DEF Starting, IsAutoStart
    <3>10. Exists(w, id)' <=> Exists(w, id) BY <1>11, <2>2
    <3>11. Exists(w, id) BY <1>4, <2>4, <3>1
    <3> HIDE DEF w
    <3>12. files'[UserAuto][id].gen = w /\ Exists(files[UserAuto][id].gen, id)'
      <4>1. PICK g \in Source : g = w BY <2>2
      <4>2. Exists(g, id)' BY <1>11, <3>11, <4>1
      <4>3. files'[UserAuto][id].gen = g BY <3>5, <3>6, <4>1
      <4> QED BY <4>1, <4>2, <4>3
    <3>13. Winner("app", id)' = w /\ files'[w][id] = files[w][id] BY <1>11, <2>2 DEF w
    <3>14. Plain(files[Winner("app", id)][id])' BY <2>2, <3>13 DEF Plain
    <3>15. files'[UserAuto][id] \in Entry /\ ~files'[UserAuto][id].hidden /\ files'[UserAuto][id].runs
      BY <2>2, <3>5, <3>6 DEF Plain
    <3> QED BY <2>2, <3>7, <3>9, <3>12, <3>13, <3>14, <3>15 DEF OnKept
  <2>5. CASE id \notin updates
    <3>1. SameFiles(id) BY <1>5, <2>5
    <3>2. files'[UserAuto][id] = f BY <2>3, <3>1 DEF SameFiles
    <3>3. Winner("app", id)' = w /\ files'[w][id] = files[w][id] BY <1>11, <2>2
    <3>4. Exists(files[UserAuto][id].gen, id)'
      <4>1. PICK g \in Source : g = f.gen BY <2>2, EntryFields
      <4>2. Exists(g, id)' BY <1>11, <2>2, <4>1
      <4> QED BY <3>2, <4>1, <4>2
    <3>5. Plain(files[Winner("app", id)][id])' BY <2>2, <3>3 DEF Plain
    <3> HIDE DEF w, f
    <3>6. CASE id \in here \ left
      <4>1. w = AppDir(d) BY <1>13, <2>1, <3>6 DEF w
      <4>2. id \notin Listed /\ id \notin left BY <1>2, <1>6, <3>6 DEF FInv, ListedSeen, Scanning
      <4>3. known[id] = "none" BY <2>2, <4>2 DEF Starting
      <4>4. files[AppDir(d)][id] \in Entry /\ Shown(id, files[AppDir(d)][id])
        BY <2>2, <4>1, <4>3 DEF Plain, Shown, TryExecRefuses
      <4>5. id \in Listed' /\ list'[id].auto = NoSource /\ list'[id].src = w BY <1>9, <3>6, <4>1, <4>4
      <4>6. known'[id] = "none" /\ id \notin left' /\ pc' # "idle" BY <1>2, <4>2, <4>3
      <4> QED BY <2>2, <3>2, <3>3, <3>4, <3>5, <4>5, <4>6 DEF OnKept
    <3>7. CASE id \notin here \ left
      <4>1. id \notin here
        <5> SUFFICES ASSUME id \in here PROVE FALSE
          OBVIOUS
        <5>1. w = AppDir(d) BY <1>13, <2>1 DEF w
        <5>2. files[AppDir(d)][id] = BadFile BY <1>5, <2>5, <3>7
        <5> QED BY <2>2, <5>1, <5>2, ValuesDistinct DEF Plain
      <4>2. list'[id] = list[id] BY <1>5, <2>5, <3>7
      <4>3. (id \in left' <=> id \in left) /\ (id \in seen' <=> id \in seen) /\ (id \in Listed' <=> id \in Listed)
        BY <1>2, <4>1, <4>2 DEF Listed
      <4>4. Starting(id)' <=> Starting(id) BY <1>1, <1>10, <4>2, AutoStartSame
      <4>5. pc' \notin {"idle", "down"} /\ pc # "down" /\ known'[id] = known[id] BY <1>2
      <4> QED BY <2>2, <3>2, <3>3, <3>4, <3>5, <4>2, <4>3, <4>4, <4>5 DEF OnKept
    <3> QED BY <3>6, <3>7
  <2> QED BY <2>4, <2>5
<1>17. ASSUME NEW id \in Ids, wish'[id] = "off" PROVE OffKept(id)'
  <2>1. wish[id] = "off" /\ id \notin torn BY <1>15, <1>17
  <2>2. /\ files[UserAuto][id] \in Entry /\ files[UserAuto][id].hidden
        /\ id \in Listed => \/ list[id].auto = NoSource
                            \/ list[id].auto = UserAuto /\ list[id].autoEntry # NoEntry /\ list[id].autoEntry.hidden
    BY <2>1 DEF FInv, IdInv, OffKept
  <2>3. CASE id \in updates
    <3>1. id \in Listed /\ apps[id].auto = list[id].auto /\ list'[id].auto = list[id].auto /\ apps[id] \in App
      BY <1>1, <1>4, <1>7, <1>8, <2>3
    <3>2. CASE list[id].auto = NoSource
      <4>1. files'[UserAuto][id] = files[UserAuto][id]
        <5>1. UserAuto \in Source /\ UserAuto # NoSource BY SourceType, ValuesDistinct
        <5>2. apps[id].auto # UserAuto BY <3>1, <3>2, <5>1
        <5> QED BY <1>3, <1>6, <5>1, <5>2, SyncedFilesAt
      <4> QED BY <2>2, <3>1, <3>2, <4>1 DEF OffKept
    <3>3. CASE list[id].auto = UserAuto /\ ~NeedsSync(id, apps[id])
      <4>1. files'[UserAuto][id] = files[UserAuto][id]
        BY <1>3, <1>6, <2>3, <3>1, <3>3, SyncedFilesAt, SourceType
      <4>2. list'[id].autoEntry = list[id].autoEntry BY <1>8, <2>3, <3>3
      <4> QED BY <2>2, <3>1, <3>3, <4>1, <4>2, SourceType, ValuesDistinct DEF OffKept
    <3>4. CASE list[id].auto = UserAuto /\ NeedsSync(id, apps[id])
      <4>1. SyncedEntry(id, apps[id]) \in Entry /\ SyncedEntry(id, apps[id]).hidden
        <5>1. PICK a \in App : a = apps[id] BY <3>1
        <5>2. SyncedEntry(id, a) \in Entry /\ SyncedEntry(id, a).hidden = files[a.auto][id].hidden
          BY <1>1, <1>6, <2>3, <3>4, <5>1, SyncedEntryFields
        <5> QED BY <2>2, <3>1, <3>4, <5>1, <5>2
      <4>2. files'[UserAuto][id] = SyncedEntry(id, apps[id])
        <5>1. UserAuto \in Source /\ apps[id].auto = UserAuto /\ NeedsSync(id, apps[id]) BY <3>1, <3>4, SourceType
        <5>2. files'[UserAuto][id] = SyncedFile(id, apps[id], torn) BY <1>3, <1>6, <2>3, <5>1, SyncedFilesAt
        <5> QED BY <2>1, <5>2 DEF SyncedFile
      <4>3. list'[id].autoEntry = SyncedEntry(id, apps[id]) BY <1>8, <2>1, <2>3, <3>4
      <4> HIDE DEF SyncedEntry
      <4> QED BY <3>1, <3>4, <4>1, <4>2, <4>3, ValuesAssumption DEF OffKept
    <3> QED BY <2>2, <3>1, <3>2, <3>3, <3>4
  <2>4. CASE id \notin updates
    <3>1. files'[UserAuto][id] = files[UserAuto][id] BY <1>5, <2>4, SourceType DEF SameFiles
    <3>2. CASE id \in here \ left BY <1>9, <2>2, <3>1, <3>2 DEF OffKept
    <3>3. CASE id \notin here \ left
      <4>1. list'[id] = list[id] BY <1>5, <2>4, <3>3
      <4> QED BY <2>2, <3>1, <4>1 DEF OffKept, Listed
    <3> QED BY <3>2, <3>3
  <2> QED BY <2>3, <2>4
<1>18. ASSUME NEW id \in Ids PROVE IdInv(id)'
  <2>1. FollowsWhenIdle(id)' BY <1>2 DEF FollowsWhenIdle
  <2>2. wish'[id] # "on" => OnKept(id)' BY DEF OnKept
  <2>3. wish'[id] # "off" => OffKept(id)' BY DEF OffKept
  <2> QED BY <1>14, <1>16, <1>17, <2>1, <2>2, <2>3 DEF IdInv
<1>19. AutoPaths'
  <2>1. ASSUME NEW id \in Listed' PROVE list'[id].auto \in {NoSource, AutoDir("user"), AutoDir("sys")}
    <3>1. id \in Ids BY DEF Listed
    <3>2. CASE id \in updates BY <1>7, <1>8, <3>2
    <3>3. CASE id \in here \ left BY <1>9, <2>1, <3>3
    <3>4. CASE id \notin updates /\ id \notin here \ left
      <4>1. list'[id] = list[id] BY <1>5, <3>1, <3>4
      <4> QED BY <2>1, <4>1 DEF FInv, AutoPaths, Listed
    <3> QED BY <3>2, <3>3, <3>4
  <2> QED BY <2>1 DEF AutoPaths
<1>20. ListedSeen'
  <2>1. ASSUME NEW id \in Listed' PROVE id \in left' \cup seen'
    <3>1. id \in Ids BY DEF Listed
    <3>2. CASE id \in here BY <1>2, <3>2
    <3>3. CASE id \notin here
      <4>1. list'[id] = list[id] BY <1>4, <1>5, <3>1, <3>3
      <4>2. id \in Listed BY <2>1, <4>1 DEF Listed
      <4> QED BY <1>2, <3>3, <4>2 DEF FInv, ListedSeen, Scanning
    <3> QED BY <3>2, <3>3
  <2>2. pc' # "user" BY <1>2
  <2> QED BY <2>1, <2>2 DEF ListedSeen
<1>21. OverridesRead' BY <1>2 DEF FInv, OverridesRead
<1> QED BY <1>18, <1>19, <1>20, <1>21 DEF FInv

(* What an application is attached to an autostart file with.              *)
LEMMA AttachedFields ==
  ASSUME TypeOK, NEW id \in Ids, NEW a \in App \cup {NotListed}, Starts(id),
         NEW w \in Source, w = Winner("auto", id), NEW e \in Entry, e = files[w][id]
  PROVE  /\ Attached(id, a) # NotListed <=> a # NotListed \/ (Generated(e) => Created(id, e.gen) # NotListed)
         /\ Attached(id, a) # NotListed => Attached(id, a) \in App /\ Attached(id, a).auto = w
         /\ a # NotListed => /\ Attached(id, a).entry = a.entry /\ Attached(id, a).src = a.src
                             /\ Attached(id, a).autoEntry = e
         /\ a = NotListed /\ Generated(e) /\ Created(id, e.gen) # NotListed =>
              Attached(id, a).entry = files[e.gen][id] /\ Attached(id, a).src = e.gen
<1> DEFINE owner == IF a = NotListed /\ Generated(e) THEN Created(id, e.gen) ELSE a
           own == [entry |-> e, src |-> w, auto |-> w, autoEntry |-> NoEntry]
<1>1. Attached(id, a) = IF owner # NotListed THEN [owner EXCEPT !.auto = w, !.autoEntry = e]
                        ELSE IF Generated(e) THEN NotListed ELSE own
  BY DEF Attached
<1>2. own \in App BY DEF App
<1>3. Generated(e) => e.gen \in Source /\ Created(id, e.gen) \in App \cup {NotListed}
  <2>1. Generated(e) => e.gen \in Source BY EntryFields DEF Generated
  <2> HIDE DEF Created
  <2> QED BY <2>1, CreatedType DEF TypeOK, Files
<1>4. Created(id, e.gen) # NotListed => Created(id, e.gen).entry = files[e.gen][id] /\ Created(id, e.gen).src = e.gen
  BY DEF Created
<1>5. owner \in App \cup {NotListed} BY <1>3
<1>6. owner # NotListed => /\ [owner EXCEPT !.auto = w, !.autoEntry = e] \in App
                           /\ [owner EXCEPT !.auto = w, !.autoEntry = e].auto = w
                           /\ [owner EXCEPT !.auto = w, !.autoEntry = e].autoEntry = e
                           /\ [owner EXCEPT !.auto = w, !.autoEntry = e].entry = owner.entry
                           /\ [owner EXCEPT !.auto = w, !.autoEntry = e].src = owner.src
  <2> HIDE DEF owner
  <2> QED BY <1>5 DEF App
<1>7. CASE owner # NotListed
  <2>1. Attached(id, a) = [owner EXCEPT !.auto = w, !.autoEntry = e] BY <1>1, <1>7
  <2>2. Attached(id, a) \in App /\ Attached(id, a).auto = w /\ Attached(id, a).autoEntry = e
        /\ Attached(id, a).entry = owner.entry /\ Attached(id, a).src = owner.src
    <3> HIDE DEF owner, Attached
    <3> QED BY <1>6, <1>7, <2>1
  <2>3. a # NotListed => owner = a OBVIOUS
  <2>4. a = NotListed => Generated(e) /\ owner = Created(id, e.gen) BY <1>7
  <2>5. a = NotListed => owner.entry = files[e.gen][id] /\ owner.src = e.gen BY <1>4, <1>7, <2>4
  <2> HIDE DEF owner, Attached, Created
  <2> QED BY <1>7, <2>2, <2>3, <2>4, <2>5, ValuesDistinct
<1>8. CASE owner = NotListed
  <2>1. a = NotListed BY <1>8
  <2>2. Generated(e) => Created(id, e.gen) = NotListed BY <1>8, <2>1
  <2>3. Attached(id, a) = IF Generated(e) THEN NotListed ELSE own BY <1>1, <1>8
  <2>4. own.auto = w OBVIOUS
  <2> HIDE DEF owner, Attached, Created, own
  <2> QED BY <1>2, <2>1, <2>2, <2>3, <2>4, ValuesDistinct
<1> QED BY <1>7, <1>8

LEMMA FinishScanFInv ==
  ASSUME IInv, FInv, FinishScan
  PROVE  FInv'
<1> DEFINE kept == [id \in Ids |-> IF id \in Removed THEN NotListed ELSE list[id]]
           starts == {id \in Ids : Starts(id)}
           apps == [id \in Ids |-> IF id \in starts THEN Attached(id, kept[id]) ELSE kept[id]]
           updates == {id \in starts : apps[id] # NotListed}
<1>1. TypeOK /\ files \in Files /\ left \subseteq Listed /\ left \cap seen = {} BY DEF IInv, ScanInv, TypeOK, Files
<1>2. /\ pc = "auto" /\ pc' = "idle" /\ left' = {}
      /\ UNCHANGED <<known, ready, overrideSig, seen>>
  BY DEF FinishScan
<1>3. PICK torn \in TornWrites(updates, apps) :
          /\ list' = [id \in Ids |-> IF id \in updates THEN SyncedApp(id, apps[id], torn) ELSE apps[id]]
          /\ files' = SyncedFiles(updates, apps, torn)
          /\ dirty' = (dirty \/ torn # {})
          /\ wish' = [id \in Ids |-> IF id \in torn THEN "none" ELSE wish[id]]
  BY DEF FinishScan
<1>4. ASSUME NEW id \in Ids
      PROVE  /\ kept[id] = IF id \in left THEN NotListed ELSE list[id]
             /\ kept[id] \in App \cup {NotListed}
             /\ apps[id] = IF Starts(id) THEN Attached(id, kept[id]) ELSE kept[id]
             /\ id \in updates <=> Starts(id) /\ apps[id] # NotListed
  <2>1. list[id] \in App \cup {NotListed} BY <1>1 DEF TypeOK
  <2> HIDE DEF Attached, Starts
  <2> QED BY <2>1 DEF Removed
<1>5. updates \subseteq Ids OBVIOUS
<1> HIDE DEF kept, starts, apps, updates
(* The autostart file that starts id. *)
<1>6. ASSUME NEW id \in Ids, Starts(id)
      PROVE  \E w \in Source, e \in Entry :
               /\ w = Winner("auto", id) /\ e = files[w][id] /\ w \in {AutoDir("user"), AutoDir("sys")}
               /\ Shown(id, e) /\ (Generated(e) => Exists(e.gen, id))
  <2>1. Winner("auto", id) # NoSource => Winner("auto", id) \in {AutoDir("user"), AutoDir("sys")}
    BY DEF Winner, AutoDir
  <2>2. /\ Winner("auto", id) # NoSource /\ files[Winner("auto", id)][id] # BadFile
        /\ Shown(id, files[Winner("auto", id)][id])
        /\ Generated(files[Winner("auto", id)][id]) => Exists(files[Winner("auto", id)][id].gen, id)
    BY <1>6 DEF Starts
  <2>3. Winner("auto", id) \in Source /\ files[Winner("auto", id)][id] \in Entry BY <1>1, <2>2, WinnerEntry
  <2> QED BY <2>1, <2>2, <2>3
<1>7. ASSUME NEW id \in updates
      PROVE  apps[id] \in App /\ apps[id].auto \in {AutoDir("user"), AutoDir("sys")}
  <2>1. id \in Ids /\ Starts(id) /\ apps[id] = Attached(id, kept[id]) /\ apps[id] # NotListed
    BY <1>4, <1>5
  <2>2. PICK w \in Source, e \in Entry :
          w = Winner("auto", id) /\ e = files[w][id] /\ w \in {AutoDir("user"), AutoDir("sys")}
    BY <1>6, <2>1
  <2>3. PICK a \in App \cup {NotListed} : a = kept[id] BY <1>4, <2>1
  <2>4. Attached(id, a) # NotListed => Attached(id, a) \in App /\ Attached(id, a).auto = w
    BY <1>1, <2>1, <2>2, AttachedFields
  <2> QED BY <2>1, <2>2, <2>3, <2>4
<1>8. ASSUME NEW id \in updates
      PROVE  /\ list'[id] \in App /\ id \in Listed' /\ list'[id].entry = apps[id].entry
             /\ list'[id].src = apps[id].src /\ list'[id].auto = apps[id].auto
             /\ NeedsSync(id, apps[id]) /\ id \notin torn => list'[id].autoEntry = SyncedEntry(id, apps[id])
  <2>1. list'[id] = SyncedApp(id, apps[id], torn) /\ id \in Ids BY <1>3, <1>5
  <2>2. PICK a \in App : a = apps[id] BY <1>7
  <2>3. /\ SyncedApp(id, a, torn) \in App /\ SyncedApp(id, a, torn) # NotListed
        /\ SyncedApp(id, a, torn).entry = a.entry /\ SyncedApp(id, a, torn).src = a.src
        /\ SyncedApp(id, a, torn).auto = a.auto
    BY <1>1, <2>1, SyncedAppFields
  <2>4. NeedsSync(id, a) /\ id \notin torn => SyncedApp(id, a, torn).autoEntry = SyncedEntry(id, a)
    BY <1>1, <2>1, SyncedAppFields
  <2> QED BY <2>1, <2>2, <2>3, <2>4 DEF Listed
<1>9. ASSUME NEW id \in Ids, id \notin updates PROVE list'[id] = apps[id] /\ SameFiles(id)
  <2>1. \A s \in Source : files'[s][id] = files[s][id] BY <1>3, <1>5, <1>9, SyncedFilesAt
  <2> QED BY <1>3, <1>9, <2>1 DEF SameFiles
<1>10. /\ \A s \in Source, id \in Ids : files'[s][id] = NoFile <=> files[s][id] = NoFile
       /\ \A d \in Dirs, id \in Ids : files'[AppDir(d)][id] = files[AppDir(d)][id]
  <2>1. \A id \in updates : apps[id] \in App /\ apps[id].auto \in {NoSource, AutoDir("user"), AutoDir("sys")}
    BY <1>7
  <2> QED BY <1>1, <1>3, <1>5, <2>1, SyncKeepsFiles
<1>11. ASSUME NEW id \in Ids
       PROVE  /\ \A s \in Source \cup {NoSource} : Exists(s, id)' <=> Exists(s, id)
              /\ Winner("app", id)' = Winner("app", id) /\ Winner("auto", id)' = Winner("auto", id)
              /\ Winner("app", id) # NoSource =>
                   files'[Winner("app", id)][id] = files[Winner("app", id)][id]
  <2>1. Winner("app", id) # NoSource => Winner("app", id) \in {AppDir("user"), AppDir("sys")}
    BY DEF Winner, AppDir
  <2> QED BY <1>10, <2>1, ExistsSame DEF Dirs
<1>12. ASSUME NEW id \in Ids, Steady(id)
       PROVE  /\ id \in seen <=> Winner("app", id) # NoSource
              /\ id \in seen => Reads(id) /\ id \notin left /\ kept[id] = list[id]
  <2>1. id \in seen <=> Winner("app", id) # NoSource BY <1>2, <1>12, WinnerExists DEF FInv, IdInv, SeenIsRead
  <2>2. id \in seen => Reads(id) BY <1>2, <1>12 DEF FInv, IdInv, SeenIsRead
  <2> QED BY <1>1, <1>4, <2>1, <2>2
(* The list follows the files. *)
<1>13. ASSUME NEW id \in Ids, ~dirty' PROVE Follows(id)'
  <2> DEFINE w == Winner("app", id)
  <2>1. torn = {} /\ Steady(id) BY <1>3, <1>13 DEF Steady, TypeOK
  <2>2. CASE w # NoSource
    <3>1. Reads(id) /\ kept[id] = list[id] BY <1>12, <2>1, <2>2
    <3>2. ASSUME files[w][id] # BadFile, Shown(id, files[w][id])
          PROVE  id \in Listed' /\ list'[id].entry = files[w][id]
      <4>1. list[id] \in App /\ list[id].entry = files[w][id] BY <1>1, <3>1, <3>2, ListType DEF Reads, Listed
      <4>2. CASE Starts(id)
        <5>1. PICK v \in Source, e \in Entry : v = Winner("auto", id) /\ e = files[v][id] BY <1>6, <4>2
        <5>2. PICK a \in App : a = list[id] BY <4>1
        <5>3. Attached(id, a) # NotListed /\ Attached(id, a).entry = a.entry
          BY <1>1, <4>2, <5>1, AttachedFields, ValuesDistinct
        <5>4. id \in updates /\ apps[id].entry = files[w][id] BY <1>4, <3>1, <4>1, <4>2, <5>2, <5>3
        <5> QED BY <1>8, <5>4
      <4>3. CASE ~Starts(id)
        <5>1. id \notin updates /\ apps[id] = list[id] BY <1>4, <3>1, <4>3
        <5> QED BY <1>9, <4>1, <5>1, ValuesDistinct DEF Listed
      <4> QED BY <4>2, <4>3
    <3>3. Winner("app", id)' = w /\ files'[w][id] = files[w][id] BY <1>11, <2>2
    <3>4. Reads(id)' BY <1>2, <3>2, <3>3 DEF Reads, Shown, TryExecRefuses
    <3> QED BY <2>2, <3>3, <3>4 DEF Follows
  <2>3. CASE w = NoSource
    <3>1. kept[id] = NotListed BY <1>2, <1>4, <1>12, <2>1, <2>3 DEF FInv, ListedSeen, Scanning, Listed
    <3>2. Winner("app", id)' = NoSource BY <1>11, <2>3
    <3>3. CASE ~Starts(id)
      <4>1. list'[id] = NotListed /\ SameFiles(id) BY <1>4, <1>9, <3>1, <3>3
      <4>2. ~StartedAlone(id)' BY <1>1, <1>2, <3>3, <4>1, StartsSame DEF StartedAlone
      <4> QED BY <3>2, <4>1, <4>2 DEF Follows, Listed
    <3>4. CASE Starts(id)
      <4>1. PICK v \in Source, e \in Entry :
              /\ v = Winner("auto", id) /\ e = files[v][id] /\ v \in {AutoDir("user"), AutoDir("sys")}
              /\ Shown(id, e) /\ (Generated(e) => Exists(e.gen, id))
        BY <1>6, <3>4
      <4>2. StartedAlone(id) <=> (Generated(e) => Created(id, e.gen) # NotListed)
        BY <3>4, <4>1 DEF StartedAlone
      <4>3. apps[id] = Attached(id, NotListed) BY <1>4, <3>1, <3>4
      <4>4. Attached(id, NotListed) # NotListed <=> (Generated(e) => Created(id, e.gen) # NotListed)
        BY <1>1, <3>4, <4>1, AttachedFields
      <4>5. id \in updates <=> StartedAlone(id) BY <1>4, <3>4, <4>2, <4>3, <4>4
      <4>6. id \in Listed' <=> StartedAlone(id)
        <5>1. CASE id \in updates BY <1>8, <4>5, <5>1
        <5>2. CASE id \notin updates BY <1>4, <1>9, <3>4, <4>5, <5>2 DEF Listed
        <5> QED BY <5>1, <5>2
      <4>7. CASE id \notin updates \/ ~Generated(e)
        <5>1. SameFiles(id)
          <6>1. CASE id \notin updates BY <1>9, <6>1
          <6>2. CASE id \in updates /\ ~Generated(e)
            <7>1. Attached(id, NotListed).auto = v BY <1>1, <1>4, <3>4, <4>1, <4>3, <6>2, AttachedFields
            <7>2. ~NeedsSync(id, apps[id]) BY <4>1, <4>3, <6>2, <7>1 DEF NeedsSync
            <7>3. \A s \in Source : files'[s][id] = files[s][id] BY <1>3, <1>5, <7>2, SyncedFilesAt
            <7> QED BY <7>3 DEF SameFiles
          <6> QED BY <4>7, <6>1, <6>2
        <5>2. StartedAlone(id)' <=> StartedAlone(id) BY <1>1, <1>2, <5>1, StartsSame
        <5> QED BY <3>2, <4>6, <5>2 DEF Follows
      <4>8. CASE id \in updates /\ Generated(e)
        <5>1. PICK g \in Source : g = e.gen BY <4>8, EntryFields DEF Generated
        <5>2. Created(id, g) # NotListed /\ Exists(g, id) BY <4>1, <4>2, <4>5, <4>8, <5>1
        <5>3. files[g][id] \in Entry /\ Shown(id, files[g][id]) BY <5>2 DEF Created
        <5>4. PICK a \in App : a = apps[id] BY <1>7, <4>8
        <5>5. a.auto = v /\ a.entry = files[g][id] /\ a.src = g
          BY <1>1, <1>4, <3>4, <4>1, <4>3, <4>8, <5>1, <5>2, <5>4, AttachedFields
        <5>6. NeedsSync(id, a) BY <4>1, <4>8, <5>5, ValuesDistinct DEF NeedsSync
        <5>7. PICK s \in Entry : s = SyncedEntry(id, a) BY <1>1, <5>6, SyncedEntryFields
        <5>8. s.runs = files[g][id].runs /\ s.gen = g /\ s.hidden = e.hidden
          BY <1>1, <4>1, <5>5, <5>6, <5>7, SyncedEntryFields
        <5>9. \A t \in Source : files'[t][id] = IF t = v THEN s ELSE files[t][id]
          <6>1. SyncedFile(id, apps[id], torn) = s BY <2>1, <5>4, <5>7 DEF SyncedFile
          <6> QED BY <1>3, <1>5, <4>8, <5>4, <5>5, <5>6, <6>1, SyncedFilesAt
        <5>10. Shown(id, s)' BY <1>2, <4>1, <5>3, <5>8 DEF Shown, TryExecRefuses
        <5>11. Created(id, g)' # NotListed
          <6>1. files'[g][id] \in Entry /\ Shown(id, files[g][id])'
            <7>1. Shown(id, files[g][id]) /\ files'[g][id] = files[g][id] => Shown(id, files[g][id])'
              BY <1>2 DEF Shown, TryExecRefuses
            <7> QED BY <5>3, <5>9, <5>10, <7>1 DEF Shown, TryExecRefuses
          <6>2. [entry |-> files'[g][id], src |-> g, auto |-> NoSource, autoEntry |-> NoEntry] \in App
            BY <6>1 DEF App
          <6> QED BY <6>1, <6>2, ValuesDistinct DEF Created
        <5>12. Exists(g, id)' BY <1>11, <5>2
        <5>13. Winner("auto", id)' = v /\ files'[v][id] = s /\ v # NoSource /\ s # BadFile
          BY <1>11, <4>1, <5>9, ValuesDistinct
        <5>14. Starts(id)' BY <5>8, <5>10, <5>12, <5>13 DEF Starts
        <5>15. StartedAlone(id)' BY <5>8, <5>11, <5>13, <5>14 DEF StartedAlone
        <5> QED BY <3>2, <4>5, <4>6, <4>8, <5>15 DEF Follows
      <4> QED BY <4>7, <4>8
    <3> QED BY <3>3, <3>4
  <2> QED BY <2>2, <2>3
<1>14. ASSUME NEW id \in Ids, wish'[id] # "none" PROVE wish[id] = wish'[id] /\ id \notin torn
  BY <1>3, <1>14
(* The user's autostart file counts, and starts id unless an override refuses it. *)
<1>15. ASSUME NEW id \in Ids, files[UserAuto][id] \in Entry
       PROVE  /\ Winner("auto", id) = UserAuto
              /\ Starts(id) <=> /\ Shown(id, files[UserAuto][id])
                                /\ Generated(files[UserAuto][id]) => Exists(files[UserAuto][id].gen, id)
  <2>1. UserAuto \in Source /\ UserAuto # NoSource /\ files[UserAuto][id] # BadFile /\ files[UserAuto][id] # NoFile
    BY <1>15, SourceType, ValuesDistinct
  <2>2. Winner("auto", id) = UserAuto BY <2>1 DEF Winner, Exists, UserAuto, AutoDir
  <2> QED BY <2>1, <2>2 DEF Starts
<1>16. ASSUME NEW id \in Ids, wish'[id] = "on" PROVE OnKept(id)'
  <2> DEFINE w == Winner("app", id)
             f == files[UserAuto][id]
  <2>1. wish[id] = "on" /\ id \notin torn /\ Steady(id) BY <1>14, <1>16 DEF Steady
  <2>2. /\ f \in Entry /\ ~f.hidden /\ f.runs /\ f.gen # NoSource /\ Exists(f.gen, id)
        /\ w # NoSource /\ w \in Source /\ Plain(files[w][id])
        /\ id \in Listed => list[id].auto \in {UserAuto, NoSource}
        /\ known[id] # "none" => Starting(id)
        /\ id \in seen => id \in Listed /\ list[id].src = w
    BY <1>2, <2>1, WinnerType DEF FInv, IdInv, OnKept
  <2>3. id \in Listed /\ list[id].src = w /\ kept[id] = list[id] /\ Reads(id) BY <1>12, <2>1, <2>2
  <2>4. UserAuto \in Source /\ UserAuto # NoSource BY SourceType, ValuesDistinct
  <2>5. Winner("auto", id) = UserAuto /\ Generated(f) /\ (Starts(id) <=> Shown(id, f))
    BY <1>15, <2>2 DEF Generated
  <2>6. Winner("app", id)' = w /\ files'[w][id] = files[w][id] BY <1>11, <2>2
  <2>7. Plain(files[Winner("app", id)][id])' BY <2>2, <2>6 DEF Plain
  <2>8. PICK l \in App : l = list[id] BY <1>1, <2>3, ListType DEF Listed
  <2> HIDE DEF w, f
  <2>9. CASE Starts(id)
    <3>1. Shown(id, files[w][id]) /\ files[w][id] # BadFile
      BY <2>2, <2>5, <2>9, ValuesDistinct DEF Plain, Shown, TryExecRefuses
    <3>2. l.entry = files[w][id] /\ l.src = w BY <2>3, <2>8, <3>1 DEF Reads, w
    <3>3. /\ Attached(id, l) \in App /\ Attached(id, l).auto = UserAuto
          /\ Attached(id, l).entry = l.entry /\ Attached(id, l).src = l.src
      BY <1>1, <2>2, <2>4, <2>5, <2>8, <2>9, AttachedFields, ValuesDistinct DEF f
    <3>4. apps[id] = Attached(id, l) /\ id \in updates BY <1>4, <2>3, <2>8, <2>9, <3>3, ValuesDistinct
    <3>5. PICK a \in App : a = apps[id] BY <3>3, <3>4
    <3>6. a.auto = UserAuto /\ a.entry = files[w][id] /\ a.src = w BY <3>2, <3>3, <3>4, <3>5
    <3>7. NeedsSync(id, a) BY <2>4, <2>5, <3>6 DEF NeedsSync, f
    <3>8. PICK s \in Entry : s = SyncedEntry(id, a) BY <1>1, <3>7, SyncedEntryFields
    <3>9. s.runs = files[w][id].runs /\ s.gen = w /\ s.hidden = f.hidden
      BY <1>1, <3>6, <3>7, <3>8, SyncedEntryFields DEF f
    <3>10. files'[UserAuto][id] = s
      <4>1. files'[UserAuto][id] = SyncedFile(id, apps[id], torn)
        <5>1. apps[id].auto = UserAuto /\ NeedsSync(id, apps[id]) BY <3>5, <3>6, <3>7
        <5> QED BY <1>3, <1>5, <2>4, <3>4, <5>1, SyncedFilesAt
      <4> QED BY <2>1, <3>5, <3>8, <4>1 DEF SyncedFile
    <3>11. id \in Listed' /\ list'[id].auto = UserAuto /\ list'[id].autoEntry = s
      BY <1>8, <2>1, <3>4, <3>5, <3>6, <3>7, <3>8
    <3>12. Starting(id)'
      <4>1. Exists(UserAuto, id)' BY <2>4, <3>10, ValuesDistinct DEF Exists
      <4> QED BY <2>2, <3>9, <3>11, <4>1, ValuesAssumption DEF Starting, IsAutoStart
    <3>13. Exists(files[UserAuto][id].gen, id)'
      <4>1. PICK g \in Source : g = w BY <2>2
      <4>2. Exists(g, id)' BY <1>11, <2>2, <4>1, WinnerType DEF w, Exists
      <4> QED BY <3>9, <3>10, <4>1, <4>2
    <3>14. files'[UserAuto][id] \in Entry /\ ~files'[UserAuto][id].hidden /\ files'[UserAuto][id].runs
           /\ files'[UserAuto][id].gen # NoSource
      BY <2>2, <3>9, <3>10 DEF Plain
    <3> QED BY <1>2, <2>2, <2>6, <2>7, <3>11, <3>12, <3>13, <3>14 DEF OnKept
  <2>10. CASE ~Starts(id)
    <3>1. Starting(id) BY <2>2, <2>5, <2>10 DEF Shown, TryExecRefuses
    <3>2. list'[id] = list[id] /\ SameFiles(id) BY <1>4, <1>9, <2>3, <2>10
    <3>3. Starting(id)' BY <1>1, <1>10, <3>1, <3>2, AutoStartSame
    <3>4. files'[UserAuto][id] = f BY <2>4, <3>2 DEF SameFiles, f
    <3>5. Exists(files[UserAuto][id].gen, id)'
      <4>1. PICK g \in Source : g = f.gen BY <2>2, EntryFields
      <4>2. Exists(g, id)' BY <1>11, <2>2, <4>1
      <4> QED BY <3>4, <4>1, <4>2
    <3>6. list'[id].auto \in {UserAuto, NoSource} BY <2>2, <2>3, <3>2
    <3> QED BY <1>2, <2>2, <2>6, <2>7, <3>3, <3>4, <3>5, <3>6 DEF OnKept
  <2> QED BY <2>9, <2>10
<1>17. ASSUME NEW id \in Ids, wish'[id] = "off" PROVE OffKept(id)'
  <2>1. wish[id] = "off" /\ id \notin torn BY <1>14, <1>17
  <2>2. /\ files[UserAuto][id] \in Entry /\ files[UserAuto][id].hidden
        /\ id \in Listed => \/ list[id].auto = NoSource
                            \/ list[id].auto = UserAuto /\ list[id].autoEntry # NoEntry /\ list[id].autoEntry.hidden
    BY <2>1 DEF FInv, IdInv, OffKept
  <2>3. ~Starts(id) BY <1>15, <2>2 DEF Shown
  <2>4. list'[id] \in {NotListed, list[id]} /\ SameFiles(id) BY <1>4, <1>9, <2>3
  <2>5. files'[UserAuto][id] = files[UserAuto][id] BY <2>4, SourceType DEF SameFiles
  <2> QED BY <2>2, <2>4, <2>5 DEF OffKept, Listed
<1>18. ASSUME NEW id \in Ids PROVE IdInv(id)'
  <2>1. SeenIsRead(id)' BY <1>2 DEF SeenIsRead
  <2>2. FollowsWhenIdle(id)' BY <1>13 DEF FollowsWhenIdle
  <2>3. wish'[id] # "on" => OnKept(id)' BY DEF OnKept
  <2>4. wish'[id] # "off" => OffKept(id)' BY DEF OffKept
  <2> QED BY <1>16, <1>17, <2>1, <2>2, <2>3, <2>4 DEF IdInv
<1>19. AutoPaths'
  <2>1. ASSUME NEW id \in Listed' PROVE list'[id].auto \in {NoSource, AutoDir("user"), AutoDir("sys")}
    <3>1. id \in Ids /\ list'[id] # NotListed BY <2>1 DEF Listed
    <3>2. CASE id \in updates BY <1>7, <1>8, <3>2
    <3>3. CASE id \notin updates
      <4>1. list'[id] = list[id] BY <1>4, <1>9, <3>1, <3>3
      <4> QED BY <3>1, <4>1 DEF FInv, AutoPaths, Listed
    <3> QED BY <3>2, <3>3
  <2> QED BY <2>1 DEF AutoPaths
<1>20. OverridesRead' /\ ListedSeen'
  BY <1>2 DEF FInv, OverridesRead, ListedSeen, Scanning
<1> QED BY <1>18, <1>19, <1>20 DEF FInv

LEMMA NextFInv == IInv /\ FInv /\ [Next]_vars => FInv'
<1> SUFFICES ASSUME IInv, FInv, [Next]_vars PROVE FInv'
  OBVIOUS
<1>1. TypeOK BY DEF IInv
<1>2. CASE UNCHANGED vars BY <1>1, <1>2, SignalsFInv
<1>3. CASE Scan BY <1>3, ScanDirFInv, FinishScanFInv DEF Scan
<1>4. CASE Start \/ DirectoryChanged \/ ReloadTimeout \/ ReloadApplications \/ Stop
  BY <1>1, <1>4, SignalsFInv
<1>5. ASSUME NEW id \in Ids, OverrideChanged(id) \/ OverrideReady(id) \/ Record(id)
      PROVE  FInv'
  BY <1>1, <1>5, SignalsFInv
<1>6. ASSUME NEW id \in Ids, NEW o \in Override, EditOverride(id, o) PROVE FInv'
  BY <1>1, <1>6, SignalsFInv
<1> QED
  BY <1>1, <1>2, <1>3, <1>4, <1>5, <1>6, SetAutoStartFInv, AddUserFInv, EditsFInv DEF Next

-----------------------------------------------------------------------------
(* Every state of the list, the overrides, the files and the scan has its  *)
(* type, whatever the directories contain and whoever edits them.          *)
THEOREM TypeCorrect == Spec => []TypeOK
<1>1. IInv => TypeOK BY DEF IInv
<1> QED BY <1>1, InitIInv, NextIInv, PTL DEF Spec

(* removeOneApplication deletes the records of an application only when    *)
(* each directory was without its file at some time since the scan began:  *)
(* for any number of applications, edits and torn writes.                  *)
THEOREM RecordsSafe == Spec => RecordsKept
<1>1. IInv /\ [Next]_vars => [\A id \in records \ records' : \A d \in Dirs : <<d, id>> \in absent]_vars
  BY NextRecords
<1> QED BY <1>1, InitIInv, NextIInv, PTL DEF Spec, RecordsKept

(* After a scan that nothing disturbed, what may be shown is listed with   *)
(* its content, and without a file only what starts by itself: for any     *)
(* number of applications, whatever was listed, read or written before.    *)
THEOREM ListFollows == Spec => []ListFollowsFiles
<1>1. TypeOK /\ FInv => ListFollowsFiles
  <2> SUFFICES ASSUME FInv, pc = "idle", ~dirty PROVE FollowsFiles
    BY DEF ListFollowsFiles
  <2>1. \A id \in Ids : Follows(id) BY DEF FInv, IdInv, FollowsWhenIdle
  <2> QED BY <2>1 DEF FollowsFiles, Follows, Reads
<1> QED BY <1>1, InitIInv, NextIInv, InitFInv, NextFInv, PTL DEF Spec, IInv

(* What setAutoStart answered the user last, nobody having touched the     *)
(* files since, outlives reloads and restarts and is what dde-autostart    *)
(* does at login: syncGeneratedAutostartEntry keeps Hidden and TryExec.    *)
THEOREM AutoStartAsked == Spec => []AutoStartKept
<1>1. TypeOK /\ FInv => AutoStartKept
  <2> SUFFICES ASSUME TypeOK, FInv, NEW id \in Ids
               PROVE  /\ wish[id] = "on" => LaunchedAtLogin(id) /\ (pc = "idle" => Starting(id))
                      /\ wish[id] = "off" => ~LaunchedAtLogin(id) /\ (pc = "idle" => ~Starting(id))
    BY DEF AutoStartKept, Starting
  <2>1. files[UserAuto][id] \in Entry =>
          (LaunchedAtLogin(id) <=> ~files[UserAuto][id].hidden /\ files[UserAuto][id].runs)
    <3> SUFFICES ASSUME files[UserAuto][id] \in Entry
                 PROVE  LaunchedAtLogin(id) <=> ~files[UserAuto][id].hidden /\ files[UserAuto][id].runs
      OBVIOUS
    <3>1. UserAuto \in Source /\ UserAuto # NoSource /\ files[UserAuto][id] # BadFile /\ files[UserAuto][id] # NoFile
      BY SourceType, ValuesDistinct
    <3>2. Winner("auto", id) = UserAuto BY <3>1 DEF Winner, Exists, UserAuto, AutoDir
    <3> QED BY <3>1, <3>2 DEF LaunchedAtLogin
  <2>2. wish[id] = "on" => LaunchedAtLogin(id) /\ (pc = "idle" => Starting(id))
    BY <2>1 DEF FInv, IdInv, OnKept
  <2>3. wish[id] = "off" => ~LaunchedAtLogin(id) BY <2>1 DEF FInv, IdInv, OffKept
  <2>4. wish[id] = "off" => ~Starting(id)
    BY DEF FInv, IdInv, OffKept, Starting, IsAutoStart, Exists
  <2> QED BY <2>2, <2>3, <2>4
<1> QED BY <1>1, InitIInv, NextIInv, InitFInv, NextFInv, PTL DEF Spec, IInv
=============================================================================
