-------------------------- MODULE MimeManager_proofs --------------------------
(* Theorems about MimeManager, for any MIME types, applications and file.  *)
EXTENDS MimeManager, TLAPS

(* What is read and written is of the right kind.                          *)
LEMMA LoadedType == \A f : Loaded(f) \in Contents \cup {NoConfig}
BY DEF Loaded

LEMMA EmptyContentType == EmptyContent \in Contents
BY DEF EmptyContent, Contents

LEMMA ToStringType ==
  ASSUME NEW c \in Contents
  PROVE  /\ ToString(c) \in Contents \cup {Garbage}
         /\ Serializable(c) => Loaded(ToString(c)) = c
BY DEF ToString, Loaded

(* The contents that the D-Bus methods make.                               *)
LEMMA DefaultsType ==
  ASSUME content \in Contents, NEW t \in Types, NEW a \in Apps \cup {None},
         NEW d, d = [content.default EXCEPT ![t] = a]
  PROVE  [content EXCEPT !.default = d] \in Contents
BY DEF Contents

LEMMA MimeTypesType == \A a \in Apps : MimeTypes(a) \subseteq Types
BY CacheAssumption DEF MimeTypes, AddedTypes

LEMMA AssociationsType ==
  ASSUME content \in Contents, NEW A \in SUBSET (Types \X Apps), NEW R \in SUBSET (Types \X Apps)
  PROVE  [content EXCEPT !.added = @ \cup A, !.removed = @ \cup R] \in Contents
BY DEF Contents

-----------------------------------------------------------------------------
(* What a call that writes has done: AM holds c, and the file is c's text  *)
(* if the write went well.                                                 *)
Wrote(c, ok) ==
  /\ up /\ up' = up
  /\ c \in Contents
  /\ content' = c
  /\ WriteToFile(c, ok)
  /\ m_mimeAppsDebounceTimer' = m_mimeAppsDebounceTimer
  /\ missed' = missed
  /\ m_internalWriteInProgress' \in {ok, m_internalWriteInProgress}

LEMMA HasConfig ==
  ASSUME TypeOK, content # NoConfig PROVE content \in Contents
BY DEF TypeOK

LEMMA SetDefaultsWrote ==
  ASSUME TypeOK, NEW t \in Types, NEW a \in Apps \cup {None}, NEW ok \in BOOLEAN,
         SetDefaults([content.default EXCEPT ![t] = a], ok)
  PROVE  \E c : Wrote(c, ok)
<1> DEFINE c == [content EXCEPT !.default = [content.default EXCEPT ![t] = a]]
<1>1. content \in Contents
  BY HasConfig DEF SetDefaults
<1>2. c \in Contents
  BY <1>1, DefaultsType
<1>3. content' = c /\ WriteToFile(content', ok)
  BY DEF SetDefaults
<1> HIDE DEF c
<1>4. Wrote(c, ok)
  BY <1>2, <1>3 DEF Wrote, SetDefaults
<1> QED BY <1>4

LEMMA SetMimeTypesWrote ==
  ASSUME TypeOK, NEW a \in Apps, NEW value \in SUBSET Types, NEW ok \in BOOLEAN,
         SetMimeTypes(a, value, ok)
  PROVE  \E c : Wrote(c, ok)
<1> DEFINE A == (value \ MimeTypes(a)) \X {a}
           R == (MimeTypes(a) \ value) \X {a}
           c == [content EXCEPT !.added = @ \cup A, !.removed = @ \cup R]
<1>1. content \in Contents
  BY HasConfig DEF SetMimeTypes
<1>2. A \in SUBSET (Types \X Apps) /\ R \in SUBSET (Types \X Apps)
  BY MimeTypesType
<1>3. content' = c /\ WriteToFile(content', ok)
  BY DEF SetMimeTypes
<1> HIDE DEF A, R
<1>4. c \in Contents
  BY <1>1, <1>2, AssociationsType
<1> HIDE DEF c
<1>5. Wrote(c, ok)
  BY <1>3, <1>4 DEF Wrote, SetMimeTypes
<1> QED BY <1>5

-----------------------------------------------------------------------------
(* Initially AM is down.                                                   *)
LEMMA InitTypeOK == Init => TypeOK
BY DEF Init, TypeOK

(* Every step keeps the types.                                             *)
LEMMA LoadType ==
  ASSUME TypeOK, NEW ok \in BOOLEAN, Load(ok)
  PROVE  /\ file' \in Contents \cup {Absent, Garbage}
         /\ content' \in Contents \cup {NoConfig}
         /\ lastWrite' = TRUE /\ blind' = FALSE
         /\ content' = Loaded(file')
         /\ file' = Absent => file = Absent
BY LoadedType, EmptyContentType DEF Load, TypeOK

LEMMA WatcherType ==
  ASSUME TypeOK
  PROVE  /\ Written \in {"none", "changed", "removed"}
         /\ watch = "current" => Written # "none"
         /\ event # "none" => Written # "none"
         /\ Unlinked => /\ event' = Written
                        /\ watch' \in {"none", "old"}
                        /\ watch = "none" <=> watch' = "none"
BY DEF TypeOK, Written, Unlinked

LEMMA WroteType ==
  ASSUME TypeOK, NEW c, NEW ok \in BOOLEAN, Wrote(c, ok)
  PROVE  TypeOK'
BY ToStringType, WatcherType DEF Wrote, WriteToFile, TypeOK, watcher

(* A step of others, of the watcher or of the timer, and one that loads.   *)
External == ExternalReplace \/ ExternalWrite \/ ExternalRemove

Reloads(ok) == HandleMimeAppsFileDebounced(ok) \/ DoReloadApplications(ok)

Writes(ok) ==
  \/ \E t \in Types, a \in Apps : SetDefaultApplication(t, a, ok)
  \/ \E t \in Types : UnsetDefaultApplication(t, ok)
  \/ \E a \in Apps, value \in SUBSET Types : SetMimeTypes(a, value, ok)

LEMMA WritesWrote ==
  ASSUME TypeOK, NEW ok \in BOOLEAN, Writes(ok)
  PROVE  \E c : Wrote(c, ok)
<1>1. CASE \E t \in Types, a \in Apps : SetDefaultApplication(t, a, ok)
  BY <1>1, SetDefaultsWrote DEF SetDefaultApplication
<1>2. CASE \E t \in Types : UnsetDefaultApplication(t, ok)
  BY <1>2, SetDefaultsWrote DEF UnsetDefaultApplication
<1>3. CASE \E a \in Apps, value \in SUBSET Types : SetMimeTypes(a, value, ok)
  BY <1>3, SetMimeTypesWrote
<1> QED BY <1>1, <1>2, <1>3 DEF Writes

LEMMA NextCases ==
  ASSUME [Next]_vars
  PROVE  \/ External \/ FreeInode \/ Stop \/ OnMimeAppsFileChanged \/ TimeElapses
         \/ \E ok \in BOOLEAN : Start(ok) \/ Reloads(ok) \/ Writes(ok)
         \/ UNCHANGED vars
BY DEF Next, External, Reloads, Writes

LEMMA NextTypeOK == TypeOK /\ [Next]_vars => TypeOK'
<1> SUFFICES ASSUME TypeOK, [Next]_vars PROVE TypeOK'
  OBVIOUS
<1>1. CASE External
  BY <1>1, WatcherType DEF External, ExternalReplace, ExternalWrite, ExternalRemove,
     ExternalChange, Unnoticed, TypeOK, history
<1>2. CASE FreeInode
  BY <1>2 DEF FreeInode, TypeOK, history
<1>3. CASE Stop
  BY <1>3 DEF Stop, TypeOK
<1>4. CASE OnMimeAppsFileChanged
  BY <1>4 DEF OnMimeAppsFileChanged, TypeOK, history
<1>5. CASE TimeElapses
  BY <1>5 DEF TimeElapses, TypeOK, history, watcher
<1>6. ASSUME NEW ok \in BOOLEAN, Start(ok) PROVE TypeOK'
  BY <1>6, LoadType DEF Start, TypeOK
<1>7. ASSUME NEW ok \in BOOLEAN, Reloads(ok) PROVE TypeOK'
  BY <1>7, LoadType DEF Reloads, HandleMimeAppsFileDebounced, DoReloadApplications,
     ReloadMimeInfos, TypeOK, watcher
<1>8. ASSUME NEW ok \in BOOLEAN, Writes(ok) PROVE TypeOK'
  BY <1>8, WritesWrote, WroteType
<1>9. CASE UNCHANGED vars
  BY <1>9 DEF vars, watcher, history, TypeOK
<1> QED BY <1>1, <1>2, <1>3, <1>4, <1>5, <1>6, <1>7, <1>8, <1>9, NextCases

(* The variables keep their types.                                         *)
THEOREM TypeCorrect == Spec => []TypeOK
BY InitTypeOK, NextTypeOK, PTL DEF Spec

-----------------------------------------------------------------------------
(* The inductive invariant: the three properties, and that a missing file  *)
(* has been missed.                                                        *)
AbsentMissed == (up /\ file = Absent) => missed

IInv == TypeOK /\ FollowsFile /\ WatchKept /\ FlagSettles /\ AbsentMissed

(* The initial state satisfies it: AM is down.                             *)
LEMMA InitIInv == Init => IInv
BY InitTypeOK DEF Init, IInv, FollowsFile, WatchKept, FlagSettles, AbsentMissed

(* A change by others is noticed, or noted as one that cannot be.          *)
LEMMA ExternalKeepsIInv ==
  ASSUME IInv, TypeOK', External
  PROVE  IInv'
<1>1. /\ blind' = (up /\ Unnoticed)
      /\ UNCHANGED <<up, content, m_internalWriteInProgress, m_mimeAppsDebounceTimer, lastWrite>>
      /\ event' = Written
      /\ watch = "none" <=> watch' = "none"
      /\ watch' \in {"none", "old"} \/ watch' = watch
  BY WatcherType DEF External, ExternalReplace, ExternalWrite, ExternalRemove, ExternalChange,
     IInv
<1>2. FollowsFile'
  BY <1>1, WatcherType DEF FollowsFile, ReloadDue, Unnoticed, IInv, TypeOK
<1>3. FlagSettles'
  BY <1>1, WatcherType DEF FlagSettles, IInv
<1>4. (missed' = missed /\ file' # Absent) \/ missed' = up
  BY NamesAssumption DEF External, ExternalReplace, ExternalWrite, ExternalRemove
<1>5. WatchKept' /\ AbsentMissed'
  BY <1>1, <1>4 DEF WatchKept, AbsentMissed, IInv
<1> QED BY <1>2, <1>3, <1>5 DEF IInv

(* AM handles a notification: it reloads soon, or it was its own write's.  *)
LEMMA NotifiedKeepsIInv ==
  ASSUME IInv, TypeOK', OnMimeAppsFileChanged
  PROVE  IInv'
<1>1. FollowsFile'
  BY DEF OnMimeAppsFileChanged, FollowsFile, ReloadDue, IInv, TypeOK, history
<1>2. FlagSettles'
  BY DEF OnMimeAppsFileChanged, FlagSettles
<1>3. WatchKept' /\ AbsentMissed'
  BY DEF OnMimeAppsFileChanged, WatchKept, AbsentMissed, IInv, TypeOK, history
<1> QED BY <1>1, <1>2, <1>3 DEF IInv

(* AM reads the file.                                                      *)
LEMMA LoadKeepsIInv ==
  ASSUME IInv, TypeOK', NEW ok \in BOOLEAN, Start(ok) \/ Reloads(ok)
  PROVE  IInv'
<1>1. Load(ok)
  BY DEF Start, Reloads, HandleMimeAppsFileDebounced, DoReloadApplications, ReloadMimeInfos
<1>2. content' = Loaded(file') /\ (file' = Absent => file = Absent)
  BY <1>1, LoadType DEF IInv
<1>3. FollowsFile'
  BY <1>2 DEF FollowsFile
<1>4. CASE Start(ok)
  BY <1>2, <1>3, <1>4 DEF Start, IInv, WatchKept, FlagSettles, AbsentMissed
<1>5. CASE Reloads(ok)
  <2>1. UNCHANGED <<up, watch, event, m_internalWriteInProgress, missed>>
    BY <1>5 DEF Reloads, HandleMimeAppsFileDebounced, DoReloadApplications, ReloadMimeInfos,
       watcher
  <2> QED BY <1>2, <1>3, <2>1 DEF IInv, WatchKept, FlagSettles, AbsentMissed
<1> QED BY <1>4, <1>5

(* AM writes the file, or fails to.                                        *)
LEMMA WroteKeepsIInv ==
  ASSUME IInv, TypeOK', NEW c, NEW ok \in BOOLEAN, Wrote(c, ok)
  PROVE  IInv'
<1>1. CASE ok
  <2>1. /\ up' /\ content' = c /\ c \in Contents /\ file' = ToString(c)
        /\ watch' \in {"none", "old"} /\ (watch = "none" <=> watch' = "none")
        /\ missed' = missed
    BY <1>1, WatcherType DEF Wrote, WriteToFile, IInv
  <2>2. FollowsFile'
    BY <2>1, ToStringType, NamesAssumption DEF FollowsFile
  <2>3. file' # Absent
    BY <2>1, ToStringType, NamesAssumption
  <2> QED BY <2>1, <2>2, <2>3 DEF IInv, WatchKept, FlagSettles, AbsentMissed, Wrote
<1>2. CASE ~ ok
  BY <1>2 DEF IInv, Wrote, WriteToFile, watcher, FollowsFile, WatchKept, FlagSettles,
     AbsentMissed
<1> QED BY <1>1, <1>2

(* Every step keeps the invariant.                                         *)
LEMMA NextIInv == IInv /\ [Next]_vars => IInv'
<1> SUFFICES ASSUME IInv, [Next]_vars PROVE IInv'
  OBVIOUS
<1>0. TypeOK /\ TypeOK'
  BY NextTypeOK DEF IInv
<1>1. CASE External
  BY <1>0, <1>1, ExternalKeepsIInv
<1>2. CASE FreeInode
  BY <1>0, <1>2 DEF FreeInode, IInv, FollowsFile, ReloadDue, WatchKept, FlagSettles,
     AbsentMissed, history
<1>3. CASE Stop
  BY <1>0, <1>3 DEF Stop, IInv, FollowsFile, WatchKept, FlagSettles, AbsentMissed
<1>4. CASE OnMimeAppsFileChanged
  BY <1>0, <1>4, NotifiedKeepsIInv
<1>5. CASE TimeElapses
  BY <1>0, <1>5 DEF TimeElapses, IInv, FollowsFile, ReloadDue, WatchKept, FlagSettles,
     AbsentMissed, history, watcher
<1>6. ASSUME NEW ok \in BOOLEAN, Start(ok) \/ Reloads(ok) PROVE IInv'
  BY <1>0, <1>6, LoadKeepsIInv
<1>7. ASSUME NEW ok \in BOOLEAN, Writes(ok) PROVE IInv'
  <2>1. PICK c : Wrote(c, ok)
    BY <1>0, <1>7, WritesWrote
  <2> QED BY <1>0, <2>1, WroteKeepsIInv
<1>8. CASE UNCHANGED vars
  BY <1>0, <1>8 DEF vars, watcher, history, IInv, FollowsFile, ReloadDue, WatchKept,
     FlagSettles, AbsentMissed
<1> QED BY <1>1, <1>2, <1>3, <1>4, <1>5, <1>6, <1>7, <1>8, NextCases

(* AM never keeps an old picture of a file it can follow: a reload is due. *)
THEOREM FileFollowed == Spec => []FollowsFile
<1>1. IInv => FollowsFile
  BY DEF IInv
<1> QED BY <1>1, InitIInv, NextIInv, PTL DEF Spec

(* Only a time without a file ends the watch.                              *)
THEOREM WatchIsKept == Spec => []WatchKept
<1>1. IInv => WatchKept
  BY DEF IInv
<1> QED BY <1>1, InitIInv, NextIInv, PTL DEF Spec

(* The flag of an own write never waits for somebody else's notification.  *)
THEOREM FlagIsSettled == Spec => []FlagSettles
<1>1. IInv => FlagSettles
  BY DEF IInv
<1> QED BY <1>1, InitIInv, NextIInv, PTL DEF Spec

=============================================================================
