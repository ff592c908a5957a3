---------------------------- MODULE Storage_proofs ----------------------------
(***************************************************************************)
(* Proofs about Storage: the types of its variables, that nothing stays    *)
(* unsaved, that the two counts of launches stay together, that a first    *)
(* launch that is interrupted is a first launch again and that only its    *)
(* applications have no time of installation, and that, as long as every   *)
(* write goes well, what clients read is what the file holds, for any      *)
(* applications, values of Environ and bound on the launches.              *)
(***************************************************************************)
EXTENDS Storage, TLAPS

Value == Int \cup Environs
Mem   == [m_data : Data, m_batchUpdate : BOOLEAN, m_pendingWrite : BOOLEAN]
SType == [mem : Mem, file : Data \cup {Empty, Garbage}, last : BOOLEAN, all : BOOLEAN]

(* Put changes one value and nothing else.                                 *)
LEMMA PutFields ==
  ASSUME NEW s \in SType, NEW a \in Apps, NEW k \in Keys, NEW v \in Value
  PROVE  LET p == Put(s, a, k, v)
         IN  /\ p \in SType
             /\ p.file = s.file /\ p.last = s.last /\ p.all = s.all
             /\ p.mem.m_batchUpdate = s.mem.m_batchUpdate
             /\ p.mem.m_pendingWrite = s.mem.m_pendingWrite
             /\ p.mem.m_data.firstLaunch = s.mem.m_data.firstLaunch
             /\ p.mem.m_data.values = [s.mem.m_data.values EXCEPT ![a] = [@ EXCEPT ![k] = v]]
<1> DEFINE old == s.mem.m_data.values
           new == [old EXCEPT ![a] = [@ EXCEPT ![k] = v]]
           d   == [s.mem.m_data EXCEPT !.values = new]
           m   == [s.mem EXCEPT !.m_data = d]
<1>1. old \in Values BY DEF SType, Mem, Data
<1>2. new \in Values
  <2>1. [old[a] EXCEPT ![k] = v] \in [Keys -> Int \cup Environs \cup {Null}]
    BY <1>1 DEF Values, Value
  <2> QED BY <1>1, <2>1 DEF Values
<1>3. d \in Data /\ d.values = new /\ d.firstLaunch = s.mem.m_data.firstLaunch
  BY <1>2 DEF SType, Mem, Data
<1>4. /\ m \in Mem /\ m.m_data = d
      /\ m.m_batchUpdate = s.mem.m_batchUpdate /\ m.m_pendingWrite = s.mem.m_pendingWrite
  BY <1>3 DEF SType, Mem
<1>5. Put(s, a, k, v) = [s EXCEPT !.mem = m] BY DEF Put
<1> QED BY <1>3, <1>4, <1>5 DEF SType

(* Outside a batch a write saves m_data or is recorded as failed.          *)
Saved(s) == s.mem.m_batchUpdate = FALSE /\ (s.last => s.file = s.mem.m_data)

LEMMA WriteFields ==
  ASSUME NEW s \in SType, NEW ok \in BOOLEAN
  PROVE  LET w == WriteToFile(s, ok)
         IN  /\ w \in SType
             /\ w.mem.m_data = s.mem.m_data
             /\ w.mem.m_batchUpdate = s.mem.m_batchUpdate
             /\ s.mem.m_batchUpdate = TRUE => w.mem.m_pendingWrite = TRUE
             /\ s.mem.m_batchUpdate = FALSE => Saved(w)
             /\ w.file \in {s.file, s.mem.m_data}
<1>1. CASE s.mem.m_batchUpdate
  <2> DEFINE m == [s.mem EXCEPT !.m_pendingWrite = TRUE]
  <2>1. /\ m \in Mem /\ m.m_data = s.mem.m_data /\ m.m_batchUpdate = s.mem.m_batchUpdate
        /\ m.m_pendingWrite = TRUE
    BY DEF SType, Mem
  <2>2. WriteToFile(s, ok) = [s EXCEPT !.mem = m] BY <1>1 DEF WriteToFile
  <2> QED BY <1>1, <2>1, <2>2 DEF SType
<1>2. CASE ~ s.mem.m_batchUpdate /\ ok
  <2> DEFINE m == [s.mem EXCEPT !.m_pendingWrite = FALSE]
  <2>1. m \in Mem /\ m.m_data = s.mem.m_data /\ m.m_batchUpdate = s.mem.m_batchUpdate
    BY DEF SType, Mem
  <2>2. WriteToFile(s, ok) = [s EXCEPT !.file = s.mem.m_data, !.mem = m, !.last = TRUE]
    BY <1>2 DEF WriteToFile
  <2>3. s.mem.m_data \in Data BY DEF SType, Mem
  <2> QED BY <1>2, <2>1, <2>2, <2>3 DEF SType, Saved
<1>3. CASE ~ s.mem.m_batchUpdate /\ ~ ok
  <2>1. WriteToFile(s, ok) = [s EXCEPT !.last = FALSE, !.all = FALSE]
    BY <1>3 DEF WriteToFile
  <2> QED BY <1>3, <2>1 DEF SType, Saved
<1> QED BY <1>1, <1>2, <1>3

(* The value m_data holds for a key of an application.                     *)
Val(s, a, k) == s.mem.m_data.values[a][k]

(* The counts of launches in memory and in the file are numbers.           *)
Counts(s) ==
  \A a \in Apps :
     /\ Val(s, a, "LaunchedTimes") \in Int \cup {Null}
     /\ s.file \in Data => s.file.values[a]["LaunchedTimes"] \in Int \cup {Null}

(* Only the value of k changes between s and c, to v, and it is saved.     *)
Changes(s, c, a, k, v) ==
  /\ c \in SType
  /\ c.mem.m_batchUpdate = s.mem.m_batchUpdate
  /\ s.mem.m_batchUpdate = FALSE => Saved(c)
  /\ Val(c, a, k) = v
  /\ \A b \in Apps, j \in Keys : <<b, j>> # <<a, k>> => Val(c, b, j) = Val(s, b, j)
  /\ (Counts(s) /\ (k = "LaunchedTimes" => v \in Int)) => Counts(c)

LEMMA PutWrite ==
  ASSUME NEW s \in SType, NEW a \in Apps, NEW k \in Keys, NEW v \in Value, NEW ok \in BOOLEAN
  PROVE  Changes(s, WriteToFile(Put(s, a, k, v), ok), a, k, v)
<1> DEFINE p == Put(s, a, k, v)
           w == WriteToFile(p, ok)
<1>1. /\ p \in SType /\ p.mem.m_batchUpdate = s.mem.m_batchUpdate
      /\ p.file = s.file
      /\ p.mem.m_data.values = [s.mem.m_data.values EXCEPT ![a] = [@ EXCEPT ![k] = v]]
  BY PutFields
<1>2. s.mem.m_data.values \in Values BY DEF SType, Mem, Data
<1>3. /\ Val(p, a, k) = v
      /\ \A b \in Apps, j \in Keys : <<b, j>> # <<a, k>> => Val(p, b, j) = Val(s, b, j)
  BY <1>1, <1>2 DEF Val, Values
<1> HIDE DEF p
<1>4. /\ w \in SType /\ w.mem.m_data = p.mem.m_data
      /\ w.mem.m_batchUpdate = p.mem.m_batchUpdate
      /\ p.mem.m_batchUpdate = FALSE => Saved(w)
      /\ w.file \in {p.file, p.mem.m_data}
  BY <1>1, WriteFields
<1> HIDE DEF w
<1>5. \A b \in Apps, j \in Keys : Val(w, b, j) = Val(p, b, j)
  BY <1>4 DEF Val
<1>6. ASSUME Counts(s), k = "LaunchedTimes" => v \in Int
      PROVE  Counts(w)
  <2>1. "LaunchedTimes" \in Keys BY DEF Keys, Numbers
  <2>2. \A b \in Apps : Val(p, b, "LaunchedTimes") \in Int \cup {Null}
    BY <1>3, <1>6, <2>1 DEF Counts
  <2>3. \A b \in Apps : w.file \in Data => w.file.values[b]["LaunchedTimes"] \in Int \cup {Null}
    BY <1>1, <1>4, <1>6, <2>2 DEF Counts, Val
  <2> QED BY <1>5, <2>1, <2>2, <2>3 DEF Counts
<1>7. Changes(s, w, a, k, v)
  BY <1>1, <1>3, <1>4, <1>5, <1>6 DEF Changes
<1> QED BY <1>7 DEF w, p

LEMMA CreateChanges ==
  ASSUME NEW s \in SType, NEW a \in Apps, NEW k \in Keys, NEW v \in Value, NEW ok \in BOOLEAN
  PROVE  LET c == CreateApplicationValue(s, a, k, v, ok)
         IN  IF Has(s, a, k) THEN c = s ELSE Changes(s, c, a, k, v)
BY PutWrite DEF CreateApplicationValue

LEMMA UpdateChanges ==
  ASSUME NEW s \in SType, NEW a \in Apps, NEW k \in Keys, NEW v \in Value, NEW ok \in BOOLEAN
  PROVE  LET c == UpdateApplicationValue(s, a, k, v, ok)
         IN  IF Has(s, a, k) THEN Changes(s, c, a, k, v) ELSE c = s
BY PutWrite DEF UpdateApplicationValue

(* The constructor of a new object creates the values that are missing and *)
(* leaves other applications' values alone.                                *)
Constructs(s, c, a) ==
  /\ c \in SType
  /\ c.mem.m_batchUpdate = s.mem.m_batchUpdate
  /\ Saved(s) => Saved(c)
  /\ Counts(s) => Counts(c)
  /\ Val(c, a, "LaunchedTimes") =
       IF Has(s, a, "LaunchedTimes") THEN Val(s, a, "LaunchedTimes") ELSE 0
  /\ Has(c, a, "LastLaunchedTime")
  /\ Val(c, a, "Environ") = Val(s, a, "Environ")
  /\ \A b \in Apps \ {a} : \A k \in Keys : Val(c, b, k) = Val(s, b, k)

LEMMA NewConstructs ==
  ASSUME NEW s \in SType, NEW a \in Apps, NEW ok,
         \A k \in Numbers : ok[k] \in BOOLEAN
  PROVE  Constructs(s, NewState(s, a, ok), a)
<1> DEFINE s1 == NewInstalled(s, a, ok["InstalledTime"])
           s2 == CreateApplicationValue(s1, a, "LastLaunchedTime", 0, ok["LastLaunchedTime"])
           s3 == CreateApplicationValue(s2, a, "LaunchedTimes", 0, ok["LaunchedTimes"])
<1>1. /\ "InstalledTime" \in Keys /\ "LastLaunchedTime" \in Keys
      /\ "LaunchedTimes" \in Keys /\ "Environ" \in Keys
  BY DEF Keys, Numbers
<1>2. 0 \in Value /\ Now \in Value /\ Null \notin Value
  BY NullAssumption DEF Value, Now
<1>3. ok["InstalledTime"] \in BOOLEAN /\ ok["LastLaunchedTime"] \in BOOLEAN
      /\ ok["LaunchedTimes"] \in BOOLEAN
  BY DEF Numbers
<1>4. s1 = s \/ \E v \in Value : Changes(s, s1, a, "InstalledTime", v)
  BY <1>1, <1>2, <1>3, PutWrite, CreateChanges DEF NewInstalled
<1>5. NewState(s, a, ok) = s3 BY DEF NewState
<1> HIDE DEF s1
<1>6. s1 \in SType BY <1>4 DEF Changes
<1>7. IF Has(s1, a, "LastLaunchedTime") THEN s2 = s1
      ELSE Changes(s1, s2, a, "LastLaunchedTime", 0)
  BY <1>1, <1>2, <1>3, <1>6, CreateChanges
<1> HIDE DEF s2
<1>8. s2 \in SType BY <1>6, <1>7 DEF Changes
<1>9. IF Has(s2, a, "LaunchedTimes") THEN s3 = s2
      ELSE Changes(s2, s3, a, "LaunchedTimes", 0)
  BY <1>1, <1>2, <1>3, <1>8, CreateChanges
<1> HIDE DEF s3
<1>10. s3 \in SType /\ s3.mem.m_batchUpdate = s.mem.m_batchUpdate
  BY <1>4, <1>7, <1>8, <1>9 DEF Changes
<1>11. Saved(s) => Saved(s3)
  BY <1>4, <1>7, <1>9 DEF Changes, Saved
<1>12. \A k \in {"LaunchedTimes", "Environ", "LastLaunchedTime"} : Val(s1, a, k) = Val(s, a, k)
  BY <1>1, <1>4 DEF Changes
<1>13. \A k \in {"LaunchedTimes", "Environ"} : Val(s2, a, k) = Val(s1, a, k)
  BY <1>1, <1>7 DEF Changes
<1>14. Val(s3, a, "Environ") = Val(s, a, "Environ")
  BY <1>1, <1>9, <1>12, <1>13 DEF Changes
<1>15. Val(s3, a, "LaunchedTimes")
         = IF Has(s, a, "LaunchedTimes") THEN Val(s, a, "LaunchedTimes") ELSE 0
  BY <1>9, <1>12, <1>13 DEF Changes, Has, Val
<1>16. Has(s2, a, "LastLaunchedTime")
  BY <1>2, <1>7 DEF Changes, Has, Val
<1>17. Has(s3, a, "LastLaunchedTime")
  BY <1>1, <1>9, <1>16 DEF Changes, Has, Val
<1>18. \A b \in Apps \ {a} : \A k \in Keys : Val(s3, b, k) = Val(s, b, k)
  BY <1>4, <1>7, <1>9 DEF Changes
<1>19. Counts(s) => Counts(s3)
  BY <1>4, <1>7, <1>9 DEF Changes
<1> QED BY <1>5, <1>10, <1>11, <1>14, <1>15, <1>17, <1>18, <1>19 DEF Constructs

(* The object caches the stored count, or -1 if it could not be written.   *)
LEMMA NewObjectType ==
  ASSUME NEW s \in SType, NEW a \in Apps, NEW ok
  PROVE  LET o == NewObject(s, a, ok)
         IN  /\ o \in [Keys -> Value]
             /\ o["LaunchedTimes"] \in
                  IF Has(s, a, "LaunchedTimes") THEN {Val(s, a, "LaunchedTimes")} ELSE {0, -1}
<1> DEFINE p(k) == NewProperty(s, a, k, ok)
<1>1. s.mem.m_data.values \in Values BY DEF SType, Mem, Data
<1>2. \A k \in Keys : Has(s, a, k) => Val(s, a, k) \in Value
  BY <1>1 DEF Values, Value, Has, Val
<1>3. 0 \in Value /\ Now \in Value /\ -1 \in Value /\ NoEnviron \in Value
  BY EnvironsAssumption DEF Value, Now
<1>4. /\ "InstalledTime" \in Keys /\ "LastLaunchedTime" \in Keys
      /\ "LaunchedTimes" \in Keys /\ "Environ" \in Keys
  BY DEF Keys, Numbers
<1>5. p("InstalledTime") \in Value
  BY <1>2, <1>3, <1>4 DEF NewProperty, Cached, Val
<1>6. p("LastLaunchedTime") \in Value
  BY <1>2, <1>3, <1>4 DEF NewProperty, Cached, Val
<1>7. /\ p("LaunchedTimes") \in Value
      /\ p("LaunchedTimes") \in
           IF Has(s, a, "LaunchedTimes") THEN {Val(s, a, "LaunchedTimes")} ELSE {0, -1}
  BY <1>2, <1>3, <1>4 DEF NewProperty, Cached, Val
<1>8. p("Environ") \in Value
  BY <1>2, <1>3, <1>4 DEF NewProperty, NewEnviron, Has, Val
<1>9. NewObject(s, a, ok) = [k \in Keys |-> p(k)]
  BY DEF NewObject
<1> HIDE DEF p
<1>10. \A k \in Keys : p(k) \in Value
  BY <1>5, <1>6, <1>7, <1>8 DEF Keys, Numbers
<1> QED BY <1>4, <1>7, <1>9, <1>10

(* setFirstLaunch and endBatchUpdate at the end of a start save everything. *)
LEMMA FinishFields ==
  ASSUME NEW s \in SType, NEW ok \in BOOLEAN
  PROVE  LET c == EndBatchUpdate(SetFirstLaunch(s, FALSE, ok), ok)
         IN  /\ c \in SType
             /\ Saved(c)
             /\ \A a \in Apps, k \in Keys : Val(c, a, k) = Val(s, a, k)
             /\ Counts(s) => Counts(c)
<1> DEFINE d  == [s.mem.m_data EXCEPT !.firstLaunch = FALSE]
           m  == [s.mem EXCEPT !.m_data = d]
           s1 == [s EXCEPT !.mem = m]
           s2 == WriteToFile(s1, ok)
           n  == [s2.mem EXCEPT !.m_batchUpdate = FALSE]
           s3 == [s2 EXCEPT !.mem = n]
           s4 == WriteToFile(s3, ok)
           c  == EndBatchUpdate(SetFirstLaunch(s, FALSE, ok), ok)
<1>1. d \in Data /\ d.values = s.mem.m_data.values
  BY DEF SType, Mem, Data
<1>2. m \in Mem /\ m.m_data = d /\ m.m_batchUpdate = s.mem.m_batchUpdate
  BY <1>1 DEF SType, Mem
<1>3. s1 \in SType /\ s1.mem = m /\ s1.file = s.file
  BY <1>2 DEF SType
<1>4. SetFirstLaunch(s, FALSE, ok) = s2
  BY DEF SetFirstLaunch
<1> HIDE DEF s1
<1>5. /\ s2 \in SType /\ s2.mem.m_data = d
      /\ s2.mem.m_batchUpdate = s.mem.m_batchUpdate
      /\ s.mem.m_batchUpdate = TRUE => s2.mem.m_pendingWrite = TRUE
      /\ s.mem.m_batchUpdate = FALSE => Saved(s2)
      /\ s2.file \in {s.file, d}
  BY <1>2, <1>3, WriteFields
<1> HIDE DEF s2
<1>6. /\ n \in Mem /\ n.m_data = d /\ n.m_batchUpdate = FALSE
      /\ n.m_pendingWrite = s2.mem.m_pendingWrite
  BY <1>5 DEF SType, Mem
<1>7. s3 \in SType /\ s3.mem = n /\ s3.file = s2.file /\ s3.last = s2.last
  BY <1>5, <1>6 DEF SType
<1>8. c = IF s2.mem.m_pendingWrite THEN s4 ELSE s3
  BY <1>4 DEF EndBatchUpdate
<1> HIDE DEF s3
<1>9. /\ s4 \in SType /\ s4.mem.m_data = d /\ Saved(s4)
      /\ s4.file \in {s3.file, d}
  BY <1>6, <1>7, WriteFields
<1> HIDE DEF s4, n
<1>10. ~ s2.mem.m_pendingWrite => Saved(s3)
  <2>1. s.mem.m_batchUpdate \in BOOLEAN BY DEF SType, Mem
  <2> QED BY <1>5, <1>6, <1>7, <2>1 DEF Saved
<1> HIDE DEF c, d, m
<1>11. c \in SType /\ Saved(c) /\ c.mem.m_data = d /\ c.file \in {s.file, d}
  BY <1>5, <1>6, <1>7, <1>8, <1>9, <1>10
<1>12. \A a \in Apps, k \in Keys : Val(c, a, k) = Val(s, a, k)
  BY <1>1, <1>11 DEF Val
<1>13. Counts(s) => Counts(c)
  <2>1. "LaunchedTimes" \in Keys BY DEF Keys, Numbers
  <2> QED BY <1>1, <1>11, <1>12, <2>1 DEF Counts, Val
<1> QED BY <1>11, <1>12, <1>13 DEF c

(* deleteApplication forgets the values of one application.                *)
LEMMA DeleteFields ==
  ASSUME NEW s \in SType, NEW a \in Apps, NEW ok \in BOOLEAN
  PROVE  LET c == DeleteApplication(s, a, ok)
         IN  /\ c \in SType
             /\ Saved(s) => Saved(c)
             /\ \A b \in Apps \ {a} : \A k \in Keys : Val(c, b, k) = Val(s, b, k)
             /\ Counts(s) => Counts(c)
<1> DEFINE v  == [s.mem.m_data.values EXCEPT ![a] = [k \in Keys |-> Null]]
           d  == [s.mem.m_data EXCEPT !.values = v]
           m  == [s.mem EXCEPT !.m_data = d]
           s1 == [s EXCEPT !.mem = m]
           c  == DeleteApplication(s, a, ok)
<1>1. s.mem.m_data.values \in Values BY DEF SType, Mem, Data
<1>2. /\ v \in Values /\ v[a] = [k \in Keys |-> Null]
      /\ \A b \in Apps \ {a} : v[b] = s.mem.m_data.values[b]
  <2>1. [k \in Keys |-> Null] \in [Keys -> Int \cup Environs \cup {Null}]
    OBVIOUS
  <2> QED BY <1>1, <2>1 DEF Values
<1> HIDE DEF v
<1>3. d \in Data /\ d.values = v
  BY <1>2 DEF SType, Mem, Data
<1>4. m \in Mem /\ m.m_data = d /\ m.m_batchUpdate = s.mem.m_batchUpdate
  BY <1>3 DEF SType, Mem
<1>5. s1 \in SType /\ s1.mem = m /\ s1.file = s.file
  BY <1>4 DEF SType
<1>6. c = WriteToFile(s1, ok)
  BY DEF DeleteApplication, v
<1> HIDE DEF s1, c
<1>7. /\ c \in SType /\ c.mem.m_data = d /\ c.file \in {s.file, d}
      /\ s.mem.m_batchUpdate = FALSE => Saved(c)
  BY <1>4, <1>5, <1>6, WriteFields
<1>8. \A b \in Apps \ {a} : \A k \in Keys : Val(c, b, k) = Val(s, b, k)
  BY <1>2, <1>3, <1>7 DEF Val
<1>9. Counts(s) => Counts(c)
  <2>1. "LaunchedTimes" \in Keys BY DEF Keys, Numbers
  <2>2. \A b \in Apps : Counts(s) => d.values[b]["LaunchedTimes"] \in Int \cup {Null}
    BY <1>2, <1>3, <2>1 DEF Counts, Val
  <2> QED BY <1>7, <2>2 DEF Counts, Val
<1> QED BY <1>7, <1>8, <1>9 DEF c, Saved

-----------------------------------------------------------------------------
(* The inductive invariant: the counts are numbers, and once AM is up no   *)
(* batch is open and the file is saved unless the last write failed.       *)
ObjectCounts == \A a \in Apps : object[a]["LaunchedTimes"] \in Int

SavedWhenUp == (am = "up" /\ m_storage) => Saved(State)

NothingWhileDown ==
  am = "down" => /\ m_storage = FALSE /\ storage = NoStorage
                 /\ listed = {} /\ \A a \in Apps : object[a] = NoObject

IInv == /\ TypeOK /\ Counts(State) /\ ObjectCounts /\ SavedWhenUp /\ CountersTogether
        /\ NothingWhileDown

LEMMA StateType ==
  ASSUME TypeOK
  PROVE  /\ State \in SType
         /\ State.mem = storage /\ State.file = file
         /\ State.last = lastWrite /\ State.all = allWrites
BY DEF TypeOK, State, SType, Mem

LEMMA BecomesState ==
  ASSUME NEW s \in SType, Becomes(s)
  PROVE  /\ State' = s
         /\ storage' \in Mem /\ file' \in Data \cup {Empty, Garbage}
         /\ lastWrite' \in BOOLEAN /\ allWrites' \in BOOLEAN
<1>1. s = [mem |-> s.mem, file |-> s.file, last |-> s.last, all |-> s.all]
  BY DEF SType
<1>2. State' = s
  BY <1>1 DEF Becomes, State
<1> QED BY <1>2 DEF Becomes, SType

LEMMA EmptyStorage ==
  /\ NoValues \in Values /\ NoStorage \in Mem /\ NoStorage.m_data.values = NoValues
  /\ NoObject \in [Keys -> Value] /\ NoObject["LaunchedTimes"] = 0
  /\ UnstoredObject \in [Keys -> Value] /\ UnstoredObject["LaunchedTimes"] = 0
<1>1. NoValues \in Values BY DEF NoValues, Values
<1>2. NoStorage \in Mem /\ NoStorage.m_data.values = NoValues
  BY <1>1 DEF NoStorage, Mem, Data
<1>3. NoObject \in [Keys -> Value] /\ NoObject["LaunchedTimes"] = 0
  BY EnvironsAssumption DEF NoObject, Keys, Numbers, Value
<1>4. UnstoredObject \in [Keys -> Value] /\ UnstoredObject["LaunchedTimes"] = 0
  BY <1>3 DEF UnstoredObject, Keys, Numbers, Value
<1> QED BY <1>1, <1>2, <1>3, <1>4

LEMMA NoValuesCount ==
  \A a \in Apps : NoValues[a]["LaunchedTimes"] \in Int \cup {Null}
BY DEF NoValues, Keys, Numbers

LEMMA InitIInv == Init => IInv
<1> SUFFICES ASSUME Init PROVE IInv OBVIOUS
<1>1. TypeOK
  BY EmptyStorage DEF Init, TypeOK, Mem, Value
<1>2. Counts(State)
  BY <1>1, StateType, EmptyStorage, NoValuesCount, FilesAssumption DEF Init, Counts, Val
<1>3. \A a \in Apps : object[a] = NoObject
  BY DEF Init
<1>4. ObjectCounts
  <2>1. NoObject["LaunchedTimes"] \in Int BY EmptyStorage
  <2> QED BY <1>3, <2>1 DEF ObjectCounts
<1> QED BY <1>1, <1>2, <1>3, <1>4 DEF Init, IInv, SavedWhenUp, CountersTogether, NothingWhileDown

(* AM's start: what is loaded has the right types, and no application is   *)
(* listed yet.                                                             *)
LEMMA LoadedType ==
  ASSUME IInv
  PROVE  /\ Loaded \in Data /\ LoadedStorage \in Mem
         /\ LoadedStorage.m_data = Loaded /\ LoadedStorage.m_batchUpdate = TRUE
         /\ \A a \in Apps : Loaded.values[a]["LaunchedTimes"] \in Int \cup {Null}
<1> USE DEF IInv
<1>1. /\ Loaded \in Data
      /\ \A a \in Apps : Loaded.values[a]["LaunchedTimes"] \in Int \cup {Null}
  <2>1. CASE file \in {Empty, Garbage}
    BY <2>1, EmptyStorage, NoValuesCount DEF Loaded, Data
  <2>2. CASE file \notin {Empty, Garbage}
    <3>1. file \in Data BY <2>2 DEF TypeOK
    <3>2. Loaded \in Data /\ Loaded.values = file.values
      BY <2>2, <3>1 DEF Loaded, Data
    <3> QED BY <3>1, <3>2, StateType DEF Counts
  <2> QED BY <2>1, <2>2
<1> QED BY <1>1 DEF LoadedStorage, Mem

LEMMA StartKeepsIInv == ASSUME IInv, Start PROVE IInv'
<1> USE DEF IInv
<1>1. /\ am' = "starting" /\ m_storage' = TRUE /\ storage' = LoadedStorage
      /\ listed' = {} /\ UNCHANGED <<desktop, object, finished>>
      /\ toScan' \subseteq Apps /\ lastWrite' = TRUE /\ allWrites' = TRUE
  BY DEF Start, Starts, NothingWhileDown
<1>2. file' \in {file, Empty} /\ Empty \notin Data
  BY FilesAssumption DEF Start, FileLoaded
<1>3. storage' \in Mem /\ storage'.m_data = Loaded
  BY <1>1, LoadedType
<1>4. TypeOK'
  BY <1>1, <1>2, <1>3 DEF TypeOK, Mem
<1>5. Counts(State)'
  <2>1. State'.mem = storage' /\ State'.file = file' BY DEF State
  <2>2. \A a \in Apps : file' \in Data => file'.values[a]["LaunchedTimes"] \in Int \cup {Null}
    BY <1>2, StateType DEF Counts
  <2> QED BY <1>3, <2>1, <2>2, LoadedType DEF Counts, Val
<1> QED BY <1>1, <1>4, <1>5 DEF ObjectCounts, SavedWhenUp, CountersTogether, NothingWhileDown

(* A step that changes neither the storage nor the file, and leaves the    *)
(* objects alone, keeps the invariant.                                     *)
LEMMA QuietKeepsIInv ==
  ASSUME IInv, am' = am,
         desktop' \in [Apps -> {"absent", "shown", "hidden"}],
         toScan' \subseteq Apps, finished' \in BOOLEAN,
         UNCHANGED <<file, memory, history>>
  PROVE  IInv'
<1>1. State' = State BY DEF memory, history, State
<1>2. TypeOK' BY DEF IInv, TypeOK, memory, history
<1>3. Counts(State)' BY <1>1 DEF IInv, Counts, Val
<1> QED BY <1>1, <1>2, <1>3 DEF IInv, ObjectCounts, SavedWhenUp, CountersTogether, Saved,
             NothingWhileDown, memory, history

(* A step of AM that replaces its state by s and changes the object of one *)
(* application at most.                                                    *)
LEMMA StateStep ==
  ASSUME IInv, NEW s \in SType, NEW a \in Apps, Becomes(s),
         am' \in {"starting", "up"}, UNCHANGED <<desktop, m_storage>>,
         toScan' \subseteq Apps, finished' \in BOOLEAN,
         listed' \subseteq Apps, \A b \in listed' \ {a} : b \in listed,
         object' \in [Apps -> [Keys -> Value]],
         \A b \in Apps \ {a} : object'[b] = object[b],
         object'[a]["LaunchedTimes"] \in Int,
         am' = "up" => Saved(s), Counts(s),
         \A b \in Apps \ {a} : Val(s, b, "LaunchedTimes") = Val(State, b, "LaunchedTimes"),
         a \in listed' => Val(s, a, "LaunchedTimes")
                            \in {object'[a]["LaunchedTimes"], object'[a]["LaunchedTimes"] + 1}
  PROVE  IInv'
<1>1. /\ State' = s /\ storage' \in Mem /\ file' \in Data \cup {Empty, Garbage}
      /\ lastWrite' \in BOOLEAN /\ allWrites' \in BOOLEAN
  BY BecomesState
<1>2. storage' = s.mem BY DEF Becomes
<1>3. TypeOK'
  BY <1>1 DEF IInv, TypeOK, Mem, Value
<1>4. Counts(State)'
  BY <1>1 DEF Counts, Val
<1>5. ObjectCounts'
  BY DEF IInv, ObjectCounts
<1>6. SavedWhenUp'
  BY <1>1 DEF SavedWhenUp, Saved
<1>7. CountersTogether'
  <2> SUFFICES ASSUME m_storage', NEW b \in listed'
               PROVE  storage'.m_data.values[b]["LaunchedTimes"]
                        \in {object'[b]["LaunchedTimes"], object'[b]["LaunchedTimes"] + 1}
    BY DEF CountersTogether
  <2>1. CASE b = a
    BY <1>2, <2>1 DEF Val
  <2>2. CASE b # a
    <3>1. b \in listed /\ b \in Apps /\ object'[b] = object[b] BY <2>2 DEF IInv, TypeOK
    <3>2. storage'.m_data.values[b]["LaunchedTimes"] = storage.m_data.values[b]["LaunchedTimes"]
      BY <1>2, <2>2, <3>1, StateType DEF IInv, Val
    <3> QED BY <3>1, <3>2 DEF IInv, CountersTogether
  <2> QED BY <2>1, <2>2
<1> QED BY <1>3, <1>4, <1>5, <1>6, <1>7 DEF IInv, NothingWhileDown

(* A start without a storage, and a stop.                                  *)
LEMMA UnstoredKeepsIInv ==
  ASSUME IInv, UNCHANGED disk, m_storage' = FALSE, storage' = NoStorage,
         am' \in {"down", "starting"}, toScan' \subseteq Apps, finished' \in BOOLEAN,
         listed' = {}, object' = [a \in Apps |-> NoObject],
         lastWrite' \in BOOLEAN, allWrites' \in BOOLEAN
  PROVE  IInv'
<1>1. \A a \in Apps : object'[a] \in [Keys -> Value] /\ object'[a]["LaunchedTimes"] \in Int
  <2>1. NoObject["LaunchedTimes"] \in Int /\ NoObject \in [Keys -> Value]
    BY EmptyStorage
  <2> QED BY <2>1
<1>2. TypeOK'
  BY <1>1, EmptyStorage DEF IInv, TypeOK, disk, Mem, Value
<1>3. Counts(State)'
  <2>1. State'.mem = NoStorage /\ State'.file = file BY DEF State, disk
  <2> QED BY <2>1, StateType, EmptyStorage, NoValuesCount DEF IInv, Counts, Val
<1> QED BY <1>1, <1>2, <1>3 DEF IInv, ObjectCounts, SavedWhenUp, CountersTogether,
             NothingWhileDown

LEMMA FinishStartKeepsIInv == ASSUME IInv, NEW ok \in BOOLEAN, FinishStart(ok) PROVE IInv'
<1>1. CASE m_storage
  <2> DEFINE s == EndBatchUpdate(SetFirstLaunch(State, FALSE, ok), ok)
  <2>1. State \in SType /\ State.mem = storage BY StateType DEF IInv
  <2>2. /\ s \in SType /\ Saved(s)
        /\ \A a \in Apps, k \in Keys : Val(s, a, k) = Val(State, a, k)
        /\ Counts(s)
    BY <2>1, FinishFields DEF IInv
  <2>3. Becomes(s) BY <1>1 DEF FinishStart
  <2> HIDE DEF s
  <2>4. /\ State' = s /\ storage' \in Mem /\ file' \in Data \cup {Empty, Garbage}
        /\ lastWrite' \in BOOLEAN /\ allWrites' \in BOOLEAN
    BY <2>2, <2>3, BecomesState
  <2>5. storage' = s.mem BY <2>3 DEF Becomes
  <2>6. "LaunchedTimes" \in Keys BY DEF Keys, Numbers
  <2>7. \A a \in Apps : storage'.m_data.values[a]["LaunchedTimes"]
                         = storage.m_data.values[a]["LaunchedTimes"]
    BY <2>1, <2>2, <2>5, <2>6 DEF Val
  <2>8. TypeOK' BY <2>4 DEF IInv, TypeOK, FinishStart, Mem
  <2>9. Counts(State)' BY <2>2, <2>4 DEF Counts, Val
  <2>10. CountersTogether'
    BY <2>7 DEF IInv, TypeOK, CountersTogether, FinishStart
  <2> QED BY <2>2, <2>4, <2>8, <2>9, <2>10 DEF IInv, FinishStart, ObjectCounts, SavedWhenUp, Saved,
             NothingWhileDown
<1>2. CASE ~ m_storage
  <2>1. State' = State BY <1>2 DEF FinishStart, history, State
  <2>2. TypeOK' BY <1>2 DEF IInv, TypeOK, FinishStart, history
  <2>3. Counts(State)' BY <2>1 DEF IInv, Counts, Val
  <2> QED BY <1>2, <2>2, <2>3 DEF IInv, FinishStart, ObjectCounts, SavedWhenUp, CountersTogether,
             NothingWhileDown
<1> QED BY <1>1, <1>2

(* Without a storage a reload only changes the list and its objects.       *)
LEMMA UnstoredStep ==
  ASSUME IInv, ~ m_storage, UNCHANGED <<am, desktop, m_storage, storage, file, history>>,
         am # "down", toScan' \subseteq Apps, finished' \in BOOLEAN,
         listed' \subseteq Apps, NEW a \in Apps, NEW o \in {object[a], NoObject, UnstoredObject},
         object' = [object EXCEPT ![a] = o]
  PROVE  IInv'
<1>1. o \in [Keys -> Value] /\ o["LaunchedTimes"] \in Int
  <2>1. /\ NoObject["LaunchedTimes"] \in Int /\ UnstoredObject["LaunchedTimes"] \in Int
        /\ NoObject \in [Keys -> Value] /\ UnstoredObject \in [Keys -> Value]
    BY EmptyStorage
  <2>2. object[a] \in [Keys -> Value] /\ object[a]["LaunchedTimes"] \in Int
    BY DEF IInv, TypeOK, ObjectCounts, Value
  <2> QED BY <2>1, <2>2
<1>2. TypeOK' BY <1>1 DEF IInv, TypeOK, history, Value
<1>3. ObjectCounts' BY <1>1 DEF IInv, ObjectCounts, TypeOK
<1>4. State' = State BY DEF history, State
<1>5. Counts(State)' BY <1>4 DEF IInv, Counts, Val
<1> QED BY <1>2, <1>3, <1>5 DEF IInv, SavedWhenUp, CountersTogether, NothingWhileDown

(* A new application, found by the scan of the start or by a reload.       *)
LEMMA NewKeepsIInv ==
  ASSUME IInv, NEW a \in Apps, NEW ok \in [Numbers -> BOOLEAN], NewApplication(a, ok),
         am # "down", UNCHANGED <<am, desktop, m_storage, finished>>, toScan' \subseteq Apps
  PROVE  IInv'
<1> DEFINE s == NewState(State, a, ok)
           o == NewObject(State, a, ok)
<1>1. State \in SType BY StateType DEF IInv
<1>2. object \in [Apps -> [Keys -> Value]] /\ object[a]["LaunchedTimes"] \in Int
  BY DEF IInv, TypeOK, ObjectCounts, Value
<1>3. Constructs(State, s, a)
  BY <1>1, NewConstructs
<1>4. /\ o \in [Keys -> Value]
      /\ o["LaunchedTimes"] \in
           IF Has(State, a, "LaunchedTimes") THEN {Val(State, a, "LaunchedTimes")} ELSE {0, -1}
  BY <1>1, NewObjectType
<1>5. CASE m_storage
  <2>1. Becomes(s) /\ am' \in {"starting", "up"} /\ (am' = "up" => Saved(State))
    BY <1>5 DEF NewApplication, IInv, SavedWhenUp, TypeOK
  <2>2. /\ \/ listed' = listed \cup {a} /\ object' = [object EXCEPT ![a] = o]
           \/ listed' = listed /\ object' = object
        /\ listed' \subseteq Apps
    BY <1>5 DEF NewApplication, IInv, TypeOK
  <2> HIDE DEF s, o
  <2>3. s \in SType /\ (am' = "up" => Saved(s)) /\ Counts(s)
    BY <1>3, <2>1 DEF Constructs, IInv
  <2>4. \A b \in Apps \ {a} : Val(s, b, "LaunchedTimes") = Val(State, b, "LaunchedTimes")
    BY <1>3 DEF Constructs, Keys, Numbers
  <2>5. a \in listed => Val(s, a, "LaunchedTimes")
                          \in {object[a]["LaunchedTimes"], object[a]["LaunchedTimes"] + 1}
    <3>1. a \in listed => Val(State, a, "LaunchedTimes")
                            \in {object[a]["LaunchedTimes"], object[a]["LaunchedTimes"] + 1}
      BY <1>5, StateType DEF IInv, CountersTogether, Val
    <3>2. a \in listed => Has(State, a, "LaunchedTimes")
      BY <1>2, <3>1, NullAssumption DEF Has, Val
    <3> QED BY <1>3, <3>1, <3>2 DEF Constructs
  <2>6. /\ o["LaunchedTimes"] \in Int
        /\ Val(s, a, "LaunchedTimes") \in {o["LaunchedTimes"], o["LaunchedTimes"] + 1}
    <3>1. Val(State, a, "LaunchedTimes") \in Int \cup {Null} BY DEF IInv, Counts
    <3>2. CASE Has(State, a, "LaunchedTimes")
      BY <1>3, <1>4, <3>1, <3>2 DEF Constructs, Has, Val
    <3>3. CASE ~ Has(State, a, "LaunchedTimes")
      BY <1>3, <1>4, <3>3 DEF Constructs
    <3> QED BY <3>2, <3>3
  <2>7. object' \in [Apps -> [Keys -> Value]] /\ object'[a]["LaunchedTimes"] \in Int
        /\ \A b \in Apps \ {a} : object'[b] = object[b]
    BY <1>2, <1>4, <2>2, <2>6
  <2>8. a \in listed' => Val(s, a, "LaunchedTimes")
                           \in {object'[a]["LaunchedTimes"], object'[a]["LaunchedTimes"] + 1}
    BY <1>2, <2>2, <2>5, <2>6
  <2>9. \A b \in listed' \ {a} : b \in listed
    BY <2>2
  <2>10. finished' \in BOOLEAN BY DEF IInv, TypeOK
  <2> QED BY <2>1, <2>2, <2>3, <2>4, <2>7, <2>8, <2>9, <2>10, StateStep
<1>6. CASE ~ m_storage
  <2>1. /\ UNCHANGED <<am, desktop, m_storage, storage, file, history>>
        /\ listed' \subseteq Apps /\ finished' \in BOOLEAN
    BY <1>6 DEF NewApplication, IInv, TypeOK
  <2>2. \E p \in {object[a], NoObject, UnstoredObject} : object' = [object EXCEPT ![a] = p]
    BY <1>2, <1>6 DEF NewApplication
  <2> QED BY <1>6, <2>1, <2>2, UnstoredStep
<1> QED BY <1>5, <1>6

LEMMA ScanKeepsIInv ==
  ASSUME IInv, NEW a \in Apps, NEW ok \in [Numbers -> BOOLEAN], ScanApplication(a, ok)
  PROVE  IInv'
<1>1. /\ am # "down" /\ UNCHANGED <<am, desktop, m_storage, finished>>
      /\ toScan' \subseteq Apps
  BY DEF ScanApplication, IInv, TypeOK
<1>2. CASE NewApplication(a, ok)
  BY <1>1, <1>2, NewKeepsIInv
<1>3. CASE UNCHANGED <<storage, file, history, listed, object>>
  BY <1>1, <1>3, QuietKeepsIInv DEF IInv, TypeOK, memory
<1> QED BY <1>2, <1>3 DEF ScanApplication

LEMMA RemoveKeepsIInv ==
  ASSUME IInv, NEW a \in Apps, NEW ok \in BOOLEAN, RemoveOneApplication(a, ok)
  PROVE  IInv'
<1> DEFINE s == DeleteApplication(State, a, ok)
<1>1. State \in SType BY StateType DEF IInv
<1>2. object \in [Apps -> [Keys -> Value]] BY DEF IInv, TypeOK, Value
<1>3. CASE m_storage
  <2>1. Becomes(s) /\ am' = "up" /\ Saved(State)
    BY <1>3 DEF RemoveOneApplication, IInv, SavedWhenUp
  <2>2. /\ s \in SType /\ Saved(s) /\ Counts(s)
        /\ \A b \in Apps \ {a} : \A k \in Keys : Val(s, b, k) = Val(State, b, k)
    BY <1>1, <2>1, DeleteFields DEF IInv
  <2> HIDE DEF s
  <2>3. \A b \in Apps \ {a} : Val(s, b, "LaunchedTimes") = Val(State, b, "LaunchedTimes")
    BY <2>2 DEF Keys, Numbers
  <2>4. /\ listed' = listed \ {a} /\ object' = [object EXCEPT ![a] = NoObject]
        /\ UNCHANGED <<desktop, m_storage>> /\ listed' \subseteq Apps
        /\ toScan' \subseteq Apps /\ finished' \in BOOLEAN
    BY DEF RemoveOneApplication, IInv, TypeOK
  <2>5. /\ object' \in [Apps -> [Keys -> Value]] /\ object'[a] = NoObject
        /\ \A b \in Apps \ {a} : object'[b] = object[b]
    BY <1>2, <2>4, EmptyStorage
  <2>6. object'[a]["LaunchedTimes"] \in Int
    <3>1. NoObject["LaunchedTimes"] \in Int BY EmptyStorage
    <3> QED BY <2>5, <3>1
  <2>7. a \notin listed' /\ \A b \in listed' \ {a} : b \in listed BY <2>4
  <2> QED BY <2>1, <2>2, <2>3, <2>4, <2>5, <2>6, <2>7, StateStep
<1>4. CASE ~ m_storage
  <2>1. /\ UNCHANGED <<am, desktop, m_storage, storage, file, history>> /\ am # "down"
        /\ toScan' \subseteq Apps /\ finished' \in BOOLEAN
        /\ listed' \subseteq Apps /\ object' = [object EXCEPT ![a] = NoObject]
    BY <1>4 DEF RemoveOneApplication, IInv, TypeOK
  <2> QED BY <1>4, <2>1, UnstoredStep
<1> QED BY <1>3, <1>4

LEMMA LaunchKeepsIInv ==
  ASSUME IInv, NEW a \in Apps, NEW ok \in BOOLEAN, UpdateAfterLaunch(a, ok)
  PROVE  IInv'
<1> DEFINE t == object[a]["LaunchedTimes"] + 1
           s == Launched(State, a, t, ok)
           p == Put(State, a, "LastLaunchedTime", Now)
<1>1. /\ State \in SType /\ Saved(State) /\ Counts(State) /\ State.mem = storage
      /\ object \in [Apps -> [Keys -> Value]] /\ object[a]["LaunchedTimes"] \in Int
      /\ a \in listed /\ listed \subseteq Apps
  BY StateType DEF IInv, TypeOK, ObjectCounts, SavedWhenUp, UpdateAfterLaunch, Value
<1>2. /\ Becomes(s) /\ am' = "up" /\ UNCHANGED <<desktop, m_storage, listed>>
      /\ toScan' \subseteq Apps /\ finished' \in BOOLEAN
  BY DEF UpdateAfterLaunch, IInv, TypeOK
<1>3. "LaunchedTimes" \in Keys /\ "LastLaunchedTime" \in Keys
  BY DEF Keys, Numbers
<1>4. Val(State, a, "LaunchedTimes") \in {object[a]["LaunchedTimes"], t}
  BY <1>1 DEF IInv, CountersTogether, UpdateAfterLaunch, Val
<1>5. Has(State, a, "LaunchedTimes")
  BY <1>1, <1>4, NullAssumption DEF Has, Val
<1>6. CASE ~ Has(State, a, "LastLaunchedTime")
  <2>1. s = State /\ object' = object
    BY <1>6 DEF Launched, UpdateAfterLaunch
  <2> HIDE DEF s
  <2> QED BY <1>1, <1>2, <1>4, <2>1, StateStep
<1>7. CASE Has(State, a, "LastLaunchedTime")
  <2>1. /\ p \in SType /\ p.file = State.file
        /\ p.mem.m_batchUpdate = State.mem.m_batchUpdate
        /\ p.mem.m_data.values
             = [State.mem.m_data.values EXCEPT ![a] = [@ EXCEPT !["LastLaunchedTime"] = Now]]
    <3>1. Now \in Value BY DEF Now, Value
    <3>2. State \in SType BY <1>1
    <3> QED BY ONLY <1>3, <3>1, <3>2, PutFields, a \in Apps
  <2>2. \A b \in Apps : Val(p, b, "LaunchedTimes") = Val(State, b, "LaunchedTimes")
    <3>1. State.mem.m_data.values \in Values BY <1>1 DEF SType, Mem, Data
    <3> QED BY <1>3, <2>1, <3>1 DEF Val, Values
  <2>3. s = UpdateApplicationValue(p, a, "LaunchedTimes", t, ok)
    BY <1>7 DEF Launched
  <2> HIDE DEF p
  <2>4. Has(p, a, "LaunchedTimes")
    BY <1>5, <2>2 DEF Has, Val
  <2>5. t \in Int /\ t \in Value
    BY <1>1 DEF Value
  <2> HIDE DEF t
  <2>6. Changes(p, s, a, "LaunchedTimes", t)
    BY <1>3, <2>1, <2>3, <2>4, <2>5, UpdateChanges
  <2>7. Counts(p)
    BY <1>1, <2>1, <2>2 DEF Counts
  <2> HIDE DEF s
  <2>8. s \in SType /\ Saved(s) /\ Counts(s)
    BY <1>1, <2>1, <2>5, <2>6, <2>7 DEF Changes, Saved
  <2>9. /\ Val(s, a, "LaunchedTimes") = t
        /\ \A b \in Apps \ {a} : Val(s, b, "LaunchedTimes") = Val(State, b, "LaunchedTimes")
    BY <1>3, <2>2, <2>6 DEF Changes
  <2>10. CASE ok
    <3> DEFINE o == [object[a] EXCEPT !["LastLaunchedTime"] = Now, !["LaunchedTimes"] = t]
    <3>1. object' = [object EXCEPT ![a] = o]
      <4>1. object' = [object EXCEPT ![a] =
              [object[a] EXCEPT !["LastLaunchedTime"] = Now, !["LaunchedTimes"] = @ + 1]]
        BY <1>1, <1>5, <1>7, <2>10 DEF UpdateAfterLaunch
      <4>2. [object[a] EXCEPT !["LastLaunchedTime"] = Now, !["LaunchedTimes"] = @ + 1] = o
        BY <1>1, <1>3 DEF t
      <4> QED BY <4>1, <4>2
    <3>2. o \in [Keys -> Value] /\ o["LaunchedTimes"] = t
      <4>1. Now \in Value BY DEF Now, Value
      <4> QED BY <1>1, <1>3, <2>5, <4>1
    <3> HIDE DEF o
    <3>3. /\ object' \in [Apps -> [Keys -> Value]] /\ object'[a]["LaunchedTimes"] = t
          /\ \A b \in Apps \ {a} : object'[b] = object[b]
      BY <1>1, <3>1, <3>2
    <3> QED BY <1>1, <1>2, <2>5, <2>8, <2>9, <3>3, StateStep
  <2>11. CASE ~ ok
    <3>1. object' = object BY <2>11 DEF UpdateAfterLaunch
    <3> QED BY <1>1, <1>2, <2>8, <2>9, <3>1, StateStep DEF t
  <2> QED BY <2>10, <2>11
<1> QED BY <1>6, <1>7

LEMMA EnvironKeepsIInv ==
  ASSUME IInv, NEW a \in Apps, NEW v \in Environs, NEW ok \in BOOLEAN, SetEnviron(a, v, ok)
  PROVE  IInv'
<1>1. /\ State \in SType /\ Saved(State) /\ Counts(State) /\ State.mem = storage
      /\ object \in [Apps -> [Keys -> Value]] /\ object[a]["LaunchedTimes"] \in Int
      /\ a \in listed /\ listed \subseteq Apps
  BY StateType DEF IInv, TypeOK, ObjectCounts, SavedWhenUp, SetEnviron, Value
<1>2. "Environ" \in Keys /\ v \in Value /\ "LaunchedTimes" \in Keys
  BY DEF Keys, Numbers, Value
<1>3. PICK s \in {UpdateApplicationValue(State, a, "Environ", v, ok),
                  CreateApplicationValue(State, a, "Environ", v, ok)} :
        Becomes(s) /\ Changes(State, s, a, "Environ", v)
  BY <1>1, <1>2, UpdateChanges, CreateChanges DEF SetEnviron
<1>4. s \in SType /\ Saved(s) /\ Counts(s)
  BY <1>1, <1>3 DEF Changes, Saved
<1>5. \A b \in Apps : Val(s, b, "LaunchedTimes") = Val(State, b, "LaunchedTimes")
  BY <1>2, <1>3 DEF Changes
<1>6. /\ am' = "up" /\ UNCHANGED <<desktop, m_storage, listed>>
      /\ toScan' \subseteq Apps /\ finished' \in BOOLEAN
  BY DEF SetEnviron, IInv, TypeOK
<1>7. Val(State, a, "LaunchedTimes")
        \in {object[a]["LaunchedTimes"], object[a]["LaunchedTimes"] + 1}
  BY <1>1 DEF IInv, CountersTogether, SetEnviron, Val
<1>8. object' = object \/ object' = [object EXCEPT ![a] = [object[a] EXCEPT !["Environ"] = v]]
  BY DEF SetEnviron
<1>9. /\ object' \in [Apps -> [Keys -> Value]]
      /\ object'[a]["LaunchedTimes"] = object[a]["LaunchedTimes"]
      /\ \A b \in Apps \ {a} : object'[b] = object[b]
  <2> DEFINE o == [object[a] EXCEPT !["Environ"] = v]
  <2>1. o \in [Keys -> Value] /\ o["LaunchedTimes"] = object[a]["LaunchedTimes"]
    BY <1>1, <1>2
  <2> HIDE DEF o
  <2>2. object' = object \/ object' = [object EXCEPT ![a] = o] BY <1>8 DEF o
  <2> QED BY <1>1, <2>1, <2>2
<1> QED BY <1>1, <1>3, <1>4, <1>5, <1>6, <1>7, <1>9, StateStep

LEMMA NextIInv == IInv /\ [Next]_vars => IInv'
<1> SUFFICES ASSUME IInv, [Next]_vars PROVE IInv' OBVIOUS
<1>1. ASSUME NEW a \in Apps, DesktopChanges(a) PROVE IInv'
  BY <1>1, QuietKeepsIInv DEF DesktopChanges, IInv, TypeOK
<1>2. ASSUME FileDamaged PROVE IInv'
  <2>1. TypeOK' BY <1>2 DEF IInv, TypeOK, FileDamaged, memory, history
  <2>2. Counts(State)'
    <3>1. State'.mem = storage /\ State'.file \in {Empty, Garbage}
      BY <1>2 DEF FileDamaged, memory, State
    <3> QED BY <3>1, StateType, FilesAssumption DEF IInv, Counts, Val
  <2> QED BY <1>2, <2>1, <2>2 DEF IInv, FileDamaged, memory, ObjectCounts, SavedWhenUp,
                                 CountersTogether, NothingWhileDown
<1>3. ASSUME Start PROVE IInv'
  BY <1>3, StartKeepsIInv
<1>4. ASSUME StartWithoutStorage PROVE IInv'
  <2>1. object = [a \in Apps |-> NoObject] /\ listed = {}
    BY <1>4 DEF StartWithoutStorage, Starts, IInv, NothingWhileDown, TypeOK
  <2> QED BY <1>4, <2>1, UnstoredKeepsIInv DEF StartWithoutStorage, Starts, IInv, TypeOK, disk
<1>5. ASSUME NEW ok \in BOOLEAN, FinishStart(ok) PROVE IInv'
  BY <1>5, FinishStartKeepsIInv
<1>12. ASSUME NEW a \in Apps, NEW ok \in [Numbers -> BOOLEAN], ScanApplication(a, ok) PROVE IInv'
  BY <1>12, ScanKeepsIInv
<1>6. ASSUME Stop PROVE IInv'
  BY <1>6, UnstoredKeepsIInv DEF Stop, IInv, TypeOK, history
<1>7. ASSUME NEW a \in Apps, NEW ok \in [Numbers -> BOOLEAN], AddApplication(a, ok) PROVE IInv'
  BY <1>7, NewKeepsIInv DEF AddApplication, IInv, TypeOK
<1>8. ASSUME NEW a \in Apps, NEW ok \in BOOLEAN, RemoveOneApplication(a, ok) PROVE IInv'
  BY <1>8, RemoveKeepsIInv
<1>9. ASSUME NEW a \in Apps, NEW ok \in BOOLEAN, UpdateAfterLaunch(a, ok) PROVE IInv'
  BY <1>9, LaunchKeepsIInv
<1>10. ASSUME NEW a \in Apps, NEW v \in Environs, NEW ok \in BOOLEAN, SetEnviron(a, v, ok)
       PROVE  IInv'
  BY <1>10, EnvironKeepsIInv
<1>11. CASE UNCHANGED vars
  BY <1>11, QuietKeepsIInv DEF vars, disk, IInv, TypeOK
<1> QED BY <1>1, <1>2, <1>3, <1>4, <1>5, <1>6, <1>7, <1>8, <1>9, <1>10, <1>11,
             <1>12 DEF Next

(* The types of the variables.                                             *)
THEOREM TypeCorrect == Spec => []TypeOK
<1>1. IInv => TypeOK BY DEF IInv
<1> QED BY <1>1, InitIInv, NextIInv, PTL DEF Spec

(* Once AM is up the file holds what m_data holds, unless the last write   *)
(* failed (writeToFile, the deferred commits and the batch of the start).  *)
THEOREM EverythingSaved == Spec => []NothingUnsaved
<1>1. IInv => NothingUnsaved
  <2> SUFFICES ASSUME IInv, am = "up", m_storage, lastWrite PROVE file = storage.m_data
    BY DEF NothingUnsaved
  <2> QED BY StateType DEF IInv, SavedWhenUp, Saved
<1> QED BY <1>1, InitIInv, NextIInv, PTL DEF Spec

(* The count a client sees and the stored one differ by one launch at most *)
(* (updateAfterLaunch, the constructor, removeOneApplication).             *)
THEOREM CountersStayTogether == Spec => []CountersTogether
<1>1. IInv => CountersTogether BY DEF IInv
<1> QED BY <1>1, InitIInv, NextIInv, PTL DEF Spec

-----------------------------------------------------------------------------
(***************************************************************************)
(* What the file holds of what clients read.                               *)
(***************************************************************************)
(* What an object should show of a stored value.                           *)
Shown(s, a, k) == IF k = "Environ" /\ Val(s, a, k) = Null THEN NoEnviron ELSE Val(s, a, k)

(* What no operation but setFirstLaunch changes, and what a failed write   *)
(* leaves in the history.                                                  *)
Settles(s, c) ==
  /\ c.mem.m_data.firstLaunch = s.mem.m_data.firstLaunch
  /\ c.mem.m_batchUpdate = s.mem.m_batchUpdate
  /\ c.all => s.all
  /\ s.mem.m_batchUpdate => c.all = s.all /\ c.file = s.file
  /\ (s.all => s.last) => (c.all => c.last)

LEMMA WriteSettles ==
  ASSUME NEW s \in SType, NEW ok \in BOOLEAN
  PROVE  LET w == WriteToFile(s, ok)
         IN  Settles(s, w) /\ (w.all => Written(s, ok))
<1>1. /\ WriteToFile(s, ok).mem.m_data = s.mem.m_data
      /\ WriteToFile(s, ok).mem.m_batchUpdate = s.mem.m_batchUpdate
  BY WriteFields
<1>2. CASE s.mem.m_batchUpdate
  <2>1. WriteToFile(s, ok) = [s EXCEPT !.mem = [s.mem EXCEPT !.m_pendingWrite = TRUE]]
    BY <1>2 DEF WriteToFile
  <2> QED BY <1>1, <1>2, <2>1 DEF SType, Settles, Written
<1>3. CASE ~ s.mem.m_batchUpdate /\ ok
  <2>1. WriteToFile(s, ok) = [s EXCEPT !.file = s.mem.m_data,
                                       !.mem = [s.mem EXCEPT !.m_pendingWrite = FALSE],
                                       !.last = TRUE]
    BY <1>3 DEF WriteToFile
  <2> QED BY <1>1, <1>3, <2>1 DEF SType, Settles, Written
<1>4. CASE ~ s.mem.m_batchUpdate /\ ~ ok
  <2>1. WriteToFile(s, ok) = [s EXCEPT !.last = FALSE, !.all = FALSE]
    BY <1>4 DEF WriteToFile
  <2> QED BY <1>1, <1>4, <2>1 DEF SType, Settles
<1> QED BY <1>2, <1>3, <1>4

LEMMA PutSettles ==
  ASSUME NEW s \in SType, NEW a \in Apps, NEW k \in Keys, NEW v \in Value, NEW ok \in BOOLEAN
  PROVE  LET w == WriteToFile(Put(s, a, k, v), ok)
         IN  Settles(s, w) /\ (w.all => Written(s, ok))
<1> DEFINE p == Put(s, a, k, v)
           w == WriteToFile(p, ok)
<1>1. /\ p \in SType /\ p.file = s.file /\ p.last = s.last /\ p.all = s.all
      /\ p.mem.m_batchUpdate = s.mem.m_batchUpdate
      /\ p.mem.m_data.firstLaunch = s.mem.m_data.firstLaunch
      /\ p.mem.m_data.values = [s.mem.m_data.values EXCEPT ![a] = [@ EXCEPT ![k] = v]]
  BY PutFields
<1> HIDE DEF p
<1>2. Settles(p, w) /\ (w.all => Written(p, ok)) BY <1>1, WriteSettles
<1> HIDE DEF w
<1>3. Settles(s, w) /\ (w.all => Written(s, ok)) BY <1>1, <1>2 DEF Settles, Written
<1> QED BY <1>3 DEF w, p

(* A value that is created, if it is missing.                              *)
LEMMA CreateSettles ==
  ASSUME NEW s \in SType, NEW a \in Apps, NEW k \in Keys, NEW v \in Value, NEW ok \in BOOLEAN
  PROVE  LET c == CreateApplicationValue(s, a, k, v, ok)
         IN  /\ Settles(s, c) /\ c \in SType
             /\ c.mem.m_batchUpdate = s.mem.m_batchUpdate
             /\ c.all => Cached(s, a, k, v, ok) = Val(c, a, k)
             /\ \A j \in Keys \ {k} : Val(c, a, j) = Val(s, a, j)
<1> DEFINE c == CreateApplicationValue(s, a, k, v, ok)
<1>1. CASE Has(s, a, k)
  <2>1. c = s BY <1>1 DEF CreateApplicationValue
  <2>2. Cached(s, a, k, v, ok) = Val(s, a, k) BY <1>1 DEF Cached, Val
  <2> HIDE DEF c
  <2>3. Settles(s, c) BY <2>1 DEF Settles
  <2> QED BY <2>1, <2>2, <2>3 DEF c
<1>2. CASE ~ Has(s, a, k)
  <2>1. Changes(s, c, a, k, v) BY <1>2, CreateChanges
  <2>2. Settles(s, c) /\ (c.all => Written(s, ok))
    BY <1>2, PutSettles DEF CreateApplicationValue
  <2> HIDE DEF c
  <2>3. Written(s, ok) => Cached(s, a, k, v, ok) = v BY <1>2 DEF Cached
  <2>4. /\ c \in SType /\ c.mem.m_batchUpdate = s.mem.m_batchUpdate
        /\ c.all => Cached(s, a, k, v, ok) = Val(c, a, k)
        /\ \A j \in Keys \ {k} : Val(c, a, j) = Val(s, a, j)
    BY <2>1, <2>2, <2>3 DEF Changes
  <2> QED BY <2>2, <2>4 DEF c
<1> QED BY <1>1, <1>2

(* The constructor caches what it leaves in the storage, if all its writes *)
(* go well.                                                                *)
LEMMA NewShown ==
  ASSUME NEW s \in SType, NEW a \in Apps, NEW ok, \A k \in Numbers : ok[k] \in BOOLEAN
  PROVE  LET c == NewState(s, a, ok)
             o == NewObject(s, a, ok)
         IN  Settles(s, c) /\ (c.all => \A k \in Keys : o[k] = Shown(c, a, k))
<1> DEFINE s1 == NewInstalled(s, a, ok["InstalledTime"])
           s2 == CreateApplicationValue(s1, a, "LastLaunchedTime", 0, ok["LastLaunchedTime"])
           s3 == CreateApplicationValue(s2, a, "LaunchedTimes", 0, ok["LaunchedTimes"])
           p(k) == NewProperty(s, a, k, ok)
<1>1. Keys = {"InstalledTime", "LastLaunchedTime", "LaunchedTimes", "Environ"}
  BY DEF Keys, Numbers
<1>2. 0 \in Value /\ Now \in Value BY DEF Value, Now
<1>3. ok["InstalledTime"] \in BOOLEAN /\ ok["LastLaunchedTime"] \in BOOLEAN
      /\ ok["LaunchedTimes"] \in BOOLEAN
  BY DEF Numbers
<1>4. NewState(s, a, ok) = s3 BY DEF NewState
<1>5. /\ Settles(s, s1) /\ s1 \in SType /\ s1.mem.m_batchUpdate = s.mem.m_batchUpdate
      /\ s1.all => p("InstalledTime") = Val(s1, a, "InstalledTime")
      /\ \A j \in Keys \ {"InstalledTime"} : Val(s1, a, j) = Val(s, a, j)
  <2>1. CASE s.mem.m_data.firstLaunch
    <3>1. s1 = WriteToFile(Put(s, a, "InstalledTime", 0), ok["InstalledTime"])
      BY <2>1 DEF NewInstalled
    <3>2. Changes(s, s1, a, "InstalledTime", 0)
      BY <1>1, <1>2, <1>3, <3>1, PutWrite
    <3>3. Settles(s, s1) /\ (s1.all => Written(s, ok["InstalledTime"]))
      BY <1>1, <1>2, <1>3, <3>1, PutSettles
    <3>4. p("InstalledTime") = IF Written(s, ok["InstalledTime"]) THEN 0 ELSE -1
      BY <2>1 DEF NewProperty
    <3> HIDE DEF s1, p
    <3> QED BY <1>1, <3>2, <3>3, <3>4 DEF Changes
  <2>2. CASE ~ s.mem.m_data.firstLaunch
    <3>1. s1 = CreateApplicationValue(s, a, "InstalledTime", Now, ok["InstalledTime"])
      BY <2>2 DEF NewInstalled
    <3>2. p("InstalledTime") = Cached(s, a, "InstalledTime", Now, ok["InstalledTime"])
      BY <2>2 DEF NewProperty
    <3> HIDE DEF p
    <3>3. "InstalledTime" \in Keys BY <1>1
    <3> QED BY <1>2, <1>3, <3>1, <3>2, <3>3, CreateSettles
  <2> QED BY <2>1, <2>2
<1> HIDE DEF s1
<1>6. /\ Settles(s1, s2) /\ s2 \in SType /\ s2.mem.m_batchUpdate = s.mem.m_batchUpdate
      /\ s2.all => p("LastLaunchedTime") = Val(s2, a, "LastLaunchedTime")
      /\ \A j \in Keys \ {"LastLaunchedTime"} : Val(s2, a, j) = Val(s1, a, j)
  <2>1. p("LastLaunchedTime") = Cached(s, a, "LastLaunchedTime", 0, ok["LastLaunchedTime"])
    BY DEF NewProperty
  <2>2. Val(s1, a, "LastLaunchedTime") = Val(s, a, "LastLaunchedTime")
    BY <1>1, <1>5
  <2>3. Cached(s1, a, "LastLaunchedTime", 0, ok["LastLaunchedTime"])
          = Cached(s, a, "LastLaunchedTime", 0, ok["LastLaunchedTime"])
    BY <1>5, <2>2 DEF Cached, Has, Val, Written
  <2> HIDE DEF p
  <2>4. "LastLaunchedTime" \in Keys BY <1>1
  <2> QED BY <1>2, <1>3, <1>5, <2>1, <2>3, <2>4, CreateSettles
<1> HIDE DEF s2
<1>7. /\ Settles(s2, s3)
      /\ s3.all => p("LaunchedTimes") = Val(s3, a, "LaunchedTimes")
      /\ \A j \in Keys \ {"LaunchedTimes"} : Val(s3, a, j) = Val(s2, a, j)
  <2>1. p("LaunchedTimes") = Cached(s, a, "LaunchedTimes", 0, ok["LaunchedTimes"])
    BY DEF NewProperty
  <2>2. Val(s2, a, "LaunchedTimes") = Val(s, a, "LaunchedTimes")
    BY <1>1, <1>5, <1>6
  <2>3. Cached(s2, a, "LaunchedTimes", 0, ok["LaunchedTimes"])
          = Cached(s, a, "LaunchedTimes", 0, ok["LaunchedTimes"])
    BY <1>6, <2>2 DEF Cached, Has, Val, Written
  <2> HIDE DEF p
  <2>4. "LaunchedTimes" \in Keys BY <1>1
  <2> QED BY <1>2, <1>3, <1>6, <2>1, <2>3, <2>4, CreateSettles
<1> HIDE DEF s3
<1>8. p("Environ") = IF Val(s, a, "Environ") = Null THEN NoEnviron ELSE Val(s, a, "Environ")
  BY DEF NewProperty, NewEnviron, Has, Val
<1> HIDE DEF p
<1>9. Settles(s, s3) BY <1>5, <1>6, <1>7 DEF Settles
<1>10. /\ s3.all => s2.all /\ s1.all BY <1>6, <1>7 DEF Settles
<1>11. s3.all => \A k \in Keys : p(k) = Shown(s3, a, k)
  <2> SUFFICES ASSUME s3.all PROVE \A k \in Keys : p(k) = Shown(s3, a, k) OBVIOUS
  <2>1. p("InstalledTime") = Shown(s3, a, "InstalledTime")
    BY <1>1, <1>5, <1>6, <1>7, <1>10 DEF Shown
  <2>2. p("LastLaunchedTime") = Shown(s3, a, "LastLaunchedTime")
    BY <1>1, <1>6, <1>7, <1>10 DEF Shown
  <2>3. p("LaunchedTimes") = Shown(s3, a, "LaunchedTimes")
    BY <1>1, <1>7 DEF Shown
  <2>4. p("Environ") = Shown(s3, a, "Environ")
    BY <1>1, <1>5, <1>6, <1>7, <1>8 DEF Shown
  <2> QED BY <1>1, <2>1, <2>2, <2>3, <2>4
<1>12. \A k \in Keys : NewObject(s, a, ok)[k] = p(k) BY DEF NewObject, p
<1> QED BY <1>4, <1>9, <1>11, <1>12

-----------------------------------------------------------------------------
(* A desktop file is visited once, and by the start only.                  *)
ScannedOnce == toScan \cap listed = {} /\ (am # "starting" => toScan = {})

LEMMA NextScanned == ScannedOnce /\ IInv /\ [Next]_vars => ScannedOnce'
BY DEF ScannedOnce, IInv, NothingWhileDown, Next, vars, memory, DesktopChanges, FileDamaged,
       Starts, Start, StartWithoutStorage, NewApplication, ScanApplication, FinishStart, Stop,
       AddApplication, RemoveOneApplication, UpdateAfterLaunch, SetEnviron

(* The invariant: as long as all writes went well, the objects show what   *)
(* is stored; and AM's first launch is over when its start is.             *)
ShowsStored ==
  (m_storage /\ allWrites) =>
    \A a \in listed : \A k \in Keys : object[a][k] = Shown(State, a, k)

LaunchedBefore == (am = "up" /\ m_storage) => storage.m_data.firstLaunch = FALSE

DInv == IInv /\ ShowsStored /\ (allWrites => lastWrite) /\ LaunchedBefore

(* A step of AM that replaces its state by s and changes the object of one *)
(* application at most.                                                    *)
LEMMA ShownStep ==
  ASSUME DInv, IInv', NEW s \in SType, NEW a \in Apps, Becomes(s),
         UNCHANGED am, m_storage, m_storage',
         \A b \in listed' \ {a} : b \in listed,
         \A b \in Apps \ {a} : object'[b] = object[b],
         Settles(State, s),
         \A b \in Apps \ {a} : \A k \in Keys : Val(s, b, k) = Val(State, b, k),
         (s.all /\ a \in listed') => \A k \in Keys : object'[a][k] = Shown(s, a, k)
  PROVE  DInv'
<1>1. State \in SType /\ State.mem = storage /\ State.last = lastWrite /\ State.all = allWrites
  BY StateType DEF DInv, IInv
<1>2. State' = s /\ allWrites' = s.all /\ lastWrite' = s.last /\ storage' = s.mem
  BY BecomesState DEF Becomes
<1>3. ShowsStored'
  <2> SUFFICES ASSUME s.all, NEW b \in listed', NEW k \in Keys
               PROVE  object'[b][k] = Shown(s, b, k)
    BY <1>2 DEF ShowsStored, Shown, Val
  <2>1. CASE b = a BY <2>1
  <2>2. CASE b # a
    <3>1. b \in listed /\ b \in Apps /\ object'[b] = object[b] /\ allWrites
      BY <1>1, <2>2 DEF DInv, IInv, TypeOK, Settles
    <3>2. Val(s, b, k) = Val(State, b, k) BY <2>2, <3>1
    <3> QED BY <3>1, <3>2 DEF DInv, ShowsStored, Shown
  <2> QED BY <2>1, <2>2
<1>4. (allWrites => lastWrite)' BY <1>1, <1>2 DEF DInv, Settles
<1>5. LaunchedBefore' BY <1>1, <1>2 DEF DInv, LaunchedBefore, Settles
<1> QED BY <1>3, <1>4, <1>5 DEF DInv

(* Without a storage there is nothing to show.                             *)
LEMMA UnstoredShown ==
  ASSUME DInv, IInv', ~ m_storage', allWrites' => lastWrite'
  PROVE  DInv'
BY DEF DInv, ShowsStored, LaunchedBefore

LEMMA StartKeepsShown == ASSUME DInv, Start PROVE DInv'
<1>1. IInv' BY StartKeepsIInv DEF DInv
<1>2. listed' = {} /\ lastWrite' /\ am' = "starting"
  BY DEF Start, Starts, DInv, IInv, NothingWhileDown
<1> QED BY <1>1, <1>2 DEF DInv, ShowsStored, LaunchedBefore

LEMMA FinishKeepsShown == ASSUME DInv, NEW ok \in BOOLEAN, FinishStart(ok) PROVE DInv'
<1>1. IInv' BY FinishStartKeepsIInv DEF DInv
<1>2. CASE ~ m_storage
  BY <1>1, <1>2, UnstoredShown DEF FinishStart, DInv, history
<1>3. CASE m_storage
  <2> DEFINE d  == [storage.m_data EXCEPT !.firstLaunch = FALSE]
             s1 == [State EXCEPT !.mem = [storage EXCEPT !.m_data = d]]
             s2 == WriteToFile(s1, ok)
             s3 == [s2 EXCEPT !.mem = [s2.mem EXCEPT !.m_batchUpdate = FALSE]]
             s4 == WriteToFile(s3, ok)
             s  == EndBatchUpdate(SetFirstLaunch(State, FALSE, ok), ok)
  <2>1. State \in SType /\ State.mem = storage /\ State.last = lastWrite /\ State.all = allWrites
    BY StateType DEF DInv, IInv
  <2>2. d \in Data /\ d.firstLaunch = FALSE BY DEF DInv, IInv, TypeOK, Data
  <2>3. /\ s1 \in SType /\ s1.mem.m_data = d /\ s1.all = allWrites /\ s1.last = lastWrite
    <3>1. storage \in Mem BY DEF DInv, IInv, TypeOK, Mem
    <3> QED BY <2>1, <2>2, <3>1 DEF SType, Mem
  <2>4. SetFirstLaunch(State, FALSE, ok) = s2 BY <2>1 DEF SetFirstLaunch
  <2> HIDE DEF s1
  <2>5. s2 \in SType /\ s2.mem.m_data = d /\ (s2.all => allWrites) /\ (s2.all => s2.last)
    BY <2>3, WriteFields, WriteSettles DEF DInv, Settles
  <2> HIDE DEF s2
  <2>6. s3 \in SType /\ s3.mem.m_data = d /\ s3.all = s2.all /\ s3.last = s2.last
    BY <2>5 DEF SType, Mem
  <2>7. s = IF s2.mem.m_pendingWrite THEN s4 ELSE s3
    BY <2>4 DEF EndBatchUpdate
  <2> HIDE DEF s3
  <2>8. s4 \in SType /\ s4.mem.m_data = d /\ (s4.all => s3.all) /\ (s4.all => s4.last)
    BY <2>5, <2>6, WriteFields, WriteSettles DEF Settles
  <2> HIDE DEF s4
  <2>9. \A a \in Apps, k \in Keys : Val(s, a, k) = Val(State, a, k)
    BY <2>1, FinishFields
  <2>10. Becomes(s) BY <1>3 DEF FinishStart
  <2> HIDE DEF s, d
  <2>11. s \in SType /\ s.mem.m_data.firstLaunch = FALSE /\ (s.all => allWrites) /\ (s.all => s.last)
    BY <2>2, <2>5, <2>6, <2>7, <2>8
  <2>12. State' = s /\ allWrites' = s.all /\ lastWrite' = s.last /\ storage' = s.mem
    BY <2>10, <2>11, BecomesState DEF Becomes
  <2>13. ShowsStored'
    <3> SUFFICES ASSUME s.all, NEW a \in listed, NEW k \in Keys
                 PROVE  object[a][k] = Shown(s, a, k)
      BY <2>12 DEF ShowsStored, FinishStart, Shown, Val
    <3>1. a \in Apps BY DEF DInv, IInv, TypeOK
    <3> QED BY <1>3, <2>9, <2>11, <3>1 DEF DInv, ShowsStored, Shown
  <2> QED BY <1>1, <2>11, <2>12, <2>13 DEF DInv, LaunchedBefore
<1> QED BY <1>2, <1>3

LEMMA NewKeepsShown ==
  ASSUME DInv, IInv', NEW a \in Apps \ listed, NEW ok \in [Numbers -> BOOLEAN],
         NewApplication(a, ok), UNCHANGED <<am, m_storage>>
  PROVE  DInv'
<1>1. IInv' OBVIOUS
<1>2. CASE ~ m_storage
  BY <1>1, <1>2, UnstoredShown DEF NewApplication, DInv, history
<1>3. CASE m_storage
  <2> DEFINE s == NewState(State, a, ok)
             o == NewObject(State, a, ok)
  <2>1. State \in SType BY StateType DEF DInv, IInv
  <2>2. Constructs(State, s, a) BY <2>1, NewConstructs
  <2>3. Settles(State, s) /\ (s.all => \A k \in Keys : o[k] = Shown(s, a, k))
    BY <2>1, NewShown
  <2>4. /\ Becomes(s)
        /\ \/ listed' = listed \cup {a} /\ object' = [object EXCEPT ![a] = o]
           \/ a \notin listed' /\ listed' = listed /\ object' = object
    BY <1>3 DEF NewApplication
  <2> HIDE DEF s, o
  <2>5. object \in [Apps -> [Keys -> Value]] BY DEF DInv, IInv, TypeOK, Value
  <2>6. /\ \A b \in Apps \ {a} : object'[b] = object[b]
        /\ a \in listed' => object'[a] = o
        /\ \A b \in listed' \ {a} : b \in listed
    BY <2>4, <2>5
  <2> QED BY <1>1, <1>3, <2>2, <2>3, <2>4, <2>6, ShownStep DEF Constructs
<1> QED BY <1>2, <1>3

LEMMA RemoveKeepsShown ==
  ASSUME DInv, NEW a \in Apps, NEW ok \in BOOLEAN, RemoveOneApplication(a, ok)
  PROVE  DInv'
<1>1. IInv' BY RemoveKeepsIInv DEF DInv
<1>2. CASE ~ m_storage
  BY <1>1, <1>2, UnstoredShown DEF RemoveOneApplication, DInv, history
<1>3. CASE m_storage
  <2> DEFINE v  == [storage.m_data.values EXCEPT ![a] = [k \in Keys |-> Null]]
             d  == [storage.m_data EXCEPT !.values = v]
             m  == [storage EXCEPT !.m_data = d]
             s1 == [State EXCEPT !.mem = m]
             s  == DeleteApplication(State, a, ok)
  <2>1. State \in SType /\ State.mem = storage /\ State.last = lastWrite /\ State.all = allWrites
    BY StateType DEF DInv, IInv
  <2>2. /\ s \in SType
        /\ \A b \in Apps \ {a} : \A k \in Keys : Val(s, b, k) = Val(State, b, k)
    BY <2>1, DeleteFields
  <2>3. s = WriteToFile(s1, ok) BY <2>1 DEF DeleteApplication
  <2>4. v \in Values
    <3>1. [k \in Keys |-> Null] \in [Keys -> Int \cup Environs \cup {Null}] OBVIOUS
    <3> QED BY <3>1 DEF DInv, IInv, TypeOK, Data, Values
  <2> HIDE DEF v
  <2>5. d \in Data /\ d.firstLaunch = storage.m_data.firstLaunch
    BY <2>4 DEF DInv, IInv, TypeOK, Data
  <2>6. m \in Mem /\ m.m_data = d /\ m.m_batchUpdate = storage.m_batchUpdate
    BY <2>5 DEF DInv, IInv, TypeOK, Mem
  <2>7. /\ s1 \in SType /\ s1.mem = m /\ s1.file = State.file
        /\ s1.last = State.last /\ s1.all = State.all
    BY <2>1, <2>6 DEF SType
  <2> HIDE DEF s1, s, m, d
  <2>8. Settles(s1, s) BY <2>3, <2>7, WriteSettles
  <2>9. Settles(State, s) BY <2>1, <2>5, <2>6, <2>7, <2>8 DEF Settles
  <2>10. Becomes(s) /\ am' = "up" /\ am = "up" /\ m_storage' = m_storage
         /\ listed' = listed \ {a} /\ object' = [object EXCEPT ![a] = NoObject]
    BY <1>3 DEF RemoveOneApplication, s
  <2>11. \A b \in Apps \ {a} : object'[b] = object[b]
    BY <2>10 DEF DInv, IInv, TypeOK
  <2> QED BY <1>1, <1>3, <2>2, <2>9, <2>10, <2>11, ShownStep
<1> QED BY <1>2, <1>3

LEMMA LaunchKeepsShown ==
  ASSUME DInv, NEW a \in Apps, NEW ok \in BOOLEAN, UpdateAfterLaunch(a, ok)
  PROVE  DInv'
<1> DEFINE t == object[a]["LaunchedTimes"] + 1
           s == Launched(State, a, t, ok)
           p == Put(State, a, "LastLaunchedTime", Now)
<1>1. IInv' BY LaunchKeepsIInv DEF DInv
<1>2. /\ State \in SType /\ Saved(State) /\ State.mem = storage /\ State.all = allWrites
      /\ object \in [Apps -> [Keys -> Value]] /\ object[a]["LaunchedTimes"] \in Int
      /\ a \in listed /\ m_storage
  BY StateType DEF DInv, IInv, TypeOK, ObjectCounts, SavedWhenUp, UpdateAfterLaunch, Value
<1>3. Becomes(s) /\ am' = "up" /\ am = "up" /\ UNCHANGED <<m_storage, listed>>
  BY DEF UpdateAfterLaunch
<1>4. /\ Keys = {"InstalledTime", "LastLaunchedTime", "LaunchedTimes", "Environ"}
  BY DEF Keys, Numbers
<1>5. Has(State, a, "LaunchedTimes")
  BY <1>2, NullAssumption DEF DInv, IInv, CountersTogether, Has
<1>6. CASE ~ Has(State, a, "LastLaunchedTime")
  <2>1. s = State /\ object' = object
    BY <1>6 DEF Launched, UpdateAfterLaunch
  <2> HIDE DEF s
  <2>2. s.all => \A k \in Keys : object'[a][k] = Shown(s, a, k)
    BY <1>2, <2>1 DEF DInv, ShowsStored
  <2>3. Settles(State, s) BY <2>1 DEF Settles
  <2> QED BY <1>1, <1>2, <1>3, <2>1, <2>2, <2>3, ShownStep
<1>7. CASE Has(State, a, "LastLaunchedTime")
  <2>1. Now \in Value /\ t \in Value /\ t \in Int /\ Now # Null
    BY <1>2, NullAssumption DEF Now, Value
  <2>2. /\ p \in SType /\ p.file = State.file /\ p.all = State.all /\ p.last = State.last
        /\ p.mem.m_batchUpdate = State.mem.m_batchUpdate
        /\ p.mem.m_data.firstLaunch = State.mem.m_data.firstLaunch
        /\ p.mem.m_data.values
             = [State.mem.m_data.values EXCEPT ![a] = [@ EXCEPT !["LastLaunchedTime"] = Now]]
    <3>1. "LastLaunchedTime" \in Keys BY <1>4
    <3>2. State \in SType BY <1>2
    <3> DEFINE k == "LastLaunchedTime"
               st == State
    <3>3. k \in Keys /\ st \in SType /\ Now \in Value BY <2>1, <3>1, <3>2
    <3> HIDE DEF k, st
    <3>4. LET q == Put(st, a, k, Now)
          IN  /\ q \in SType /\ q.file = st.file /\ q.all = st.all /\ q.last = st.last
              /\ q.mem.m_batchUpdate = st.mem.m_batchUpdate
              /\ q.mem.m_data.firstLaunch = st.mem.m_data.firstLaunch
              /\ q.mem.m_data.values = [st.mem.m_data.values EXCEPT ![a] = [@ EXCEPT ![k] = Now]]
      BY <3>3, PutFields
    <3> QED BY <3>4 DEF k, st
  <2>3. /\ Val(p, a, "LastLaunchedTime") = Now
        /\ \A b \in Apps, j \in Keys :
             <<b, j>> # <<a, "LastLaunchedTime">> => Val(p, b, j) = Val(State, b, j)
    <3>1. State.mem.m_data.values \in Values BY <1>2 DEF SType, Mem, Data
    <3>2. p.mem.m_data.values
            = [State.mem.m_data.values EXCEPT ![a] = [@ EXCEPT !["LastLaunchedTime"] = Now]]
      BY <2>2
    <3> HIDE DEF p
    <3> QED BY <1>4, <3>1, <3>2 DEF Val, Values
  <2>4. s = UpdateApplicationValue(p, a, "LaunchedTimes", t, ok)
    BY <1>7 DEF Launched
  <2> HIDE DEF p
  <2>5. Has(p, a, "LaunchedTimes")
    BY <1>4, <1>5, <2>3 DEF Has, Val
  <2>6. s = WriteToFile(Put(p, a, "LaunchedTimes", t), ok)
    BY <2>4, <2>5 DEF UpdateApplicationValue
  <2> HIDE DEF s, t
  <2>7. Changes(p, s, a, "LaunchedTimes", t) /\ Settles(p, s) /\ (s.all => Written(p, ok))
    <3>1. "LaunchedTimes" \in Keys BY <1>4
    <3> QED BY <2>1, <2>2, <2>6, <3>1, PutWrite, PutSettles
  <2>8. Settles(State, s) /\ s \in SType BY <2>2, <2>7 DEF Settles, Changes
  <2>9. s.all => ok BY <1>2, <2>2, <2>7 DEF Written, Saved
  <2>10. /\ Val(s, a, "LaunchedTimes") = t /\ Val(s, a, "LastLaunchedTime") = Now
         /\ \A k \in {"InstalledTime", "Environ"} : Val(s, a, k) = Val(State, a, k)
         /\ \A b \in Apps \ {a} : \A k \in Keys : Val(s, b, k) = Val(State, b, k)
    BY <1>4, <2>3, <2>7 DEF Changes
  <2> DEFINE o == [object[a] EXCEPT !["LastLaunchedTime"] = Now, !["LaunchedTimes"] = t]
  <2>11. ok => object' = [object EXCEPT ![a] = o]
    BY <1>2, <1>4, <1>5, <1>7 DEF UpdateAfterLaunch, t
  <2>12. ~ ok => object' = object BY DEF UpdateAfterLaunch
  <2>13. /\ o["LaunchedTimes"] = t /\ o["LastLaunchedTime"] = Now
         /\ \A k \in {"InstalledTime", "Environ"} : o[k] = object[a][k]
    BY <1>2, <1>4
  <2> HIDE DEF o
  <2>14. \A b \in Apps \ {a} : object'[b] = object[b]
    BY <1>2, <2>11, <2>12
  <2>15. s.all => \A k \in Keys : object'[a][k] = Shown(s, a, k)
    <3> SUFFICES ASSUME s.all, NEW k \in Keys PROVE object'[a][k] = Shown(s, a, k) OBVIOUS
    <3>1. object'[a] = o BY <1>2, <2>9, <2>11
    <3>2. allWrites BY <1>2, <2>8 DEF Settles
    <3>3. object[a][k] = Shown(State, a, k) BY <1>2, <3>2 DEF DInv, ShowsStored
    <3> QED BY <1>4, <2>10, <2>13, <3>1, <3>3 DEF Shown
  <2> QED BY <1>1, <1>2, <1>3, <2>8, <2>10, <2>14, <2>15, ShownStep DEF s
<1> QED BY <1>6, <1>7

LEMMA EnvironKeepsShown ==
  ASSUME DInv, NEW a \in Apps, NEW v \in Environs, NEW ok \in BOOLEAN, SetEnviron(a, v, ok)
  PROVE  DInv'
<1>1. IInv' BY EnvironKeepsIInv DEF DInv
<1>2. /\ State \in SType /\ Saved(State) /\ State.mem = storage /\ State.all = allWrites
      /\ object \in [Apps -> [Keys -> Value]] /\ a \in listed /\ m_storage
  BY StateType DEF DInv, IInv, TypeOK, SavedWhenUp, SetEnviron, Value
<1>3. "Environ" \in Keys /\ v \in Value /\ v # Null
  BY NullAssumption DEF Keys, Value
<1> DEFINE s == WriteToFile(Put(State, a, "Environ", v), ok)
<1>4. Becomes(s)
  BY DEF SetEnviron, UpdateApplicationValue, CreateApplicationValue
<1>5. ok => object' = [object EXCEPT ![a] = [object[a] EXCEPT !["Environ"] = v]]
  BY DEF SetEnviron
<1>6. \/ object' = object
      \/ object' = [object EXCEPT ![a] = [object[a] EXCEPT !["Environ"] = v]]
  BY DEF SetEnviron
<1>7. Changes(State, s, a, "Environ", v) /\ Settles(State, s) /\ (s.all => Written(State, ok))
  BY <1>2, <1>3, PutWrite, PutSettles
<1> HIDE DEF s
<1>8. s.all => ok BY <1>2, <1>7 DEF Written, Saved
<1>9. \A b \in Apps \ {a} : object'[b] = object[b] BY <1>2, <1>6
<1>10. \A b \in Apps \ {a} : \A k \in Keys : Val(s, b, k) = Val(State, b, k)
  BY <1>7 DEF Changes
<1>11. s.all => \A k \in Keys : object'[a][k] = Shown(s, a, k)
  <2> SUFFICES ASSUME s.all, NEW k \in Keys PROVE object'[a][k] = Shown(s, a, k) OBVIOUS
  <2>1. object'[a] = [object[a] EXCEPT !["Environ"] = v] BY <1>2, <1>5, <1>8
  <2>2. allWrites BY <1>2, <1>7 DEF Settles
  <2>3. object[a][k] = Shown(State, a, k) BY <1>2, <2>2 DEF DInv, ShowsStored
  <2>4. CASE k = "Environ"
    BY <1>2, <1>3, <1>7, <2>1, <2>4 DEF Changes, Shown
  <2>5. CASE k # "Environ"
    <3>1. Val(s, a, k) = Val(State, a, k) BY <1>3, <1>7, <2>5 DEF Changes
    <3>2. object'[a][k] = object[a][k] BY <1>2, <2>1, <2>5
    <3> QED BY <2>3, <3>1, <3>2 DEF Shown
  <2> QED BY <2>4, <2>5
<1>12. am' = "up" /\ am = "up" /\ UNCHANGED <<m_storage, listed>> BY DEF SetEnviron
<1> QED BY <1>1, <1>2, <1>4, <1>7, <1>9, <1>10, <1>11, <1>12, ShownStep DEF Changes

LEMMA DInvIInv == DInv => IInv
BY DEF DInv

LEMMA InitDInv == Init => DInv
BY InitIInv DEF Init, DInv, ShowsStored, LaunchedBefore

LEMMA NextDInv == DInv /\ ScannedOnce /\ [Next]_vars => DInv'
<1> SUFFICES ASSUME DInv, ScannedOnce, [Next]_vars PROVE DInv' OBVIOUS
<1>1. IInv' BY NextIInv DEF DInv
<1>2. ASSUME UNCHANGED <<am, memory, history>> PROVE DInv'
  <2>1. \A a, k : Val(State, a, k)' = Val(State, a, k) BY <1>2 DEF memory, State, Val
  <2> QED BY <1>1, <1>2, <2>1 DEF DInv, ShowsStored, LaunchedBefore, Shown, memory, history
<1>3. ASSUME NEW a \in Apps, DesktopChanges(a) PROVE DInv'
  BY <1>2, <1>3 DEF DesktopChanges
<1>4. CASE FileDamaged
  BY <1>2, <1>4 DEF FileDamaged
<1>5. CASE Start
  BY <1>5, StartKeepsShown
<1>6. CASE StartWithoutStorage
  BY <1>1, <1>6, UnstoredShown DEF StartWithoutStorage, Starts
<1>7. ASSUME NEW ok \in BOOLEAN, FinishStart(ok) PROVE DInv'
  BY <1>7, FinishKeepsShown
<1>8. CASE Stop
  BY <1>1, <1>8, UnstoredShown DEF Stop, DInv, history
<1>9. ASSUME NEW a \in Apps, NEW ok \in [Numbers -> BOOLEAN], AddApplication(a, ok) PROVE DInv'
  BY <1>1, <1>9, NewKeepsShown DEF AddApplication
<1>14. ASSUME NEW a \in Apps, NEW ok \in [Numbers -> BOOLEAN], ScanApplication(a, ok) PROVE DInv'
  <2>1. a \notin listed /\ UNCHANGED <<am, m_storage>>
    BY <1>14 DEF ScanApplication, ScannedOnce
  <2>2. CASE NewApplication(a, ok)
    BY <1>1, <2>1, <2>2, NewKeepsShown
  <2>3. CASE UNCHANGED <<storage, file, history, listed, object>>
    BY <1>2, <2>1, <2>3 DEF memory
  <2> QED BY <1>14, <2>2, <2>3 DEF ScanApplication
<1>10. ASSUME NEW a \in Apps, NEW ok \in BOOLEAN, RemoveOneApplication(a, ok) PROVE DInv'
  BY <1>10, RemoveKeepsShown
<1>11. ASSUME NEW a \in Apps, NEW ok \in BOOLEAN, UpdateAfterLaunch(a, ok) PROVE DInv'
  BY <1>11, LaunchKeepsShown
<1>12. ASSUME NEW a \in Apps, NEW v \in Environs, NEW ok \in BOOLEAN, SetEnviron(a, v, ok)
       PROVE  DInv'
  BY <1>12, EnvironKeepsShown
<1>13. CASE UNCHANGED vars
  BY <1>2, <1>13 DEF vars
<1> QED BY <1>3, <1>4, <1>5, <1>6, <1>7, <1>8, <1>9, <1>10, <1>11, <1>12, <1>13,
             <1>14 DEF Next

LEMMA InitScanned == Init => ScannedOnce
BY DEF Init, ScannedOnce

(* What clients read is what a crash and a restart would bring back, if no *)
(* write failed (the constructor, updateAfterLaunch, the setter of Environ *)
(* and removeOneApplication).                                              *)
THEOREM DurableProperties == Spec => []PropertiesDurable
<1>1. DInv => PropertiesDurable
  <2> SUFFICES ASSUME DInv, am = "up", m_storage, allWrites, NEW a \in listed, NEW k \in Keys
               PROVE  object[a][k] = IF k = "Environ" /\ file.values[a][k] = Null
                                     THEN NoEnviron ELSE file.values[a][k]
    BY DEF PropertiesDurable
  <2>1. file = storage.m_data
    BY StateType DEF DInv, IInv, SavedWhenUp, Saved
  <2>2. Val(State, a, k) = file.values[a][k]
    BY <2>1, StateType DEF DInv, IInv, Val
  <2> QED BY <2>2 DEF DInv, ShowsStored, Shown
<1> QED BY <1>1, InitDInv, NextDInv, InitScanned, NextScanned, DInvIInv, PTL DEF Spec

(* An application that the storage does not know and that is added after   *)
(* AM's first launch gets a time of installation.                          *)
THEOREM LaterHasTime == Spec => AddedLaterHasTime
<1> DEFINE Added ==
      \A a \in Apps :
        (/\ am = "up" /\ am' = "up" /\ m_storage
         /\ a \in listed' \ listed
         /\ storage.m_data.values[a]["InstalledTime"] = Null)
        => object'[a]["InstalledTime"] # 0
<1>1. DInv /\ [Next]_vars => Added
  <2> SUFFICES ASSUME DInv, [Next]_vars, NEW a \in Apps,
                      am = "up", am' = "up", m_storage, a \in listed' \ listed,
                      storage.m_data.values[a]["InstalledTime"] = Null
               PROVE  object'[a]["InstalledTime"] # 0
    OBVIOUS
  <2>1. PICK b \in Apps, ok \in [Numbers -> BOOLEAN] : AddApplication(b, ok)
    BY DEF Next, vars, memory, DesktopChanges, FileDamaged, Starts, Start, StartWithoutStorage,
           ScanApplication, FinishStart, Stop, RemoveOneApplication, UpdateAfterLaunch, SetEnviron
  <2>2. object' = [object EXCEPT ![a] = NewObject(State, a, ok)]
    BY <2>1 DEF AddApplication, NewApplication
  <2>3. object'[a] = NewObject(State, a, ok)
    BY <2>2 DEF DInv, IInv, TypeOK
  <2>4. "InstalledTime" \in Keys BY DEF Keys, Numbers
  <2>5. object'[a]["InstalledTime"] = NewProperty(State, a, "InstalledTime", ok)
    BY <2>3, <2>4 DEF NewObject
  <2>6. ~ storage.m_data.firstLaunch /\ State.mem = storage
    BY StateType DEF DInv, IInv, LaunchedBefore
  <2>7. NewProperty(State, a, "InstalledTime", ok) = Cached(State, a, "InstalledTime", Now, ok["InstalledTime"])
    BY <2>6 DEF NewProperty
  <2>8. ~ Has(State, a, "InstalledTime") BY <2>6 DEF Has
  <2> QED BY <2>5, <2>7, <2>8 DEF Cached, Now
<1> QED BY <1>1, InitDInv, NextDInv, InitScanned, NextScanned, DInvIInv, PTL
        DEF Spec, AddedLaterHasTime

-----------------------------------------------------------------------------
(***************************************************************************)
(* The first launch.  Until a start has ended there is no file with        *)
(* contents, because all writes of a start are held back.                  *)
(***************************************************************************)
Batched == (am = "starting" /\ m_storage) => storage.m_batchUpdate = TRUE

Unfinished == ~ finished => file \notin Data /\ (m_storage => am = "starting")

FInv == IInv /\ Batched /\ Unfinished /\ FirstLaunchKept

LEMMA StartKeepsFirst == ASSUME FInv, Start PROVE FInv'
<1>1. IInv' BY StartKeepsIInv DEF FInv
<1>2. /\ storage' = LoadedStorage /\ listed' = {} /\ am' = "starting" /\ finished' = finished
      /\ file' \in {file, Empty} /\ Empty \notin Data
  BY FilesAssumption DEF Start, Starts, FileLoaded, FInv, IInv, NothingWhileDown
<1>3. storage'.m_batchUpdate = TRUE /\ storage'.m_data = Loaded
  BY <1>2, LoadedType DEF FInv
<1>4. ~ finished => Loaded.firstLaunch
  <2>1. ~ finished => file \in {Empty, Garbage} BY DEF FInv, Unfinished, IInv, TypeOK
  <2> QED BY <2>1 DEF Loaded
<1> QED BY <1>1, <1>2, <1>3, <1>4 DEF FInv, Batched, Unfinished, FirstLaunchKept

(* The scan of the start writes nothing, and dates nothing.                *)
LEMMA ScanKeepsFirst ==
  ASSUME FInv, NEW a \in Apps, NEW ok \in [Numbers -> BOOLEAN], ScanApplication(a, ok)
  PROVE  FInv'
<1>1. IInv' BY ScanKeepsIInv DEF FInv
<1>2. am = "starting" /\ am' = "starting" /\ UNCHANGED <<m_storage, finished>>
  BY DEF ScanApplication
<1>3. CASE m_storage /\ NewApplication(a, ok)
  <2> DEFINE s == NewState(State, a, ok)
             o == NewObject(State, a, ok)
  <2>1. State \in SType /\ State.mem = storage /\ State.file = file
    BY StateType DEF FInv, IInv
  <2>2. State.mem.m_batchUpdate = TRUE BY <1>2, <1>3, <2>1 DEF FInv, Batched
  <2>3. Constructs(State, s, a) /\ Settles(State, s)
    BY <2>1, NewConstructs, NewShown
  <2>4. storage.m_data.firstLaunch => o["InstalledTime"] = 0
    <3>1. "InstalledTime" \in Keys BY DEF Keys, Numbers
    <3>2. o["InstalledTime"] = NewProperty(State, a, "InstalledTime", ok)
      BY <3>1 DEF NewObject
    <3> QED BY <2>1, <2>2, <3>2 DEF NewProperty, Written
  <2>5. /\ Becomes(s)
        /\ \/ listed' = listed \cup {a} /\ object' = [object EXCEPT ![a] = o]
           \/ UNCHANGED <<listed, object>>
    BY <1>3 DEF NewApplication
  <2> HIDE DEF s, o
  <2>6. /\ storage'.m_batchUpdate = TRUE /\ file' = file
        /\ storage'.m_data.firstLaunch = storage.m_data.firstLaunch
    BY <2>1, <2>2, <2>3, <2>5 DEF Becomes, Constructs, Settles
  <2>7. object \in [Apps -> [Keys -> Value]] /\ listed \subseteq Apps
    BY DEF FInv, IInv, TypeOK, Value
  <2>8. FirstLaunchKept'
    BY <1>2, <2>4, <2>5, <2>6, <2>7 DEF FInv, FirstLaunchKept
  <2> QED BY <1>1, <1>2, <2>6, <2>8 DEF FInv, Batched, Unfinished
<1>4. CASE ~ m_storage /\ NewApplication(a, ok)
  <2>1. file' = file BY <1>4 DEF NewApplication
  <2> QED BY <1>1, <1>2, <1>4, <2>1 DEF FInv, Batched, Unfinished, FirstLaunchKept
<1>5. CASE UNCHANGED <<storage, file, history, listed, object>>
  BY <1>1, <1>2, <1>5 DEF FInv, Batched, Unfinished, FirstLaunchKept
<1> QED BY <1>3, <1>4, <1>5 DEF ScanApplication

LEMMA NextFInv == FInv /\ [Next]_vars => FInv'
<1> SUFFICES ASSUME FInv, [Next]_vars PROVE FInv' OBVIOUS
<1>1. IInv' BY NextIInv DEF FInv
<1>2. ASSUME UNCHANGED <<am, file, m_storage, storage, listed, object, finished>> PROVE FInv'
  BY <1>1, <1>2 DEF FInv, Batched, Unfinished, FirstLaunchKept
<1>3. ASSUME am = "up", am' = "up", UNCHANGED <<m_storage, finished>>,
             ~ m_storage => file' = file
      PROVE  FInv'
  BY <1>1, <1>3 DEF FInv, Batched, Unfinished, FirstLaunchKept
<1>4. ASSUME NEW a \in Apps, DesktopChanges(a) PROVE FInv'
  BY <1>2, <1>4 DEF DesktopChanges, memory
<1>5. CASE FileDamaged
  <2>1. file' \notin Data BY <1>5, FilesAssumption DEF FileDamaged
  <2>2. m_storage' = FALSE /\ am' = "down"
    BY <1>5 DEF FileDamaged, memory, FInv, IInv, NothingWhileDown
  <2> QED BY <1>1, <2>1, <2>2 DEF FInv, Batched, Unfinished, FirstLaunchKept
<1>6. CASE Start
  BY <1>6, StartKeepsFirst
<1>7. CASE StartWithoutStorage
  BY <1>1, <1>7 DEF StartWithoutStorage, Starts, FInv, Batched, Unfinished, FirstLaunchKept
<1>8. ASSUME NEW a \in Apps, NEW ok \in [Numbers -> BOOLEAN], ScanApplication(a, ok) PROVE FInv'
  BY <1>8, ScanKeepsFirst
<1>9. ASSUME NEW ok \in BOOLEAN, FinishStart(ok) PROVE FInv'
  BY <1>1, <1>9 DEF FinishStart, FInv, Batched, Unfinished, FirstLaunchKept
<1>10. CASE Stop
  BY <1>1, <1>10 DEF Stop, disk, FInv, Batched, Unfinished, FirstLaunchKept
<1>11. ASSUME NEW a \in Apps, NEW ok \in [Numbers -> BOOLEAN], AddApplication(a, ok) PROVE FInv'
  BY <1>3, <1>11 DEF AddApplication, NewApplication
<1>12. ASSUME NEW a \in Apps, NEW ok \in BOOLEAN, RemoveOneApplication(a, ok) PROVE FInv'
  BY <1>3, <1>12 DEF RemoveOneApplication
<1>13. ASSUME NEW a \in Apps, NEW ok \in BOOLEAN, UpdateAfterLaunch(a, ok) PROVE FInv'
  BY <1>3, <1>13 DEF UpdateAfterLaunch
<1>14. ASSUME NEW a \in Apps, NEW v \in Environs, NEW ok \in BOOLEAN, SetEnviron(a, v, ok)
       PROVE  FInv'
  BY <1>3, <1>14 DEF SetEnviron
<1>15. CASE UNCHANGED vars
  BY <1>2, <1>15 DEF vars, disk, memory
<1> QED BY <1>4, <1>5, <1>6, <1>7, <1>8, <1>9, <1>10, <1>11, <1>12, <1>13, <1>14, <1>15 DEF Next

(* A first launch that is interrupted, wherever the start crashed, is a    *)
(* first launch again (beginBatchUpdate, writeToFile, the constructor of   *)
(* the objects and createApplicationManager1Storage).                      *)
THEOREM InterruptedFirstLaunch == Spec => []FirstLaunchKept
<1>1. Init => FInv
  BY InitIInv, FilesAssumption DEF Init, FInv, Batched, Unfinished, FirstLaunchKept
<1>2. FInv => FirstLaunchKept BY DEF FInv
<1> QED BY <1>1, <1>2, NextFInv, PTL DEF Spec

=============================================================================
