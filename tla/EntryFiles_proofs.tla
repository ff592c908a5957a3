------------------------- MODULE EntryFiles_proofs -------------------------
(***************************************************************************)
(* Proofs about EntryFiles: the type invariant, that a file of any length  *)
(* is read if and only if its lines are in form, and as what they mean,    *)
(* and that what AM writes is read as what it wrote.                       *)
(***************************************************************************)
EXTENDS EntryFiles, FiniteSetTheorems, TLAPS

-----------------------------------------------------------------------------
(***************************************************************************)
(* Numbers and sequences.                                                  *)
(***************************************************************************)
LEMMA LeastNumber ==
  ASSUME NEW T, T \subseteq Nat, T # {}
  PROVE  \E x \in T : \A y \in T : x <= y
<1> DEFINE R == {p \in Nat \X Nat : p[1] < p[2]}
<1>1. OpToRel(<, Nat) = R
  BY Zenon DEF OpToRel
<1>2. IsWellFoundedOn(OpToRel(<, Nat), Nat)
  BY NatLessThanWellFounded, Zenon
<1>3. IsWellFoundedOn(R, Nat)
  <2> HIDE DEF R
  <2> QED
    BY <1>1, <1>2, Zenon
<1>4. \A x, y \in Nat : y < x => <<y, x>> \in R
  OBVIOUS
<1> HIDE DEF R
<1>5. PICK x \in T : \A y \in T : ~(<<y, x>> \in R)
  BY <1>3, WFMin
<1>6. ASSUME NEW y \in T PROVE x <= y
  <2>1. x \in Nat /\ y \in Nat
    OBVIOUS
  <2>2. ~(y < x)
    BY <2>1, <1>4, <1>5, Zenon
  <2> QED
    BY <2>1, <2>2
<1> QED
  BY <1>6

LEMMA GreatestNumber ==
  ASSUME NEW n \in Nat, NEW T, T \subseteq 0..n, T # {}
  PROVE  \E x \in T : \A y \in T : y <= x
<1> DEFINE U == {n - x : x \in T}
<1>1. U \subseteq Nat /\ U # {}
  <2>1. \A x \in T : x \in 0..n /\ n - x \in Nat
    OBVIOUS
  <2>2. U \subseteq Nat
    BY <2>1
  <2>3. PICK x \in T : TRUE
    OBVIOUS
  <2>4. n - x \in U
    BY <2>3
  <2> QED
    BY <2>2, <2>4, Zenon
<1>2. PICK u \in U : \A v \in U : u <= v
  <2> HIDE DEF U
  <2> QED
    BY <1>1, LeastNumber
<1>3. PICK x \in T : u = n - x
  OBVIOUS
<1>4. ASSUME NEW y \in T PROVE y <= x
  <2>1. n - y \in U
    OBVIOUS
  <2>2. n - x <= n - y
    BY <1>2, <1>3, <2>1
  <2> QED
    BY <2>2
<1> QED
  BY <1>4

(* The recursive function of FlattenSeq exists ...                         *)
FlattensTo(ss, m, f) == f = [i \in 1..m |-> IF i = 1 THEN ss[i] ELSE f[i-1] \o ss[i]]

LEMMA FlattenNext ==
  ASSUME NEW ss, NEW m \in Nat, m > 1, NEW f, FlattensTo(ss, m - 1, f)
  PROVE  \E g : FlattensTo(ss, m, g)
<1> DEFINE g == [i \in 1..m |-> IF i = m THEN f[m-1] \o ss[m] ELSE f[i]]
<1>1. \A i \in 1..(m-1) : f[i] = IF i = 1 THEN ss[i] ELSE f[i-1] \o ss[i]
  BY DEF FlattensTo
<1>2. /\ g = [i \in 1..m |-> g[i]]
      /\ g[m] = f[m-1] \o ss[m]
      /\ \A i \in 1..(m-1) : g[i] = f[i]
  <2>1. g = [i \in 1..m |-> g[i]]
    BY Zenon
  <2>2. g[m] = f[m-1] \o ss[m]
    <3>1. m \in 1..m
      OBVIOUS
    <3> QED
      BY <3>1, Zenon
  <2>3. ASSUME NEW i \in 1..(m-1) PROVE g[i] = f[i]
    <3>1. i \in 1..m /\ i # m
      OBVIOUS
    <3> QED
      BY <3>1, Zenon
  <2> QED
    BY <2>1, <2>2, <2>3, Zenon
<1> HIDE DEF g
<1>3. ASSUME NEW i \in 1..m PROVE g[i] = IF i = 1 THEN ss[i] ELSE g[i-1] \o ss[i]
  <2>1. CASE i = m
    <3>1. m - 1 \in 1..(m-1) /\ m # 1
      OBVIOUS
    <3>2. g[m-1] = f[m-1]
      BY <1>2, <3>1, Zenon
    <3> QED
      BY <1>2, <2>1, <3>1, <3>2, Zenon
  <2>2. CASE i # m
    <3>1. i \in 1..(m-1) /\ (i # 1 => i - 1 \in 1..(m-1))
      BY <2>2
    <3> QED
      BY <3>1, <1>1, <1>2
  <2> QED
    BY <2>1, <2>2
<1>4. g = [i \in 1..m |-> IF i = 1 THEN ss[i] ELSE g[i-1] \o ss[i]]
  BY <1>2, <1>3
<1> QED
  BY <1>4 DEF FlattensTo

LEMMA FlattenExists ==
  ASSUME NEW ss, Len(ss) \in Nat \ {0}
  PROVE  \E f : FlattensTo(ss, Len(ss), f)
<1> DEFINE Has(m) == \E f : FlattensTo(ss, m, f)
           T == {m \in 1..Len(ss) : ~Has(m)}
<1>1. Has(1)
  <2> DEFINE f == [i \in 1..1 |-> ss[1]]
  <2>1. FlattensTo(ss, 1, f)
    BY DEF FlattensTo
  <2> QED
    BY <2>1
<1>2. \A m \in Nat : m > 1 /\ Has(m - 1) => Has(m)
  BY FlattenNext
<1> HIDE DEF Has
<1>3. ASSUME T # {} PROVE FALSE
  <2>1. T \subseteq Nat
    OBVIOUS
  <2>2. PICK m \in T : \A k \in T : m <= k
    <3> HIDE DEF T
    <3> QED
      BY <1>3, <2>1, LeastNumber
  <2>3. m \in 1..Len(ss) /\ ~Has(m) /\ m # 1
    BY <1>1
  <2>4. m - 1 \in 1..Len(ss) /\ m - 1 \notin T
    BY <2>2, <2>3
  <2> QED
    BY <2>3, <2>4, <1>2
<1>4. Has(Len(ss))
  BY <1>3
<1> QED
  BY <1>4 DEF Has

(* ... its steps are sequences over the set of its parts,                  *)
LEMMA FlattenSteps ==
  ASSUME NEW S, NEW ss \in Seq(Seq(S)), Len(ss) # 0
  PROVE  \E f \in [1..Len(ss) -> Seq(S)] :
           /\ FlattenSeq(ss) = f[Len(ss)] /\ f[1] = ss[1]
           /\ \A i \in 2..Len(ss) : f[i] = f[i-1] \o ss[i]
<1> DEFINE f == CHOOSE f : FlattensTo(ss, Len(ss), f)
           T == {i \in 1..Len(ss) : f[i] \notin Seq(S)}
<1>1. Len(ss) \in Nat \ {0}
  OBVIOUS
<1>2. FlattensTo(ss, Len(ss), f)
  BY <1>1, FlattenExists
<1>3. FlattenSeq(ss) = f[Len(ss)]
  BY DEF FlattenSeq, FlattensTo
<1> HIDE DEF f
<1>4. /\ \A i \in 1..Len(ss) : f[i] = IF i = 1 THEN ss[i] ELSE f[i-1] \o ss[i]
      /\ f = [i \in 1..Len(ss) |-> f[i]]
  BY <1>2 DEF FlattensTo
<1>5. T = {}
  <2>1. SUFFICES ASSUME T # {} PROVE FALSE
    OBVIOUS
  <2>2. PICK m \in T : \A k \in T : m <= k
    <3>1. T \subseteq Nat
      OBVIOUS
    <3> HIDE DEF T
    <3> QED
      BY <2>1, <3>1, LeastNumber
  <2>3. m \in 1..Len(ss) /\ ss[m] \in Seq(S) /\ f[m] \notin Seq(S)
    OBVIOUS
  <2>4. m # 1 /\ f[m] = f[m-1] \o ss[m]
    BY <2>3, <1>4
  <2>5. m - 1 \in 1..Len(ss) /\ m - 1 \notin T
    BY <2>2, <2>3, <2>4
  <2>6. f[m-1] \in Seq(S)
    BY <2>5
  <2> QED
    BY <2>3, <2>4, <2>6
<1>6. f \in [1..Len(ss) -> Seq(S)]
  BY <1>4, <1>5
<1>7. f[1] = ss[1] /\ \A i \in 2..Len(ss) : f[i] = f[i-1] \o ss[i]
  <2>1. 1 \in 1..Len(ss) /\ \A i \in 2..Len(ss) : i \in 1..Len(ss) /\ i # 1
    BY <1>1
  <2> QED
    BY <1>4, <2>1, Zenon
<1> QED
  BY <1>3, <1>6, <1>7

(* ... and so is FlattenSeq.                                               *)
LEMMA FlattenType ==
  ASSUME NEW S, NEW ss \in Seq(Seq(S))
  PROVE  FlattenSeq(ss) \in Seq(S)
<1>1. CASE Len(ss) = 0
  <2>1. ss = <<>>
    BY <1>1
  <2> QED
    BY <1>1, <2>1 DEF FlattenSeq
<1>2. CASE Len(ss) # 0
  <2>1. \E f \in [1..Len(ss) -> Seq(S)] : FlattenSeq(ss) = f[Len(ss)]
    BY <1>2, FlattenSteps
  <2>2. Len(ss) \in 1..Len(ss)
    BY <1>2
  <2> QED
    BY <2>1, <2>2
<1> QED
  BY <1>1, <1>2

(* The members of a finite set in some order. *)
LEMMA SetToSeqType ==
  ASSUME NEW S, IsFiniteSet(S)
  PROVE  SetToSeq(S) \in Seq(S)
<1>1. Cardinality(S) \in Nat /\ ExistsBijection(1..Cardinality(S), S)
  BY FS_CardinalityType
<1>2. PICK f \in [1..Cardinality(S) -> S] : IsInjective(f)
  BY <1>1 DEF ExistsBijection, Bijection, Injection
<1>3. SetToSeq(S) \in [1..Cardinality(S) -> S]
  BY <1>2 DEF SetToSeq
<1> QED
  BY <1>1, <1>3

LEMMA ImageFinite ==
  ASSUME NEW S, IsFiniteSet(S), NEW f, f = [x \in S |-> f[x]]
  PROVE  IsFiniteSet({f[x] : x \in S})
<1> DEFINE T == {f[x] : x \in S}
<1>1. f \in Surjection(S, T)
  BY DEF Surjection
<1> HIDE DEF T
<1>2. IsFiniteSet(T)
  BY <1>1, FS_Surjection
<1> QED
  BY <1>2 DEF T

-----------------------------------------------------------------------------
(***************************************************************************)
(* Types of lines, maps and texts.                                         *)
(***************************************************************************)
LEMMA LineTypes ==
  /\ Blank \in FileLine
  /\ \A name \in Words : Header(name) \in FileLine
  /\ \A key, locale \in Strings : \A value \in Words : Entry(key, locale, value) \in FileLine
  /\ NoLine \notin FileLine /\ ~BeginsGroup(NoLine)
<1>1. <<>> \in Words /\ "" \in Strings
  <2>1. <<>> \in Words
    BY DEF Words
  <2>2. "" \in Strings
    BY StringsAssumption, Zenon
  <2> QED
    BY <2>1, <2>2
<1>2. Blank \in FileLine
  BY <1>1 DEF Blank, Line, FileLine
<1>3. \A name \in Words : Header(name) \in FileLine
  BY <1>1 DEF Header, Line, FileLine
<1>4. \A key, locale \in Strings : \A value \in Words : Entry(key, locale, value) \in FileLine
  BY <1>1 DEF Entry, Line, FileLine
<1>5. NoLine.kind = "none"
  BY DEF NoLine, Line
<1>6. NoLine \notin FileLine /\ ~BeginsGroup(NoLine)
  BY <1>5 DEF FileLine, BeginsGroup
<1> QED
  BY <1>2, <1>3, <1>4, <1>6

LEMMA LineFields ==
  ASSUME NEW l \in FileLine
  PROVE  /\ l.kind \in {"header", "broken", "entry", "blank", "junk"}
         /\ l.name \in Words /\ l.key \in Strings /\ l.locale \in Strings /\ l.value \in Words
BY DEF FileLine

LEMMA NameTypes ==
  /\ Main \in Words /\ Main # <<>> /\ <<"Default Applications">> \in Words
  /\ \A a \in Strings : ActionGroup(a) \in Words /\ ActionGroup(a)[2] = a /\ ActionGroup(a) # Main
<1>1. \A a \in Strings : <<a>> \in Seq(Strings) /\ <<a>> # <<>>
  OBVIOUS
<1>2. \A a, b \in Strings : <<a, b>> \in Seq(Strings) /\ <<a, b>>[2] = b
  OBVIOUS
<1>3. Main \in Words /\ Main # <<>> /\ <<"Default Applications">> \in Words
  BY <1>1, StringsAssumption DEF Main, Words
<1>4. ASSUME NEW a \in Strings PROVE ActionGroup(a) # Main
  <2>1. Len(ActionGroup(a)) = 2 /\ Len(Main) = 1
    BY DEF ActionGroup, Main
  <2> QED
    BY <2>1
<1>5. \A a \in Strings : ActionGroup(a) \in Words /\ ActionGroup(a)[2] = a
  BY <1>2, StringsAssumption DEF ActionGroup, Words
<1> QED
  BY <1>3, <1>4, <1>5

LEMMA EmptyTypes ==
  /\ DOMAIN Empty = {} /\ TextMap(Empty)
  /\ \A localized : EntriesType(Empty, localized) /\ ContentType(Empty, localized)
<1>1. DOMAIN Empty = {} /\ Empty = [k \in {} |-> Empty[k]] /\ Empty \in [{} -> Words]
  BY DEF Empty
<1> QED
  BY <1>1, FS_EmptySet DEF TextMap, EntriesType, ContentType

LEMMA PutText ==
  ASSUME NEW texts, TextMap(texts), NEW k \in Strings, NEW v \in Words
  PROVE  TextMap(Put(texts, k, v)) /\ DOMAIN Put(texts, k, v) = DOMAIN texts \cup {k}
<1>1. IsFiniteSet(DOMAIN texts \cup {k})
  BY FS_AddElement DEF TextMap
<1> QED
  BY <1>1 DEF TextMap, Put

LEMMA OneText ==
  ASSUME NEW v \in Words
  PROVE  TextMap([d \in {"default"} |-> v]) /\ DOMAIN [d \in {"default"} |-> v] = {"default"}
<1> DEFINE one == [d \in {"default"} |-> v]
<1>1. one \in [{"default"} -> Words] /\ DOMAIN one = {"default"}
  OBVIOUS
<1>2. IsFiniteSet({"default"}) /\ {"default"} \subseteq Strings
  BY FS_Singleton, StringsAssumption
<1> HIDE DEF one
<1>3. TextMap(one)
  BY <1>1, <1>2 DEF TextMap
<1> QED
  BY <1>1, <1>3 DEF one

LEMMA TextOfMap ==
  ASSUME NEW texts, TextMap(texts), NEW k \in DOMAIN texts
  PROVE  texts[k] \in Words /\ k \in Strings
BY DEF TextMap

LEMMA PutEntries ==
  ASSUME NEW entries, NEW localized, EntriesType(entries, localized),
         NEW k \in Strings, NEW v, TextMap(v), k \notin localized => DOMAIN v = {"default"}
  PROVE  EntriesType(Put(entries, k, v), localized)
<1>1. IsFiniteSet(DOMAIN entries \cup {k})
  BY FS_AddElement DEF EntriesType
<1>2. /\ DOMAIN Put(entries, k, v) = DOMAIN entries \cup {k}
      /\ \A x \in DOMAIN entries \cup {k} : Put(entries, k, v)[x] = IF x = k THEN v ELSE entries[x]
  BY DEF Put
<1>3. Put(entries, k, v) = [x \in DOMAIN Put(entries, k, v) |-> Put(entries, k, v)[x]]
  BY DEF Put
<1>4. DOMAIN entries \cup {k} \subseteq Strings
  BY DEF EntriesType
<1>5. \A x \in DOMAIN entries \cup {k} :
        TextMap(Put(entries, k, v)[x]) /\ (x \notin localized => DOMAIN Put(entries, k, v)[x] = {"default"})
  BY <1>2 DEF EntriesType
<1> QED
  BY <1>1, <1>2, <1>3, <1>4, <1>5 DEF EntriesType

LEMMA PutContent ==
  ASSUME NEW content, NEW localized, ContentType(content, localized),
         NEW g \in Words, NEW entries, EntriesType(entries, localized)
  PROVE  ContentType(Put(content, g, entries), localized) /\ DOMAIN Put(content, g, entries) = DOMAIN content \cup {g}
<1>1. IsFiniteSet(DOMAIN content \cup {g})
  BY FS_AddElement DEF ContentType
<1>2. /\ DOMAIN Put(content, g, entries) = DOMAIN content \cup {g}
      /\ \A x \in DOMAIN content \cup {g} : Put(content, g, entries)[x] = IF x = g THEN entries ELSE content[x]
      /\ Put(content, g, entries) = [x \in DOMAIN Put(content, g, entries) |-> Put(content, g, entries)[x]]
  BY DEF Put
<1>3. DOMAIN content \cup {g} \subseteq Words
  BY DEF ContentType
<1>4. \A x \in DOMAIN content \cup {g} : EntriesType(Put(content, g, entries)[x], localized)
  BY <1>2 DEF ContentType
<1> QED
  BY <1>1, <1>2, <1>3, <1>4 DEF ContentType

LEMMA ReplaceContent ==
  ASSUME NEW content, NEW localized, ContentType(content, localized),
         NEW g \in DOMAIN content, NEW entries, EntriesType(entries, localized)
  PROVE  /\ ContentType([content EXCEPT ![g] = entries], localized)
         /\ DOMAIN [content EXCEPT ![g] = entries] = DOMAIN content
<1> DEFINE c == [content EXCEPT ![g] = entries]
<1>1. DOMAIN c = DOMAIN content /\ c = [x \in DOMAIN c |-> c[x]]
  BY DEF ContentType
<1>2. \A x \in DOMAIN content : c[x] = IF x = g THEN entries ELSE content[x]
  BY DEF ContentType
<1> HIDE DEF c
<1>3. \A x \in DOMAIN c : EntriesType(c[x], localized)
  BY <1>1, <1>2 DEF ContentType
<1>4. ContentType(c, localized)
  BY <1>1, <1>3 DEF ContentType
<1> QED
  BY <1>1, <1>4 DEF c

-----------------------------------------------------------------------------
(***************************************************************************)
(* What AM writes is a file.                                               *)
(***************************************************************************)
LEMMA ApplicationsType ==
  ASSUME NEW value \in Words
  PROVE  Applications(value) \in Words
<1> DEFINE parts == [i \in DOMAIN value |-> IF value[i] # "" THEN <<value[i]>> ELSE <<>>]
<1>1. parts \in Seq(Seq(Strings))
  <2>1. value \in Seq(Strings) /\ Len(value) \in Nat /\ DOMAIN value = 1..Len(value)
    BY DEF Words
  <2>2. ASSUME NEW i \in 1..Len(value) PROVE (IF value[i] # "" THEN <<value[i]>> ELSE <<>>) \in Seq(Strings)
    <3>1. value[i] \in Strings
      BY <2>1
    <3>2. <<value[i]>> \in Seq(Strings) /\ <<>> \in Seq(Strings)
      BY <3>1
    <3> QED
      BY <3>2
  <2>3. parts \in [1..Len(value) -> Seq(Strings)]
    BY <2>1, <2>2
  <2> HIDE DEF parts
  <2> QED
    BY <2>1, <2>3
<1>2. Applications(value) = FlattenSeq(parts)
  BY DEF Applications, Keep
<1> HIDE DEF parts
<1> QED
  BY <1>1, <1>2, FlattenType DEF Words

LEMMA ActionsOfType ==
  ASSUME NEW content, ContentType(content, LocaleKeys), Main \in DOMAIN content
  PROVE  ActionsOf(content) \in Words
<1>1. CASE "Actions" \in DOMAIN content[Main]
  <2>1. EntriesType(content[Main], LocaleKeys)
    BY DEF ContentType
  <2>2. TextMap(content[Main]["Actions"]) /\ DOMAIN content[Main]["Actions"] = {"default"}
    BY <1>1, <2>1 DEF EntriesType, LocaleKeys
  <2> DEFINE value == content[Main]["Actions"]["default"]
  <2>3. value \in Words
    BY <2>2, TextOfMap
  <2>4. ActionsOf(content) = Applications(value)
    BY <1>1 DEF ActionsOf, Applications
  <2> HIDE DEF value
  <2> QED
    BY <2>3, <2>4, ApplicationsType
<1>2. CASE "Actions" \notin DOMAIN content[Main]
  BY <1>2 DEF ActionsOf, Words
<1> QED
  BY <1>1, <1>2

LEMMA EntryLinesType ==
  ASSUME NEW key \in Strings, NEW texts, TextMap(texts)
  PROVE  EntryLines(key, texts) \in Seq(FileLine)
<1> DEFINE locales == SetToSeq(DOMAIN texts)
           lines == [i \in DOMAIN locales |-> Entry(key, locales[i], texts[locales[i]])]
<1>1. locales \in Seq(DOMAIN texts)
  BY SetToSeqType DEF TextMap
<1>2. EntryLines(key, texts) = lines
  BY DEF EntryLines
<1> HIDE DEF locales
<1>3. \A i \in 1..Len(locales) : locales[i] \in DOMAIN texts
  BY <1>1
<1>4. \A i \in 1..Len(locales) : Entry(key, locales[i], texts[locales[i]]) \in FileLine
  BY <1>3, TextOfMap, LineTypes
<1>5. lines \in [1..Len(locales) -> FileLine]
  BY <1>1, <1>4
<1>6. Len(locales) \in Nat
  BY <1>1
<1> HIDE DEF lines
<1>7. lines \in Seq(FileLine)
  BY <1>5, <1>6
<1> QED
  BY <1>2, <1>7

LEMMA GroupLinesType ==
  ASSUME NEW name \in Words, NEW entries, NEW localized, EntriesType(entries, localized)
  PROVE  GroupLines(name, entries) \in Seq(FileLine)
<1> DEFINE keys == SetToSeq(DOMAIN entries)
           parts == [i \in DOMAIN keys |-> EntryLines(keys[i], entries[keys[i]])]
<1>1. keys \in Seq(DOMAIN entries)
  BY SetToSeqType DEF EntriesType
<1>2. GroupLines(name, entries) = <<Header(name)>> \o FlattenSeq(parts) \o <<Blank>>
  BY DEF GroupLines
<1> HIDE DEF keys
<1>3. \A i \in 1..Len(keys) : keys[i] \in DOMAIN entries
  BY <1>1
<1>4. \A i \in 1..Len(keys) : EntryLines(keys[i], entries[keys[i]]) \in Seq(FileLine)
  BY <1>3, EntryLinesType DEF EntriesType
<1>5. parts \in [1..Len(keys) -> Seq(FileLine)] /\ Len(keys) \in Nat
  BY <1>1, <1>4
<1>6. parts \in Seq(Seq(FileLine))
  BY <1>5
<1> HIDE DEF parts
<1>7. FlattenSeq(parts) \in Seq(FileLine)
  BY <1>6, FlattenType
<1>8. <<Header(name)>> \in Seq(FileLine) /\ <<Blank>> \in Seq(FileLine)
  BY LineTypes
<1> QED
  BY <1>2, <1>7, <1>8

(* The groups of a content that a sequence of names lists. *)
LEMMA GroupsLinesType ==
  ASSUME NEW content, NEW localized, ContentType(content, localized), NEW names \in Seq(DOMAIN content)
  PROVE  FlattenSeq([i \in DOMAIN names |-> GroupLines(names[i], content[names[i]])]) \in Seq(FileLine)
<1> DEFINE parts == [i \in DOMAIN names |-> GroupLines(names[i], content[names[i]])]
<1>1. \A i \in 1..Len(names) : names[i] \in DOMAIN content
  OBVIOUS
<1>2. \A i \in 1..Len(names) : GroupLines(names[i], content[names[i]]) \in Seq(FileLine)
  BY <1>1, GroupLinesType DEF ContentType
<1>3. parts \in [1..Len(names) -> Seq(FileLine)] /\ Len(names) \in Nat
  BY <1>2
<1>4. parts \in Seq(Seq(FileLine))
  BY <1>3
<1> HIDE DEF parts
<1>5. FlattenSeq(parts) \in Seq(FileLine)
  BY <1>4, FlattenType
<1> QED
  BY <1>5 DEF parts

LEMMA DesktopTextType ==
  ASSUME NEW content, ContentType(content, LocaleKeys), Main \in DOMAIN content
  PROVE  DesktopText(content) \in Seq(FileLine)
<1> DEFINE actions == ActionsOf(content)
           parts == [i \in DOMAIN actions |-> IF ActionGroup(actions[i]) \in DOMAIN content THEN <<actions[i]>> ELSE <<>>]
           named == Keep(actions, LAMBDA a : ActionGroup(a) \in DOMAIN content)
           names == [i \in DOMAIN named |-> ActionGroup(named[i])]
           rest == {g \in DOMAIN content : g # Main /\ ~IsAction(g)}
           others == SetToSeq(rest)
           A == {a \in Strings : ActionGroup(a) \in DOMAIN content}
<1>1. actions \in Seq(Strings)
  BY ActionsOfType DEF Words
<1>2. named \in Seq(A)
  <2>1. named = FlattenSeq(parts)
    BY DEF Keep
  <2> HIDE DEF actions
  <2>2. ASSUME NEW i \in 1..Len(actions)
        PROVE (IF ActionGroup(actions[i]) \in DOMAIN content THEN <<actions[i]>> ELSE <<>>) \in Seq(A)
    <3>1. actions[i] \in Strings
      BY <1>1
    <3>2. <<>> \in Seq(A) /\ (actions[i] \in A => <<actions[i]>> \in Seq(A))
      OBVIOUS
    <3> QED
      BY <3>1, <3>2
  <2>3. parts \in [1..Len(actions) -> Seq(A)] /\ Len(actions) \in Nat
    BY <1>1, <2>2
  <2>4. parts \in Seq(Seq(A))
    BY <2>3
  <2> HIDE DEF parts, A
  <2> QED
    BY <2>1, <2>4, FlattenType
<1>3. others \in Seq(DOMAIN content)
  <2>1. IsFiniteSet(rest)
    BY FS_Subset DEF ContentType
  <2>2. others \in Seq(rest)
    BY <2>1, SetToSeqType
  <2> QED
    BY <2>2
<1>4. DesktopText(content) = GroupLines(Main, content[Main])
        \o FlattenSeq([i \in DOMAIN named |-> GroupLines(ActionGroup(named[i]), content[ActionGroup(named[i])])])
        \o FlattenSeq([i \in DOMAIN others |-> GroupLines(others[i], content[others[i]])])
  BY DEF DesktopText
<1> HIDE DEF named, others
<1>5. names \in Seq(DOMAIN content)
  <2>1. \A i \in 1..Len(named) : ActionGroup(named[i]) \in DOMAIN content
    BY <1>2
  <2>2. names \in [1..Len(named) -> DOMAIN content] /\ Len(named) \in Nat
    BY <1>2, <2>1
  <2> QED
    BY <2>2
<1>6. FlattenSeq([i \in DOMAIN names |-> GroupLines(names[i], content[names[i]])])
        = FlattenSeq([i \in DOMAIN named |-> GroupLines(ActionGroup(named[i]), content[ActionGroup(named[i])])])
  OBVIOUS
<1> HIDE DEF names
<1>7. GroupLines(Main, content[Main]) \in Seq(FileLine)
  BY GroupLinesType, NameTypes DEF ContentType
<1>8. FlattenSeq([i \in DOMAIN names |-> GroupLines(names[i], content[names[i]])]) \in Seq(FileLine)
  BY <1>5, GroupsLinesType
<1>9. FlattenSeq([i \in DOMAIN others |-> GroupLines(others[i], content[others[i]])]) \in Seq(FileLine)
  BY <1>3, GroupsLinesType
<1> QED
  BY <1>4, <1>6, <1>7, <1>8, <1>9

(* The semicolons that a list is written with. *)
Ended(entries) ==
  [k \in DOMAIN entries |-> [d \in {"default"} |-> IF entries[k][d] = <<>> THEN <<>> ELSE Append(entries[k][d], "")]]

LEMMA EndedType ==
  ASSUME NEW entries, EntriesType(entries, {})
  PROVE  EntriesType(Ended(entries), {})
<1>1. ASSUME NEW k \in DOMAIN entries PROVE TextMap(Ended(entries)[k]) /\ DOMAIN Ended(entries)[k] = {"default"}
  <2> DEFINE v == IF entries[k]["default"] = <<>> THEN <<>> ELSE Append(entries[k]["default"], "")
  <2>1. entries[k]["default"] \in Words
    BY TextOfMap DEF EntriesType
  <2>2. "" \in Strings
    BY StringsAssumption, Zenon
  <2>3. v \in Words
    <3>1. <<>> \in Words
      BY DEF Words
    <3>2. \A s \in Seq(Strings) : \A x \in Strings : Append(s, x) \in Seq(Strings)
      OBVIOUS
    <3>3. Append(entries[k]["default"], "") \in Words
      BY <2>1, <2>2, <3>2, Zenon DEF Words
    <3> QED
      BY <3>1, <3>3
  <2>4. Ended(entries)[k] = [d \in {"default"} |-> v]
    BY DEF Ended
  <2> HIDE DEF v
  <2> QED
    BY <2>3, <2>4, OneText
<1>2. DOMAIN Ended(entries) = DOMAIN entries /\ Ended(entries) = [k \in DOMAIN Ended(entries) |-> Ended(entries)[k]]
  BY DEF Ended
<1> QED
  BY <1>1, <1>2 DEF EntriesType

LEMMA ListTextType ==
  ASSUME NEW content, ContentType(content, {})
  PROVE  ListText(content) \in Seq(FileLine)
<1> DEFINE names == SetToSeq(DOMAIN content)
           ended(entries) == [k \in DOMAIN entries |->
                               [d \in {"default"} |-> IF entries[k][d] = <<>> THEN <<>> ELSE Append(entries[k][d], "")]]
           parts == [i \in DOMAIN names |-> GroupLines(names[i], ended(content[names[i]]))]
<1>1. names \in Seq(DOMAIN content)
  BY SetToSeqType DEF ContentType
<1>2. ListText(content) = FlattenSeq(parts)
  BY DEF ListText
<1>3. \A entries : EntriesType(entries, {}) => EntriesType(ended(entries), {})
  BY EndedType DEF Ended
<1> HIDE DEF names, ended
<1>4. \A i \in 1..Len(names) : names[i] \in DOMAIN content
  BY <1>1
<1>5. \A i \in 1..Len(names) : names[i] \in Words /\ EntriesType(ended(content[names[i]]), {})
  BY <1>3, <1>4 DEF ContentType
<1>6. \A i \in 1..Len(names) : GroupLines(names[i], ended(content[names[i]])) \in Seq(FileLine)
  BY <1>5, GroupLinesType
<1>7. parts \in [1..Len(names) -> Seq(FileLine)] /\ Len(names) \in Nat
  BY <1>1, <1>6
<1>8. parts \in Seq(Seq(FileLine))
  BY <1>7
<1> HIDE DEF parts
<1> QED
  BY <1>2, <1>8, FlattenType

(* The content that is generated for a request that is not refused. *)
LEMMA ActionListType ==
  ASSUME NEW r, RequestType(r)
  PROVE  IsFiniteSet(Actions(r)) /\ Actions(r) \subseteq Strings
<1>1. ActionList(r) \in Seq(Strings)
  <2>1. "all of it" \in Strings /\ "" \in Strings
    BY StringsAssumption, Zenon
  <2>2. <<"all of it">> \in Seq(Strings) /\ <<"">> \in Seq(Strings)
    <3>1. \A x \in Strings : <<x>> \in Seq(Strings)
      OBVIOUS
    <3> QED
      BY <2>1, <3>1, Zenon
  <2>3. r.actions \in Seq(Strings)
    BY DEF RequestType, Words
  <2>4. AsOneAction(r.actions) \in Seq(Strings)
    BY <2>2, <2>3, Zenon DEF AsOneAction
  <2> QED
    BY <2>3, <2>4, Zenon DEF ActionList
<1> DEFINE list == ActionList(r)
<1>2. IsFiniteSet(1..Len(list)) /\ list \in [1..Len(list) -> Strings]
  BY <1>1, FS_Interval
<1>3. Range(list) = {list[i] : i \in 1..Len(list)}
  BY <1>2 DEF Range
<1> HIDE DEF list
<1>4. IsFiniteSet(Range(list))
  <2>1. list = [i \in 1..Len(list) |-> list[i]]
    BY <1>2
  <2> QED
    BY <1>2, <1>3, <2>1, ImageFinite
<1>5. Actions(r) \subseteq Range(list) /\ Range(list) \subseteq Strings
  BY <1>2, <1>3 DEF Actions, list
<1> QED
  BY <1>4, <1>5, FS_Subset

LEMMA MainEntriesType ==
  ASSUME NEW r, RequestType(r)
  PROVE  EntriesType(MainEntries(r), LocaleKeys)
<1> DEFINE taken == {k \in r.keys \ {"ActionName"} :
                      /\ k \in {"Icon", "Exec"} => Filled(r.value[k], "default")
                      /\ k = "GenericName" => DOMAIN r.value[k] # {}}
           keys == taken \cup {"X-Deepin-CreateBy"}
           entry(k) == CASE k = "X-Deepin-CreateBy" -> [d \in {"default"} |-> <<"AM">>]
                         [] k = "Actions" -> [d \in {"default"} |-> r.actions]
                         [] k \in {"Icon", "Exec"} -> [d \in {"default"} |-> r.value[k]["default"]]
                         [] OTHER -> r.value[k]
<1>1. MainEntries(r) = [k \in keys |-> entry(k)]
  BY DEF MainEntries
<1>2. IsFiniteSet(keys) /\ keys \subseteq Strings
  <2>1. IsFiniteSet(taken) /\ taken \subseteq Strings
    BY FS_Subset DEF RequestType
  <2>2. "X-Deepin-CreateBy" \in Strings
    BY StringsAssumption, Zenon
  <2> HIDE DEF taken
  <2> QED
    BY <2>1, <2>2, FS_AddElement
<1>3. ASSUME NEW k \in keys PROVE TextMap(entry(k)) /\ (k \notin LocaleKeys => DOMAIN entry(k) = {"default"})
  <2>1. CASE k = "X-Deepin-CreateBy"
    <3>1. <<"AM">> \in Words
      <4>1. "AM" \in Strings
        BY StringsAssumption, Zenon
      <4> QED
        BY <4>1 DEF Words
    <3> QED
      BY <2>1, <3>1, OneText
  <2>2. CASE k = "Actions"
    <3>1. entry(k) = [d \in {"default"} |-> r.actions] /\ r.actions \in Words
      BY <2>2 DEF RequestType
    <3> QED
      BY <3>1, OneText
  <2>3. CASE k \in {"Icon", "Exec"}
    <3>1. r.value[k]["default"] \in Words
      <4>1. k \in r.keys \ {"Actions", "ActionName"} /\ Filled(r.value[k], "default")
        BY <2>3
      <4>2. TextMap(r.value[k]) /\ "default" \in DOMAIN r.value[k]
        BY <4>1 DEF RequestType, Filled
      <4> QED
        BY <4>2, TextOfMap
    <3>2. entry(k) = [d \in {"default"} |-> r.value[k]["default"]]
      BY <2>3
    <3> QED
      BY <3>1, <3>2, OneText
  <2>4. CASE k \notin {"X-Deepin-CreateBy", "Actions", "Icon", "Exec"}
    <3>1. entry(k) = r.value[k] /\ k \in r.keys \ {"Actions", "ActionName"}
      BY <2>4
    <3> QED
      BY <2>4, <3>1 DEF RequestType
  <2> QED
    BY <2>1, <2>2, <2>3, <2>4
<1> DEFINE entries == [k \in keys |-> entry(k)]
<1>4. DOMAIN entries = keys /\ entries = [k \in DOMAIN entries |-> entries[k]] /\ \A k \in keys : entries[k] = entry(k)
  <2> HIDE DEF keys, entry
  <2> QED
    OBVIOUS
<1> HIDE DEF keys, entry, entries
<1>5. \A k \in keys : TextMap(entries[k]) /\ (k \notin LocaleKeys => DOMAIN entries[k] = {"default"})
  BY <1>3, <1>4
<1>6. EntriesType(entries, LocaleKeys)
  BY <1>2, <1>4, <1>5 DEF EntriesType
<1> QED
  BY <1>1, <1>6 DEF entries

LEMMA ActionEntriesType ==
  ASSUME NEW r, RequestType(r), NEW a \in Strings, a \in DOMAIN r.names
  PROVE  EntriesType(ActionEntries(r, a), LocaleKeys)
<1> DEFINE given == {k \in {"Icon", "Exec"} : Filled(PerAction(r, k), a)}
           keys == given \cup {"Name"}
           entry(k) == IF k = "Name" THEN r.names[a] ELSE [d \in {"default"} |-> r.value[k][a]]
<1>1. ActionEntries(r, a) = [k \in keys |-> entry(k)]
  BY DEF ActionEntries
<1>2. IsFiniteSet(keys) /\ keys \subseteq Strings
  <2>1. keys \subseteq {"Icon", "Exec", "Name"}
    OBVIOUS
  <2>2. IsFiniteSet({"Icon", "Exec", "Name"})
    <3>1. IsFiniteSet({"Icon"})
      BY FS_Singleton
    <3>2. IsFiniteSet({"Icon"} \cup {"Exec"})
      BY <3>1, FS_AddElement
    <3>3. IsFiniteSet(({"Icon"} \cup {"Exec"}) \cup {"Name"})
      BY <3>2, FS_AddElement
    <3>4. ({"Icon"} \cup {"Exec"}) \cup {"Name"} = {"Icon", "Exec", "Name"}
      OBVIOUS
    <3> QED
      BY <3>3, <3>4
  <2>3. {"Icon", "Exec", "Name"} \subseteq Strings
    BY StringsAssumption
  <2> HIDE DEF keys
  <2> QED
    BY <2>1, <2>2, <2>3, FS_Subset
<1>3. ASSUME NEW k \in keys PROVE TextMap(entry(k)) /\ (k \notin LocaleKeys => DOMAIN entry(k) = {"default"})
  <2>1. CASE k = "Name"
    BY <2>1 DEF RequestType, LocaleKeys
  <2>2. CASE k # "Name"
    <3>1. k \in {"Icon", "Exec"} /\ Filled(PerAction(r, k), a)
      BY <2>2
    <3>2. k \in r.keys /\ a \in DOMAIN r.value[k]
      BY <3>1, EmptyTypes DEF PerAction, Filled
    <3>3. TextMap(r.value[k])
      BY <3>1, <3>2 DEF RequestType
    <3>4. r.value[k][a] \in Words
      BY <3>2, <3>3, TextOfMap
    <3>5. entry(k) = [d \in {"default"} |-> r.value[k][a]]
      BY <2>2
    <3> QED
      BY <3>4, <3>5, OneText
  <2> QED
    BY <2>1, <2>2
<1> DEFINE entries == [k \in keys |-> entry(k)]
<1>4. DOMAIN entries = keys /\ entries = [k \in DOMAIN entries |-> entries[k]] /\ \A k \in keys : entries[k] = entry(k)
  <2> HIDE DEF keys, entry
  <2> QED
    OBVIOUS
<1> HIDE DEF keys, entry, entries
<1>5. \A k \in keys : TextMap(entries[k]) /\ (k \notin LocaleKeys => DOMAIN entries[k] = {"default"})
  BY <1>3, <1>4
<1>6. EntriesType(entries, LocaleKeys)
  BY <1>2, <1>4, <1>5 DEF EntriesType
<1> QED
  BY <1>1, <1>6 DEF entries

LEMMA RequestContent ==
  ASSUME NEW r, RequestType(r), ~Refused(r)
  PROVE  ContentType(Content(r), LocaleKeys) /\ Main \in DOMAIN Content(r)
<1> DEFINE actions == IF "Actions" \in r.keys THEN {ActionGroup(a) : a \in Actions(r)} ELSE {}
           names == actions \cup {Main}
           entries(g) == IF g = Main THEN MainEntries(r) ELSE ActionEntries(r, g[2])
<1>1. Content(r) = [g \in names |-> entries(g)]
  BY DEF Content
<1>2. IsFiniteSet(actions) /\ actions \subseteq Words
  <2>1. IsFiniteSet({ActionGroup(a) : a \in Actions(r)})
    <3> DEFINE f == [a \in Actions(r) |-> ActionGroup(a)]
    <3>1. f = [a \in Actions(r) |-> f[a]] /\ \A a \in Actions(r) : f[a] = ActionGroup(a)
      OBVIOUS
    <3> HIDE DEF f
    <3>2. IsFiniteSet({f[a] : a \in Actions(r)})
      BY <3>1, ActionListType, ImageFinite
    <3>3. {f[a] : a \in Actions(r)} = {ActionGroup(a) : a \in Actions(r)}
      BY <3>1
    <3> QED
      BY <3>2, <3>3
  <2>2. {ActionGroup(a) : a \in Actions(r)} \subseteq Words
    BY ActionListType, NameTypes
  <2> QED
    BY <2>1, <2>2, FS_EmptySet
<1>3. IsFiniteSet(names) /\ names \subseteq Words
  <2> HIDE DEF actions
  <2> QED
    BY <1>2, FS_AddElement, NameTypes
<1>4. ASSUME NEW g \in names PROVE EntriesType(entries(g), LocaleKeys)
  <2>1. CASE g = Main
    BY <2>1, MainEntriesType
  <2>2. CASE g # Main
    <3>1. "Actions" \in r.keys /\ \E a \in Actions(r) : g = ActionGroup(a)
      BY <2>2
    <3>2. PICK a \in Actions(r) : g = ActionGroup(a)
      BY <3>1
    <3>3. a \in Strings /\ a \in DOMAIN r.names
      BY <3>1, ActionListType DEF Refused, ActionsRefused
    <3>4. g[2] = a
      BY <3>2, <3>3, NameTypes
    <3>5. entries(g) = ActionEntries(r, a)
      BY <2>2, <3>4
    <3> QED
      BY <3>3, <3>5, ActionEntriesType
  <2> QED
    BY <2>1, <2>2
<1> DEFINE content == [g \in names |-> entries(g)]
<1>5. /\ DOMAIN content = names /\ content = [g \in DOMAIN content |-> content[g]]
      /\ \A g \in names : content[g] = entries(g)
  <2> HIDE DEF names, entries
  <2> QED
    OBVIOUS
<1>6. Main \in names
  OBVIOUS
<1> HIDE DEF names, entries, content
<1>7. ContentType(content, LocaleKeys)
  BY <1>3, <1>4, <1>5 DEF ContentType
<1> QED
  BY <1>1, <1>5, <1>6, <1>7 DEF content

-----------------------------------------------------------------------------
(***************************************************************************)
(* What the first n lines of a file t say to a reader r.  The operators of *)
(* EntryFiles speak of the whole of `text' and choose a line; these have   *)
(* the file, the reader and the number of lines as parameters, so that a   *)
(* step which takes a line is a step from n to n + 1.                      *)
(***************************************************************************)
BelongsTo(t, i, g) ==
  \E h \in 1..i : BeginsGroup(t[h]) /\ t[h].name = g /\ \A j \in (h+1)..i : ~BeginsGroup(t[j])
EntryOf(t, r, i, g) == t[i].kind = "entry" /\ BelongsTo(t, i, g) /\ ~(r = "desktop" /\ Ignored(t[i]))
LocaleIn(r, l) == IF r = "desktop" THEN KeyedLocale(l) ELSE "default"
SameText(r, l, m) == l.key = m.key /\ LocaleIn(r, l) = LocaleIn(r, m)
NamedIn(t, r, i) == t[i].kind = "header" /\ ~(r = "desktopList" /\ t[i].name \in Associations)

(* Every line up to n is one that the reader accepts where it stands. *)
FormTo(t, n) ==
  \A i \in 1..n : /\ t[i].kind # "broken"
                  /\ t[i].kind \in {"entry", "junk"} => \E h \in 1..i : BeginsGroup(t[h])
UniqueTo(t, r, n) ==
  \A i, j \in 1..n : NamedIn(t, r, i) /\ NamedIn(t, r, j) /\ t[i].name = t[j].name => i = j
ListGroupTo(t, r, g, n) ==
  \A j \in 1..n : EntryOf(t, r, j, g) =>
    /\ t[j].value # <<>>
    /\ \A k \in 1..(j-1) : EntryOf(t, r, k, g) /\ t[k].key = t[j].key => Applications(t[k].value) = <<>>
ListTo(t, r, n) == \A i \in 1..n : NamedIn(t, r, i) => ListGroupTo(t, r, t[i].name, n)
AcceptedTo(t, r, n) == FormTo(t, n) /\ (IF r = "desktop" THEN UniqueTo(t, r, n) ELSE ListTo(t, r, n))

(* The groups c are those of the first n lines. *)
EntriesTo(t, r, entries, g, n) ==
  /\ \A k : k \in DOMAIN entries <=> \E i \in 1..n : EntryOf(t, r, i, g) /\ t[i].key = k
  /\ \A k \in DOMAIN entries : \A loc :
       loc \in DOMAIN entries[k] <=> \E i \in 1..n : EntryOf(t, r, i, g) /\ t[i].key = k /\ LocaleIn(r, t[i]) = loc
  /\ \A i \in 1..n : EntryOf(t, r, i, g) =>
       IF r = "desktop"
         THEN (\A j \in 1..(i-1) : ~(EntryOf(t, r, j, g) /\ SameText(r, t[j], t[i])))
                => entries[t[i].key][LocaleIn(r, t[i])] = t[i].value
         ELSE (\A j \in (i+1)..n : ~(EntryOf(t, r, j, g) /\ SameText(r, t[j], t[i])))
                => entries[t[i].key][LocaleIn(r, t[i])] = Applications(t[i].value)
ContentTo(t, r, c, n) ==
  /\ \A g : g \in DOMAIN c <=> \E i \in 1..n : NamedIn(t, r, i) /\ t[i].name = g
  /\ \A g \in DOMAIN c : EntriesTo(t, r, c[g], g, n)
ParsedTo(t, r, c, n) == AcceptedTo(t, r, n) /\ ContentTo(t, r, c, n)

(* The main group comes before the other groups with a name: there is no   *)
(* group with a name yet (f), or it has come.                              *)
MainFirst(t, r, n) ==
  \A i \in 1..n : NamedIn(t, r, i) /\ t[i].name \notin {<<>>, Main} =>
    \E j \in 1..(i-1) : NamedIn(t, r, j) /\ t[j].name = Main
OrderTo(t, r, f, n) ==
  r = "desktop" =>
    IF f THEN \A i \in 1..n : NamedIn(t, r, i) => t[i].name = <<>>
    ELSE MainFirst(t, r, n) /\ \E i \in 1..n : NamedIn(t, r, i) /\ t[i].name = Main

(* Line p is the one the parser is at, the lines behind it are blank.      *)
LineAt(t, nx, l, p) ==
  /\ p \in 1..(nx-1) /\ l = t[p] /\ t[p].kind # "blank"
  /\ \A i \in (p+1)..(nx-1) : t[i].kind = "blank"

-----------------------------------------------------------------------------
(***************************************************************************)
(* What the parser has understood in each of its states.                   *)
(***************************************************************************)
AtGenerate == at = "generate" => input \in Requested
AtOpen == at = "open" => next = 1 /\ line = NoLine /\ groups = Empty /\ first /\ err = "NoError"
AtGroups ==
  at = "groups" =>
    IF line = NoLine
      THEN next = Len(text) + 1 /\ ParsedTo(text, Reader, groups, Len(text)) /\ OrderTo(text, Reader, first, Len(text))
      ELSE \E p \in DOMAIN text :
             /\ LineAt(text, next, line, p)
             /\ ParsedTo(text, Reader, groups, p - 1) /\ OrderTo(text, Reader, first, p - 1)
             /\ BeginsGroup(line) \/ \A j \in 1..p : ~BeginsGroup(text[j])
AtSkipped ==
  at = "skipped" =>
    /\ Reader = "desktopList"
    /\ \E p \in DOMAIN text : \E h \in 1..p :
         /\ LineAt(text, next, line, p)
         /\ text[h].kind = "header" /\ text[h].name \in Associations
         /\ \A j \in (h+1)..p : ~BeginsGroup(text[j])
         /\ ParsedTo(text, Reader, groups, h - 1)
AtEntries ==
  at = "entries" =>
    /\ line = NoLine
    /\ ParsedTo(text, Reader, groups, next - 1)
    /\ \E h \in 1..(next - 1) :
         /\ NamedIn(text, Reader, h) /\ text[h].name = group
         /\ \A j \in (h+1)..(next - 1) : ~BeginsGroup(text[j])
         /\ OrderTo(text, Reader, first, h - 1)
AtDone ==
  at = "done" =>
    LET n == Len(text)
        whole == ContentTo(text, Reader, groups, n)
    IN IF err = "NoError"
         THEN AcceptedTo(text, Reader, n) /\ whole /\ (IsDesktop => text # <<>> /\ MainFirst(text, Reader, n) /\ ValidMain)
         ELSE \/ ~AcceptedTo(text, Reader, n)
              \/ IsDesktop /\ (text = <<>> \/ ~MainFirst(text, Reader, n) \/ (whole /\ ~ValidMain))
RInv == AtGenerate /\ AtOpen /\ AtGroups /\ AtSkipped /\ AtEntries /\ AtDone

-----------------------------------------------------------------------------
(***************************************************************************)
(* From n lines to more.                                                   *)
(***************************************************************************)
LEMMA OneGroup ==
  ASSUME NEW t, NEW i \in Nat, NEW g1, NEW g2, BelongsTo(t, i, g1), BelongsTo(t, i, g2)
  PROVE  g1 = g2
<1>1. PICK h1 \in 1..i : BeginsGroup(t[h1]) /\ t[h1].name = g1 /\ \A j \in (h1+1)..i : ~BeginsGroup(t[j])
  BY DEF BelongsTo
<1>2. PICK h2 \in 1..i : BeginsGroup(t[h2]) /\ t[h2].name = g2 /\ \A j \in (h2+1)..i : ~BeginsGroup(t[j])
  BY DEF BelongsTo
<1>3. ~(h1 < h2) /\ ~(h2 < h1)
  BY <1>1, <1>2
<1>4. h1 = h2
  BY <1>3
<1> QED
  BY <1>1, <1>2, <1>4

(* Lines without an entry of the group add nothing to it. *)
LEMMA EntriesQuiet ==
  ASSUME NEW t, NEW r, NEW e, NEW g, NEW n \in Nat, NEW m \in Nat, n <= m, EntriesTo(t, r, e, g, n),
         \A i \in (n+1)..m : ~EntryOf(t, r, i, g)
  PROVE  EntriesTo(t, r, e, g, m)
<1>1. \A i \in 1..m : EntryOf(t, r, i, g) => i \in 1..n
  OBVIOUS
<1>2. \A i \in 1..n : i \in 1..m
  OBVIOUS
<1>3. \A k : k \in DOMAIN e <=> \E i \in 1..m : EntryOf(t, r, i, g) /\ t[i].key = k
  BY <1>1, <1>2 DEF EntriesTo
<1>4. \A k \in DOMAIN e : \A loc :
        loc \in DOMAIN e[k] <=> \E i \in 1..m : EntryOf(t, r, i, g) /\ t[i].key = k /\ LocaleIn(r, t[i]) = loc
  BY <1>1, <1>2 DEF EntriesTo
<1>5. ASSUME NEW i \in 1..m, EntryOf(t, r, i, g), r = "desktop",
             \A j \in 1..(i-1) : ~(EntryOf(t, r, j, g) /\ SameText(r, t[j], t[i]))
      PROVE  e[t[i].key][LocaleIn(r, t[i])] = t[i].value
  <2>1. i \in 1..n
    BY <1>1, <1>5
  <2> QED
    BY <1>5, <2>1 DEF EntriesTo
<1>6. ASSUME NEW i \in 1..m, EntryOf(t, r, i, g), r # "desktop",
             \A j \in (i+1)..m : ~(EntryOf(t, r, j, g) /\ SameText(r, t[j], t[i]))
      PROVE  e[t[i].key][LocaleIn(r, t[i])] = Applications(t[i].value)
  <2>1. i \in 1..n
    BY <1>1, <1>6
  <2>2. \A j \in (i+1)..n : j \in (i+1)..m
    OBVIOUS
  <2> QED
    BY <1>6, <2>1, <2>2 DEF EntriesTo
<1> QED
  BY <1>3, <1>4, <1>5, <1>6 DEF EntriesTo

LEMMA ListQuiet ==
  ASSUME NEW t, NEW r, NEW g, NEW n \in Nat, NEW m \in Nat, n <= m, ListGroupTo(t, r, g, n),
         \A i \in (n+1)..m : ~EntryOf(t, r, i, g)
  PROVE  ListGroupTo(t, r, g, m)
<1>1. \A i \in 1..m : EntryOf(t, r, i, g) => i \in 1..n
  OBVIOUS
<1> QED
  BY <1>1 DEF ListGroupTo

(* An entry of a desktop file: the first of several counts. *)
LEMMA EntriesDesktop ==
  ASSUME NEW t, NEW r, r = "desktop", NEW e, NEW g, NEW n \in Nat, EntriesTo(t, r, e, g, n),
         EntryOf(t, r, n + 1, g)
  PROVE  EntriesTo(t, r, DesktopEntries(e, t[n+1]), g, n + 1)
<1> DEFINE l == t[n+1]
           key == l.key
           loc == KeyedLocale(l)
           f == DesktopEntries(e, l)
<1>1. ~Ignored(l) /\ LocaleIn(r, l) = loc
  BY DEF EntryOf, LocaleIn
<1>2. \A i \in 1..(n+1) : i \in 1..n \/ i = n + 1
  OBVIOUS
<1>3. \A i \in 1..n : i \in 1..(n+1)
  OBVIOUS
<1>4. n + 1 \in 1..(n+1) /\ (n + 1) - 1 = n
  OBVIOUS
<1>5. \A k : k \in DOMAIN e <=> \E i \in 1..n : EntryOf(t, r, i, g) /\ t[i].key = k
  BY DEF EntriesTo
<1>6. \A k \in DOMAIN e : \A x :
        x \in DOMAIN e[k] <=> \E i \in 1..n : EntryOf(t, r, i, g) /\ t[i].key = k /\ LocaleIn(r, t[i]) = x
  BY DEF EntriesTo
<1>7. \A i \in 1..n : EntryOf(t, r, i, g) /\ (\A j \in 1..(i-1) : ~(EntryOf(t, r, j, g) /\ SameText(r, t[j], t[i])))
        => e[t[i].key][LocaleIn(r, t[i])] = t[i].value
  BY DEF EntriesTo
<1>8. \A i \in 1..n : EntryOf(t, r, i, g) => t[i].key \in DOMAIN e /\ LocaleIn(r, t[i]) \in DOMAIN e[t[i].key]
  BY <1>5, <1>6
<1>a. CASE key \in DOMAIN e /\ loc \in DOMAIN e[key]
  <2>1. f = e
    BY <1>a DEF DesktopEntries
  <2>2. PICK i \in 1..n : EntryOf(t, r, i, g) /\ t[i].key = key /\ LocaleIn(r, t[i]) = loc
    BY <1>a, <1>6
  <2>3. SameText(r, t[i], l)
    BY <2>2, <1>1 DEF SameText
  <2>4. \A k : k \in DOMAIN e <=> \E x \in 1..(n+1) : EntryOf(t, r, x, g) /\ t[x].key = k
    BY <1>a, <1>2, <1>3, <1>5
  <2>5. \A k \in DOMAIN e : \A y :
          y \in DOMAIN e[k] <=> \E x \in 1..(n+1) : EntryOf(t, r, x, g) /\ t[x].key = k /\ LocaleIn(r, t[x]) = y
    BY <1>1, <1>a, <1>2, <1>3, <1>6
  <2>6. ASSUME NEW x \in 1..(n+1), EntryOf(t, r, x, g),
               \A j \in 1..(x-1) : ~(EntryOf(t, r, j, g) /\ SameText(r, t[j], t[x]))
        PROVE  e[t[x].key][LocaleIn(r, t[x])] = t[x].value
    <3>1. x # n + 1
      BY <2>2, <2>3, <2>6, <1>4
    <3> QED
      BY <3>1, <2>6, <1>2, <1>7
  <2> QED
    BY <2>1, <2>4, <2>5, <2>6 DEF EntriesTo
<1>b. CASE ~(key \in DOMAIN e /\ loc \in DOMAIN e[key])
  <2> DEFINE old == IF key \in DOMAIN e THEN e[key] ELSE Empty
             texts == Put(old, loc, l.value)
  <2>1. f = Put(e, key, texts)
    BY <1>b, <1>1 DEF DesktopEntries
  <2>2. DOMAIN f = DOMAIN e \cup {key} /\ f[key] = texts /\ \A k \in DOMAIN e : k # key => f[k] = e[k]
    BY <2>1 DEF Put
  <2>3. DOMAIN old = IF key \in DOMAIN e THEN DOMAIN e[key] ELSE {}
    BY EmptyTypes
  <2>4. DOMAIN texts = DOMAIN old \cup {loc} /\ texts[loc] = l.value /\ \A x \in DOMAIN old : x # loc => texts[x] = old[x]
    BY DEF Put
  <2>5. loc \notin DOMAIN old
    BY <1>b, <2>3
  <2> HIDE DEF f, texts, old
  <2>6. \A k : k \in DOMAIN f <=> \E x \in 1..(n+1) : EntryOf(t, r, x, g) /\ t[x].key = k
    BY <2>2, <1>2, <1>3, <1>4, <1>5
  <2>7. ASSUME NEW k \in DOMAIN f, NEW y
        PROVE y \in DOMAIN f[k] <=> \E x \in 1..(n+1) : EntryOf(t, r, x, g) /\ t[x].key = k /\ LocaleIn(r, t[x]) = y
    <3>1. CASE k = key
      <4>1. y \in DOMAIN f[k] <=> y \in DOMAIN old \/ y = loc
        BY <3>1, <2>2, <2>4
      <4>2. y \in DOMAIN old <=> \E x \in 1..n : EntryOf(t, r, x, g) /\ t[x].key = key /\ LocaleIn(r, t[x]) = y
        BY <2>3, <1>5, <1>6
      <4> QED
        BY <3>1, <4>1, <4>2, <1>1, <1>2, <1>3, <1>4
    <3>2. CASE k # key
      BY <3>2, <2>2, <1>2, <1>3, <1>6
    <3> QED
      BY <3>1, <3>2
  <2>8. ASSUME NEW x \in 1..(n+1), EntryOf(t, r, x, g),
               \A j \in 1..(x-1) : ~(EntryOf(t, r, j, g) /\ SameText(r, t[j], t[x]))
        PROVE  f[t[x].key][LocaleIn(r, t[x])] = t[x].value
    <3>1. CASE x = n + 1
      BY <3>1, <2>2, <2>4, <1>1
    <3>2. CASE x # n + 1
      <4>1. x \in 1..n
        BY <3>2
      <4>2. e[t[x].key][LocaleIn(r, t[x])] = t[x].value /\ t[x].key \in DOMAIN e /\ LocaleIn(r, t[x]) \in DOMAIN e[t[x].key]
        BY <4>1, <2>8, <1>7, <1>8
      <4>3. CASE t[x].key = key
        BY <4>2, <4>3, <2>2, <2>3, <2>4, <2>5 DEF old
      <4>4. CASE t[x].key # key
        BY <4>2, <4>4, <2>2
      <4> QED
        BY <4>3, <4>4
    <3> QED
      BY <3>1, <3>2
  <2> QED
    BY <2>6, <2>7, <2>8 DEF EntriesTo, f
<1> QED
  BY <1>a, <1>b

(* An entry of a list: the last one counts, and only it has applications.  *)
LEMMA EntriesList ==
  ASSUME NEW t, NEW r, r # "desktop", NEW e, NEW g, NEW n \in Nat, EntriesTo(t, r, e, g, n),
         EntryOf(t, r, n + 1, g)
  PROVE  EntriesTo(t, r, ListEntries(e, t[n+1]), g, n + 1)
<1> DEFINE l == t[n+1]
           key == l.key
           texts == [d \in {"default"} |-> Applications(l.value)]
           f == ListEntries(e, l)
<1>1. f = Put(e, key, texts)
  BY DEF EntryOf, ListEntries
<1>2. /\ \A i \in 1..(n+1) : i \in 1..n \/ i = n + 1
      /\ \A i \in 1..n : i \in 1..(n+1)
      /\ n + 1 \in 1..(n+1)
  OBVIOUS
<1>3. \A k : k \in DOMAIN e <=> \E i \in 1..n : EntryOf(t, r, i, g) /\ t[i].key = k
  BY DEF EntriesTo
<1>4. \A k \in DOMAIN e : \A x :
        x \in DOMAIN e[k] <=> \E i \in 1..n : EntryOf(t, r, i, g) /\ t[i].key = k /\ LocaleIn(r, t[i]) = x
  BY DEF EntriesTo
<1>5. \A i \in 1..n : EntryOf(t, r, i, g) /\ (\A j \in (i+1)..n : ~(EntryOf(t, r, j, g) /\ SameText(r, t[j], t[i])))
        => e[t[i].key][LocaleIn(r, t[i])] = Applications(t[i].value)
  BY DEF EntriesTo
<1>6. DOMAIN f = DOMAIN e \cup {key} /\ f[key] = texts /\ \A k \in DOMAIN e : k # key => f[k] = e[k]
  BY <1>1 DEF Put
<1>7. DOMAIN texts = {"default"} /\ texts["default"] = Applications(l.value)
  OBVIOUS
<1>8. \A m : LocaleIn(r, m) = "default"
  BY DEF LocaleIn
<1> HIDE DEF f, texts
<1>9. \A k : k \in DOMAIN f <=> \E x \in 1..(n+1) : EntryOf(t, r, x, g) /\ t[x].key = k
  BY <1>2, <1>3, <1>6
<1>10. \A k \in DOMAIN f : \A y :
        y \in DOMAIN f[k] <=> \E x \in 1..(n+1) : EntryOf(t, r, x, g) /\ t[x].key = k /\ LocaleIn(r, t[x]) = y
  BY <1>2, <1>4, <1>6, <1>7, <1>8
<1>11. ASSUME NEW x \in 1..(n+1), EntryOf(t, r, x, g),
              \A j \in (x+1)..(n+1) : ~(EntryOf(t, r, j, g) /\ SameText(r, t[j], t[x]))
       PROVE  f[t[x].key][LocaleIn(r, t[x])] = Applications(t[x].value)
  <2>1. CASE x = n + 1
    BY <2>1, <1>6, <1>7, <1>8
  <2>2. CASE x # n + 1
    <3>1. x \in 1..n /\ n + 1 \in (x+1)..(n+1)
      BY <2>2
    <3>2. t[x].key # key
      BY <3>1, <1>8, <1>11 DEF SameText
    <3>3. \A j \in (x+1)..n : j \in (x+1)..(n+1)
      OBVIOUS
    <3>4. e[t[x].key][LocaleIn(r, t[x])] = Applications(t[x].value) /\ t[x].key \in DOMAIN e
      BY <3>1, <3>3, <1>3, <1>5, <1>11
    <3> QED
      BY <3>2, <3>4, <1>6
  <2> QED
    BY <2>1, <2>2
<1> QED
  BY <1>9, <1>10, <1>11 DEF EntriesTo, f

(* The last line of a group that has a key. *)
LEMMA LastOfKey ==
  ASSUME NEW t, NEW r, NEW g, NEW n \in Nat, NEW i \in 1..n, EntryOf(t, r, i, g)
  PROVE  \E j \in 1..n : /\ EntryOf(t, r, j, g) /\ t[j].key = t[i].key
                         /\ \A x \in (j+1)..n : ~(EntryOf(t, r, x, g) /\ t[x].key = t[i].key)
<1> DEFINE T == {j \in 1..n : EntryOf(t, r, j, g) /\ t[j].key = t[i].key}
<1>1. T \subseteq 0..n /\ i \in T
  OBVIOUS
<1>2. PICK j \in T : \A x \in T : x <= j
  <2> HIDE DEF T
  <2> QED
    BY <1>1, GreatestNumber
<1>3. \A x \in (j+1)..n : x \in 1..n /\ ~(x <= j)
  OBVIOUS
<1> QED
  BY <1>2, <1>3

LEMMA ListAccepts ==
  ASSUME NEW t, NEW r, r # "desktop", NEW e, NEW g, NEW n \in Nat, EntriesTo(t, r, e, g, n),
         ListGroupTo(t, r, g, n), EntryOf(t, r, n + 1, g), ~ListRefuses(e, t[n+1])
  PROVE  ListGroupTo(t, r, g, n + 1)
<1>1. t[n+1].kind = "entry" /\ t[n+1].value # <<>>
  BY DEF EntryOf, ListRefuses
<1>2. ASSUME NEW k \in 1..n, EntryOf(t, r, k, g), t[k].key = t[n+1].key PROVE Applications(t[k].value) = <<>>
  <2>1. t[k].key \in DOMAIN e
    BY <1>2 DEF EntriesTo
  <2>2. e[t[k].key]["default"] = <<>>
    BY <1>1, <1>2, <2>1 DEF ListRefuses
  <2>3. PICK j \in 1..n : /\ EntryOf(t, r, j, g) /\ t[j].key = t[k].key
                          /\ \A x \in (j+1)..n : ~(EntryOf(t, r, x, g) /\ t[x].key = t[k].key)
    BY <1>2, LastOfKey
  <2>4. e[t[j].key]["default"] = Applications(t[j].value)
    BY <2>3 DEF EntriesTo, SameText, LocaleIn
  <2>5. CASE j = k
    BY <2>2, <2>3, <2>4, <2>5
  <2>6. CASE j # k
    <3>1. k \in 1..(j-1)
      BY <2>3, <2>6, <1>2
    <3> QED
      BY <3>1, <2>3, <1>2 DEF ListGroupTo
  <2> QED
    BY <2>5, <2>6
<1>3. \A j \in 1..(n+1) : j \in 1..n \/ j = n + 1
  OBVIOUS
<1>4. (n + 1) - 1 = n
  OBVIOUS
<1> QED
  BY <1>1, <1>2, <1>3, <1>4 DEF ListGroupTo

LEMMA ListRejects ==
  ASSUME NEW t, NEW r, r # "desktop", NEW e, NEW g, NEW n \in Nat, EntriesTo(t, r, e, g, n),
         EntryOf(t, r, n + 1, g), ListRefuses(e, t[n+1]), NEW m \in Nat, n + 1 <= m
  PROVE  ~ListGroupTo(t, r, g, m)
<1>1. n + 1 \in 1..m /\ (n + 1) - 1 = n
  OBVIOUS
<1>2. CASE t[n+1].value = <<>>
  BY <1>1, <1>2 DEF ListGroupTo
<1>3. CASE t[n+1].key \in DOMAIN e /\ e[t[n+1].key]["default"] # <<>>
  <2>1. PICK i \in 1..n : EntryOf(t, r, i, g) /\ t[i].key = t[n+1].key
    BY <1>3 DEF EntriesTo
  <2>2. PICK j \in 1..n : /\ EntryOf(t, r, j, g) /\ t[j].key = t[i].key
                          /\ \A x \in (j+1)..n : ~(EntryOf(t, r, x, g) /\ t[x].key = t[i].key)
    BY <2>1, LastOfKey
  <2>3. e[t[j].key]["default"] = Applications(t[j].value)
    BY <2>2 DEF EntriesTo, SameText, LocaleIn
  <2>4. Applications(t[j].value) # <<>> /\ t[j].key = t[n+1].key
    BY <2>1, <2>2, <2>3, <1>3
  <2> QED
    BY <2>2, <2>4, <1>1 DEF ListGroupTo
<1> QED
  BY <1>2, <1>3 DEF ListRefuses

-----------------------------------------------------------------------------
(***************************************************************************)
(* From n lines to more: the whole file.                                   *)
(***************************************************************************)
(* Lines that begin no group that is read, and belong to none. *)
LEMMA ParsedQuiet ==
  ASSUME NEW t, NEW r, NEW c, NEW n \in Nat, NEW m \in Nat, n <= m, ParsedTo(t, r, c, n),
         \A i \in (n+1)..m : /\ t[i].kind # "broken" /\ ~NamedIn(t, r, i)
                             /\ t[i].kind \in {"entry", "junk"} => \E h \in 1..i : BeginsGroup(t[h])
                             /\ \A g \in DOMAIN c : ~EntryOf(t, r, i, g)
  PROVE  ParsedTo(t, r, c, m)
<1>1. \A i \in 1..m : i \in 1..n \/ i \in (n+1)..m
  OBVIOUS
<1>2. \A i \in 1..n : i \in 1..m
  OBVIOUS
<1>3. FormTo(t, m)
  BY <1>1 DEF ParsedTo, AcceptedTo, FormTo
<1>4. r = "desktop" => UniqueTo(t, r, m)
  BY <1>1 DEF ParsedTo, AcceptedTo, UniqueTo
<1>5. ASSUME NEW g PROVE g \in DOMAIN c <=> \E i \in 1..m : NamedIn(t, r, i) /\ t[i].name = g
  BY <1>1, <1>2 DEF ParsedTo, ContentTo
<1>6. \A g \in DOMAIN c : EntriesTo(t, r, c[g], g, m)
  BY EntriesQuiet DEF ParsedTo, ContentTo
<1>7. ASSUME r # "desktop", NEW i \in 1..m, NamedIn(t, r, i) PROVE ListGroupTo(t, r, t[i].name, m)
  <2>1. t[i].name \in DOMAIN c
    BY <1>5, <1>7
  <2>2. i \in 1..n
    BY <1>1, <1>7
  <2>3. ListGroupTo(t, r, t[i].name, n)
    BY <1>7, <2>2 DEF ParsedTo, AcceptedTo, ListTo
  <2> QED
    BY <2>1, <2>3, ListQuiet
<1>8. AcceptedTo(t, r, m)
  BY <1>3, <1>4, <1>7 DEF AcceptedTo, ListTo
<1>9. ContentTo(t, r, c, m)
  BY <1>5, <1>6 DEF ContentTo
<1> QED
  BY <1>8, <1>9 DEF ParsedTo

LEMMA OrderQuiet ==
  ASSUME NEW t, NEW r, NEW f, NEW n \in Nat, NEW m \in Nat, n <= m, OrderTo(t, r, f, n),
         \A i \in (n+1)..m : ~NamedIn(t, r, i)
  PROVE  OrderTo(t, r, f, m)
<1>1. \A i \in 1..m : NamedIn(t, r, i) => i \in 1..n
  OBVIOUS
<1>2. \A i \in 1..n : i \in 1..m
  OBVIOUS
<1> QED
  BY <1>1, <1>2 DEF OrderTo, MainFirst

LEMMA BlankLines ==
  ASSUME NEW t, NEW r, NEW i, t[i].kind = "blank"
  PROVE  /\ t[i].kind # "broken" /\ ~NamedIn(t, r, i) /\ t[i].kind \notin {"entry", "junk"}
         /\ \A g : ~EntryOf(t, r, i, g)
BY DEF NamedIn, EntryOf

(* Before its header a group has no entries. *)
LEMMA NewGroup ==
  ASSUME NEW t, NEW r, NEW c, NEW n \in Nat, ParsedTo(t, r, c, n), NEW g, g \notin DOMAIN c,
         ~(r = "desktopList" /\ g \in Associations)
  PROVE  \A i \in 1..n : ~EntryOf(t, r, i, g)
<1>1. SUFFICES ASSUME NEW i \in 1..n, BelongsTo(t, i, g) PROVE FALSE
  BY DEF EntryOf
<1>2. PICK h \in 1..i : BeginsGroup(t[h]) /\ t[h].name = g
  BY <1>1 DEF BelongsTo
<1>3. h \in 1..n
  OBVIOUS
<1>4. NamedIn(t, r, h)
  BY <1>2, <1>3 DEF ParsedTo, AcceptedTo, FormTo, BeginsGroup, NamedIn
<1> QED
  BY <1>2, <1>3, <1>4 DEF ParsedTo, ContentTo

LEMMA ParsedHeader ==
  ASSUME NEW t, NEW r, NEW c, NEW n \in Nat, ParsedTo(t, r, c, n), NamedIn(t, r, n + 1),
         r = "desktop" => t[n+1].name \notin DOMAIN c
  PROVE  ParsedTo(t, r, IF t[n+1].name \in DOMAIN c THEN c ELSE Put(c, t[n+1].name, Empty), n + 1)
<1> DEFINE name == t[n+1].name
           d == IF name \in DOMAIN c THEN c ELSE Put(c, name, Empty)
<1>1. /\ \A i \in 1..(n+1) : i \in 1..n \/ i = n + 1
      /\ \A i \in 1..n : i \in 1..(n+1)
      /\ n + 1 \in 1..(n+1) /\ \A i \in (n+1)..(n+1) : i = n + 1
  OBVIOUS
<1>2. t[n+1].kind = "header" /\ ~(r = "desktopList" /\ name \in Associations)
  BY DEF NamedIn
<1>3. \A g : ~EntryOf(t, r, n + 1, g)
  BY <1>2 DEF EntryOf
<1>4. DOMAIN d = DOMAIN c \cup {name} /\ \A g \in DOMAIN c : d[g] = c[g]
  BY DEF Put
<1>5. name \notin DOMAIN c => d[name] = Empty
  BY DEF Put
<1> HIDE DEF d
<1>6. FormTo(t, n + 1)
  BY <1>1, <1>2 DEF ParsedTo, AcceptedTo, FormTo
<1>7. ASSUME r = "desktop" PROVE UniqueTo(t, r, n + 1)
  <2>1. \A i \in 1..n : ~(NamedIn(t, r, i) /\ t[i].name = name)
    BY <1>7 DEF ParsedTo, ContentTo
  <2> QED
    BY <2>1, <1>1, <1>7 DEF ParsedTo, AcceptedTo, UniqueTo
<1>8. ASSUME r # "desktop", NEW i \in 1..(n+1), NamedIn(t, r, i) PROVE ListGroupTo(t, r, t[i].name, n + 1)
  <2>1. CASE t[i].name \in DOMAIN c
    <3>1. PICK j \in 1..n : NamedIn(t, r, j) /\ t[j].name = t[i].name
      BY <2>1 DEF ParsedTo, ContentTo
    <3>2. ListGroupTo(t, r, t[i].name, n)
      BY <3>1, <1>8 DEF ParsedTo, AcceptedTo, ListTo
    <3> QED
      BY <3>2, <1>1, <1>3, ListQuiet
  <2>2. CASE t[i].name \notin DOMAIN c
    <3>1. i = n + 1
      BY <2>2, <1>1, <1>8 DEF ParsedTo, ContentTo
    <3>2. \A j \in 1..(n+1) : ~EntryOf(t, r, j, name)
      BY <2>2, <3>1, <1>1, <1>2, <1>3, NewGroup
    <3> QED
      BY <3>1, <3>2 DEF ListGroupTo
  <2> QED
    BY <2>1, <2>2
<1>9. AcceptedTo(t, r, n + 1)
  BY <1>6, <1>7, <1>8 DEF AcceptedTo, ListTo
<1>10. ASSUME NEW g PROVE g \in DOMAIN d <=> \E i \in 1..(n+1) : NamedIn(t, r, i) /\ t[i].name = g
  BY <1>1, <1>4 DEF ParsedTo, ContentTo
<1>11. ASSUME NEW g \in DOMAIN d PROVE EntriesTo(t, r, d[g], g, n + 1)
  <2>1. CASE g \in DOMAIN c
    <3>1. EntriesTo(t, r, c[g], g, n)
      BY <2>1 DEF ParsedTo, ContentTo
    <3>2. EntriesTo(t, r, c[g], g, n + 1)
      BY <3>1, <1>1, <1>3, EntriesQuiet
    <3> QED
      BY <2>1, <3>2, <1>4
  <2>2. CASE g \notin DOMAIN c
    <3>1. g = name /\ d[g] = Empty
      BY <2>2, <1>4, <1>5
    <3>2. \A j \in 1..(n+1) : ~EntryOf(t, r, j, g)
      BY <2>2, <3>1, <1>1, <1>2, <1>3, NewGroup
    <3> QED
      BY <3>1, <3>2, EmptyTypes DEF EntriesTo
  <2> QED
    BY <2>1, <2>2
<1> QED
  BY <1>9, <1>10, <1>11 DEF ParsedTo, ContentTo, d

(* A line of group g that does not begin a group. *)
Entered(r, e, l) == IF r = "desktop" THEN DesktopEntries(e, l) ELSE ListEntries(e, l)

LEMMA ParsedEntry ==
  ASSUME NEW t, NEW r, NEW c, NEW n \in Nat, ParsedTo(t, r, c, n), NEW g \in DOMAIN c,
         BelongsTo(t, n + 1, g), t[n+1].kind \in {"entry", "junk"},
         r # "desktop" => ~ListRefuses(c[g], t[n+1])
  PROVE  ParsedTo(t, r, [c EXCEPT ![g] = Entered(r, @, t[n+1])], n + 1)
<1> DEFINE e == Entered(r, c[g], t[n+1])
           d == [c EXCEPT ![g] = Entered(r, @, t[n+1])]
<1>1. /\ \A i \in 1..(n+1) : i \in 1..n \/ i = n + 1
      /\ \A i \in 1..n : i \in 1..(n+1)
      /\ n + 1 \in 1..(n+1) /\ n + 1 \in Nat /\ \A i \in (n+1)..(n+1) : i = n + 1
  OBVIOUS
<1>2. DOMAIN d = DOMAIN c /\ d[g] = e /\ \A x \in DOMAIN c : x # g => d[x] = c[x]
  OBVIOUS
<1>3. ~NamedIn(t, r, n + 1) /\ t[n+1].kind # "broken"
  BY DEF NamedIn
<1>4. \A x \in DOMAIN c : x # g => ~EntryOf(t, r, n + 1, x)
  BY <1>1, OneGroup DEF EntryOf
<1>5. FormTo(t, n + 1)
  <2>1. \E h \in 1..(n+1) : BeginsGroup(t[h])
    BY DEF BelongsTo
  <2> QED
    BY <2>1, <1>1, <1>3 DEF ParsedTo, AcceptedTo, FormTo
<1>6. EntriesTo(t, r, c[g], g, n) /\ \A x \in DOMAIN c : EntriesTo(t, r, c[x], x, n)
  BY DEF ParsedTo, ContentTo
<1>7. EntriesTo(t, r, e, g, n + 1)
  <2>1. CASE EntryOf(t, r, n + 1, g)
    BY <2>1, <1>6, EntriesDesktop, EntriesList DEF Entered
  <2>2. CASE ~EntryOf(t, r, n + 1, g)
    <3>1. e = c[g]
      BY <2>2 DEF EntryOf, Entered, DesktopEntries, ListEntries, Ignored
    <3> HIDE DEF e
    <3> QED
      BY <2>2, <3>1, <1>1, <1>6, EntriesQuiet
  <2> QED
    BY <2>1, <2>2
<1>8. ASSUME r # "desktop", NEW x \in DOMAIN c PROVE ListGroupTo(t, r, x, n + 1)
  <2>1. ListGroupTo(t, r, x, n)
    <3>1. PICK i \in 1..n : NamedIn(t, r, i) /\ t[i].name = x
      BY <1>8 DEF ParsedTo, ContentTo
    <3> QED
      BY <3>1, <1>8 DEF ParsedTo, AcceptedTo, ListTo
  <2>2. CASE EntryOf(t, r, n + 1, x)
    <3>1. x = g
      BY <2>2, <1>4
    <3> QED
      BY <2>1, <2>2, <3>1, <1>6, <1>8, ListAccepts
  <2>3. CASE ~EntryOf(t, r, n + 1, x)
    BY <2>1, <2>3, <1>1, ListQuiet
  <2> QED
    BY <2>2, <2>3
<1> HIDE DEF d, e
<1>9. AcceptedTo(t, r, n + 1)
  <2>1. ASSUME r # "desktop", NEW i \in 1..(n+1), NamedIn(t, r, i) PROVE ListGroupTo(t, r, t[i].name, n + 1)
    <3>1. t[i].name \in DOMAIN c
      BY <2>1, <1>1, <1>3 DEF ParsedTo, ContentTo
    <3> QED
      BY <3>1, <2>1, <1>8
  <2>2. r = "desktop" => UniqueTo(t, r, n + 1)
    BY <1>1, <1>3 DEF ParsedTo, AcceptedTo, UniqueTo
  <2> QED
    BY <1>5, <2>1, <2>2 DEF AcceptedTo, ListTo
<1>10. ASSUME NEW x PROVE x \in DOMAIN d <=> \E i \in 1..(n+1) : NamedIn(t, r, i) /\ t[i].name = x
  BY <1>1, <1>2, <1>3 DEF ParsedTo, ContentTo
<1>11. ASSUME NEW x \in DOMAIN d PROVE EntriesTo(t, r, d[x], x, n + 1)
  <2>1. CASE x = g
    BY <2>1, <1>2, <1>7
  <2>2. CASE x # g
    <3>1. EntriesTo(t, r, c[x], x, n) /\ ~EntryOf(t, r, n + 1, x)
      BY <2>2, <1>2, <1>4, <1>6
    <3>2. EntriesTo(t, r, c[x], x, n + 1)
      BY <3>1, <1>1, EntriesQuiet
    <3> QED
      BY <2>2, <3>2, <1>2
  <2> QED
    BY <2>1, <2>2
<1> QED
  BY <1>9, <1>10, <1>11 DEF ParsedTo, ContentTo, d

(* Lines at which reading stops. *)
LEMMA HeaderTwice ==
  ASSUME NEW t, NEW c, NEW n \in Nat, ContentTo(t, "desktop", c, n), NamedIn(t, "desktop", n + 1),
         t[n+1].name \in DOMAIN c, NEW m \in Nat, n + 1 <= m
  PROVE  ~AcceptedTo(t, "desktop", m)
<1>1. PICK i \in 1..n : NamedIn(t, "desktop", i) /\ t[i].name = t[n+1].name
  BY DEF ContentTo
<1>2. i \in 1..m /\ n + 1 \in 1..m /\ i # n + 1
  OBVIOUS
<1> QED
  BY <1>1, <1>2 DEF AcceptedTo, UniqueTo

LEMMA EntryRefused ==
  ASSUME NEW t, NEW r, r # "desktop", NEW c, NEW n \in Nat, ContentTo(t, r, c, n), NEW g \in DOMAIN c,
         BelongsTo(t, n + 1, g), ListRefuses(c[g], t[n+1]), NEW m \in Nat, n + 1 <= m
  PROVE  ~AcceptedTo(t, r, m)
<1>1. PICK i \in 1..n : NamedIn(t, r, i) /\ t[i].name = g
  BY DEF ContentTo
<1>2. EntryOf(t, r, n + 1, g)
  BY DEF EntryOf, ListRefuses
<1>3. ~ListGroupTo(t, r, g, m)
  BY <1>2, ListRejects DEF ContentTo
<1>4. i \in 1..m
  OBVIOUS
<1> QED
  BY <1>1, <1>3, <1>4 DEF AcceptedTo, ListTo

LEMMA MainNotFirst ==
  ASSUME NEW t, NEW h \in Nat, OrderTo(t, "desktop", TRUE, h - 1), NamedIn(t, "desktop", h),
         t[h].name \notin {<<>>, Main}, NEW m \in Nat, h \in 1..m
  PROVE  ~MainFirst(t, "desktop", m)
<1>1. \A j \in 1..(h-1) : ~(NamedIn(t, "desktop", j) /\ t[j].name = Main)
  BY NameTypes DEF OrderTo
<1> QED
  BY <1>1 DEF MainFirst

(* The order of groups up to the end of the group of header h. *)
LEMMA OrderLeave ==
  ASSUME NEW t, NEW r, NEW f \in BOOLEAN, NEW h \in Nat \ {0}, OrderTo(t, r, f, h - 1), NamedIn(t, r, h),
         NEW m \in Nat, h <= m, \A i \in (h+1)..m : ~NamedIn(t, r, i),
         ~(r = "desktop" /\ f /\ t[h].name \notin {<<>>, Main})
  PROVE  OrderTo(t, r, IF r = "desktop" /\ f /\ t[h].name # <<>> THEN FALSE ELSE f, m)
<1>1. /\ \A i \in 1..m : NamedIn(t, r, i) => i \in 1..(h-1) \/ i = h
      /\ \A i \in 1..(h-1) : i \in 1..m
      /\ h \in 1..m
  OBVIOUS
<1>2. CASE r # "desktop"
  BY <1>2 DEF OrderTo
<1>3. CASE r = "desktop" /\ f
  <2>1. \A i \in 1..(h-1) : NamedIn(t, r, i) => t[i].name = <<>>
    BY <1>3 DEF OrderTo
  <2>2. CASE t[h].name = <<>>
    BY <1>1, <1>3, <2>1, <2>2 DEF OrderTo
  <2>3. CASE t[h].name = Main
    <3>1. Main # <<>>
      BY NameTypes
    <3>2. MainFirst(t, r, m) /\ \E i \in 1..m : NamedIn(t, r, i) /\ t[i].name = Main
      BY <1>1, <2>1, <2>3 DEF MainFirst
    <3> QED
      BY <1>3, <2>3, <3>1, <3>2 DEF OrderTo
  <2> QED
    BY <1>3, <2>2, <2>3
<1>4. CASE r = "desktop" /\ ~f
  <2>1. MainFirst(t, r, h - 1) /\ \E i \in 1..(h-1) : NamedIn(t, r, i) /\ t[i].name = Main
    BY <1>4 DEF OrderTo
  <2>2. MainFirst(t, r, m) /\ \E i \in 1..m : NamedIn(t, r, i) /\ t[i].name = Main
    BY <1>1, <2>1 DEF MainFirst
  <2> QED
    BY <1>4, <2>2 DEF OrderTo
<1> QED
  BY <1>2, <1>3, <1>4

-----------------------------------------------------------------------------
(***************************************************************************)
(* The parser's own operators in these terms.                              *)
(***************************************************************************)
LEMMA ParsedEmpty ==
  ASSUME NEW t, NEW r
  PROVE  ParsedTo(t, r, Empty, 0) /\ OrderTo(t, r, TRUE, 0)
<1>1. 1..0 = {}
  OBVIOUS
<1> QED
  BY <1>1, EmptyTypes
  DEF ParsedTo, AcceptedTo, FormTo, UniqueTo, ListTo, ContentTo, OrderTo

LEMMA ParsedBlank ==
  ASSUME NEW t, NEW r, NEW c, NEW n \in Nat, NEW m \in Nat, n <= m, ParsedTo(t, r, c, n),
         \A i \in (n+1)..m : t[i].kind = "blank"
  PROVE  ParsedTo(t, r, c, m)
BY ParsedQuiet, BlankLines

LEMMA OrderBlank ==
  ASSUME NEW t, NEW r, NEW f, NEW n \in Nat, NEW m \in Nat, n <= m, OrderTo(t, r, f, n),
         \A i \in (n+1)..m : t[i].kind = "blank"
  PROVE  OrderTo(t, r, f, m)
BY OrderQuiet, BlankLines

LEMMA TextFacts ==
  ASSUME TypeOK
  PROVE  /\ Len(text) \in Nat /\ DOMAIN text = 1..Len(text) /\ next \in 1..(Len(text) + 1)
         /\ \A i \in 1..Len(text) : text[i] \in FileLine /\ text[i] # NoLine
<1>1. text \in Seq(FileLine) /\ next \in 1..(Len(text) + 1)
  BY DEF TypeOK
<1> QED
  BY <1>1, LineTypes

LEMMA SkipFacts ==
  ASSUME TypeOK
  PROVE  /\ Ahead = {} => /\ SkipLine = line /\ SkipNext = Len(text) + 1
                          /\ \A i \in next..Len(text) : text[i].kind = "blank"
         /\ Ahead # {} => \E q \in next..Len(text) :
                            /\ SkipLine = text[q] /\ SkipNext = q + 1 /\ text[q].kind # "blank"
                            /\ \A i \in next..(q-1) : text[i].kind = "blank"
<1>1. Len(text) \in Nat /\ next \in Nat
  BY TextFacts
<1>2. CASE Ahead = {}
  BY <1>2 DEF Ahead, SkipLine, SkipNext
<1>3. CASE Ahead # {}
  <2>1. Ahead \subseteq Nat
    BY <1>1 DEF Ahead
  <2>2. \E i \in Ahead : \A j \in Ahead : i <= j
    BY <2>1, <1>3, LeastNumber
  <2>3. SkipTo \in Ahead /\ \A j \in Ahead : SkipTo <= j
    BY <2>2 DEF SkipTo
  <2> DEFINE q == SkipTo
  <2>4. q \in next..Len(text) /\ text[q].kind # "blank"
    BY <2>3 DEF Ahead
  <2>5. ASSUME NEW i \in next..(q-1) PROVE text[i].kind = "blank"
    <3>1. i \in next..Len(text) /\ ~(q <= i)
      BY <2>4, <1>1
    <3>2. i \notin Ahead
      BY <3>1, <2>3
    <3> QED
      BY <3>1, <3>2 DEF Ahead
  <2>6. SkipLine = text[q] /\ SkipNext = q + 1
    BY <1>3 DEF SkipLine, SkipNext
  <2> HIDE DEF q
  <2> QED
    BY <1>3, <2>4, <2>5, <2>6
<1> QED
  BY <1>2, <1>3

LEMMA Readers ==
  ASSUME input \in Files \cup Requested
  PROVE  Reader \in {"desktop", "list", "desktopList"} /\ (~IsFile => Reader = "desktop")
<1>1. CASE input \in Files
  BY <1>1, FilesAssumption DEF Reader, IsFile
<1>2. CASE input \notin Files
  <2>1. RequestType(input)
    BY <1>2, RequestedAssumption
  <2> QED
    BY <2>1 DEF RequestType, Reader, IsFile
<1> QED
  BY <1>1, <1>2

Localized == IF IsDesktop THEN LocaleKeys ELSE {}

(* A step of the parser keeps the file and who reads it. *)
LEMMA SameReader ==
  ASSUME UNCHANGED input
  PROVE  UNCHANGED <<Reader, IsDesktop, Localized>>
BY DEF Reader, IsFile, IsDesktop, Localized

LEMMA SameMain ==
  ASSUME UNCHANGED groups
  PROVE  UNCHANGED ValidMain
BY DEF ValidMain

LEMMA DesktopEntriesType ==
  ASSUME NEW e, EntriesType(e, LocaleKeys), NEW l \in FileLine
  PROVE  EntriesType(DesktopEntries(e, l), LocaleKeys)
<1> DEFINE old == IF l.key \in DOMAIN e THEN e[l.key] ELSE Empty
           texts == Put(old, KeyedLocale(l), l.value)
<1>1. DesktopEntries(e, l) = e \/ DesktopEntries(e, l) = Put(e, l.key, texts)
  BY DEF DesktopEntries
<1>2. TextMap(old) /\ (l.key \notin LocaleKeys => DOMAIN old \subseteq {"default"})
  BY EmptyTypes DEF EntriesType
<1> HIDE DEF old
<1>3. KeyedLocale(l) \in Strings /\ (l.key \notin LocaleKeys => KeyedLocale(l) = "default")
  <2>1. "default" \in Strings
    BY StringsAssumption, Zenon
  <2> QED
    BY <2>1, LineFields DEF KeyedLocale
<1>4. TextMap(texts) /\ DOMAIN texts = DOMAIN old \cup {KeyedLocale(l)}
  BY <1>2, <1>3, LineFields, PutText
<1> HIDE DEF texts
<1>5. l.key \notin LocaleKeys => DOMAIN texts = {"default"}
  BY <1>2, <1>3, <1>4
<1>6. l.key \in Strings
  BY LineFields
<1>7. EntriesType(Put(e, l.key, texts), LocaleKeys)
  BY <1>4, <1>5, <1>6, PutEntries
<1> QED
  BY <1>1, <1>7

LEMMA ListEntriesType ==
  ASSUME NEW e, EntriesType(e, {}), NEW l, l \in FileLine \/ l.kind # "entry"
  PROVE  EntriesType(ListEntries(e, l), {})
<1>1. CASE l.kind # "entry"
  BY <1>1 DEF ListEntries
<1>2. CASE l.kind = "entry"
  <2> DEFINE texts == [d \in {"default"} |-> Applications(l.value)]
  <2>1. l.key \in Strings /\ Applications(l.value) \in Words
    BY <1>2, LineFields, ApplicationsType
  <2>2. TextMap(texts) /\ DOMAIN texts = {"default"}
    BY <2>1, OneText
  <2>3. ListEntries(e, l) = Put(e, l.key, texts)
    BY <1>2 DEF ListEntries
  <2> HIDE DEF texts
  <2> QED
    BY <2>1, <2>2, <2>3, PutEntries
<1> QED
  BY <1>1, <1>2

LEMMA EnteredType ==
  ASSUME NEW e, EntriesType(e, Localized), NEW l, l \in FileLine \/ (~IsDesktop /\ l.kind # "entry")
  PROVE  EntriesType(Entered(Reader, e, l), Localized)
BY DesktopEntriesType, ListEntriesType DEF Localized, IsDesktop, Entered

-----------------------------------------------------------------------------
(***************************************************************************)
(* The invariant.  What was understood of the lines taken so far (RInv)    *)
(* is what the type of a parser that stops needs (TypeOK), and conversely. *)
(***************************************************************************)
Inv == TypeOK /\ input \in Files \cup Requested /\ RInv

LEMMA FileType ==
  ASSUME NEW file, file \in Seq(FileLine), input' \in Files \cup Requested, BeginReading(file)
  PROVE  Inv'
<1>1. Len(file) \in Nat /\ 1 \in 1..(Len(file) + 1)
  OBVIOUS
<1>2. <<>> \in Words
  BY DEF Words
<1>3. ContentType(Empty, (IF IsDesktop THEN LocaleKeys ELSE {})')
  BY EmptyTypes
<1>4. TypeOK'
  BY <1>1, <1>2, <1>3 DEF TypeOK, BeginReading
<1>5. RInv'
  BY DEF RInv, AtGenerate, AtOpen, AtGroups, AtSkipped, AtEntries, AtDone, BeginReading
<1> QED
  BY <1>4, <1>5 DEF Inv

LEMMA InitInv == Init => Inv
<1> SUFFICES ASSUME Init PROVE Inv
  OBVIOUS
<1>1. text \in Seq(FileLine)
  <2>1. CASE IsFile
    <3>1. input \in Files
      <4>1. ~RequestType(input)
        BY <2>1 DEF IsFile, RequestType
      <4> QED
        BY <4>1, RequestedAssumption DEF Init
    <3> QED
      BY <2>1, <3>1, FilesAssumption DEF Init
  <2>2. CASE ~IsFile
    BY <2>2 DEF Init
  <2> QED
    BY <2>1, <2>2
<1>2. Len(text) \in Nat /\ 1 \in 1..(Len(text) + 1)
  BY <1>1
<1>3. <<>> \in Words
  BY DEF Words
<1>4. ContentType(Empty, IF IsDesktop THEN LocaleKeys ELSE {})
  BY EmptyTypes
<1>5. TypeOK
  BY <1>1, <1>2, <1>3, <1>4 DEF TypeOK, Init
<1>6. RInv
  <2>1. input \in Files => IsFile
    BY FilesAssumption DEF IsFile
  <2> QED
    BY <2>1 DEF RInv, AtGenerate, AtOpen, AtGroups, AtSkipped, AtEntries, AtDone, Init
<1> QED
  BY <1>5, <1>6 DEF Inv, Init

-----------------------------------------------------------------------------
(***************************************************************************)
(* Each action keeps it.                                                   *)
(***************************************************************************)
LEMMA OpenInv ==
  ASSUME Inv, Open
  PROVE  Inv'
<1> USE DEF Inv
<1>1. UNCHANGED <<Reader, IsDesktop, Localized>> /\ UNCHANGED <<input, text, groups, group, first, kept>>
  BY SameReader DEF Open
<1>2. next = 1 /\ line = NoLine /\ groups = Empty /\ first /\ err = "NoError"
  BY DEF Open, RInv, AtOpen
<1>3. Len(text) \in Nat /\ DOMAIN text = 1..Len(text) /\ \A i \in 1..Len(text) : text[i] \in FileLine /\ text[i] # NoLine
  BY TextFacts
<1>4. CASE IsDesktop /\ text = <<>>
  <2>1. at' = "done" /\ err' = "OpenFailed" /\ UNCHANGED <<next, line>>
    BY <1>4 DEF Open, Fail
  <2>2. TypeOK'
    BY <1>1, <2>1 DEF TypeOK
  <2>3. RInv'
    BY <1>1, <1>4, <2>1 DEF RInv, AtGenerate, AtOpen, AtGroups, AtSkipped, AtEntries, AtDone
  <2> QED
    BY <1>1, <2>2, <2>3
<1>5. CASE ~(IsDesktop /\ text = <<>>)
  <2>1. at' = "groups" /\ line' = SkipLine /\ next' = SkipNext /\ UNCHANGED err
    BY <1>5 DEF Open
  <2>2. ParsedTo(text, Reader, groups, 0) /\ OrderTo(text, Reader, first, 0)
    BY <1>2, ParsedEmpty DEF TypeOK
  <2>3. CASE Ahead = {}
    <3>1. line' = NoLine /\ next' = Len(text) + 1 /\ \A i \in 1..Len(text) : text[i].kind = "blank"
      BY <1>2, <2>1, <2>3, SkipFacts
    <3>2. TypeOK'
      BY <1>1, <1>3, <2>1, <3>1 DEF TypeOK
    <3>3. ParsedTo(text, Reader, groups, Len(text)) /\ OrderTo(text, Reader, first, Len(text))
      BY <1>3, <2>2, <3>1, ParsedBlank, OrderBlank
    <3>4. RInv'
      BY <1>1, <2>1, <3>1, <3>3 DEF RInv, AtGenerate, AtOpen, AtGroups, AtSkipped, AtEntries, AtDone
    <3> QED
      BY <1>1, <3>2, <3>4
  <2>4. CASE Ahead # {}
    <3>1. PICK q \in 1..Len(text) :
            /\ SkipLine = text[q] /\ SkipNext = q + 1 /\ text[q].kind # "blank"
            /\ \A i \in 1..(q-1) : text[i].kind = "blank"
      BY <1>2, <2>4, SkipFacts
    <3>2. TypeOK'
      <4>1. next' \in 1..(Len(text) + 1) /\ line' \in FileLine \cup {NoLine}
        BY <1>3, <2>1, <3>1
      <4> QED
        BY <1>1, <2>1, <4>1 DEF TypeOK
    <3>3. ParsedTo(text, Reader, groups, q - 1) /\ OrderTo(text, Reader, first, q - 1)
      BY <2>2, <3>1, ParsedBlank, OrderBlank
    <3>4. LineAt(text, next', line', q) /\ line' # NoLine
      BY <1>3, <2>1, <3>1 DEF LineAt
    <3>5. BeginsGroup(line') \/ \A j \in 1..q : ~BeginsGroup(text[j])
      BY <2>1, <3>1 DEF BeginsGroup
    <3>6. AtGroups'
      BY <1>1, <1>3, <3>3, <3>4, <3>5 DEF AtGroups
    <3>7. RInv'
      BY <2>1, <3>6 DEF RInv, AtGenerate, AtOpen, AtSkipped, AtEntries, AtDone
    <3> QED
      BY <1>1, <3>2, <3>7
  <2> QED
    BY <2>3, <2>4
<1> QED
  BY <1>4, <1>5

LEMMA FinishInv ==
  ASSUME Inv, Finish
  PROVE  Inv'
<1> USE DEF Inv
<1>1. /\ UNCHANGED <<Reader, IsDesktop, Localized>> /\ UNCHANGED ValidMain
      /\ UNCHANGED <<input, text, next, line, groups, group, first, kept>>
  BY SameReader, SameMain DEF Finish
<1>2. line = NoLine /\ at = "groups" /\ at' = "done"
  BY DEF Finish, AtEnd, Fail
<1>3. next = Len(text) + 1 /\ ParsedTo(text, Reader, groups, Len(text)) /\ OrderTo(text, Reader, first, Len(text))
  BY <1>2 DEF RInv, AtGenerate, AtGroups
<1>4. err' = IF IsDesktop /\ ~ValidMain THEN "MissingInfo" ELSE "NoError"
  BY DEF Finish, Fail
<1>5. AcceptedTo(text, Reader, Len(text)) /\ ContentTo(text, Reader, groups, Len(text))
  BY <1>3 DEF ParsedTo
<1>6. TypeOK'
  <2>1. AtEnd'
    BY <1>1, <1>2, <1>3, TextFacts DEF AtEnd
  <2> QED
    BY <1>1, <1>2, <1>4, <2>1 DEF TypeOK
<1>7. ASSUME IsDesktop, ValidMain PROVE text # <<>> /\ MainFirst(text, Reader, Len(text))
  <2>1. Reader = "desktop" /\ Main \in DOMAIN groups
    BY <1>7 DEF IsDesktop, ValidMain
  <2>2. PICK i \in 1..Len(text) : NamedIn(text, Reader, i) /\ text[i].name = Main
    BY <1>5, <2>1 DEF ContentTo
  <2>3. ~first
    BY <1>3, <2>1, <2>2, NameTypes DEF OrderTo
  <2>4. text # <<>>
    BY <2>2
  <2> QED
    BY <1>3, <2>1, <2>3, <2>4 DEF OrderTo
<1>8. AtDone'
  <2>1. CASE IsDesktop /\ ~ValidMain
    BY <1>1, <1>2, <1>4, <1>5, <2>1 DEF AtDone
  <2>2. CASE ~(IsDesktop /\ ~ValidMain)
    BY <1>1, <1>2, <1>4, <1>5, <1>7, <2>2 DEF AtDone
  <2> QED
    BY <2>1, <2>2
<1>9. RInv'
  BY <1>2, <1>8 DEF RInv, AtGenerate, AtOpen, AtGroups, AtSkipped, AtEntries
<1> QED
  BY <1>1, <1>6, <1>9

LEMMA AddGroupInv ==
  ASSUME Inv, AddGroup
  PROVE  Inv'
<1> USE DEF Inv
<1>1. UNCHANGED <<Reader, IsDesktop, Localized>> /\ UNCHANGED <<input, text, next, first, kept>>
  BY SameReader DEF AddGroup
<1>2. at = "groups" /\ line # NoLine
  BY DEF AddGroup
<1>3. PICK p \in DOMAIN text :
        /\ LineAt(text, next, line, p)
        /\ ParsedTo(text, Reader, groups, p - 1) /\ OrderTo(text, Reader, first, p - 1)
        /\ BeginsGroup(line) \/ \A j \in 1..p : ~BeginsGroup(text[j])
  BY <1>2 DEF RInv, AtGenerate, AtGroups
<1>4. /\ Len(text) \in Nat /\ DOMAIN text = 1..Len(text) /\ next \in 1..(Len(text) + 1)
      /\ p \in 1..(next - 1) /\ p - 1 \in Nat /\ (p - 1) + 1 = p /\ p <= Len(text) /\ p \in Nat
  BY <1>3, TextFacts DEF LineAt
<1>5. line = text[p] /\ line \in FileLine /\ line.kind # "blank" /\ \A i \in (p+1)..(next-1) : text[i].kind = "blank"
  BY <1>3, TextFacts DEF LineAt
<1>6. CASE line.kind # "header" \/ (IsDesktop /\ line.name \in DOMAIN groups)
  <2>1. at' = "done" /\ err' = "InvalidFormat" /\ UNCHANGED <<line, groups, group>>
    BY <1>6 DEF AddGroup, Fail, IsDesktop
  <2>2. TypeOK'
    BY <1>1, <2>1 DEF TypeOK
  <2>3. ~AcceptedTo(text, Reader, Len(text))
    <3>1. CASE line.kind = "broken"
      BY <1>4, <1>5, <3>1 DEF AcceptedTo, FormTo
    <3>2. CASE line.kind \in {"entry", "junk"}
      <4>1. \A j \in 1..p : ~BeginsGroup(text[j])
        BY <1>3, <3>2 DEF BeginsGroup
      <4> QED
        BY <1>4, <1>5, <3>2, <4>1 DEF AcceptedTo, FormTo
    <3>3. CASE line.kind = "header"
      <4>1. Reader = "desktop" /\ line.name \in DOMAIN groups
        BY <1>6, <3>3 DEF IsDesktop
      <4>2. NamedIn(text, "desktop", p)
        BY <1>5, <3>3 DEF NamedIn
      <4>3. ContentTo(text, "desktop", groups, p - 1)
        BY <1>3, <4>1 DEF ParsedTo
      <4> DEFINE n == p - 1
      <4>4. n \in Nat /\ p = n + 1
        BY <1>4
      <4> HIDE DEF n
      <4>5. ContentTo(text, "desktop", groups, n)
        BY <4>3 DEF n
      <4> QED
        BY <1>4, <1>5, <4>1, <4>2, <4>4, <4>5, HeaderTwice
    <3> QED
      BY <1>5, <3>1, <3>2, <3>3, LineFields
  <2>4. RInv'
    BY <1>1, <2>1, <2>3 DEF RInv, AtGenerate, AtOpen, AtGroups, AtSkipped, AtEntries, AtDone
  <2> QED
    BY <1>1, <2>2, <2>4
<1>7. CASE line.kind = "header" /\ Reader = "desktopList" /\ line.name \in Associations
  <2>1. ~IsDesktop
    BY <1>7 DEF IsDesktop
  <2>2. at' = "skipped" /\ UNCHANGED <<line, groups, group, err>>
    BY <1>7, <2>1 DEF AddGroup
  <2>3. TypeOK'
    BY <1>1, <2>2 DEF TypeOK
  <2>4. p \in 1..p /\ \A j \in (p+1)..p : FALSE
    BY <1>4
  <2>5. AtSkipped'
    BY <1>1, <1>3, <1>4, <1>5, <1>7, <2>2, <2>4 DEF AtSkipped
  <2>6. RInv'
    BY <2>2, <2>5 DEF RInv, AtGenerate, AtOpen, AtGroups, AtEntries, AtDone
  <2> QED
    BY <1>1, <2>3, <2>6
<1>8. CASE /\ line.kind = "header" /\ ~(IsDesktop /\ line.name \in DOMAIN groups)
           /\ ~(Reader = "desktopList" /\ line.name \in Associations)
  <2> DEFINE name == line.name
             d == IF name \in DOMAIN groups THEN groups ELSE Put(groups, name, Empty)
  <2>1. groups' = d /\ at' = "entries" /\ group' = name /\ line' = NoLine /\ UNCHANGED err
    BY <1>8 DEF AddGroup
  <2>2. name \in Words
    BY <1>5, LineFields
  <2>3. ContentType(d, Localized) /\ name \in DOMAIN d
    <3>1. ContentType(groups, Localized)
      BY DEF TypeOK, Localized
    <3>2. EntriesType(Empty, Localized)
      BY EmptyTypes
    <3>3. CASE name \in DOMAIN groups
      BY <3>1, <3>3
    <3>4. CASE name \notin DOMAIN groups
      <4>1. ContentType(Put(groups, name, Empty), Localized) /\ DOMAIN Put(groups, name, Empty) = DOMAIN groups \cup {name}
        BY <2>2, <3>1, <3>2, PutContent
      <4> QED
        BY <3>4, <4>1
    <3> QED
      BY <3>3, <3>4
  <2> HIDE DEF d
  <2>4. TypeOK'
    <3>1. ContentType(groups', Localized')
      BY <1>1, <2>1, <2>3
    <3> QED
      BY <1>1, <2>1, <2>2, <2>3, <3>1 DEF TypeOK, Localized
  <2>5. NamedIn(text, Reader, p)
    BY <1>5, <1>8 DEF NamedIn
  <2>6. ParsedTo(text, Reader, d, p)
    <3> DEFINE n == p - 1
    <3>1. n \in Nat /\ p = n + 1 /\ ParsedTo(text, Reader, groups, n)
      BY <1>3, <1>4
    <3> HIDE DEF n
    <3>2. Reader = "desktop" => text[n+1].name \notin DOMAIN groups
      BY <1>5, <1>8, <3>1 DEF IsDesktop
    <3>3. ParsedTo(text, Reader, IF text[n+1].name \in DOMAIN groups THEN groups ELSE Put(groups, text[n+1].name, Empty), n + 1)
      BY <2>5, <3>1, <3>2, ParsedHeader
    <3> QED
      BY <1>5, <3>1, <3>3 DEF d
  <2>7. ParsedTo(text, Reader, d, next - 1)
    BY <1>4, <1>5, <2>6, ParsedBlank
  <2>8. \A j \in (p+1)..(next - 1) : ~BeginsGroup(text[j])
    BY <1>5 DEF BeginsGroup
  <2>9. AtEntries'
    BY <1>1, <1>3, <1>4, <1>5, <2>1, <2>5, <2>7, <2>8 DEF AtEntries
  <2>10. RInv'
    BY <2>1, <2>9 DEF RInv, AtGenerate, AtOpen, AtGroups, AtSkipped, AtDone
  <2> QED
    BY <1>1, <2>4, <2>10
<1> QED
  BY <1>6, <1>7, <1>8

(* The lines of a group that is left out. *)
LEMMA LeftOutLines ==
  ASSUME NEW t, NEW c, NEW h \in Nat \ {0}, NEW m \in Nat, h <= m, ParsedTo(t, "desktopList", c, h - 1),
         t[h].kind = "header", t[h].name \in Associations, \A j \in (h+1)..m : ~BeginsGroup(t[j])
  PROVE  ParsedTo(t, "desktopList", c, m)
<1> DEFINE r == "desktopList"
           n == h - 1
<1>1. n \in Nat /\ n <= m /\ n + 1 = h /\ ParsedTo(t, r, c, n)
  OBVIOUS
<1>2. t[h].name \notin DOMAIN c
  <2>1. ContentTo(t, r, c, n)
    BY <1>1 DEF ParsedTo
  <2> HIDE DEF n
  <2> QED
    BY <2>1 DEF ContentTo, NamedIn
<1>3. ASSUME NEW i \in h..m
      PROVE /\ t[i].kind # "broken" /\ ~NamedIn(t, r, i)
            /\ t[i].kind \in {"entry", "junk"} => \E x \in 1..i : BeginsGroup(t[x])
            /\ \A g \in DOMAIN c : ~EntryOf(t, r, i, g)
  <2>1. BeginsGroup(t[h]) /\ h \in 1..i /\ \A j \in (h+1)..i : ~BeginsGroup(t[j])
    BY DEF BeginsGroup
  <2>2. BelongsTo(t, i, t[h].name)
    BY <2>1 DEF BelongsTo
  <2>3. \A g \in DOMAIN c : ~BelongsTo(t, i, g)
    BY <1>2, <2>2, OneGroup
  <2>4. CASE i = h
    BY <2>1, <2>3, <2>4 DEF NamedIn, EntryOf
  <2>5. CASE i # h
    <3>1. ~BeginsGroup(t[i])
      BY <2>5
    <3> QED
      BY <2>1, <2>3, <3>1 DEF NamedIn, EntryOf, BeginsGroup
  <2> QED
    BY <2>4, <2>5
<1> HIDE DEF n
<1> QED
  BY <1>1, <1>3, ParsedQuiet

LEMMA SkipGroupInv ==
  ASSUME Inv, SkipGroup
  PROVE  Inv'
<1> USE DEF Inv
<1>1. UNCHANGED <<Reader, IsDesktop, Localized>> /\ UNCHANGED <<input, text, groups, group, first, err, kept>>
  BY SameReader DEF SkipGroup
<1>2. Reader = "desktopList" /\ at = "skipped"
  BY DEF SkipGroup, RInv, AtSkipped
<1>3. PICK p \in DOMAIN text : \E h \in 1..p :
         /\ LineAt(text, next, line, p)
         /\ text[h].kind = "header" /\ text[h].name \in Associations
         /\ \A j \in (h+1)..p : ~BeginsGroup(text[j])
         /\ ParsedTo(text, Reader, groups, h - 1)
  BY <1>2 DEF RInv, AtGenerate, AtSkipped
<1>4. PICK h \in 1..p :
         /\ LineAt(text, next, line, p)
         /\ text[h].kind = "header" /\ text[h].name \in Associations
         /\ \A j \in (h+1)..p : ~BeginsGroup(text[j])
         /\ ParsedTo(text, Reader, groups, h - 1)
  BY <1>3
<1>5. /\ Len(text) \in Nat /\ DOMAIN text = 1..Len(text) /\ next \in 1..(Len(text) + 1)
      /\ \A i \in 1..Len(text) : text[i] \in FileLine /\ text[i] # NoLine
      /\ p \in 1..(next - 1) /\ p \in Nat /\ h \in Nat \ {0}
  BY <1>4, TextFacts DEF LineAt
<1>6. line = text[p] /\ line # NoLine /\ line.kind # "blank" /\ \A i \in (p+1)..(next-1) : text[i].kind = "blank"
  BY <1>4, <1>5 DEF LineAt
<1>7. /\ line' = SkipLine /\ next' = SkipNext
      /\ at' = IF SkipLine = NoLine \/ BeginsGroup(SkipLine) THEN "groups" ELSE "skipped"
  BY <1>6 DEF SkipGroup, AtEnd
(* Wherever the parser stops next, q, it is behind a part of the group. *)
<1>8. PICK q \in 1..Len(text) :
        /\ LineAt(text, next', line', q) /\ h <= q /\ line' = text[q] /\ next' \in 1..(Len(text) + 1)
        /\ \A j \in (h+1)..(q-1) : ~BeginsGroup(text[j])
        /\ q = h \/ q >= h + 1
  <2>1. CASE Ahead = {}
    <3>1. line' = text[p] /\ next' = Len(text) + 1 /\ \A i \in next..Len(text) : text[i].kind = "blank"
      BY <2>1, <1>6, <1>7, SkipFacts
    <3>2. \A i \in (p+1)..(next'-1) : i \in (p+1)..(next-1) \/ i \in next..Len(text)
      BY <3>1, <1>5
    <3>3. LineAt(text, next', line', p)
      BY <3>1, <3>2, <1>5, <1>6 DEF LineAt
    <3> QED
      BY <3>1, <3>3, <1>4, <1>5
  <2>2. CASE Ahead # {}
    <3>1. PICK q \in next..Len(text) :
            /\ SkipLine = text[q] /\ SkipNext = q + 1 /\ text[q].kind # "blank"
            /\ \A i \in next..(q-1) : text[i].kind = "blank"
      BY <2>2, SkipFacts
    <3>2. q \in 1..Len(text) /\ q >= h + 1 /\ next' \in 1..(Len(text) + 1)
      BY <3>1, <1>5, <1>7
    <3>3. LineAt(text, next', line', q) /\ line' = text[q]
      BY <3>1, <3>2, <1>7 DEF LineAt
    <3>4. \A j \in (h+1)..(q-1) : j \in (h+1)..p \/ j \in (p+1)..(next-1) \/ j \in next..(q-1)
      BY <3>1, <1>5
    <3>5. \A j \in (h+1)..(q-1) : ~BeginsGroup(text[j])
      BY <3>1, <3>4, <1>4, <1>6 DEF BeginsGroup
    <3> QED
      BY <3>2, <3>3, <3>5
  <2> QED
    BY <2>1, <2>2
<1>9. line' # NoLine /\ line' \in FileLine
  BY <1>5, <1>8
<1>10. TypeOK'
  <2>1. at' \in {"groups", "skipped"}
    BY <1>7
  <2> QED
    BY <1>1, <1>8, <1>9, <2>1 DEF TypeOK
<1>11. CASE BeginsGroup(line')
  <2>1. at' = "groups"
    BY <1>7, <1>11
  <2>2. ParsedTo(text, Reader, groups, q - 1)
    <3>1. CASE q = h
      BY <3>1, <1>4
    <3>2. CASE q >= h + 1
      <4> DEFINE m == q - 1
      <4>1. m \in Nat /\ h <= m /\ \A j \in (h+1)..m : ~BeginsGroup(text[j])
        BY <3>2, <1>5, <1>8
      <4> HIDE DEF m
      <4>2. ParsedTo(text, Reader, groups, m)
        BY <4>1, <1>2, <1>4, <1>5, LeftOutLines
      <4> QED
        BY <4>2 DEF m
    <3> QED
      BY <3>1, <3>2, <1>8
  <2>3. OrderTo(text, Reader, first, q - 1)
    BY <1>2 DEF OrderTo
  <2>4. AtGroups'
    BY <1>1, <1>5, <1>8, <1>9, <1>11, <2>2, <2>3 DEF AtGroups
  <2>5. RInv'
    BY <2>1, <2>4 DEF RInv, AtGenerate, AtOpen, AtSkipped, AtEntries, AtDone
  <2> QED
    BY <1>1, <1>10, <2>5
<1>12. CASE ~BeginsGroup(line')
  <2>1. at' = "skipped"
    BY <1>7, <1>9, <1>12
  <2>2. \A j \in (h+1)..q : ~BeginsGroup(text[j])
    BY <1>5, <1>8, <1>12
  <2>3. h \in 1..q
    BY <1>5, <1>8
  <2>4. AtSkipped'
    BY <1>1, <1>2, <1>4, <1>5, <1>8, <2>2, <2>3 DEF AtSkipped
  <2>5. RInv'
    BY <2>1, <2>4 DEF RInv, AtGenerate, AtOpen, AtGroups, AtEntries, AtDone
  <2> QED
    BY <1>1, <1>10, <2>5
<1> QED
  BY <1>11, <1>12

(* Where the group of header h ends, at line m. *)
LEMMA LeaveGroupInv ==
  ASSUME TypeOK, LeaveGroup, NEW h \in Nat \ {0}, NEW m \in Nat, h <= m, m <= Len(text),
         NamedIn(text, Reader, h), text[h].name = group, OrderTo(text, Reader, first, h - 1),
         \A i \in (h+1)..m : ~BeginsGroup(text[i])
  PROVE  \/ /\ at' = "done" /\ err' = "InvalidFormat" /\ first' = FALSE
            /\ IsDesktop /\ ~MainFirst(text, Reader, Len(text))
         \/ /\ at' = "groups" /\ UNCHANGED err /\ first' \in BOOLEAN
            /\ OrderTo(text, Reader, first', m)
<1>1. first \in BOOLEAN /\ Len(text) \in Nat
  BY TextFacts DEF TypeOK
<1>2. CASE IsDesktop /\ first /\ group # <<>> /\ group # Main
  <2>1. at' = "done" /\ err' = "InvalidFormat" /\ first' = FALSE
    BY <1>2 DEF LeaveGroup, Fail
  <2>2. Reader = "desktop" /\ first = TRUE
    BY <1>1, <1>2 DEF IsDesktop
  <2>3. OrderTo(text, "desktop", TRUE, h - 1) /\ NamedIn(text, "desktop", h)
    BY <2>2
  <2>4. ~MainFirst(text, "desktop", Len(text))
    <3>1. h \in 1..Len(text) /\ h \in Nat
      BY <1>1
    <3>2. text[h].name \notin {<<>>, Main}
      BY <1>2
    <3> QED
      BY <1>1, <2>3, <3>1, <3>2, MainNotFirst
  <2> QED
    BY <1>2, <2>1, <2>2, <2>4
<1>3. CASE ~(IsDesktop /\ first /\ group # <<>> /\ group # Main)
  <2>1. /\ at' = "groups" /\ UNCHANGED err
        /\ first' = IF Reader = "desktop" /\ first /\ text[h].name # <<>> THEN FALSE ELSE first
    BY <1>3 DEF LeaveGroup, IsDesktop
  <2>2. \A i \in (h+1)..m : ~NamedIn(text, Reader, i)
    BY DEF BeginsGroup, NamedIn
  <2>3. ~(Reader = "desktop" /\ first /\ text[h].name \notin {<<>>, Main})
    BY <1>3 DEF IsDesktop
  <2>4. OrderTo(text, Reader, IF Reader = "desktop" /\ first /\ text[h].name # <<>> THEN FALSE ELSE first, m)
    BY <1>1, <2>2, <2>3, OrderLeave
  <2> QED
    BY <1>1, <2>1, <2>4
<1> QED
  BY <1>2, <1>3

LEMMA AddEntryInv ==
  ASSUME Inv, AddEntry
  PROVE  Inv'
<1> USE DEF Inv
<1> DEFINE l == SkipLine
<1>1. UNCHANGED <<Reader, IsDesktop, Localized>> /\ UNCHANGED <<input, text, group, kept>>
  BY SameReader DEF AddEntry
<1>2. at = "entries" /\ line = NoLine /\ ParsedTo(text, Reader, groups, next - 1)
  BY DEF AddEntry, RInv, AtEntries
<1>3. PICK h \in 1..(next - 1) :
        /\ NamedIn(text, Reader, h) /\ text[h].name = group
        /\ \A j \in (h+1)..(next - 1) : ~BeginsGroup(text[j])
        /\ OrderTo(text, Reader, first, h - 1)
  BY <1>2 DEF RInv, AtGenerate, AtEntries
<1>4. /\ Len(text) \in Nat /\ DOMAIN text = 1..Len(text) /\ next \in 1..(Len(text) + 1) /\ next \in Nat
      /\ \A i \in 1..Len(text) : text[i] \in FileLine /\ text[i] # NoLine
      /\ h \in Nat \ {0} /\ next - 1 \in Nat /\ h <= Len(text)
  BY <1>3, TextFacts
<1>5. group \in DOMAIN groups /\ ContentType(groups, Localized)
  BY <1>2 DEF TypeOK, Localized
<1>6. ~BeginsGroup(NoLine) /\ NoLine.kind = "none"
  BY LineTypes DEF NoLine, Line
(* The group goes up to line m, and the parser is behind it. *)
<1>7. ASSUME LeaveGroup, UNCHANGED groups, NEW m \in Nat, h <= m, m <= Len(text),
             \A j \in (h+1)..m : ~BeginsGroup(text[j]), ParsedTo(text, Reader, groups, m),
             next' \in 1..(Len(text) + 1),
             \/ line' = NoLine /\ next' = Len(text) + 1 /\ m = Len(text)
             \/ m + 1 \in 1..Len(text) /\ LineAt(text, next', line', m + 1) /\ BeginsGroup(line')
      PROVE  Inv'
  <2>1. line' \in FileLine \cup {NoLine}
    BY <1>4, <1>7 DEF LineAt
  <2>2. \/ /\ at' = "done" /\ err' = "InvalidFormat" /\ first' = FALSE
           /\ IsDesktop /\ ~MainFirst(text, Reader, Len(text))
        \/ /\ at' = "groups" /\ UNCHANGED err /\ first' \in BOOLEAN
           /\ OrderTo(text, Reader, first', m)
    BY <1>3, <1>4, <1>7, LeaveGroupInv
  <2>3. CASE /\ at' = "done" /\ err' = "InvalidFormat" /\ first' = FALSE
             /\ IsDesktop /\ ~MainFirst(text, Reader, Len(text))
    <3>1. TypeOK'
      BY <1>1, <1>7, <2>1, <2>3 DEF TypeOK
    <3>2. RInv'
      BY <1>1, <2>3 DEF RInv, AtGenerate, AtOpen, AtGroups, AtSkipped, AtEntries, AtDone
    <3> QED
      BY <1>1, <3>1, <3>2
  <2>4. CASE /\ at' = "groups" /\ UNCHANGED err /\ first' \in BOOLEAN
             /\ OrderTo(text, Reader, first', m)
    <3>1. TypeOK'
      BY <1>1, <1>7, <2>1, <2>4 DEF TypeOK
    <3>2. AtGroups'
      <4>1. CASE line' = NoLine
        <5>1. next' = Len(text) + 1 /\ m = Len(text)
          BY <1>6, <1>7, <4>1
        <5> QED
          BY <1>1, <1>7, <2>4, <4>1, <5>1 DEF AtGroups
      <4>2. CASE line' # NoLine
        <5> DEFINE p == m + 1
        <5>1. p \in 1..Len(text) /\ LineAt(text, next', line', p) /\ BeginsGroup(line') /\ m = p - 1
          BY <1>7, <4>2
        <5> HIDE DEF p
        <5>2. ParsedTo(text, Reader, groups, p - 1) /\ OrderTo(text, Reader, first', p - 1)
          BY <5>1, <1>7, <2>4
        <5> QED
          BY <1>1, <1>4, <1>7, <4>2, <5>1, <5>2 DEF AtGroups
      <4> QED
        BY <4>1, <4>2
    <3>3. RInv'
      BY <2>4, <3>2 DEF RInv, AtGenerate, AtOpen, AtSkipped, AtEntries, AtDone
    <3> QED
      BY <1>1, <3>1, <3>3
  <2> QED
    BY <2>2, <2>3, <2>4
(* The last lines are blank. *)
<1>8. ASSUME \A i \in next..Len(text) : text[i].kind = "blank"
      PROVE  /\ ParsedTo(text, Reader, groups, Len(text))
             /\ \A j \in (h+1)..Len(text) : ~BeginsGroup(text[j])
  <2>1. ParsedTo(text, Reader, groups, Len(text))
    <3> DEFINE n == next - 1
    <3>1. n \in Nat /\ n <= Len(text) /\ n + 1 = next /\ ParsedTo(text, Reader, groups, n)
      BY <1>2, <1>4
    <3> HIDE DEF n
    <3> QED
      BY <1>4, <1>8, <3>1, ParsedBlank
  <2>2. ASSUME NEW j \in (h+1)..Len(text) PROVE ~BeginsGroup(text[j])
    <3>1. j \in (h+1)..(next-1) \/ j \in next..Len(text)
      BY <1>4
    <3> QED
      BY <1>3, <1>8, <3>1 DEF BeginsGroup
  <2> QED
    BY <2>1, <2>2
<1>9. ASSUME LeaveGroup, UNCHANGED groups, \A j \in (h+1)..Len(text) : ~BeginsGroup(text[j]),
              ParsedTo(text, Reader, groups, Len(text)), line' = NoLine, next' = Len(text) + 1
       PROVE  Inv'
  <2> DEFINE m == Len(text)
  <2>1. m \in Nat /\ h <= m /\ m <= Len(text) /\ m = Len(text) /\ next' \in 1..(Len(text) + 1)
    BY <1>4, <1>9
  <2> HIDE DEF m
  <2>2. ParsedTo(text, Reader, groups, m) /\ \A j \in (h+1)..m : ~BeginsGroup(text[j])
    BY <1>9, <2>1
  <2> QED
    BY <1>7, <1>9, <2>1, <2>2
<1>10. CASE AtEnd
  <2>1. LeaveGroup /\ UNCHANGED <<line, next, groups>>
    BY <1>10 DEF AddEntry
  <2>2. next = Len(text) + 1 /\ \A i \in next..Len(text) : text[i].kind = "blank"
    BY <1>4, <1>10 DEF AtEnd
  <2>3. line' = NoLine /\ next' = Len(text) + 1 /\ next' \in 1..(Len(text) + 1)
    BY <1>2, <1>4, <2>1, <2>2
  <2>4. ParsedTo(text, Reader, groups, Len(text)) /\ \A j \in (h+1)..Len(text) : ~BeginsGroup(text[j])
    BY <1>8, <2>2
  <2> QED
    BY <1>9, <2>1, <2>3, <2>4
<1>11. CASE ~AtEnd /\ Ahead = {}
  <2>1. l = NoLine /\ next' = Len(text) + 1 /\ \A i \in next..Len(text) : text[i].kind = "blank"
    BY <1>2, <1>11, SkipFacts DEF AddEntry
  <2>2. CASE IsDesktop
    <3>1. LeaveGroup /\ line' = NoLine /\ UNCHANGED groups
      BY <1>11, <2>1, <2>2 DEF AddEntry
    <3> QED
      BY <1>8, <1>9, <2>1, <3>1
  <2>3. CASE ~IsDesktop
    <3>1. ~ListRefuses(groups[group], NoLine) /\ ListEntries(groups[group], NoLine) = groups[group]
      BY <1>6 DEF ListRefuses, ListEntries
    <3>2. /\ groups' = [groups EXCEPT ![group] = ListEntries(@, NoLine)]
          /\ line' = NoLine /\ UNCHANGED <<at, first, err>>
      BY <1>6, <1>11, <2>1, <2>3, <3>1 DEF AddEntry
    <3>3. groups' = groups
      BY <1>5, <3>1, <3>2 DEF ContentType
    <3>4. TypeOK'
      BY <1>1, <1>2, <1>4, <2>1, <3>2, <3>3 DEF TypeOK
    <3>5. next' - 1 = Len(text) /\ h \in 1..Len(text)
      BY <1>4, <2>1
    <3>6. AtEntries'
      BY <1>1, <1>3, <1>8, <2>1, <3>2, <3>3, <3>5 DEF AtEntries
    <3>7. RInv'
      BY <1>2, <3>2, <3>6 DEF RInv, AtGenerate, AtOpen, AtGroups, AtSkipped, AtDone
    <3> QED
      BY <1>1, <3>4, <3>7
  <2> QED
    BY <2>2, <2>3
<1>12. CASE ~AtEnd /\ Ahead # {}
  <2>1. PICK q \in next..Len(text) :
          /\ l = text[q] /\ SkipNext = q + 1 /\ text[q].kind # "blank"
          /\ \A i \in next..(q-1) : text[i].kind = "blank"
    BY <1>12, SkipFacts
  <2> DEFINE n == q - 1
  <2>2. /\ next' = q + 1 /\ q \in 1..Len(text) /\ q \in Nat /\ n \in Nat /\ n + 1 = q /\ next - 1 <= n
        /\ (next - 1) + 1 = next /\ h <= n /\ n <= Len(text) /\ next' \in 1..(Len(text) + 1)
    BY <1>4, <1>12, <2>1 DEF AddEntry
  <2>3. ParsedTo(text, Reader, groups, n)
    <3> DEFINE k == next - 1
    <3>1. k \in Nat /\ k <= n /\ k + 1 = next /\ ParsedTo(text, Reader, groups, k)
      BY <1>2, <1>4, <2>2
    <3>2. \A i \in next..n : text[i].kind = "blank"
      BY <2>1
    <3> HIDE DEF n, k
    <3> QED
      BY <2>2, <3>1, <3>2, ParsedBlank
  <2>4. \A j \in (h+1)..n : ~BeginsGroup(text[j])
    <3>1. \A j \in (h+1)..n : j \in (h+1)..(next-1) \/ j \in next..(q-1)
      BY <1>4, <2>2
    <3> QED
      BY <1>3, <2>1, <3>1 DEF BeginsGroup
  <2> HIDE DEF n
  <2>5. l \in FileLine /\ l # NoLine /\ l = text[n+1]
    BY <1>4, <2>1, <2>2
  <2>6. CASE BeginsGroup(l)
    <3>1. LeaveGroup /\ line' = l /\ UNCHANGED groups
      BY <1>12, <2>6 DEF AddEntry
    <3>2. LineAt(text, next', line', n + 1)
      BY <2>1, <2>2, <3>1 DEF LineAt
    <3> QED
      BY <1>7, <2>2, <2>3, <2>4, <2>6, <3>1, <3>2
  <2>7. CASE ~BeginsGroup(l)
    <3>1. l.kind \in {"entry", "junk"}
      BY <2>1, <2>5, <2>7, LineFields DEF BeginsGroup
    <3>2. /\ h \in 1..q /\ BeginsGroup(text[h]) /\ text[h].name = group
          /\ \A j \in (h+1)..q : j \in (h+1)..n \/ j = q
      BY <1>3, <1>4, <2>2 DEF NamedIn, BeginsGroup
    <3>3. BelongsTo(text, n + 1, group) /\ \A j \in (h+1)..q : ~BeginsGroup(text[j])
      BY <2>1, <2>2, <2>4, <2>7, <3>2 DEF BelongsTo
    <3>4. CASE ~IsDesktop /\ ListRefuses(groups[group], l)
      <4>1. at' = "done" /\ err' = "InvalidFormat" /\ line' = NoLine /\ UNCHANGED <<groups, first>>
        BY <1>12, <2>5, <2>7, <3>4 DEF AddEntry, Fail
      <4>2. Reader # "desktop" /\ ContentTo(text, Reader, groups, n)
        BY <2>3, <3>4 DEF IsDesktop, ParsedTo
      <4>3. ~AcceptedTo(text, Reader, Len(text))
        BY <1>4, <1>5, <2>2, <2>5, <3>3, <3>4, <4>2, EntryRefused
      <4>4. TypeOK'
        BY <1>1, <2>2, <4>1 DEF TypeOK
      <4>5. RInv'
        BY <1>1, <4>1, <4>3 DEF RInv, AtGenerate, AtOpen, AtGroups, AtSkipped, AtEntries, AtDone
      <4> QED
        BY <1>1, <4>4, <4>5
    <3>5. CASE ~(~IsDesktop /\ ListRefuses(groups[group], l))
      <4> DEFINE d == [groups EXCEPT ![group] = Entered(Reader, @, l)]
      <4>1. groups' = d /\ line' = NoLine /\ UNCHANGED <<at, first, err>>
        BY <1>12, <2>5, <2>7, <3>5 DEF AddEntry, Entered, IsDesktop
      <4>2. ContentType(d, Localized) /\ DOMAIN d = DOMAIN groups
        <5> DEFINE e == Entered(Reader, groups[group], l)
        <5>1. EntriesType(groups[group], Localized)
          BY <1>5 DEF ContentType
        <5>2. EntriesType(e, Localized)
          BY <2>5, <5>1, EnteredType
        <5>3. d = [groups EXCEPT ![group] = e]
          OBVIOUS
        <5> HIDE DEF e, d
        <5> QED
          BY <1>5, <5>2, <5>3, ReplaceContent
      <4>3. ParsedTo(text, Reader, d, n + 1)
        <5>1. Reader # "desktop" => ~ListRefuses(groups[group], text[n+1])
          BY <2>5, <3>5 DEF IsDesktop
        <5>2. text[n+1].kind \in {"entry", "junk"}
          BY <2>5, <3>1
        <5>3. ParsedTo(text, Reader, [groups EXCEPT ![group] = Entered(Reader, @, text[n+1])], n + 1)
          BY <1>5, <2>2, <2>3, <3>3, <5>1, <5>2, ParsedEntry
        <5> QED
          BY <2>5, <5>3
      <4> HIDE DEF d
      <4>4. TypeOK'
        <5>1. ContentType(groups', Localized')
          BY <1>1, <4>1, <4>2
        <5> QED
          BY <1>1, <1>2, <1>5, <2>2, <4>1, <4>2, <5>1 DEF TypeOK, Localized
      <4>5. next' - 1 = n + 1 /\ next' - 1 = q
        BY <2>2
      <4>6. AtEntries'
        BY <1>1, <1>3, <3>2, <3>3, <4>1, <4>3, <4>5 DEF AtEntries
      <4>7. RInv'
        BY <1>2, <4>1, <4>6 DEF RInv, AtGenerate, AtOpen, AtGroups, AtSkipped, AtDone
      <4> QED
        BY <1>1, <4>4, <4>7
    <3> QED
      BY <3>4, <3>5
  <2> QED
    BY <2>6, <2>7
<1> QED
  BY <1>10, <1>11, <1>12

(* What was written begins to be read. *)
LEMMA WriteAutostartInv ==
  ASSUME Inv, WriteAutostart
  PROVE  Inv'
<1> USE DEF Inv
<1> DEFINE value(v) == [d \in {"default"} |-> <<v>>]
<1>1. PICK hidden \in {"true", "false"} :
        LET marked == Put(Put(groups[Main], "X-Deepin-GenerateSource", value("path")), "Hidden", value(hidden))
        IN /\ kept' = [groups EXCEPT ![Main] = marked]
           /\ BeginReading(DesktopText(kept'))
  BY DEF WriteAutostart
<1> DEFINE from == Put(groups[Main], "X-Deepin-GenerateSource", value("path"))
           marked == Put(from, "Hidden", value(hidden))
           content == [groups EXCEPT ![Main] = marked]
<1>2. BeginReading(DesktopText(content)) /\ UNCHANGED input
  BY <1>1 DEF WriteAutostart
<1>3. ContentType(groups, LocaleKeys) /\ Main \in DOMAIN groups
  <2>1. at = "done" /\ err = "NoError" /\ IsDesktop
    BY DEF WriteAutostart, Writable
  <2>2. ValidMain
    BY <2>1 DEF RInv, AtGenerate, AtDone
  <2> QED
    BY <2>1, <2>2 DEF TypeOK, ValidMain
<1>4. {"path", "true", "false", "Hidden", "X-Deepin-GenerateSource"} \subseteq Strings
  BY StringsAssumption
<1>5. \A v \in Strings : TextMap(value(v)) /\ DOMAIN value(v) = {"default"}
  <2>1. \A v \in Strings : <<v>> \in Words
    BY DEF Words
  <2> QED
    BY <2>1, OneText
<1> HIDE DEF value
<1>6. EntriesType(from, LocaleKeys)
  <2>1. EntriesType(groups[Main], LocaleKeys)
    BY <1>3 DEF ContentType
  <2> QED
    BY <1>4, <1>5, <2>1, PutEntries
<1> HIDE DEF from
<1>7. EntriesType(marked, LocaleKeys)
  BY <1>4, <1>5, <1>6, PutEntries
<1> HIDE DEF marked
<1>8. ContentType(content, LocaleKeys) /\ DOMAIN content = DOMAIN groups
  BY <1>3, <1>7, ReplaceContent
<1> HIDE DEF content
<1>9. DesktopText(content) \in Seq(FileLine)
  BY <1>3, <1>8, DesktopTextType
<1> QED
  BY <1>2, <1>9, FileType

LEMMA WriteListInv ==
  ASSUME Inv, WriteList
  PROVE  Inv'
<1> USE DEF Inv
<1> DEFINE name == <<"Default Applications">>
           entries == IF name \in DOMAIN groups THEN groups[name] ELSE Empty
           old(type) == IF type \in DOMAIN entries THEN entries[type]["default"] ELSE <<>>
           content(type) == Put(groups, name, Put(entries, type, [d \in {"default"} |-> Append(old(type), "app")]))
<1>1. PICK type \in {"type", "new"} : kept' = content(type)
  BY DEF WriteList
<1>2. BeginReading(ListText(content(type))) /\ UNCHANGED input
  BY <1>1 DEF WriteList
<1>3. ContentType(groups, {})
  <2>1. ~IsDesktop
    BY DEF WriteList, IsDesktop
  <2> QED
    BY <2>1 DEF TypeOK
<1>4. type \in Strings /\ "app" \in Strings
  BY StringsAssumption
<1>5. EntriesType(entries, {})
  BY <1>3, EmptyTypes DEF ContentType
<1> HIDE DEF entries
<1>6. old(type) \in Words
  <2>1. <<>> \in Words
    BY DEF Words
  <2> QED
    BY <1>5, <2>1, TextOfMap DEF EntriesType
<1> DEFINE value == Append(old(type), "app")
           texts == [d \in {"default"} |-> value]
<1>7. value \in Words
  BY <1>4, <1>6 DEF Words
<1> HIDE DEF value, old
<1>8. TextMap(texts) /\ DOMAIN texts = {"default"}
  BY <1>7, OneText
<1>9. content(type) = Put(groups, name, Put(entries, type, texts))
  BY DEF value
<1> HIDE DEF texts, content
<1>10. EntriesType(Put(entries, type, texts), {})
  BY <1>4, <1>5, <1>8, PutEntries
<1>11. ContentType(content(type), {})
  <2>1. name \in Words
    BY NameTypes
  <2> HIDE DEF name
  <2>2. ContentType(Put(groups, name, Put(entries, type, texts)), {})
    BY <1>3, <1>10, <2>1, PutContent
  <2> QED
    BY <1>9, <2>2
<1>12. ListText(content(type)) \in Seq(FileLine)
  BY <1>11, ListTextType
<1> QED
  BY <1>2, <1>12, FileType

LEMMA GenerateInv ==
  ASSUME Inv, Generate
  PROVE  Inv'
<1> USE DEF Inv
<1>1. UNCHANGED input /\ at = "generate"
  BY DEF Generate
<1>2. CASE Refused(input)
  <2>1. at' = "refused" /\ UNCHANGED <<text, next, line, groups, group, first, err, kept>>
    BY <1>2 DEF Generate
  <2>2. TypeOK'
    BY <1>1, <2>1, SameReader DEF TypeOK
  <2>3. RInv'
    BY <2>1 DEF RInv, AtGenerate, AtOpen, AtGroups, AtSkipped, AtEntries, AtDone
  <2> QED
    BY <1>1, <2>2, <2>3
<1>3. CASE ~Refused(input)
  <2>1. BeginReading(DesktopText(Content(input)))
    BY <1>3 DEF Generate
  <2>2. RequestType(input)
    BY <1>1, RequestedAssumption DEF RInv, AtGenerate
  <2>3. DesktopText(Content(input)) \in Seq(FileLine)
    BY <1>3, <2>2, RequestContent, DesktopTextType
  <2> QED
    BY <1>1, <2>1, <2>3, FileType
<1> QED
  BY <1>2, <1>3

LEMMA NextInv == Inv /\ [Next]_vars => Inv'
<1> SUFFICES ASSUME Inv, [Next]_vars PROVE Inv'
  OBVIOUS
<1>1. CASE Read
  BY <1>1, OpenInv, FinishInv, AddGroupInv, SkipGroupInv, AddEntryInv DEF Read
<1>2. CASE WriteAutostart
  BY <1>2, WriteAutostartInv
<1>3. CASE WriteList
  BY <1>3, WriteListInv
<1>4. CASE Generate
  BY <1>4, GenerateInv
<1>5. CASE UNCHANGED vars
  <2>1. UNCHANGED <<Reader, IsDesktop, Localized>> /\ UNCHANGED ValidMain
    BY <1>5, SameReader, SameMain DEF vars
  <2>2. TypeOK'
    BY <1>5, <2>1 DEF Inv, TypeOK, AtEnd, vars
  <2>3. RInv'
    BY <1>5, <2>1 DEF Inv, RInv, AtGenerate, AtOpen, AtGroups, AtSkipped, AtEntries, AtDone, vars
  <2> QED
    BY <1>5, <2>2, <2>3 DEF Inv, vars
<1> QED
  BY <1>1, <1>2, <1>3, <1>4, <1>5 DEF Next

LEMMA Invariance == Spec => []Inv
BY InitInv, NextInv, PTL DEF Spec

(* The file and the parser have their types: a group that is being read    *)
(* has been added, what AM writes is a file, and reading stops without an  *)
(* error only at the end (skip, addGroup and addEntry of both parsers,     *)
(* toString, DesktopFileGenerator).                                        *)
THEOREM TypeCorrect == Spec => []TypeOK
<1>1. Inv => TypeOK
  BY DEF Inv
<1> QED
  BY <1>1, Invariance, PTL

-----------------------------------------------------------------------------
(***************************************************************************)
(* What a file means, by its lines.                                        *)
(***************************************************************************)
LEMMA HeaderIs ==
  ASSUME TypeOK, NEW i \in DOMAIN text, NEW g
  PROVE  (HeadersBefore(i) # {} /\ text[HeaderOf(i)].name = g) <=> BelongsTo(text, i, g)
<1>1. i \in Nat /\ HeadersBefore(i) \subseteq 0..i /\ HeadersBefore(i) \subseteq 1..i
  BY TextFacts DEF HeadersBefore
<1>2. ASSUME HeadersBefore(i) # {} PROVE BelongsTo(text, i, text[HeaderOf(i)].name)
  <2>1. \E h \in HeadersBefore(i) : \A k \in HeadersBefore(i) : k <= h
    BY <1>1, <1>2, GreatestNumber
  <2>2. HeaderOf(i) \in HeadersBefore(i) /\ \A k \in HeadersBefore(i) : k <= HeaderOf(i)
    BY <2>1 DEF HeaderOf
  <2> DEFINE h == HeaderOf(i)
  <2>3. h \in 1..i /\ BeginsGroup(text[h])
    BY <2>2 DEF HeadersBefore
  <2>4. ASSUME NEW j \in (h+1)..i PROVE ~BeginsGroup(text[j])
    <3>1. j \in 1..i /\ ~(j <= h)
      BY <1>1, <2>3
    <3> QED
      BY <2>2, <3>1 DEF HeadersBefore
  <2> HIDE DEF h
  <2>5. BelongsTo(text, i, text[h].name)
    BY <2>3, <2>4 DEF BelongsTo
  <2> QED
    BY <2>5 DEF h
<1>3. BelongsTo(text, i, g) => HeadersBefore(i) # {}
  BY DEF BelongsTo, HeadersBefore
<1> QED
  BY <1>1, <1>2, <1>3, OneGroup

LEMMA LinesAre ==
  ASSUME TypeOK
  PROVE  /\ Named = {i \in 1..Len(text) : NamedIn(text, Reader, i)}
         /\ \A g : EntriesIn(g) = {i \in 1..Len(text) : EntryOf(text, Reader, i, g)}
         /\ \A l : (IF IsDesktop THEN KeyedLocale(l) ELSE "default") = LocaleIn(Reader, l)
<1>1. DOMAIN text = 1..Len(text)
  BY TextFacts
<1>2. Named = {i \in 1..Len(text) : NamedIn(text, Reader, i)}
  BY <1>1 DEF Named, NamedIn, LeftOut
<1>3. ASSUME NEW g PROVE EntriesIn(g) = {i \in 1..Len(text) : EntryOf(text, Reader, i, g)}
  <2>1. ASSUME NEW i \in 1..Len(text)
        PROVE (/\ text[i].kind = "entry" /\ HeadersBefore(i) # {} /\ text[HeaderOf(i)].name = g
               /\ ~(IsDesktop /\ Ignored(text[i]))) <=> EntryOf(text, Reader, i, g)
    BY <1>1, HeaderIs DEF EntryOf, IsDesktop
  <2> QED
    BY <1>1, <2>1 DEF EntriesIn
<1> QED
  BY <1>2, <1>3 DEF LocaleIn, IsDesktop

LEMMA TextIs ==
  ASSUME TypeOK, NEW c, ContentTo(text, Reader, c, Len(text)),
         NEW g \in DOMAIN c, NEW k \in DOMAIN c[g], NEW loc \in DOMAIN c[g][k]
  PROVE  TextOf(g, k, loc) = c[g][k][loc]
<1> DEFINE n == Len(text)
           lines == KeyLines(g, k, loc)
<1>1. n \in Nat
  BY TextFacts
<1>2. EntriesTo(text, Reader, c[g], g, n)
  BY DEF ContentTo
<1>3. lines = {i \in 1..n : EntryOf(text, Reader, i, g) /\ text[i].key = k /\ LocaleIn(Reader, text[i]) = loc}
  BY LinesAre DEF KeyLines
<1>4. lines # {}
  BY <1>2, <1>3 DEF EntriesTo
<1> HIDE DEF lines
<1>5. lines \subseteq Nat /\ lines \subseteq 0..n
  BY <1>1, <1>3
<1>6. CASE IsDesktop
  <2> DEFINE i == CHOOSE i \in lines : \A j \in lines : i <= j
  <2>1. \E x \in lines : \A j \in lines : x <= j
    BY <1>4, <1>5, LeastNumber
  <2>2. i \in lines /\ \A j \in lines : i <= j
    BY <2>1
  <2>3. TextOf(g, k, loc) = text[i].value
    BY <1>6 DEF TextOf, lines
  <2> HIDE DEF i
  <2>4. i \in 1..n /\ EntryOf(text, Reader, i, g) /\ text[i].key = k /\ LocaleIn(Reader, text[i]) = loc
    BY <1>3, <2>2
  <2>5. ASSUME NEW j \in 1..(i-1), EntryOf(text, Reader, j, g), SameText(Reader, text[j], text[i]) PROVE FALSE
    <3>1. j \in 1..n /\ ~(i <= j)
      BY <1>1, <2>4
    <3>2. j \in lines
      BY <1>3, <2>4, <2>5, <3>1 DEF SameText
    <3> QED
      BY <2>2, <3>1, <3>2
  <2>6. Reader = "desktop"
    BY <1>6 DEF IsDesktop
  <2>7. c[g][text[i].key][LocaleIn(Reader, text[i])] = text[i].value
    BY <1>2, <2>4, <2>5, <2>6 DEF EntriesTo
  <2> QED
    BY <2>3, <2>4, <2>7
<1>7. CASE ~IsDesktop
  <2> DEFINE i == CHOOSE i \in lines : \A j \in lines : j <= i
  <2>1. \E x \in lines : \A j \in lines : j <= x
    BY <1>1, <1>4, <1>5, GreatestNumber
  <2>2. i \in lines /\ \A j \in lines : j <= i
    BY <2>1
  <2>3. TextOf(g, k, loc) = Applications(text[i].value)
    BY <1>7 DEF TextOf, lines
  <2> HIDE DEF i
  <2>4. i \in 1..n /\ EntryOf(text, Reader, i, g) /\ text[i].key = k /\ LocaleIn(Reader, text[i]) = loc
    BY <1>3, <2>2
  <2>5. ASSUME NEW j \in (i+1)..n, EntryOf(text, Reader, j, g), SameText(Reader, text[j], text[i]) PROVE FALSE
    <3>1. j \in 1..n /\ ~(j <= i)
      BY <1>1, <2>4
    <3>2. j \in lines
      BY <1>3, <2>4, <2>5, <3>1 DEF SameText
    <3> QED
      BY <2>2, <3>1, <3>2
  <2>6. Reader # "desktop"
    BY <1>7 DEF IsDesktop
  <2>7. c[g][text[i].key][LocaleIn(Reader, text[i])] = Applications(text[i].value)
    BY <1>2, <2>4, <2>5, <2>6 DEF EntriesTo
  <2> QED
    BY <2>3, <2>4, <2>7
<1> QED
  BY <1>6, <1>7

LEMMA MeaningIs ==
  ASSUME TypeOK, NEW c, NEW localized, ContentType(c, localized), ContentTo(text, Reader, c, Len(text))
  PROVE  c = Meaning
<1> DEFINE Keys(g) == {text[i].key : i \in EntriesIn(g)}
           Texts(g, k) == [loc \in Locales(g, k) |-> TextOf(g, k, loc)]
           Group(g) == [k \in Keys(g) |-> Texts(g, k)]
           names == {text[i].name : i \in Named}
<1>1. c = [g \in DOMAIN c |-> c[g]] /\ \A g \in DOMAIN c : EntriesType(c[g], localized)
  BY DEF ContentType
<1>2. DOMAIN c = names
  BY LinesAre DEF ContentTo
<1>3. ASSUME NEW g \in DOMAIN c PROVE c[g] = Group(g)
  <2>1. EntriesTo(text, Reader, c[g], g, Len(text))
    BY DEF ContentTo
  <2>2. /\ c[g] = [k \in DOMAIN c[g] |-> c[g][k]]
        /\ \A k \in DOMAIN c[g] : c[g][k] \in [DOMAIN c[g][k] -> Words]
    BY <1>1 DEF EntriesType, TextMap
  <2>3. DOMAIN c[g] = Keys(g)
    <3>1. EntriesIn(g) = {i \in 1..Len(text) : EntryOf(text, Reader, i, g)}
      BY LinesAre
    <3>2. ASSUME NEW k PROVE k \in DOMAIN c[g] <=> k \in Keys(g)
      <4>1. k \in DOMAIN c[g] <=> \E i \in 1..Len(text) : EntryOf(text, Reader, i, g) /\ text[i].key = k
        BY <2>1 DEF EntriesTo
      <4> QED
        BY <3>1, <4>1
    <3> HIDE DEF Keys
    <3> QED
      BY <3>2
  <2>4. ASSUME NEW k \in DOMAIN c[g] PROVE c[g][k] = Texts(g, k)
    <3>1. DOMAIN c[g][k] = Locales(g, k)
      <4>1. Locales(g, k) = {LocaleIn(Reader, text[i]) : i \in {j \in 1..Len(text) : EntryOf(text, Reader, j, g) /\ text[j].key = k}}
        BY LinesAre DEF Locales
      <4>2. ASSUME NEW loc PROVE loc \in DOMAIN c[g][k] <=> loc \in Locales(g, k)
        <5>1. loc \in DOMAIN c[g][k] <=>
                \E i \in 1..Len(text) : EntryOf(text, Reader, i, g) /\ text[i].key = k /\ LocaleIn(Reader, text[i]) = loc
          BY <2>1 DEF EntriesTo
        <5> QED
          BY <4>1, <5>1
      <4> QED
        BY <4>2
    <3>2. \A loc \in DOMAIN c[g][k] : TextOf(g, k, loc) = c[g][k][loc]
      BY TextIs
    <3> QED
      BY <2>2, <3>1, <3>2
  <2> HIDE DEF Keys, Texts
  <2> QED
    BY <2>2, <2>3, <2>4
<1>4. Meaning = [g \in names |-> Group(g)]
  BY DEF Meaning
<1> HIDE DEF Group, names
<1> QED
  BY <1>1, <1>2, <1>3, <1>4

LEMMA FormIs ==
  ASSUME TypeOK
  PROVE  /\ GroupsInForm <=> FormTo(text, Len(text))
         /\ (\A i, j \in Named : text[i].name = text[j].name => i = j) <=> UniqueTo(text, Reader, Len(text))
         /\ (\A i \in Named : text[i].name \notin {<<>>, Main} => \E j \in Named : j < i /\ text[j].name = Main)
              <=> MainFirst(text, Reader, Len(text))
         /\ ListInForm <=> FormTo(text, Len(text)) /\ ListTo(text, Reader, Len(text))
<1> DEFINE n == Len(text)
<1>1. /\ n \in Nat /\ DOMAIN text = 1..n
      /\ \A i \in 1..n : text[i].kind \in {"header", "broken", "entry", "blank", "junk"}
  BY TextFacts, LineFields
<1>2. Named = {i \in 1..n : NamedIn(text, Reader, i)}
  BY LinesAre
<1>3. \A g : EntriesIn(g) = {i \in 1..n : EntryOf(text, Reader, i, g)}
  BY LinesAre
<1> HIDE DEF n
<1>4. GroupsInForm <=> FormTo(text, n)
  <2>1. \A i \in 1..n : HeadersBefore(i) # {} <=> \E h \in 1..i : BeginsGroup(text[h])
    BY DEF HeadersBefore
  <2>2. GroupsInForm <=> /\ \A i \in 1..n : text[i].kind # "blank" => text[i].kind = "header" \/ HeadersBefore(i) # {}
                         /\ \A i \in 1..n : text[i].kind # "broken"
    BY <1>1 DEF GroupsInForm, Contentful
  <2> QED
    BY <1>1, <2>1, <2>2 DEF FormTo
<1>5. (\A i, j \in Named : text[i].name = text[j].name => i = j) <=> UniqueTo(text, Reader, n)
  BY <1>2 DEF UniqueTo
<1>6. (\A i \in Named : text[i].name \notin {<<>>, Main} => \E j \in Named : j < i /\ text[j].name = Main)
        <=> MainFirst(text, Reader, n)
  <2>1. \A i \in 1..n : \A j : j \in 1..(i-1) <=> j \in 1..n /\ j < i
    BY <1>1
  <2> QED
    BY <1>2, <2>1 DEF MainFirst
<1>7. ListInForm <=> FormTo(text, n) /\ ListTo(text, Reader, n)
  <2>1. \A i \in 1..n : \A j : j \in 1..(i-1) <=> j \in 1..n /\ j < i
    BY <1>1
  <2>2. ASSUME NEW g
        PROVE (\A j \in EntriesIn(g) :
                 /\ text[j].value # <<>>
                 /\ \A k \in EntriesIn(g) : k < j /\ text[k].key = text[j].key => Applications(text[k].value) = <<>>)
              <=> ListGroupTo(text, Reader, g, n)
    BY <1>3, <2>1 DEF ListGroupTo
  <2> QED
    BY <1>2, <1>4, <2>2 DEF ListInForm, ListTo
<1> QED
  BY <1>4, <1>5, <1>6, <1>7 DEF n

LEMMA DoneMeaning == Inv => ReadsMeaning
<1> SUFFICES ASSUME Inv, at = "done" PROVE /\ err = "NoError" <=> IF IsDesktop THEN DesktopInForm ELSE ListInForm
                                           /\ err = "NoError" => groups = Meaning
  BY DEF ReadsMeaning
<1> DEFINE n == Len(text)
           whole == ContentTo(text, Reader, groups, n)
<1>1. TypeOK
  BY DEF Inv
<1>2. IF err = "NoError"
        THEN AcceptedTo(text, Reader, n) /\ whole /\ (IsDesktop => text # <<>> /\ MainFirst(text, Reader, n) /\ ValidMain)
        ELSE \/ ~AcceptedTo(text, Reader, n)
             \/ IsDesktop /\ (text = <<>> \/ ~MainFirst(text, Reader, n) \/ (whole /\ ~ValidMain))
  BY DEF Inv, RInv, AtDone
<1>3. whole => groups = Meaning
  BY <1>1, MeaningIs DEF TypeOK
<1>4. IsDesktop => (AcceptedTo(text, Reader, n) <=>
                      GroupsInForm /\ \A i, j \in Named : text[i].name = text[j].name => i = j)
  BY <1>1, FormIs DEF AcceptedTo, IsDesktop
<1>5. ~IsDesktop => (AcceptedTo(text, Reader, n) <=> ListInForm)
  BY <1>1, FormIs DEF AcceptedTo, IsDesktop
<1>6. DesktopInForm <=>
        /\ text # <<>> /\ GroupsInForm
        /\ \A i, j \in Named : text[i].name = text[j].name => i = j
        /\ MainFirst(text, Reader, n)
        /\ Main \in DOMAIN Meaning /\ {"Name", "Type"} \subseteq DOMAIN Meaning[Main]
        /\ Meaning[Main]["Type"]["default"] # <<>>
        /\ Meaning[Main]["Type"]["default"] = <<"Link">> => "URL" \in DOMAIN Meaning[Main]
  BY <1>1, FormIs DEF DesktopInForm
<1>7. groups = Meaning =>
        (ValidMain <=> /\ Main \in DOMAIN Meaning /\ {"Name", "Type"} \subseteq DOMAIN Meaning[Main]
                       /\ Meaning[Main]["Type"]["default"] # <<>>
                       /\ Meaning[Main]["Type"]["default"] = <<"Link">> => "URL" \in DOMAIN Meaning[Main])
  BY DEF ValidMain
<1> HIDE DEF whole, n
<1> QED
  BY <1>2, <1>3, <1>4, <1>5, <1>6, <1>7

(* A file of any length is read if and only if its lines are in form, and  *)
(* what is read is what they mean, whatever the order of groups, comments  *)
(* and repeated or localized keys; so is what AM wrote (skip, addGroup and *)
(* addEntry of both parsers, DesktopEntry::parse).                         *)
THEOREM ReadsItsMeaning == Spec => []ReadsMeaning
BY Invariance, DoneMeaning, PTL

-----------------------------------------------------------------------------
(***************************************************************************)
(* What sequences have in them, and flattened ones.                        *)
(***************************************************************************)
Members(t, E) == \A x : x \in E <=> \E i \in 1..Len(t) : t[i] = x

LEMMA ConcatPlaces ==
  ASSUME NEW S, NEW t \in Seq(S), NEW u \in Seq(S)
  PROVE  /\ t \o u \in Seq(S) /\ Len(t \o u) = Len(t) + Len(u)
         /\ Len(t) \in Nat /\ Len(u) \in Nat
         /\ \A i \in 1..Len(t) : (t \o u)[i] = t[i]
         /\ \A i \in 1..Len(u) : (t \o u)[Len(t) + i] = u[i]
         /\ \A i \in 1..Len(t \o u) : i \in 1..Len(t) \/ (i - Len(t) \in 1..Len(u) /\ i = Len(t) + (i - Len(t)))
OBVIOUS

LEMMA ConcatMembers ==
  ASSUME NEW S, NEW t \in Seq(S), NEW u \in Seq(S), NEW E, NEW F, Members(t, E), Members(u, F)
  PROVE  Members(t \o u, E \cup F)
<1> DEFINE v == t \o u
<1>1. /\ Len(v) = Len(t) + Len(u) /\ Len(t) \in Nat /\ Len(u) \in Nat
      /\ \A i \in 1..Len(t) : v[i] = t[i]
      /\ \A i \in 1..Len(u) : v[Len(t) + i] = u[i]
      /\ \A i \in 1..Len(v) : i \in 1..Len(t) \/ (i - Len(t) \in 1..Len(u) /\ i = Len(t) + (i - Len(t)))
  BY ConcatPlaces
<1> HIDE DEF v
<1>2. ASSUME NEW x \in E \cup F PROVE \E i \in 1..Len(v) : v[i] = x
  <2>1. CASE x \in E
    <3>1. PICK i \in 1..Len(t) : t[i] = x
      BY <2>1 DEF Members
    <3>2. i \in 1..Len(v) /\ v[i] = x
      BY <1>1, <3>1
    <3> QED
      BY <3>2
  <2>2. CASE x \in F
    <3>1. PICK i \in 1..Len(u) : u[i] = x
      BY <2>2 DEF Members
    <3>2. Len(t) + i \in 1..Len(v) /\ v[Len(t) + i] = x
      BY <1>1, <3>1
    <3> QED
      BY <3>2
  <2> QED
    BY <2>1, <2>2
<1>3. ASSUME NEW i \in 1..Len(v) PROVE v[i] \in E \cup F
  <2>1. CASE i \in 1..Len(t)
    BY <1>1, <2>1 DEF Members
  <2>2. CASE i - Len(t) \in 1..Len(u) /\ i = Len(t) + (i - Len(t))
    <3>1. v[i] = u[i - Len(t)]
      BY <1>1, <2>2
    <3> QED
      BY <2>2, <3>1 DEF Members
  <2> QED
    BY <1>1, <2>1, <2>2
<1>4. Members(v, E \cup F)
  BY <1>2, <1>3 DEF Members
<1> QED
  BY <1>4 DEF v

LEMMA ConcatOnce ==
  ASSUME NEW S, NEW t \in Seq(S), NEW u \in Seq(S), NEW E, NEW F, Members(t, E), Members(u, F),
         Once(t), Once(u), E \cap F = {}
  PROVE  Once(t \o u)
<1> DEFINE v == t \o u
<1>1. /\ Len(v) = Len(t) + Len(u) /\ Len(t) \in Nat /\ Len(u) \in Nat /\ v \in Seq(S)
      /\ \A i \in 1..Len(t) : v[i] = t[i]
      /\ \A i \in 1..Len(u) : v[Len(t) + i] = u[i]
      /\ \A i \in 1..Len(v) : i \in 1..Len(t) \/ (i - Len(t) \in 1..Len(u) /\ i = Len(t) + (i - Len(t)))
  BY ConcatPlaces
<1>2. DOMAIN t = 1..Len(t) /\ DOMAIN u = 1..Len(u)
  OBVIOUS
<1>3. DOMAIN v = 1..Len(v)
  BY <1>1
<1> HIDE DEF v
<1>4. ASSUME NEW i \in 1..Len(v), NEW j \in 1..Len(v), v[i] = v[j] PROVE i = j
  <2>1. CASE i \in 1..Len(t) /\ j \in 1..Len(t)
    BY <1>1, <1>2, <1>4, <2>1 DEF Once
  <2>2. CASE i \notin 1..Len(t) /\ j \notin 1..Len(t)
    <3>1. i - Len(t) \in 1..Len(u) /\ j - Len(t) \in 1..Len(u) /\ u[i - Len(t)] = v[i] /\ u[j - Len(t)] = v[j]
      BY <1>1, <2>2
    <3>2. i - Len(t) = j - Len(t)
      BY <1>2, <1>4, <3>1 DEF Once
    <3> QED
      BY <1>1, <3>2
  <2>3. CASE i \in 1..Len(t) /\ j \notin 1..Len(t)
    <3>1. v[i] = t[i] /\ j - Len(t) \in 1..Len(u) /\ v[j] = u[j - Len(t)]
      BY <1>1, <2>3
    <3>2. v[i] \in E /\ v[j] \in F
      BY <2>3, <3>1 DEF Members
    <3> QED
      BY <1>4, <3>2
  <2>4. CASE i \notin 1..Len(t) /\ j \in 1..Len(t)
    <3>1. v[j] = t[j] /\ i - Len(t) \in 1..Len(u) /\ v[i] = u[i - Len(t)]
      BY <1>1, <2>4
    <3>2. v[j] \in E /\ v[i] \in F
      BY <2>4, <3>1 DEF Members
    <3> QED
      BY <1>4, <3>2
  <2> QED
    BY <2>1, <2>2, <2>3, <2>4
<1>5. Once(v)
  BY <1>3, <1>4 DEF Once
<1> QED
  BY <1>5 DEF v

LEMMA FlattenMembers ==
  ASSUME NEW S, NEW ss \in Seq(Seq(S)), NEW Es, \A i \in 1..Len(ss) : Members(ss[i], Es[i])
  PROVE  /\ Members(FlattenSeq(ss), UNION {Es[i] : i \in 1..Len(ss)})
         /\ (\A i \in 1..Len(ss) : Once(ss[i])) /\ (\A i, j \in 1..Len(ss) : i # j => Es[i] \cap Es[j] = {}) =>
              Once(FlattenSeq(ss))
<1> DEFINE U(m) == UNION {Es[i] : i \in 1..m}
           Apart == (\A i \in 1..Len(ss) : Once(ss[i])) /\ \A i, j \in 1..Len(ss) : i # j => Es[i] \cap Es[j] = {}
<1>1. CASE Len(ss) = 0
  <2>1. ss = <<>>
    BY <1>1
  <2>2. FlattenSeq(ss) = <<>>
    BY <1>1, <2>1 DEF FlattenSeq
  <2>3. Len(<<>>) = 0 /\ Once(<<>>) /\ U(0) = {}
    BY DEF Once
  <2> QED
    BY <1>1, <2>2, <2>3 DEF Members
<1>2. CASE Len(ss) # 0
  <2>1. PICK f \in [1..Len(ss) -> Seq(S)] :
           /\ FlattenSeq(ss) = f[Len(ss)] /\ f[1] = ss[1]
           /\ \A i \in 2..Len(ss) : f[i] = f[i-1] \o ss[i]
    BY <1>2, FlattenSteps
  <2> DEFINE Good(i) == Members(f[i], U(i)) /\ (Apart => Once(f[i]))
             T == {i \in 1..Len(ss) : ~Good(i)}
  <2>2. Good(1)
    <3>1. U(1) = Es[1] /\ 1 \in 1..Len(ss)
      BY <1>2
    <3> QED
      BY <2>1, <3>1
  <2>3. ASSUME NEW i \in 2..Len(ss), Good(i - 1) PROVE Good(i)
    <3>1. f[i] = f[i-1] \o ss[i] /\ f[i-1] \in Seq(S) /\ ss[i] \in Seq(S) /\ i \in 1..Len(ss) /\ i - 1 \in Nat
      <4>1. i \in 1..Len(ss) /\ i - 1 \in 1..Len(ss) /\ i - 1 \in Nat
        OBVIOUS
      <4>2. ss[i] \in Seq(S)
        BY <4>1
      <4> QED
        BY <2>1, <4>1, <4>2, Zenon
    <3>2. U(i) = U(i - 1) \cup Es[i]
      <4>1. \A j : j \in 1..i <=> j \in 1..(i-1) \/ j = i
        OBVIOUS
      <4> QED
        BY <4>1
    <3>3. Members(f[i], U(i))
      <4>1. Members(f[i-1], U(i-1)) /\ Members(ss[i], Es[i])
        BY <2>3, <3>1
      <4> HIDE DEF U, Apart
      <4>2. Members(f[i-1] \o ss[i], U(i-1) \cup Es[i])
        BY <3>1, <4>1, ConcatMembers
      <4> QED
        BY <3>1, <3>2, <4>2, Zenon
    <3>4. ASSUME Apart PROVE Once(f[i])
      <4>1. U(i - 1) \cap Es[i] = {}
        <5>1. ASSUME NEW j \in 1..(i-1) PROVE Es[j] \cap Es[i] = {}
          <6>1. j \in 1..Len(ss) /\ j # i
            OBVIOUS
          <6> QED
            BY <3>1, <3>4, <6>1
        <5> QED
          BY <5>1
      <4>2. Once(f[i-1]) /\ Members(f[i-1], U(i-1)) /\ Once(ss[i]) /\ Members(ss[i], Es[i])
        BY <2>3, <3>1, <3>4
      <4> HIDE DEF U, Apart
      <4> QED
        BY <3>1, <4>1, <4>2, ConcatOnce
    <3> QED
      BY <3>3, <3>4
  <2> HIDE DEF Good
  <2>4. T = {}
    <3>1. SUFFICES ASSUME T # {} PROVE FALSE
      OBVIOUS
    <3>2. PICK m \in T : \A k \in T : m <= k
      <4>1. T \subseteq Nat
        OBVIOUS
      <4> HIDE DEF T
      <4> QED
        BY <3>1, <4>1, LeastNumber
    <3>3. m \in 2..Len(ss) /\ ~Good(m)
      BY <2>2
    <3>4. m - 1 \notin T /\ m - 1 \in 1..Len(ss)
      BY <3>2, <3>3
    <3> QED
      BY <2>3, <3>3, <3>4
  <2>5. Good(Len(ss))
    BY <1>2, <2>4
  <2> QED
    BY <2>1, <2>5 DEF Good
<1> QED
  BY <1>1, <1>2

(* A finite set in some order: each member is there once. *)
LEMMA SetToSeqOnce ==
  ASSUME NEW S, IsFiniteSet(S)
  PROVE  SetToSeq(S) \in Seq(S) /\ Members(SetToSeq(S), S) /\ Once(SetToSeq(S))
<1> DEFINE n == Cardinality(S)
           s == SetToSeq(S)
<1>1. n \in Nat /\ ExistsBijection(1..n, S)
  BY FS_CardinalityType
<1>2. PICK f \in [1..n -> S] : IsInjective(f)
  BY <1>1 DEF ExistsBijection, Bijection, Injection
<1>3. s \in [1..n -> S] /\ IsInjective(s)
  BY <1>2 DEF SetToSeq
<1> HIDE DEF s
<1>4. s \in Seq(S) /\ Len(s) = n /\ DOMAIN s = 1..n
  BY <1>1, <1>3
<1>5. \A i, j \in 1..n : s[i] = s[j] => i = j
  BY <1>3, <1>4 DEF IsInjective
<1>6. Once(s)
  BY <1>4, <1>5 DEF Once
<1>7. Members(s, S)
  <2> DEFINE R == {s[i] : i \in 1..n}
  <2>1. s \in Bijection(1..n, R)
    BY <1>3, <1>4, <1>5 DEF Bijection, Injection, Surjection, IsInjective
  <2>2. R \subseteq S
    BY <1>3
  <2> HIDE DEF R
  <2>3. Cardinality(R) = n
    <3>1. ExistsBijection(1..n, R)
      BY <2>1 DEF ExistsBijection
    <3> QED
      BY <1>1, <3>1, FS_CountingElements
  <2>4. R = S
    BY <2>2, <2>3, FS_Subset
  <2> QED
    BY <1>4, <2>4 DEF R, Members
<1> QED
  BY <1>4, <1>6, <1>7 DEF s

-----------------------------------------------------------------------------
(***************************************************************************)
(* The lines of a group that is written.                                   *)
(***************************************************************************)
LineOf(entries, l) == \E k \in DOMAIN entries : \E loc \in DOMAIN entries[k] : l = Entry(k, loc, entries[k][loc])

LEMMA WrittenFields ==
  /\ \A name : Header(name).kind = "header" /\ Header(name).name = name
  /\ Blank.kind = "blank"
  /\ \A key, locale, value :
       /\ Entry(key, locale, value).kind = "entry" /\ Entry(key, locale, value).key = key
       /\ Entry(key, locale, value).locale = locale /\ Entry(key, locale, value).value = value
BY DEF Header, Blank, Entry, Line

LEMMA EntryLinesOnce ==
  ASSUME NEW key \in Strings, NEW texts, TextMap(texts)
  PROVE  /\ Members(EntryLines(key, texts), {Entry(key, loc, texts[loc]) : loc \in DOMAIN texts})
         /\ Once(EntryLines(key, texts))
<1> DEFINE locales == SetToSeq(DOMAIN texts)
           entry(loc) == Entry(key, loc, texts[loc])
           lines == [i \in DOMAIN locales |-> entry(locales[i])]
<1>1. locales \in Seq(DOMAIN texts) /\ Members(locales, DOMAIN texts) /\ Once(locales)
  BY SetToSeqOnce DEF TextMap
<1>2. EntryLines(key, texts) = lines
  BY DEF EntryLines
<1>3. ASSUME NEW l1, NEW l2, entry(l1) = entry(l2) PROVE l1 = l2
  <2>1. entry(l1).locale = l1 /\ entry(l2).locale = l2
    BY WrittenFields
  <2> HIDE DEF entry
  <2> QED
    BY <1>3, <2>1
<1> HIDE DEF locales, entry
<1>4. DOMAIN locales = 1..Len(locales) /\ Len(locales) \in Nat
  BY <1>1
<1>5. DOMAIN lines = 1..Len(locales) /\ \A i \in 1..Len(locales) : lines[i] = entry(locales[i])
  BY <1>4
<1>6. Len(lines) = Len(locales)
  <2>1. lines \in [1..Len(locales) -> {entry(loc) : loc \in DOMAIN texts}]
    BY <1>1, <1>4
  <2>2. lines \in Seq({entry(loc) : loc \in DOMAIN texts})
    BY <1>4, <2>1
  <2> HIDE DEF lines
  <2> QED
    BY <1>4, <1>5, <2>2
<1> HIDE DEF lines
<1>7. Members(lines, {entry(loc) : loc \in DOMAIN texts})
  BY <1>1, <1>5, <1>6 DEF Members
<1>8. Once(lines)
  BY <1>1, <1>3, <1>4, <1>5 DEF Once
<1> QED
  BY <1>2, <1>7, <1>8 DEF entry

Block(t, name, entries) ==
  /\ t \in Seq(FileLine) /\ Len(t) >= 1 /\ t[1] = Header(name)
  /\ \A i \in 2..Len(t) : t[i] = Blank \/ LineOf(entries, t[i])
  /\ \A l : LineOf(entries, l) => \E i \in 2..Len(t) : t[i] = l
  /\ \A i, j \in 2..Len(t) : t[i] = t[j] /\ t[i].kind = "entry" => i = j

LEMMA KeysOnce ==
  ASSUME NEW entries, NEW localized, EntriesType(entries, localized)
  PROVE  LET keys == SetToSeq(DOMAIN entries)
             body == FlattenSeq([i \in DOMAIN keys |-> EntryLines(keys[i], entries[keys[i]])])
         IN body \in Seq(FileLine) /\ Once(body) /\ \A l : LineOf(entries, l) <=> \E i \in 1..Len(body) : body[i] = l
<1> DEFINE keys == SetToSeq(DOMAIN entries)
           parts == [i \in DOMAIN keys |-> EntryLines(keys[i], entries[keys[i]])]
           Of(k) == {Entry(k, loc, entries[k][loc]) : loc \in DOMAIN entries[k]}
           Es == [i \in DOMAIN keys |-> Of(keys[i])]
<1>1. keys \in Seq(DOMAIN entries) /\ Members(keys, DOMAIN entries) /\ Once(keys)
  BY SetToSeqOnce DEF EntriesType
<1> HIDE DEF keys
<1>2. DOMAIN keys = 1..Len(keys) /\ Len(keys) \in Nat /\ \A i \in 1..Len(keys) : keys[i] \in DOMAIN entries
  BY <1>1
<1>3. \A k \in DOMAIN entries : k \in Strings /\ TextMap(entries[k])
  BY DEF EntriesType
<1>4. \A k \in DOMAIN entries : /\ EntryLines(k, entries[k]) \in Seq(FileLine)
                                /\ Members(EntryLines(k, entries[k]), Of(k)) /\ Once(EntryLines(k, entries[k]))
  BY <1>3, EntryLinesType, EntryLinesOnce
<1>5. \A k1, k2 \in DOMAIN entries : k1 # k2 => Of(k1) \cap Of(k2) = {}
  BY WrittenFields
<1> HIDE DEF Of
<1>6. parts \in [1..Len(keys) -> Seq(FileLine)] /\ \A i \in 1..Len(keys) : parts[i] = EntryLines(keys[i], entries[keys[i]])
  BY <1>2, <1>4
<1>7. parts \in Seq(Seq(FileLine)) /\ Len(parts) = Len(keys)
  <2> HIDE DEF parts
  <2> QED
    BY <1>2, <1>6
<1>8. \A i \in 1..Len(keys) : Es[i] = Of(keys[i])
  BY <1>2
<1> HIDE DEF parts, Es
<1>9. \A i \in 1..Len(parts) : Members(parts[i], Es[i]) /\ Once(parts[i])
  BY <1>2, <1>4, <1>6, <1>7, <1>8
<1>10. ASSUME NEW i \in 1..Len(parts), NEW j \in 1..Len(parts), i # j PROVE Es[i] \cap Es[j] = {}
  <2>1. keys[i] # keys[j]
    BY <1>1, <1>2, <1>7, <1>10 DEF Once
  <2> QED
    BY <1>2, <1>5, <1>7, <1>8, <2>1
<1> DEFINE body == FlattenSeq(parts)
           All == UNION {Es[i] : i \in 1..Len(parts)}
<1>11. body \in Seq(FileLine)
  BY <1>7, FlattenType
<1>12. Members(body, All) /\ Once(body)
  <2>1. \A i \in 1..Len(parts) : Members(parts[i], Es[i])
    BY <1>9
  <2>2. \A i \in 1..Len(parts) : Once(parts[i])
    BY <1>9
  <2>3. \A i, j \in 1..Len(parts) : i # j => Es[i] \cap Es[j] = {}
    BY <1>10
  <2>4. Members(FlattenSeq(parts), UNION {Es[i] : i \in 1..Len(parts)})
    BY <1>7, <2>1, FlattenMembers
  <2>5. Once(FlattenSeq(parts))
    BY <1>7, <2>1, <2>2, <2>3, FlattenMembers, Zenon
  <2> QED
    BY <2>4, <2>5
<1>13. ASSUME NEW l PROVE l \in All <=> LineOf(entries, l)
  <2>1. l \in All <=> \E i \in 1..Len(keys) : l \in Of(keys[i])
    BY <1>7, <1>8
  <2>2. (\E i \in 1..Len(keys) : l \in Of(keys[i])) <=> \E k \in DOMAIN entries : l \in Of(k)
    BY <1>1 DEF Members
  <2>3. (\E k \in DOMAIN entries : l \in Of(k)) <=> LineOf(entries, l)
    BY DEF Of, LineOf
  <2> QED
    BY <2>1, <2>2, <2>3
<1> HIDE DEF All, body
<1>14. \A l : LineOf(entries, l) <=> \E i \in 1..Len(body) : body[i] = l
  BY <1>12, <1>13 DEF Members
<1> QED
  BY <1>11, <1>12, <1>14 DEF body, parts, keys

LEMMA GroupIsBlock ==
  ASSUME NEW name \in Words, NEW entries, NEW localized, EntriesType(entries, localized)
  PROVE  Block(GroupLines(name, entries), name, entries)
<1> DEFINE keys == SetToSeq(DOMAIN entries)
           body == FlattenSeq([i \in DOMAIN keys |-> EntryLines(keys[i], entries[keys[i]])])
           t == <<Header(name)>> \o body \o <<Blank>>
<1>1. GroupLines(name, entries) = t
  BY DEF GroupLines
<1>2. body \in Seq(FileLine) /\ Once(body) /\ \A l : LineOf(entries, l) <=> \E i \in 1..Len(body) : body[i] = l
  BY KeysOnce
<1> HIDE DEF body
<1>3. Header(name) \in FileLine /\ Blank \in FileLine
  BY LineTypes
<1>4. /\ t \in Seq(FileLine) /\ Len(t) = Len(body) + 2 /\ Len(body) \in Nat
      /\ t[1] = Header(name) /\ t[Len(body) + 2] = Blank
      /\ \A i \in 1..Len(body) : t[i + 1] = body[i]
  BY <1>2, <1>3
<1> HIDE DEF t
<1>5. \A i \in 2..Len(t) : i = Len(body) + 2 \/ (i - 1 \in 1..Len(body) /\ t[i] = body[i - 1])
  <2>1. ASSUME NEW i \in 2..Len(t), i # Len(body) + 2 PROVE i - 1 \in 1..Len(body) /\ t[i] = body[i - 1]
    <3>1. i - 1 \in 1..Len(body) /\ (i - 1) + 1 = i
      BY <1>4, <2>1
    <3>2. t[(i - 1) + 1] = body[i - 1]
      BY <1>4, <3>1, Zenon
    <3> QED
      BY <3>1, <3>2
  <2> QED
    BY <2>1
<1>6. \A i \in 2..Len(t) : t[i] = Blank \/ LineOf(entries, t[i])
  BY <1>2, <1>4, <1>5
<1>7. ASSUME NEW l, LineOf(entries, l) PROVE \E i \in 2..Len(t) : t[i] = l
  <2>1. PICK i \in 1..Len(body) : body[i] = l
    BY <1>2, <1>7
  <2>2. i + 1 \in 2..Len(t) /\ t[i + 1] = l
    BY <1>4, <2>1
  <2> QED
    BY <2>2
<1>8. ASSUME NEW i \in 2..Len(t), NEW j \in 2..Len(t), t[i] = t[j], t[i].kind = "entry" PROVE i = j
  <2>1. t[i] # Blank /\ t[j] # Blank
    BY <1>8, WrittenFields
  <2>2. i - 1 \in 1..Len(body) /\ j - 1 \in 1..Len(body) /\ body[i - 1] = body[j - 1]
    BY <1>4, <1>5, <1>8, <2>1
  <2>3. DOMAIN body = 1..Len(body)
    BY <1>2
  <2>4. i - 1 = j - 1
    BY <1>2, <2>2, <2>3 DEF Once
  <2> QED
    BY <2>4
<1>9. Block(t, name, entries)
  BY <1>4, <1>6, <1>7, <1>8 DEF Block
<1> QED
  BY <1>1, <1>9

-----------------------------------------------------------------------------
(***************************************************************************)
(* A file t lays out the groups N of a content c: each once, begun by its  *)
(* header, with its entries, each once, and blank lines.                   *)
(***************************************************************************)
HeadersLaid(t, N) ==
  /\ Len(t) >= 1 => t[1].kind = "header"
  /\ \A i \in 1..Len(t) : t[i].kind \in {"header", "entry", "blank"}
  /\ \A i \in 1..Len(t) : t[i].kind = "header" => t[i].name \in N
  /\ \A g \in N : \E i \in 1..Len(t) : t[i].kind = "header" /\ t[i].name = g
  /\ \A i, j \in 1..Len(t) : t[i].kind = "header" /\ t[j].kind = "header" /\ t[i].name = t[j].name => i = j
EntriesLaid(t, N, c) ==
  /\ \A i \in 1..Len(t) : \A g : t[i].kind = "entry" /\ BelongsTo(t, i, g) => g \in N /\ LineOf(c[g], t[i])
  /\ \A g \in N : \A l : LineOf(c[g], l) => \E i \in 1..Len(t) : t[i] = l /\ BelongsTo(t, i, g)
  /\ \A i, j \in 1..Len(t) : \A g :
       t[i].kind = "entry" /\ t[i] = t[j] /\ BelongsTo(t, i, g) /\ BelongsTo(t, j, g) => i = j
Laid(t, N, c) == t \in Seq(FileLine) /\ HeadersLaid(t, N) /\ EntriesLaid(t, N, c)

LEMMA EntryKind == ASSUME NEW entries, NEW l, LineOf(entries, l) PROVE l.kind = "entry"
  BY WrittenFields DEF LineOf

LEMMA BlockLaid ==
  ASSUME NEW t, NEW name, NEW c, Block(t, name, c[name])
  PROVE  Laid(t, {name}, c)
<1>1. /\ t \in Seq(FileLine) /\ Len(t) >= 1 /\ t[1] = Header(name) /\ Len(t) \in Nat
      /\ \A i \in 2..Len(t) : t[i] = Blank \/ LineOf(c[name], t[i])
      /\ \A l : LineOf(c[name], l) => \E i \in 2..Len(t) : t[i] = l
      /\ \A i, j \in 2..Len(t) : t[i] = t[j] /\ t[i].kind = "entry" => i = j
  BY DEF Block
<1>2. t[1].kind = "header" /\ t[1].name = name
  BY <1>1, WrittenFields
<1>3. \A i \in 2..Len(t) : t[i].kind \in {"entry", "blank"}
  BY <1>1, EntryKind, WrittenFields
<1>4. \A i \in 1..Len(t) : i = 1 \/ i \in 2..Len(t)
  BY <1>1
<1>5. HeadersLaid(t, {name})
  <2>1. 1 \in 1..Len(t)
    BY <1>1
  <2>2. \A i \in 1..Len(t) : t[i].kind = "header" => i = 1
    BY <1>3, <1>4
  <2> QED
    BY <1>2, <1>3, <1>4, <2>1, <2>2 DEF HeadersLaid
<1>6. ASSUME NEW i \in 1..Len(t), NEW g PROVE BelongsTo(t, i, g) <=> g = name
  <2>1. ASSUME NEW h \in 1..i, BeginsGroup(t[h]) PROVE h = 1
    <3>1. h \in 1..Len(t)
      BY <1>1
    <3> QED
      BY <1>3, <1>4, <2>1, <3>1 DEF BeginsGroup
  <2>2. 1 \in 1..i /\ BeginsGroup(t[1])
    BY <1>1, <1>2 DEF BeginsGroup
  <2>3. \A j \in (1+1)..i : ~BeginsGroup(t[j])
    <3>1. \A j \in (1+1)..i : j \in 1..i /\ j # 1
      OBVIOUS
    <3> QED
      BY <2>1, <3>1
  <2> QED
    BY <1>2, <2>1, <2>2, <2>3 DEF BelongsTo
<1>7. EntriesLaid(t, {name}, c)
  <2>1. ASSUME NEW i \in 1..Len(t), t[i].kind = "entry" PROVE i \in 2..Len(t) /\ LineOf(c[name], t[i])
    BY <1>1, <1>2, <1>4, <2>1, WrittenFields
  <2>2. \A l : LineOf(c[name], l) => \E i \in 1..Len(t) : t[i] = l
    <3>1. \A i \in 2..Len(t) : i \in 1..Len(t)
      OBVIOUS
    <3> QED
      BY <1>1, <3>1
  <2> QED
    BY <1>1, <1>6, <2>1, <2>2 DEF EntriesLaid
<1> QED
  BY <1>1, <1>5, <1>7 DEF Laid

LEMMA BelongsConcat ==
  ASSUME NEW t \in Seq(FileLine), NEW u \in Seq(FileLine), Len(u) >= 1 => u[1].kind = "header", NEW g
  PROVE  /\ \A i \in 1..Len(t) : BelongsTo(t \o u, i, g) <=> BelongsTo(t, i, g)
         /\ \A i \in 1..Len(u) : BelongsTo(t \o u, Len(t) + i, g) <=> BelongsTo(u, i, g)
<1> DEFINE v == t \o u
           n == Len(t)
<1>1. /\ Len(v) = n + Len(u) /\ n \in Nat /\ Len(u) \in Nat
      /\ \A i \in 1..n : v[i] = t[i]
      /\ \A i \in 1..Len(u) : v[n + i] = u[i]
  BY ConcatPlaces
<1> HIDE DEF v, n
<1>2. ASSUME NEW i \in 1..n PROVE BelongsTo(v, i, g) <=> BelongsTo(t, i, g)
  <2>1. \A h \in 1..i : v[h] = t[h] /\ \A j \in (h+1)..i : v[j] = t[j]
    <3>1. \A h \in 1..i : h \in 1..n /\ \A j \in (h+1)..i : j \in 1..n
      BY <1>1
    <3> QED
      BY <1>1, <3>1
  <2> QED
    BY <2>1 DEF BelongsTo
<1>3. ASSUME NEW i \in 1..Len(u) PROVE BelongsTo(v, n + i, g) <=> BelongsTo(u, i, g)
  <2>1. BeginsGroup(u[1]) /\ 1 \in 1..i /\ 1 \in 1..Len(u)
    BY <1>1 DEF BeginsGroup
  <2>2. ASSUME BelongsTo(v, n + i, g) PROVE BelongsTo(u, i, g)
    <3>1. PICK h \in 1..(n + i) : BeginsGroup(v[h]) /\ v[h].name = g /\ \A j \in (h+1)..(n + i) : ~BeginsGroup(v[j])
      BY <2>2 DEF BelongsTo
    <3>2. h \notin 1..n
      <4>1. v[n + 1] = u[1]
        BY <1>1, <2>1
      <4>2. h \in 1..n => n + 1 \in (h+1)..(n + i)
        BY <1>1
      <4> QED
        BY <2>1, <3>1, <4>1, <4>2
    <3>3. h - n \in 1..i /\ h - n \in 1..Len(u) /\ n + (h - n) = h
      BY <1>1, <3>2
    <3>4. u[h - n] = v[h]
      BY <1>1, <3>3
    <3>5. ASSUME NEW j \in (h-n+1)..i PROVE ~BeginsGroup(u[j])
      <4>1. n + j \in (h+1)..(n + i) /\ j \in 1..Len(u)
        BY <1>1, <3>3
      <4> QED
        BY <1>1, <3>1, <4>1
    <3> QED
      BY <3>1, <3>3, <3>4, <3>5 DEF BelongsTo
  <2>3. ASSUME BelongsTo(u, i, g) PROVE BelongsTo(v, n + i, g)
    <3>1. PICK h \in 1..i : BeginsGroup(u[h]) /\ u[h].name = g /\ \A j \in (h+1)..i : ~BeginsGroup(u[j])
      BY <2>3 DEF BelongsTo
    <3>2. n + h \in 1..(n + i) /\ v[n + h] = u[h]
      BY <1>1
    <3>3. ASSUME NEW j \in (n+h+1)..(n + i) PROVE ~BeginsGroup(v[j])
      <4>1. j - n \in (h+1)..i /\ j - n \in 1..Len(u) /\ n + (j - n) = j
        BY <1>1
      <4>2. v[j] = u[j - n]
        BY <1>1, <4>1
      <4> QED
        BY <3>1, <4>1, <4>2
    <3> QED
      BY <3>1, <3>2, <3>3 DEF BelongsTo
  <2> QED
    BY <2>2, <2>3
<1> QED
  BY <1>2, <1>3 DEF v, n

LEMMA EmptyLaid == \A c : Laid(<<>>, {}, c)
<1>1. <<>> \in Seq(FileLine) /\ Len(<<>>) = 0
  OBVIOUS
<1>2. HeadersLaid(<<>>, {}) /\ \A c : EntriesLaid(<<>>, {}, c)
  BY <1>1 DEF HeadersLaid, EntriesLaid
<1> QED
  BY <1>1, <1>2 DEF Laid

LEMMA ConcatLaid ==
  ASSUME NEW c, NEW t, NEW u, NEW N, NEW M, Laid(t, N, c), Laid(u, M, c), N \cap M = {}
  PROVE  Laid(t \o u, N \cup M, c)
<1> DEFINE v == t \o u
           n == Len(t)
<1>1. t \in Seq(FileLine) /\ u \in Seq(FileLine)
  BY DEF Laid
<1>2. /\ v \in Seq(FileLine) /\ Len(v) = n + Len(u) /\ n \in Nat /\ Len(u) \in Nat
      /\ \A i \in 1..n : v[i] = t[i]
      /\ \A i \in 1..Len(u) : v[n + i] = u[i]
      /\ \A i \in 1..Len(v) : i \in 1..n \/ (i - n \in 1..Len(u) /\ i = n + (i - n))
  BY <1>1, ConcatPlaces
<1>3. HeadersLaid(t, N) /\ HeadersLaid(u, M) /\ EntriesLaid(t, N, c) /\ EntriesLaid(u, M, c)
  BY DEF Laid
<1>4. Len(u) >= 1 => u[1].kind = "header"
  BY <1>3 DEF HeadersLaid
<1>5. \A g : /\ \A i \in 1..n : BelongsTo(v, i, g) <=> BelongsTo(t, i, g)
             /\ \A i \in 1..Len(u) : BelongsTo(v, n + i, g) <=> BelongsTo(u, i, g)
  BY <1>1, <1>4, BelongsConcat
<1> HIDE DEF v, n
<1>6. \A i \in 1..n : i \in 1..Len(v)
  BY <1>2
<1>7. \A i \in 1..Len(u) : n + i \in 1..Len(v)
  BY <1>2
<1>8. ASSUME NEW i \in 1..Len(v)
      PROVE \/ i \in 1..n /\ v[i] = t[i] /\ \A g : BelongsTo(v, i, g) <=> BelongsTo(t, i, g)
            \/ i \notin 1..n /\ i - n \in 1..Len(u) /\ v[i] = u[i - n] /\ \A g : BelongsTo(v, i, g) <=> BelongsTo(u, i - n, g)
  <2>1. CASE i \in 1..n
    BY <1>2, <1>5, <2>1
  <2>2. CASE i \notin 1..n
    <3>1. i - n \in 1..Len(u) /\ i = n + (i - n)
      BY <1>2, <2>2
    <3>2. v[n + (i - n)] = u[i - n] /\ \A g : BelongsTo(v, n + (i - n), g) <=> BelongsTo(u, i - n, g)
      BY <1>2, <1>5, <3>1, Zenon
    <3> QED
      BY <2>2, <3>1, <3>2
  <2> QED
    BY <2>1, <2>2
<1>9. HeadersLaid(v, N \cup M)
  <2>1. Len(v) >= 1 => v[1].kind = "header"
    <3>1. CASE n >= 1
      <4>1. 1 \in 1..n /\ t[1].kind = "header"
        BY <1>2, <1>3, <3>1 DEF HeadersLaid, n
      <4> QED
        BY <1>2, <4>1
    <3>2. CASE ~(n >= 1) /\ Len(u) >= 1
      <4>1. n = 0 /\ 1 \in 1..Len(u) /\ n + 1 = 1
        BY <1>2, <3>2
      <4> QED
        BY <1>2, <1>4, <3>2, <4>1
    <3> QED
      BY <1>2, <3>1, <3>2
  <2>2. \A i \in 1..Len(v) : v[i].kind \in {"header", "entry", "blank"} /\ (v[i].kind = "header" => v[i].name \in N \cup M)
    BY <1>3, <1>8 DEF HeadersLaid, n
  <2>3. ASSUME NEW g \in N \cup M PROVE \E i \in 1..Len(v) : v[i].kind = "header" /\ v[i].name = g
    <3>1. CASE g \in N
      <4>1. PICK i \in 1..n : t[i].kind = "header" /\ t[i].name = g
        BY <1>3, <3>1 DEF HeadersLaid, n
      <4> QED
        BY <1>2, <1>6, <4>1
    <3>2. CASE g \in M
      <4>1. PICK i \in 1..Len(u) : u[i].kind = "header" /\ u[i].name = g
        BY <1>3, <3>2 DEF HeadersLaid
      <4>2. v[n + i] = u[i] /\ n + i \in 1..Len(v)
        BY <1>2, <1>7
      <4> QED
        BY <4>1, <4>2
    <3> QED
      BY <3>1, <3>2
  <2>4. ASSUME NEW i \in 1..Len(v), NEW j \in 1..Len(v), v[i].kind = "header", v[j].kind = "header", v[i].name = v[j].name
        PROVE i = j
    <3>1. CASE i \in 1..n /\ j \in 1..n
      BY <1>2, <1>3, <2>4, <3>1 DEF HeadersLaid, n
    <3>2. CASE i \notin 1..n /\ j \notin 1..n
      <4>1. i - n \in 1..Len(u) /\ j - n \in 1..Len(u) /\ v[i] = u[i - n] /\ v[j] = u[j - n]
        BY <1>8, <3>2
      <4>2. i - n = j - n
        BY <1>3, <2>4, <4>1 DEF HeadersLaid
      <4> QED
        BY <1>2, <4>2
    <3>3. CASE i \in 1..n /\ j \notin 1..n
      <4>1. t[i].name \in N /\ j - n \in 1..Len(u) /\ v[j] = u[j - n] /\ v[i] = t[i]
        BY <1>3, <1>8, <2>4, <3>3 DEF HeadersLaid, n
      <4>2. u[j - n].name \in M
        BY <1>3, <2>4, <4>1 DEF HeadersLaid
      <4> QED
        BY <2>4, <4>1, <4>2
    <3>4. CASE i \notin 1..n /\ j \in 1..n
      <4>1. t[j].name \in N /\ i - n \in 1..Len(u) /\ v[i] = u[i - n] /\ v[j] = t[j]
        BY <1>3, <1>8, <2>4, <3>4 DEF HeadersLaid, n
      <4>2. u[i - n].name \in M
        BY <1>3, <2>4, <4>1 DEF HeadersLaid
      <4> QED
        BY <2>4, <4>1, <4>2
    <3> QED
      BY <3>1, <3>2, <3>3, <3>4
  <2> QED
    BY <2>1, <2>2, <2>3, <2>4 DEF HeadersLaid
<1>10. EntriesLaid(v, N \cup M, c)
  <2>1. ASSUME NEW i \in 1..Len(v), NEW g, v[i].kind = "entry", BelongsTo(v, i, g)
        PROVE g \in N \cup M /\ LineOf(c[g], v[i]) /\ (i \in 1..n => g \in N) /\ (i \notin 1..n => g \in M)
    BY <1>3, <1>8, <2>1 DEF EntriesLaid, n
  <2>2. ASSUME NEW g \in N \cup M, NEW l, LineOf(c[g], l) PROVE \E i \in 1..Len(v) : v[i] = l /\ BelongsTo(v, i, g)
    <3>1. CASE g \in N
      <4>1. PICK i \in 1..n : t[i] = l /\ BelongsTo(t, i, g)
        BY <1>3, <2>2, <3>1 DEF EntriesLaid, n
      <4> QED
        BY <1>2, <1>5, <1>6, <4>1
    <3>2. CASE g \in M
      <4>1. PICK i \in 1..Len(u) : u[i] = l /\ BelongsTo(u, i, g)
        BY <1>3, <2>2, <3>2 DEF EntriesLaid
      <4>2. v[n + i] = u[i] /\ n + i \in 1..Len(v) /\ BelongsTo(v, n + i, g)
        BY <1>2, <1>5, <1>7, <4>1
      <4> QED
        BY <4>1, <4>2
    <3> QED
      BY <3>1, <3>2
  <2>3. ASSUME NEW i \in 1..Len(v), NEW j \in 1..Len(v), NEW g,
               v[i].kind = "entry", v[i] = v[j], BelongsTo(v, i, g), BelongsTo(v, j, g)
        PROVE i = j
    <3>1. (i \in 1..n <=> j \in 1..n)
      BY <2>1, <2>3
    <3>2. CASE i \in 1..n
      BY <1>3, <1>8, <2>3, <3>1, <3>2 DEF EntriesLaid, n
    <3>3. CASE i \notin 1..n
      <4>1. /\ i - n \in 1..Len(u) /\ j - n \in 1..Len(u) /\ v[i] = u[i - n] /\ v[j] = u[j - n]
            /\ BelongsTo(u, i - n, g) /\ BelongsTo(u, j - n, g)
        BY <1>8, <2>3, <3>1, <3>3
      <4>2. i - n = j - n
        BY <1>3, <2>3, <4>1 DEF EntriesLaid
      <4> QED
        BY <1>2, <4>2
    <3> QED
      BY <3>2, <3>3
  <2> QED
    BY <2>1, <2>2, <2>3 DEF EntriesLaid
<1>11. Laid(v, N \cup M, c)
  BY <1>2, <1>9, <1>10 DEF Laid
<1> QED
  BY <1>11 DEF v

(* The groups that a sequence of names lists. *)
LEMMA FlattenLaid ==
  ASSUME NEW c, NEW localized, ContentType(c, localized), NEW names \in Seq(DOMAIN c), Once(names),
         NEW N, Members(names, N)
  PROVE  Laid(FlattenSeq([i \in DOMAIN names |-> GroupLines(names[i], c[names[i]])]), N, c)
<1> DEFINE parts == [i \in DOMAIN names |-> GroupLines(names[i], c[names[i]])]
           U(m) == {names[i] : i \in 1..m}
<1>1. DOMAIN names = 1..Len(names) /\ Len(names) \in Nat /\ \A i \in 1..Len(names) : names[i] \in DOMAIN c
  OBVIOUS
<1>2. \A i \in 1..Len(names) : Block(GroupLines(names[i], c[names[i]]), names[i], c[names[i]])
  BY <1>1, GroupIsBlock DEF ContentType
<1>3. \A i \in 1..Len(names) : Laid(parts[i], {names[i]}, c)
  BY <1>1, <1>2, BlockLaid
<1>4. parts \in [1..Len(names) -> Seq(FileLine)]
  BY <1>1, <1>2 DEF Block
<1> HIDE DEF parts
<1>5. parts \in Seq(Seq(FileLine)) /\ Len(parts) = Len(names)
  BY <1>1, <1>4
<1>6. U(Len(names)) = N
  BY DEF Members
<1>7. CASE Len(names) = 0
  <2>1. parts = <<>> /\ FlattenSeq(parts) = <<>>
    BY <1>5, <1>7 DEF FlattenSeq
  <2>2. N = {}
    BY <1>7 DEF Members
  <2> QED
    BY <2>1, <2>2, EmptyLaid DEF parts
<1>8. CASE Len(names) # 0
  <2>1. PICK f \in [1..Len(parts) -> Seq(FileLine)] :
           /\ FlattenSeq(parts) = f[Len(parts)] /\ f[1] = parts[1]
           /\ \A i \in 2..Len(parts) : f[i] = f[i-1] \o parts[i]
    BY <1>5, <1>8, FlattenSteps
  <2> DEFINE Good(i) == Laid(f[i], U(i), c)
             T == {i \in 1..Len(parts) : ~Good(i)}
  <2>2. Good(1)
    <3>1. U(1) = {names[1]} /\ 1 \in 1..Len(names)
      BY <1>1, <1>8
    <3> QED
      BY <1>3, <2>1, <3>1
  <2>3. ASSUME NEW i \in 2..Len(parts), Good(i - 1) PROVE Good(i)
    <3>1. i \in 1..Len(names) /\ i - 1 \in Nat /\ \A j \in 1..(i-1) : j \in 1..Len(names) /\ j # i
      BY <1>5
    <3>2. U(i) = U(i - 1) \cup {names[i]}
      <4>1. \A j : j \in 1..i <=> j \in 1..(i-1) \/ j = i
        OBVIOUS
      <4> QED
        BY <4>1
    <3>3. U(i - 1) \cap {names[i]} = {}
      BY <1>1, <3>1 DEF Once
    <3>4. Laid(parts[i], {names[i]}, c) /\ f[i] = f[i-1] \o parts[i]
      BY <1>3, <2>1, <3>1
    <3> HIDE DEF U
    <3> QED
      BY <2>3, <3>2, <3>3, <3>4, ConcatLaid
  <2> HIDE DEF Good
  <2>4. T = {}
    <3>1. SUFFICES ASSUME T # {} PROVE FALSE
      OBVIOUS
    <3>2. PICK m \in T : \A k \in T : m <= k
      <4>1. T \subseteq Nat
        OBVIOUS
      <4> HIDE DEF T
      <4> QED
        BY <3>1, <4>1, LeastNumber
    <3>3. m \in 2..Len(parts) /\ ~Good(m)
      BY <2>2
    <3>4. m - 1 \notin T /\ m - 1 \in 1..Len(parts)
      BY <1>5, <3>2, <3>3
    <3> QED
      BY <2>3, <3>3, <3>4
  <2>5. Good(Len(parts))
    <3>1. Len(parts) \in 1..Len(parts)
      BY <1>1, <1>5, <1>8
    <3> QED
      BY <2>4, <3>1, Zenon
  <2> HIDE DEF U
  <2> QED
    BY <1>5, <1>6, <2>1, <2>5 DEF Good, parts
<1> QED
  BY <1>7, <1>8

-----------------------------------------------------------------------------
(***************************************************************************)
(* What is laid out is read as it is.                                      *)
(***************************************************************************)
LEMMA WrittenLine ==
  ASSUME NEW entries, NEW l, LineOf(entries, l)
  PROVE  /\ l.kind = "entry" /\ l.key \in DOMAIN entries /\ l.locale \in DOMAIN entries[l.key]
         /\ l.value = entries[l.key][l.locale] /\ l = Entry(l.key, l.locale, entries[l.key][l.locale])
<1>1. PICK k \in DOMAIN entries : \E loc \in DOMAIN entries[k] : l = Entry(k, loc, entries[k][loc])
  BY DEF LineOf
<1>2. PICK loc \in DOMAIN entries[k] : l = Entry(k, loc, entries[k][loc])
  BY <1>1
<1>3. l.kind = "entry" /\ l.key = k /\ l.locale = loc /\ l.value = entries[k][loc]
  BY <1>2, WrittenFields
<1> QED
  BY <1>2, <1>3

LEMMA LaidForm ==
  ASSUME NEW t, NEW N, NEW c, Laid(t, N, c)
  PROVE  FormTo(t, Len(t)) /\ Len(t) \in Nat
<1>1. Len(t) \in Nat /\ HeadersLaid(t, N)
  BY DEF Laid
<1>2. ASSUME NEW i \in 1..Len(t) PROVE t[i].kind # "broken" /\ \E h \in 1..i : BeginsGroup(t[h])
  <2>1. 1 \in 1..i /\ BeginsGroup(t[1])
    BY <1>1 DEF HeadersLaid, BeginsGroup
  <2> QED
    BY <1>1, <2>1 DEF HeadersLaid
<1> QED
  BY <1>1, <1>2 DEF FormTo

(* Entries that a desktop file keeps: see Readable. *)
LEMMA LaidDesktop ==
  ASSUME NEW t, NEW c, ContentType(c, LocaleKeys), NEW N, N \subseteq DOMAIN c, Laid(t, N, c), Readable(c)
  PROVE  AcceptedTo(t, "desktop", Len(t)) /\ ContentTo(t, "desktop", [g \in N |-> c[g]], Len(t))
<1> DEFINE n == Len(t)
           r == "desktop"
           e == [g \in N |-> c[g]]
<1>1. FormTo(t, n) /\ n \in Nat
  BY LaidForm
<1>2. HeadersLaid(t, N) /\ EntriesLaid(t, N, c)
  BY DEF Laid
<1>3. \A i : NamedIn(t, r, i) <=> t[i].kind = "header"
  BY DEF NamedIn
<1>4. UniqueTo(t, r, n)
  BY <1>2, <1>3 DEF UniqueTo, HeadersLaid
<1>5. \A g : g \in DOMAIN e <=> \E i \in 1..n : NamedIn(t, r, i) /\ t[i].name = g
  BY <1>2, <1>3 DEF HeadersLaid
<1>6. ASSUME NEW g \in N PROVE EntriesTo(t, r, c[g], g, n)
  <2> DEFINE entries == c[g]
  <2>1. EntriesType(entries, LocaleKeys)
    BY DEF ContentType
  <2>2. ASSUME NEW l, LineOf(entries, l) PROVE KeyedLocale(l) = l.locale /\ ~Ignored(l)
    <3>1. l.kind = "entry" /\ l.key \in DOMAIN entries /\ l.locale \in DOMAIN entries[l.key]
      BY <2>2, WrittenLine
    <3>2. l.key \notin LocaleKeys => l.locale = "default"
      BY <2>1, <3>1 DEF EntriesType
    <3>3. l.key \notin InvalidKeys /\ l.locale \notin InvalidLocales
      BY <3>1 DEF Readable
    <3> QED
      BY <3>1, <3>2, <3>3 DEF KeyedLocale, Ignored
  <2>3. ASSUME NEW i \in 1..n PROVE EntryOf(t, r, i, g) <=> LineOf(entries, t[i]) /\ BelongsTo(t, i, g)
    <3>1. EntryOf(t, r, i, g) => LineOf(entries, t[i]) /\ BelongsTo(t, i, g)
      BY <1>2 DEF EntryOf, EntriesLaid
    <3>2. LineOf(entries, t[i]) /\ BelongsTo(t, i, g) => EntryOf(t, r, i, g)
      BY <2>2, WrittenLine DEF EntryOf
    <3> QED
      BY <3>1, <3>2
  <2>4. \A l : LineOf(entries, l) => \E i \in 1..n : EntryOf(t, r, i, g) /\ t[i] = l
    BY <1>2, <2>3 DEF EntriesLaid
  <2>5. \A k \in DOMAIN entries : \A loc \in DOMAIN entries[k] :
          LineOf(entries, Entry(k, loc, entries[k][loc]))
    BY DEF LineOf
  <2>6. \A k \in DOMAIN entries : DOMAIN entries[k] # {}
    BY DEF Readable
  <2> HIDE DEF entries
  <2>7. ASSUME NEW i \in 1..n, EntryOf(t, r, i, g)
        PROVE  /\ t[i].key \in DOMAIN entries /\ LocaleIn(r, t[i]) \in DOMAIN entries[t[i].key]
               /\ entries[t[i].key][LocaleIn(r, t[i])] = t[i].value
    BY <2>2, <2>3, <2>7, WrittenLine DEF LocaleIn
  <2>8. ASSUME NEW k \in DOMAIN entries, NEW loc \in DOMAIN entries[k]
        PROVE  \E i \in 1..n : EntryOf(t, r, i, g) /\ t[i].key = k /\ LocaleIn(r, t[i]) = loc
    <3> DEFINE l == Entry(k, loc, entries[k][loc])
    <3>1. LineOf(entries, l)
      BY <2>5
    <3>2. l.key = k /\ l.locale = loc
      BY WrittenFields
    <3>3. LocaleIn(r, l) = loc
      BY <2>2, <3>1, <3>2 DEF LocaleIn
    <3> HIDE DEF l
    <3>4. PICK i \in 1..n : EntryOf(t, r, i, g) /\ t[i] = l
      BY <2>4, <3>1
    <3> QED
      BY <3>2, <3>3, <3>4
  <2>9. \A k : k \in DOMAIN entries <=> \E i \in 1..n : EntryOf(t, r, i, g) /\ t[i].key = k
    BY <2>6, <2>7, <2>8
  <2>10. \A k \in DOMAIN entries : \A loc :
           loc \in DOMAIN entries[k] <=> \E i \in 1..n : EntryOf(t, r, i, g) /\ t[i].key = k /\ LocaleIn(r, t[i]) = loc
    BY <2>7, <2>8
  <2>11. EntriesTo(t, r, entries, g, n)
    BY <2>7, <2>9, <2>10 DEF EntriesTo
  <2> QED
    BY <2>11 DEF entries
<1>7. \A g \in N : e[g] = c[g]
  OBVIOUS
<1>8. DOMAIN e = N
  OBVIOUS
<1> HIDE DEF n, e
<1>9. AcceptedTo(t, r, n) /\ ContentTo(t, r, e, n)
  BY <1>1, <1>4, <1>5, <1>6, <1>7, <1>8 DEF AcceptedTo, ContentTo
<1> QED
  BY <1>9 DEF n, e

(* A list is laid out with a text that is not empty for each type, which   *)
(* is read as the applications in it.                                      *)
LEMMA LaidList ==
  ASSUME NEW t, NEW c, NEW N, Laid(t, N, c), NEW e, DOMAIN e = N,
         \A g \in N : DOMAIN c[g] = DOMAIN e[g],
         \A g \in N : \A k \in DOMAIN e[g] :
           /\ DOMAIN c[g][k] = {"default"} /\ DOMAIN e[g][k] = {"default"}
           /\ c[g][k]["default"] # <<>> /\ Applications(c[g][k]["default"]) = e[g][k]["default"]
  PROVE  AcceptedTo(t, "list", Len(t)) /\ ContentTo(t, "list", e, Len(t))
<1> DEFINE n == Len(t)
           r == "list"
<1>1. FormTo(t, n) /\ n \in Nat
  BY LaidForm
<1>2. HeadersLaid(t, N) /\ EntriesLaid(t, N, c)
  BY DEF Laid
<1>3. \A i : NamedIn(t, r, i) <=> t[i].kind = "header"
  BY DEF NamedIn
<1>4. \A g : g \in DOMAIN e <=> \E i \in 1..n : NamedIn(t, r, i) /\ t[i].name = g
  BY <1>2, <1>3 DEF HeadersLaid
<1>5. \A l : LocaleIn(r, l) = "default"
  BY DEF LocaleIn
<1>6. ASSUME NEW g \in N, NEW i \in 1..n, EntryOf(t, r, i, g)
      PROVE  /\ t[i].key \in DOMAIN e[g] /\ t[i].value = c[g][t[i].key]["default"]
             /\ t[i] = Entry(t[i].key, "default", c[g][t[i].key]["default"])
  <2>1. LineOf(c[g], t[i])
    BY <1>2, <1>6 DEF EntryOf, EntriesLaid
  <2>2. /\ t[i].key \in DOMAIN c[g] /\ t[i].locale \in DOMAIN c[g][t[i].key]
        /\ t[i].value = c[g][t[i].key][t[i].locale]
        /\ t[i] = Entry(t[i].key, t[i].locale, c[g][t[i].key][t[i].locale])
    BY <2>1, WrittenLine
  <2>3. t[i].locale = "default"
    BY <2>2
  <2> QED
    BY <2>2, <2>3
<1>7. ASSUME NEW g \in N, NEW k \in DOMAIN e[g] PROVE \E i \in 1..n : EntryOf(t, r, i, g) /\ t[i].key = k
  <2> DEFINE l == Entry(k, "default", c[g][k]["default"])
  <2>1. LineOf(c[g], l)
    BY DEF LineOf
  <2>2. l.kind = "entry" /\ l.key = k
    BY WrittenFields
  <2> HIDE DEF l
  <2>3. PICK i \in 1..n : t[i] = l /\ BelongsTo(t, i, g)
    BY <1>2, <2>1 DEF EntriesLaid
  <2> QED
    BY <2>2, <2>3 DEF EntryOf
<1>8. ASSUME NEW g \in N, NEW i \in 1..n, NEW j \in 1..n, EntryOf(t, r, i, g), EntryOf(t, r, j, g), t[i].key = t[j].key
      PROVE  i = j
  <2>1. t[i] = t[j]
    BY <1>6, <1>8
  <2> QED
    BY <1>2, <1>8, <2>1 DEF EntryOf, EntriesLaid
<1>9. ASSUME NEW g \in N PROVE EntriesTo(t, r, e[g], g, n)
  <2>1. \A k : k \in DOMAIN e[g] <=> \E i \in 1..n : EntryOf(t, r, i, g) /\ t[i].key = k
    BY <1>6, <1>7
  <2>2. \A k \in DOMAIN e[g] : \A loc :
          loc \in DOMAIN e[g][k] <=> \E i \in 1..n : EntryOf(t, r, i, g) /\ t[i].key = k /\ LocaleIn(r, t[i]) = loc
    BY <1>5, <1>7
  <2>3. \A i \in 1..n : EntryOf(t, r, i, g) => e[g][t[i].key][LocaleIn(r, t[i])] = Applications(t[i].value)
    BY <1>5, <1>6
  <2> QED
    BY <2>1, <2>2, <2>3 DEF EntriesTo
<1>10. ASSUME NEW g \in N PROVE ListGroupTo(t, r, g, n)
  <2>1. ASSUME NEW j \in 1..n, EntryOf(t, r, j, g) PROVE t[j].value # <<>>
    BY <1>6, <2>1
  <2>2. ASSUME NEW j \in 1..n, EntryOf(t, r, j, g), NEW k \in 1..(j-1), EntryOf(t, r, k, g), t[k].key = t[j].key PROVE FALSE
    <3>1. k \in 1..n /\ k # j
      BY <1>1
    <3> QED
      BY <1>8, <2>2, <3>1
  <2> QED
    BY <2>1, <2>2 DEF ListGroupTo
<1>11. ListTo(t, r, n)
  BY <1>3, <1>4, <1>10 DEF ListTo
<1> HIDE DEF n
<1>12. AcceptedTo(t, r, n) /\ ContentTo(t, r, e, n)
  BY <1>1, <1>4, <1>9, <1>11 DEF AcceptedTo, ContentTo
<1> QED
  BY <1>12 DEF n

-----------------------------------------------------------------------------
(***************************************************************************)
(* A file in which every line is accepted is read as what it contains.     *)
(***************************************************************************)
ValidContent(c) ==
  /\ Main \in DOMAIN c
  /\ {"Name", "Type"} \subseteq DOMAIN c[Main]
  /\ c[Main]["Type"]["default"] # <<>>
  /\ c[Main]["Type"]["default"] = <<"Link">> => "URL" \in DOMAIN c[Main]

LEMMA DesktopDone ==
  ASSUME Inv, at = "done", IsDesktop, NEW c, ContentType(c, LocaleKeys), ValidContent(c),
         AcceptedTo(text, "desktop", Len(text)), ContentTo(text, "desktop", c, Len(text)),
         Len(text) >= 1, text[1] = Header(Main)
  PROVE  err = "NoError" /\ groups = c
<1> DEFINE n == Len(text)
           whole == ContentTo(text, Reader, groups, n)
<1>1. TypeOK /\ Reader = "desktop" /\ n \in Nat
  BY TextFacts DEF Inv, IsDesktop
<1>2. MainFirst(text, Reader, n)
  <2>1. NamedIn(text, Reader, 1) /\ text[1].name = Main
    BY <1>1, WrittenFields DEF NamedIn
  <2>2. ASSUME NEW i \in 1..n, text[i].name # Main PROVE 1 \in 1..(i-1)
    BY <1>1, <2>1, <2>2
  <2> QED
    BY <2>1, <2>2 DEF MainFirst
<1>3. c = Meaning
  BY <1>1, MeaningIs
<1>4. whole => groups = Meaning
  BY <1>1, MeaningIs DEF TypeOK
<1>5. whole => ValidMain
  BY <1>3, <1>4 DEF ValidMain, ValidContent
<1>6. text # <<>>
  OBVIOUS
<1>7. err = "NoError" /\ whole
  BY <1>1, <1>2, <1>5, <1>6 DEF Inv, RInv, AtDone
<1> QED
  BY <1>3, <1>4, <1>7

LEMMA ListDone ==
  ASSUME Inv, at = "done", Reader = "list", NEW c, ContentType(c, {}),
         AcceptedTo(text, "list", Len(text)), ContentTo(text, "list", c, Len(text))
  PROVE  err = "NoError" /\ groups = c
<1> DEFINE whole == ContentTo(text, Reader, groups, Len(text))
<1>1. TypeOK /\ ~IsDesktop
  BY DEF Inv, IsDesktop
<1>2. c = Meaning
  BY <1>1, MeaningIs
<1>3. whole => groups = Meaning
  BY <1>1, MeaningIs DEF TypeOK
<1>4. err = "NoError" /\ whole
  BY <1>1 DEF Inv, RInv, AtDone
<1> QED
  BY <1>2, <1>3, <1>4

-----------------------------------------------------------------------------
(***************************************************************************)
(* What Keep keeps.                                                        *)
(***************************************************************************)
Kept(s, P) == FlattenSeq([i \in DOMAIN s |-> IF s[i] \in P THEN <<s[i]>> ELSE <<>>])

LEMMA KeepMembers ==
  ASSUME NEW S, NEW s \in Seq(S), NEW P
  PROVE  /\ Kept(s, P) \in Seq(P)
         /\ Members(Kept(s, P), {x \in P : \E i \in 1..Len(s) : s[i] = x})
         /\ Once(s) => Once(Kept(s, P))
<1> DEFINE part(x) == IF x \in P THEN <<x>> ELSE <<>>
           parts == [i \in DOMAIN s |-> part(s[i])]
           Of(x) == IF x \in P THEN {x} ELSE {}
           Es == [i \in DOMAIN s |-> Of(s[i])]
<1>1. DOMAIN s = 1..Len(s) /\ Len(s) \in Nat
  OBVIOUS
<1>2. \A x : part(x) \in Seq(P) /\ Members(part(x), Of(x)) /\ Once(part(x))
  <2>1. ASSUME NEW x \in P PROVE <<x>> \in Seq(P) /\ Members(<<x>>, {x}) /\ Once(<<x>>)
    <3>1. <<x>> \in Seq(P) /\ Len(<<x>>) = 1 /\ <<x>>[1] = x /\ DOMAIN <<x>> = 1..1
      OBVIOUS
    <3>2. \A i : i \in 1..1 <=> i = 1
      OBVIOUS
    <3>3. Members(<<x>>, {x})
      BY <3>1, <3>2 DEF Members
    <3>4. Once(<<x>>)
      BY <3>1, <3>2 DEF Once
    <3> QED
      BY <3>1, <3>3, <3>4
  <2>2. <<>> \in Seq(P) /\ Members(<<>>, {}) /\ Once(<<>>)
    <3>1. <<>> \in Seq(P) /\ Len(<<>>) = 0 /\ DOMAIN <<>> = {}
      OBVIOUS
    <3>2. Members(<<>>, {})
      BY <3>1 DEF Members
    <3>3. Once(<<>>)
      BY <3>1 DEF Once
    <3> QED
      BY <3>1, <3>2, <3>3
  <2> QED
    BY <2>1, <2>2, Zenon
<1>3. Kept(s, P) = FlattenSeq(parts)
  BY DEF Kept
<1> HIDE DEF part
<1>4. parts \in [1..Len(s) -> Seq(P)] /\ \A i \in 1..Len(s) : parts[i] = part(s[i])
  BY <1>1, <1>2
<1> HIDE DEF parts
<1>5. parts \in Seq(Seq(P)) /\ Len(parts) = Len(s)
  BY <1>1, <1>4
<1>6. \A i \in 1..Len(s) : Es[i] = Of(s[i])
  BY <1>1
<1> HIDE DEF Es
<1>7. \A i \in 1..Len(parts) : Members(parts[i], Es[i]) /\ Once(parts[i])
  BY <1>2, <1>4, <1>5, <1>6
<1>8. \A i \in 1..Len(parts) : Members(parts[i], Es[i])
  BY <1>7
<1>9. FlattenSeq(parts) \in Seq(P)
  BY <1>5, FlattenType
<1>10. UNION {Es[i] : i \in 1..Len(parts)} = {x \in P : \E i \in 1..Len(s) : s[i] = x}
  BY <1>5, <1>6
<1>11. Members(FlattenSeq(parts), {x \in P : \E i \in 1..Len(s) : s[i] = x})
  <2>1. Members(FlattenSeq(parts), UNION {Es[i] : i \in 1..Len(parts)})
    BY <1>5, <1>8, FlattenMembers
  <2> QED
    BY <1>10, <2>1
<1>12. ASSUME Once(s) PROVE Once(FlattenSeq(parts))
  <2>1. ASSUME NEW i \in 1..Len(parts), NEW j \in 1..Len(parts), i # j PROVE Es[i] \cap Es[j] = {}
    <3>1. i \in DOMAIN s /\ j \in DOMAIN s /\ Es[i] = Of(s[i]) /\ Es[j] = Of(s[j])
      BY <1>1, <1>5, <1>6
    <3>2. s[i] # s[j]
      BY <2>1, <3>1, <1>12, Zenon DEF Once
    <3>3. Of(s[i]) \cap Of(s[j]) = {}
      BY <3>2
    <3> QED
      BY <3>1, <3>3
  <2>2. \A i \in 1..Len(parts) : Once(parts[i])
    BY <1>7
  <2>3. \A i, j \in 1..Len(parts) : i # j => Es[i] \cap Es[j] = {}
    BY <2>1
  <2> QED
    BY <1>5, <1>8, <2>2, <2>3, FlattenMembers, Zenon
<1> QED
  BY <1>3, <1>9, <1>11, <1>12

Full == Strings \ {""}

LEMMA FullIs == \A x : x \in Full <=> x \in Strings /\ x # ""
BY Zenon DEF Full

LEMMA ApplicationsKept ==
  ASSUME NEW value \in Words
  PROVE  Applications(value) = Kept(value, Full)
<1>1. value \in Seq(Strings)
  BY DEF Words
<1>2. \A i \in DOMAIN value : value[i] \in Strings
  BY <1>1
<1>3. \A i \in DOMAIN value : value[i] # "" <=> value[i] \in Full
  BY <1>2, FullIs, Zenon
<1>4. [i \in DOMAIN value |-> IF value[i] # "" THEN <<value[i]>> ELSE <<>>]
        = [i \in DOMAIN value |-> IF value[i] \in Full THEN <<value[i]>> ELSE <<>>]
  BY <1>3, Zenon
<1> QED
  BY <1>4, Zenon DEF Applications, Keep, Kept

LEMMA ApplicationsIn ==
  ASSUME NEW value \in Words
  PROVE  Applications(value) \in Seq(Full)
<1>1. value \in Seq(Strings)
  BY DEF Words
<1> QED
  BY <1>1, ApplicationsKept, KeepMembers

(* The semicolon after the last application is read as the end of it. *)
LEMMA AppendedText ==
  ASSUME NEW x \in Seq(Full)
  PROVE  Applications(Append(x, "")) = x
<1> DEFINE none == ""
           v == Append(x, none)
           n == Len(x)
           parts == [i \in DOMAIN v |-> IF v[i] \in Full THEN <<v[i]>> ELSE <<>>]
<1>1. Full \subseteq Strings /\ none \in Strings /\ none \notin Full
  BY StringsAssumption, FullIs, Zenon
<1>2. Applications(Append(x, "")) = Applications(v)
  BY Zenon
<1> HIDE DEF none
<1>3. n \in Nat /\ DOMAIN x = 1..n /\ x = [i \in 1..n |-> x[i]] /\ \A i \in 1..n : x[i] \in Full
  OBVIOUS
<1>4. v \in Seq(Strings) /\ Len(v) = n + 1 /\ DOMAIN v = 1..(n+1) /\ v[n+1] = none /\ \A i \in 1..n : v[i] = x[i]
  BY <1>1, <1>3
<1>5. Applications(v) = FlattenSeq(parts)
  BY <1>4, ApplicationsKept DEF Words, Kept
<1> HIDE DEF v
<1>6. parts \in [1..(n+1) -> Seq(Full)]
  <2>1. \A a \in Full : <<a>> \in Seq(Full)
    OBVIOUS
  <2>2. <<>> \in Seq(Full)
    OBVIOUS
  <2>3. \A i \in 1..(n+1) : (IF v[i] \in Full THEN <<v[i]>> ELSE <<>>) \in Seq(Full)
    BY <2>1, <2>2, Zenon
  <2> QED
    BY <1>4, <2>3, Zenon
<1>7. parts[n+1] = <<>> /\ \A i \in 1..n : parts[i] = <<x[i]>>
  <2>1. n + 1 \in 1..(n+1) /\ \A i \in 1..n : i \in 1..(n+1)
    BY <1>3
  <2> QED
    BY <1>1, <1>3, <1>4, <2>1, Zenon
<1> HIDE DEF parts
<1>8. parts \in Seq(Seq(Full)) /\ Len(parts) = n + 1
  BY <1>3, <1>6
<1>9. PICK f \in [1..(n+1) -> Seq(Full)] :
        /\ FlattenSeq(parts) = f[n+1] /\ f[1] = parts[1]
        /\ \A i \in 2..(n+1) : f[i] = f[i-1] \o parts[i]
  <2>1. Len(parts) # 0
    BY <1>3, <1>8
  <2>2. \E f \in [1..Len(parts) -> Seq(Full)] :
          /\ FlattenSeq(parts) = f[Len(parts)] /\ f[1] = parts[1]
          /\ \A i \in 2..Len(parts) : f[i] = f[i-1] \o parts[i]
    BY <1>8, <2>1, FlattenSteps
  <2> QED
    BY <1>8, <2>2, Zenon
<1> HIDE DEF n
<1> DEFINE Good(i) == Len(f[i]) = i /\ \A j \in 1..i : f[i][j] = x[j]
           T == {i \in 1..n : ~Good(i)}
<1>10. n # 0 => Good(1)
  <2>1. ASSUME n # 0 PROVE f[1] = <<x[1]>>
    <3>1. 1 \in 1..n
      BY <1>3, <2>1
    <3> QED
      BY <1>7, <1>9, <3>1
  <2>2. Len(<<x[1]>>) = 1 /\ \A j \in 1..1 : <<x[1]>>[j] = x[j]
    OBVIOUS
  <2> QED
    BY <2>1, <2>2
<1>11. ASSUME NEW i \in 2..n, Good(i-1) PROVE Good(i)
  <2>1. i \in 1..n /\ i \in 2..(n+1) /\ i - 1 \in 1..(n+1) /\ i - 1 \in Nat
    BY <1>3
  <2>2. f[i] = f[i-1] \o <<x[i]>>
    BY <1>7, <1>9, <2>1
  <2>3. f[i-1] \in Seq(Full) /\ x[i] \in Full
    BY <1>3, <1>9, <2>1
  <2>4. <<x[i]>> \in Seq(Full) /\ Len(<<x[i]>>) = 1 /\ <<x[i]>>[1] = x[i]
    BY <2>3
  <2>5. /\ Len(f[i]) = Len(f[i-1]) + 1
        /\ \A j \in 1..Len(f[i-1]) : f[i][j] = f[i-1][j]
        /\ f[i][Len(f[i-1]) + 1] = x[i]
    BY <2>2, <2>3, <2>4
  <2>6. Len(f[i]) = i /\ f[i][i] = x[i] /\ \A j \in 1..(i-1) : f[i][j] = x[j]
    BY <1>11, <2>1, <2>5
  <2>7. \A j \in 1..i : j = i \/ j \in 1..(i-1)
    BY <2>1
  <2> QED
    BY <2>6, <2>7
<1>12. T = {}
  <2>1. SUFFICES ASSUME T # {} PROVE FALSE
    OBVIOUS
  <2>2. T \subseteq Nat
    OBVIOUS
  <2> HIDE DEF Good
  <2>3. PICK m \in T : \A k \in T : m <= k
    <3> HIDE DEF T
    <3> QED
      BY <2>1, <2>2, LeastNumber
  <2>4. m \in 1..n /\ ~Good(m)
    OBVIOUS
  <2>5. m # 1
    BY <1>3, <1>10, <2>4
  <2>6. m \in 2..n
    BY <2>4, <2>5
  <2>7. m - 1 \in 1..n /\ m - 1 \notin T
    BY <1>3, <2>3, <2>6
  <2> QED
    BY <1>11, <2>4, <2>6, <2>7
<1>13. FlattenSeq(parts) = x
  <2>1. CASE n = 0
    <3>1. f[1] = <<>>
      BY <1>7, <1>9, <2>1
    <3>2. x = <<>>
      BY <1>3, <2>1 DEF n
    <3> QED
      BY <1>9, <2>1, <3>1, <3>2
  <2>2. CASE n # 0
    <3>1. n \in 1..n /\ n + 1 \in 2..(n+1) /\ (n + 1) - 1 = n /\ n \in 1..(n+1)
      BY <1>3, <2>2
    <3>2. f[n+1] = f[n] \o <<>> /\ f[n] \in Seq(Full)
      BY <1>7, <1>9, <3>1
    <3>3. f[n+1] = f[n]
      BY <3>2
    <3>4. Good(n)
      BY <1>12, <3>1
    <3>5. f[n] = x
      <4>1. \A s \in Seq(Full) : s = [j \in 1..Len(s) |-> s[j]]
        OBVIOUS
      <4>2. f[n] = [j \in 1..n |-> f[n][j]]
        BY <3>2, <3>4, <4>1, Zenon
      <4> QED
        BY <1>3, <3>4, <4>2
    <3> QED
      BY <1>9, <3>3, <3>5
  <2> QED
    BY <2>1, <2>2
<1> QED
  BY <1>2, <1>5, <1>13

-----------------------------------------------------------------------------
(***************************************************************************)
(* What toString writes is laid out.                                       *)
(***************************************************************************)
LEMMA PairIs ==
  ASSUME NEW S, NEW s \in Seq(S), Len(s) = 2
  PROVE  s[2] \in S /\ s = <<s[1], s[2]>>
<1>1. DOMAIN s = 1..2 /\ s = [i \in 1..2 |-> s[i]]
  OBVIOUS
<1>2. 2 \in 1..Len(s)
  OBVIOUS
<1>3. s[2] \in S
  BY <1>2
<1>4. <<s[1], s[2]>> = [i \in 1..2 |-> s[i]]
  OBVIOUS
<1> QED
  BY <1>1, <1>3, <1>4

LEMMA ActionNames ==
  /\ \A a, b : ActionGroup(a) = ActionGroup(b) => a = b
  /\ \A a : IsAction(ActionGroup(a)) /\ ActionGroup(a)[2] = a
  /\ ~IsAction(Main)
  /\ \A g \in Words : IsAction(g) => g = ActionGroup(g[2]) /\ g[2] \in Strings
<1> DEFINE prefix == "Desktop Action"
<1>1. \A a : <<prefix, a>>[1] = prefix /\ <<prefix, a>>[2] = a /\ Len(<<prefix, a>>) = 2
  OBVIOUS
<1>2. \A a : ActionGroup(a)[2] = a /\ IsAction(ActionGroup(a))
  BY <1>1 DEF ActionGroup, IsAction
<1>3. ~IsAction(Main)
  BY DEF IsAction, Main
<1>4. ASSUME NEW g \in Words, IsAction(g) PROVE g = ActionGroup(g[2]) /\ g[2] \in Strings
  <2>1. g \in Seq(Strings) /\ Len(g) = 2
    BY <1>4 DEF Words, IsAction
  <2>2. g[1] = prefix
    BY <1>4 DEF IsAction
  <2> HIDE DEF prefix
  <2>3. g[2] \in Strings /\ g = <<g[1], g[2]>>
    BY <2>1, PairIs
  <2> QED
    BY <2>2, <2>3, Zenon DEF ActionGroup, prefix
<1> QED
  BY <1>2, <1>3, <1>4, Zenon

LEMMA DesktopLaid ==
  ASSUME NEW c, ContentType(c, LocaleKeys), Main \in DOMAIN c, Once(ActionsOf(c))
  PROVE  /\ Laid(DesktopText(c), {g \in DOMAIN c : IsAction(g) => g[2] \in Range(ActionsOf(c))}, c)
         /\ Len(DesktopText(c)) >= 1 /\ DesktopText(c)[1] = Header(Main)
<1> DEFINE actions == ActionsOf(c)
           A == {a \in Strings : ActionGroup(a) \in DOMAIN c}
           keep(a) == IF a \in A THEN <<a>> ELSE <<>>
           named == Keep(actions, LAMBDA a : ActionGroup(a) \in DOMAIN c)
           names == [i \in DOMAIN named |-> ActionGroup(named[i])]
           there == {a \in A : \E i \in 1..Len(actions) : actions[i] = a}
           N == {ActionGroup(a) : a \in there}
           rest == {g \in DOMAIN c : g # Main /\ ~IsAction(g)}
           others == SetToSeq(rest)
           t1 == GroupLines(Main, c[Main])
           t2 == FlattenSeq([i \in DOMAIN names |-> GroupLines(names[i], c[names[i]])])
           t3 == FlattenSeq([i \in DOMAIN others |-> GroupLines(others[i], c[others[i]])])
<1>1. actions \in Seq(Strings) /\ DOMAIN actions = 1..Len(actions)
  BY ActionsOfType DEF Words
<1>2. named = Kept(actions, A)
  <2> HIDE DEF actions
  <2>1. \A i \in DOMAIN actions : ActionGroup(actions[i]) \in DOMAIN c <=> actions[i] \in A
    BY <1>1
  <2> HIDE DEF A
  <2>2. [i \in DOMAIN actions |-> IF ActionGroup(actions[i]) \in DOMAIN c THEN <<actions[i]>> ELSE <<>>]
          = [i \in DOMAIN actions |-> IF actions[i] \in A THEN <<actions[i]>> ELSE <<>>]
    BY <2>1, Zenon
  <2> QED
    BY <2>2, Zenon DEF Keep, Kept
<1>3. named \in Seq(A) /\ Members(named, there) /\ Once(named)
  <2> HIDE DEF actions, A, named
  <2> QED
    BY <1>1, <1>2, KeepMembers DEF actions
<1>4. DesktopText(c) = (t1 \o t2) \o t3
  <2>1. DesktopText(c) = (t1 \o FlattenSeq([i \in DOMAIN named |-> GroupLines(ActionGroup(named[i]), c[ActionGroup(named[i])])])) \o t3
    BY DEF DesktopText
  <2> HIDE DEF named
  <2>2. t2 = FlattenSeq([i \in DOMAIN named |-> GroupLines(ActionGroup(named[i]), c[ActionGroup(named[i])])])
    OBVIOUS
  <2> QED
    BY <2>1, <2>2, Zenon
<1> HIDE DEF named, others
<1>5. names \in Seq(DOMAIN c) /\ Len(names) = Len(named) /\ DOMAIN names = 1..Len(named)
      /\ \A i \in 1..Len(named) : names[i] = ActionGroup(named[i])
  <2>1. \A i \in 1..Len(named) : ActionGroup(named[i]) \in DOMAIN c
    BY <1>3
  <2>2. names \in [1..Len(named) -> DOMAIN c] /\ Len(named) \in Nat
    BY <1>3, <2>1
  <2>3. \A i \in 1..Len(named) : names[i] = ActionGroup(named[i])
    BY <1>3
  <2> HIDE DEF names
  <2>4. names \in Seq(DOMAIN c) /\ Len(names) = Len(named) /\ DOMAIN names = 1..Len(named)
    <3> DEFINE n == Len(named)
    <3>1. names \in [1..n -> DOMAIN c] /\ n \in Nat
      BY <2>2
    <3> HIDE DEF n
    <3>2. names \in Seq(DOMAIN c) /\ DOMAIN names = 1..n
      BY <3>1
    <3>3. Len(names) = n
      BY <3>1, <3>2
    <3> QED
      BY <3>2, <3>3 DEF n
  <2> QED
    BY <2>3, <2>4
<1>6. Once(names)
  <2>1. DOMAIN named = 1..Len(named)
    BY <1>3
  <2> HIDE DEF names
  <2>2. ASSUME NEW i \in DOMAIN names, NEW j \in DOMAIN names, names[i] = names[j] PROVE i = j
    <3>1. i \in DOMAIN named /\ j \in DOMAIN named /\ ActionGroup(named[i]) = ActionGroup(named[j])
      BY <1>5, <2>1, <2>2, Zenon
    <3>2. named[i] = named[j]
      BY <3>1, ActionNames, Zenon
    <3> QED
      BY <1>3, <3>1, <3>2, Zenon DEF Once
  <2> QED
    BY <2>2, Zenon DEF Once
<1>7. Members(names, N)
  <2> HIDE DEF names, there
  <2>1. ASSUME NEW x PROVE x \in N <=> \E i \in 1..Len(names) : names[i] = x
    <3>1. x \in N <=> \E a \in there : x = ActionGroup(a)
      BY Zenon
    <3>2. (\E a \in there : x = ActionGroup(a)) <=> \E i \in 1..Len(named) : x = ActionGroup(named[i])
      BY <1>3, Zenon DEF Members
    <3> HIDE DEF N
    <3> QED
      BY <1>5, <3>1, <3>2, Zenon
  <2> HIDE DEF N
  <2> QED
    BY <2>1 DEF Members
<1> HIDE DEF names, there
<1>8. Laid(t2, N, c)
  <2> HIDE DEF N
  <2> QED
    BY <1>5, <1>6, <1>7, FlattenLaid
<1>9. Laid(t3, rest, c)
  <2>1. IsFiniteSet(rest)
    BY FS_Subset DEF ContentType
  <2>2. others \in Seq(rest) /\ Members(others, rest) /\ Once(others)
    BY <2>1, SetToSeqOnce DEF others
  <2>3. others \in Seq(DOMAIN c)
    BY <2>2
  <2> HIDE DEF rest
  <2> QED
    BY <2>2, <2>3, FlattenLaid
<1>10. Block(t1, Main, c[Main])
  BY NameTypes, GroupIsBlock DEF ContentType
<1>11. Laid(t1, {Main}, c)
  BY <1>10, BlockLaid
<1>12. {Main} \cap N = {} /\ ({Main} \cup N) \cap rest = {}
  BY ActionNames
<1>13. ({Main} \cup N) \cup rest = {g \in DOMAIN c : IsAction(g) => g[2] \in Range(actions)}
  <2>1. DOMAIN c \subseteq Words
    BY DEF ContentType
  <2>2. \A x : x \in Range(actions) <=> \E i \in 1..Len(actions) : actions[i] = x
    BY <1>1 DEF Range
  <2> HIDE DEF actions
  <2>3. ASSUME NEW g \in DOMAIN c, IsAction(g) PROVE g \in N <=> g[2] \in Range(actions)
    <3>1. g = ActionGroup(g[2]) /\ g[2] \in Strings
      BY <2>1, <2>3, ActionNames
    <3>2. g[2] \in A
      BY <2>3, <3>1
    <3>3. g \in N <=> \E a \in there : g = ActionGroup(a)
      BY Zenon
    <3>4. (\E a \in there : g = ActionGroup(a)) <=> g[2] \in there
      BY <3>1, ActionNames, Zenon
    <3> HIDE DEF A, N
    <3>5. g[2] \in there <=> g[2] \in Range(actions)
      BY <2>2, <3>2, Zenon DEF there
    <3> QED
      BY <3>3, <3>4, <3>5
  <2>4. \A g \in N : g \in DOMAIN c /\ IsAction(g)
    <3>1. \A a \in there : ActionGroup(a) \in DOMAIN c
      BY DEF there
    <3> QED
      BY <3>1, ActionNames
  <2> HIDE DEF N
  <2> QED
    BY <2>3, <2>4, ActionNames
<1> HIDE DEF t1, t2, t3, N, rest
<1>14. Laid(t1 \o t2, {Main} \cup N, c)
  BY <1>8, <1>11, <1>12, ConcatLaid
<1>15. Laid((t1 \o t2) \o t3, ({Main} \cup N) \cup rest, c)
  BY <1>9, <1>12, <1>14, ConcatLaid
<1>16. Len((t1 \o t2) \o t3) >= 1 /\ ((t1 \o t2) \o t3)[1] = Header(Main)
  <2>1. t1 \in Seq(FileLine) /\ t2 \in Seq(FileLine) /\ t3 \in Seq(FileLine) /\ Len(t1) >= 1 /\ t1[1] = Header(Main)
    BY <1>8, <1>9, <1>10 DEF Laid, Block
  <2>2. t1 \o t2 \in Seq(FileLine) /\ Len(t1 \o t2) >= 1 /\ (t1 \o t2)[1] = Header(Main)
    <3>1. 1 \in 1..Len(t1)
      BY <2>1
    <3> QED
      BY <2>1, <3>1, ConcatPlaces
  <2> DEFINE u == t1 \o t2
  <2> HIDE DEF u
  <2>3. u \in Seq(FileLine) /\ Len(u) >= 1 /\ u[1] = Header(Main)
    BY <2>2 DEF u
  <2>4. 1 \in 1..Len(u)
    BY <2>3
  <2>5. Len(u \o t3) >= 1 /\ (u \o t3)[1] = Header(Main)
    BY <2>1, <2>3, <2>4, ConcatPlaces
  <2> QED
    BY <2>5 DEF u
<1> QED
  BY <1>4, <1>13, <1>15, <1>16

(* A list is read as it was, if each type has applications. *)
LEMMA ListReads ==
  ASSUME NEW c, ContentType(c, {}),
         \A g \in DOMAIN c : \A k \in DOMAIN c[g] : c[g][k]["default"] # <<>> /\ c[g][k]["default"] \in Seq(Full)
  PROVE  AcceptedTo(ListText(c), "list", Len(ListText(c))) /\ ContentTo(ListText(c), "list", c, Len(ListText(c)))
<1> DEFINE names == SetToSeq(DOMAIN c)
           e == [g \in DOMAIN c |-> Ended(c[g])]
<1>1. ContentType(e, {}) /\ DOMAIN e = DOMAIN c
  <2>1. DOMAIN e = DOMAIN c /\ e = [g \in DOMAIN e |-> e[g]]
    OBVIOUS
  <2>2. \A g \in DOMAIN c : EntriesType(e[g], {})
    BY EndedType DEF ContentType
  <2> HIDE DEF e
  <2> QED
    BY <2>1, <2>2 DEF ContentType
<1>2. names \in Seq(DOMAIN c) /\ Members(names, DOMAIN c) /\ Once(names)
  BY SetToSeqOnce DEF ContentType
<1>3. ListText(c) = FlattenSeq([i \in DOMAIN names |-> GroupLines(names[i], e[names[i]])])
  <2>1. ListText(c) = FlattenSeq([i \in DOMAIN names |-> GroupLines(names[i], Ended(c[names[i]]))])
    BY DEF ListText, Ended
  <2> HIDE DEF names
  <2>2. \A i \in DOMAIN names : e[names[i]] = Ended(c[names[i]])
    BY <1>2
  <2> HIDE DEF e
  <2>3. [i \in DOMAIN names |-> GroupLines(names[i], Ended(c[names[i]]))]
          = [i \in DOMAIN names |-> GroupLines(names[i], e[names[i]])]
    BY <2>2, Zenon
  <2> QED
    BY <2>1, <2>3, Zenon
<1>4. /\ \A g \in DOMAIN c : DOMAIN e[g] = DOMAIN c[g]
      /\ \A g \in DOMAIN c : \A k \in DOMAIN c[g] :
           DOMAIN e[g][k] = {"default"} /\ e[g][k]["default"] = Append(c[g][k]["default"], "")
  <2>1. \A g \in DOMAIN c : e[g] = Ended(c[g])
    BY Zenon
  <2> HIDE DEF e
  <2>2. \A g \in DOMAIN c : DOMAIN e[g] = DOMAIN c[g]
    BY <2>1, Zenon DEF Ended
  <2>3. ASSUME NEW g \in DOMAIN c, NEW k \in DOMAIN c[g]
        PROVE  DOMAIN e[g][k] = {"default"} /\ e[g][k]["default"] = Append(c[g][k]["default"], "")
    <3>1. e[g][k] = [d \in {"default"} |-> IF c[g][k][d] = <<>> THEN <<>> ELSE Append(c[g][k][d], "")]
      BY <2>1, <2>3, Zenon DEF Ended
    <3>2. c[g][k]["default"] # <<>>
      OBVIOUS
    <3> QED
      BY <3>1, <3>2, Zenon
  <2> QED
    BY <2>2, <2>3
<1> HIDE DEF names, e
<1>5. Laid(ListText(c), DOMAIN c, e)
  BY <1>1, <1>2, <1>3, FlattenLaid
<1>6. ASSUME NEW g \in DOMAIN c, NEW k \in DOMAIN c[g]
      PROVE  /\ DOMAIN c[g][k] = {"default"}
             /\ e[g][k]["default"] # <<>> /\ Applications(e[g][k]["default"]) = c[g][k]["default"]
  <2> DEFINE x == c[g][k]["default"]
             none == ""
  <2>1. DOMAIN c[g][k] = {"default"}
    BY DEF ContentType, EntriesType
  <2>2. x \in Seq(Full)
    OBVIOUS
  <2>3. e[g][k]["default"] = Append(x, none)
    BY <1>4, Zenon
  <2>4. Applications(Append(x, none)) = x
    BY <2>2, AppendedText, Zenon
  <2> HIDE DEF none, x
  <2>5. Append(x, none) # <<>>
    <3>1. x \in Seq(Strings)
      <4>1. Full \subseteq Strings
        BY FullIs, Zenon
      <4> QED
        BY <2>2, <4>1
    <3>2. none \in Strings
      BY StringsAssumption, Zenon DEF none
    <3>3. Len(Append(x, none)) = Len(x) + 1 /\ Len(x) \in Nat
      BY <3>1, <3>2
    <3>4. Len(<<>>) = 0
      OBVIOUS
    <3> QED
      BY <3>3, <3>4
  <2> QED
    BY <2>1, <2>3, <2>4, <2>5 DEF x
<1>7. \A g \in DOMAIN c : \A k \in DOMAIN c[g] :
        /\ DOMAIN e[g][k] = {"default"} /\ DOMAIN c[g][k] = {"default"}
        /\ e[g][k]["default"] # <<>> /\ Applications(e[g][k]["default"]) = c[g][k]["default"]
  BY <1>4, <1>6, Zenon
<1>8. \A g \in DOMAIN c : DOMAIN e[g] = DOMAIN c[g]
  BY <1>4, Zenon
<1> DEFINE t == ListText(c)
           N == DOMAIN c
<1>9. Laid(t, N, e) /\ N = DOMAIN c
  BY <1>5
<1> HIDE DEF t, N
<1>10. AcceptedTo(t, "list", Len(t)) /\ ContentTo(t, "list", c, Len(t))
  BY <1>7, <1>8, <1>9, LaidList
<1> QED
  BY <1>10 DEF t

-----------------------------------------------------------------------------
(***************************************************************************)
(* What AM writes to a file, until it has read it again.                   *)
(***************************************************************************)
TextsFull(c) == \A g \in DOMAIN c : \A k \in DOMAIN c[g] : c[g][k]["default"] \in Seq(Full)
DesktopAsWritten ==
  text = DesktopText(kept) /\ ContentType(kept, LocaleKeys) /\ ValidContent(kept) /\ Readable(kept)
ListAsWritten == Reader = "list" /\ text = ListText(kept) /\ ContentType(kept, {}) /\ TextsFull(kept)
RequestAsWritten == text = DesktopText(kept) /\ kept = Content(input) /\ RequestType(input) /\ ~Refused(input)
AsWritten ==
  IF IsFile THEN kept = NotWritten \/ (IF IsDesktop THEN DesktopAsWritten ELSE ListAsWritten)
  ELSE at \in {"generate", "refused"} \/ RequestAsWritten

(* What is read of a desktop file can be read again. *)
LEMMA ReadIsReadable ==
  ASSUME NEW t, NEW c, NEW n, ContentTo(t, "desktop", c, n)
  PROVE  Readable(c)
<1> SUFFICES ASSUME NEW g \in DOMAIN c, NEW k \in DOMAIN c[g]
             PROVE  k \notin InvalidKeys /\ DOMAIN c[g][k] # {} /\ DOMAIN c[g][k] \cap InvalidLocales = {}
  BY DEF Readable
<1> DEFINE r == "desktop"
<1>1. EntriesTo(t, r, c[g], g, n)
  BY DEF ContentTo
<1>2. PICK i \in 1..n : EntryOf(t, r, i, g) /\ t[i].key = k
  BY <1>1 DEF EntriesTo
<1>3. LocaleIn(r, t[i]) \in DOMAIN c[g][k]
  BY <1>1, <1>2 DEF EntriesTo
<1>4. k \notin InvalidKeys
  BY <1>2 DEF EntryOf, Ignored
<1>5. ASSUME NEW loc \in DOMAIN c[g][k] PROVE loc \notin InvalidLocales
  <2>1. PICK j \in 1..n : EntryOf(t, r, j, g) /\ t[j].key = k /\ LocaleIn(r, t[j]) = loc
    BY <1>1 DEF EntriesTo
  <2>2. t[j].locale \notin InvalidLocales
    BY <2>1 DEF EntryOf, Ignored
  <2>3. "default" \notin InvalidLocales
    BY Zenon DEF InvalidLocales
  <2> QED
    BY <2>1, <2>2, <2>3 DEF LocaleIn, KeyedLocale
<1> QED
  BY <1>3, <1>4, <1>5

(* The texts that are read of a list have no empty application. *)
LEMMA ReadIsFull ==
  ASSUME TypeOK, ~IsDesktop, ContentType(groups, {}), ContentTo(text, Reader, groups, Len(text))
  PROVE  TextsFull(groups)
<1> SUFFICES ASSUME NEW g \in DOMAIN groups, NEW k \in DOMAIN groups[g]
             PROVE  groups[g][k]["default"] \in Seq(Full)
  BY DEF TextsFull
<1> DEFINE n == Len(text)
           r == Reader
<1>1. EntriesTo(text, r, groups[g], g, n) /\ n \in Nat
  BY TextFacts DEF ContentTo
<1>2. r # "desktop"
  BY DEF IsDesktop
<1> HIDE DEF n, r
<1>3. PICK i \in 1..n : EntryOf(text, r, i, g) /\ text[i].key = k
  BY <1>1 DEF EntriesTo
<1>4. PICK j \in 1..n : /\ EntryOf(text, r, j, g) /\ text[j].key = text[i].key
                        /\ \A x \in (j+1)..n : ~(EntryOf(text, r, x, g) /\ text[x].key = text[i].key)
  BY <1>1, <1>3, LastOfKey
<1>5. \A x \in (j+1)..n : ~(EntryOf(text, r, x, g) /\ SameText(r, text[x], text[j]))
  BY <1>4 DEF SameText
<1>6. LocaleIn(r, text[j]) = "default"
  BY <1>2 DEF LocaleIn
<1>7. groups[g][k]["default"] = Applications(text[j].value)
  BY <1>1, <1>2, <1>3, <1>4, <1>5, <1>6 DEF EntriesTo
<1>8. text[j].value \in Words
  BY TextFacts, LineFields DEF n
<1> QED
  BY <1>7, <1>8, ApplicationsIn

(* Reading leaves the file as it was written. *)
LEMMA ReadAsWritten ==
  ASSUME AsWritten, Read
  PROVE  AsWritten'
<1>1. UNCHANGED <<input, text, kept>> /\ at \notin {"generate", "refused"}
  BY DEF Read, Open, Finish, AddGroup, SkipGroup, AddEntry
<1>2. UNCHANGED <<IsFile, Reader, IsDesktop>>
  BY <1>1 DEF IsFile, Reader, IsDesktop
<1>3. /\ UNCHANGED DesktopAsWritten /\ UNCHANGED ListAsWritten /\ UNCHANGED RequestAsWritten
      /\ UNCHANGED (kept = NotWritten)
  BY <1>1, <1>2 DEF DesktopAsWritten, ListAsWritten, RequestAsWritten
<1> QED
  BY <1>1, <1>2, <1>3, Zenon DEF AsWritten

LEMMA WritableIsFile ==
  ASSUME Inv, AsWritten, Writable
  PROVE  IsFile
<1> SUFFICES ASSUME ~IsFile PROVE FALSE
  OBVIOUS
<1>1. at = "done" /\ kept = NotWritten
  BY DEF Writable
<1>2. kept = Content(input) /\ RequestType(input) /\ ~Refused(input)
  BY <1>1 DEF AsWritten, RequestAsWritten
<1>3. Main \in DOMAIN kept
  BY <1>2, RequestContent
<1>4. DOMAIN kept = {}
  BY <1>1, EmptyTypes DEF NotWritten
<1> QED
  BY <1>3, <1>4

LEMMA AutostartAsWritten ==
  ASSUME Inv, AsWritten, WriteAutostart
  PROVE  AsWritten'
<1> DEFINE value(v) == [d \in {"default"} |-> <<v>>]
<1>1. PICK hidden \in {"true", "false"} :
        LET marked == Put(Put(groups[Main], "X-Deepin-GenerateSource", value("path")), "Hidden", value(hidden))
        IN /\ kept' = [groups EXCEPT ![Main] = marked]
           /\ BeginReading(DesktopText(kept'))
  BY DEF WriteAutostart
<1> DEFINE from == Put(groups[Main], "X-Deepin-GenerateSource", value("path"))
           marked == Put(from, "Hidden", value(hidden))
           content == [groups EXCEPT ![Main] = marked]
<1>2. kept' = content /\ text' = DesktopText(content) /\ UNCHANGED input
  BY <1>1 DEF WriteAutostart, BeginReading
<1>3. Writable /\ IsDesktop /\ at = "done" /\ err = "NoError"
  BY DEF WriteAutostart, Writable
<1>4. ValidMain /\ ContentTo(text, Reader, groups, Len(text)) /\ ContentType(groups, LocaleKeys)
  BY <1>3 DEF Inv, RInv, AtDone, TypeOK
<1>5. Readable(groups)
  BY <1>3, <1>4, ReadIsReadable DEF IsDesktop
<1>6. \A v : DOMAIN value(v) = {"default"}
  OBVIOUS
<1>7. {"path", "true", "false", "Hidden", "X-Deepin-GenerateSource"} \subseteq Strings
  BY StringsAssumption
<1>8. \A v \in Strings : TextMap(value(v)) /\ DOMAIN value(v) = {"default"}
  <2>1. \A v \in Strings : <<v>> \in Words
    BY DEF Words
  <2> QED
    BY <2>1, OneText
<1> HIDE DEF value
<1>9. EntriesType(from, LocaleKeys)
  <2>1. EntriesType(groups[Main], LocaleKeys)
    BY <1>4 DEF ContentType, ValidMain
  <2> QED
    BY <1>7, <1>8, <2>1, PutEntries
<1>10. /\ DOMAIN marked = DOMAIN groups[Main] \cup {"X-Deepin-GenerateSource", "Hidden"}
       /\ \A k \in DOMAIN groups[Main] \ {"X-Deepin-GenerateSource", "Hidden"} : marked[k] = groups[Main][k]
       /\ \A k \in {"X-Deepin-GenerateSource", "Hidden"} : DOMAIN marked[k] = {"default"}
  BY <1>6 DEF Put
<1> HIDE DEF from
<1>11. EntriesType(marked, LocaleKeys)
  BY <1>7, <1>8, <1>9, PutEntries
<1> HIDE DEF marked
<1>12. Main \in DOMAIN groups
  BY <1>4 DEF ValidMain
<1>13. ContentType(content, LocaleKeys) /\ DOMAIN content = DOMAIN groups
  BY <1>4, <1>11, <1>12, ReplaceContent
<1>14. content[Main] = marked /\ \A g \in DOMAIN groups \ {Main} : content[g] = groups[g]
  BY <1>12
<1> HIDE DEF content
<1>15. ValidContent(content)
  <2>1. "Type" \in DOMAIN groups[Main] /\ marked["Type"] = groups[Main]["Type"]
    BY <1>4, <1>10 DEF ValidMain
  <2> QED
    BY <1>4, <1>10, <1>13, <1>14, <2>1 DEF ValidMain, ValidContent
<1>16. Readable(content)
  <2>1. "X-Deepin-GenerateSource" \notin InvalidKeys /\ "Hidden" \notin InvalidKeys
    BY DEF InvalidKeys
  <2>2. "default" \notin InvalidLocales
    BY Zenon DEF InvalidLocales
  <2>3. ASSUME NEW k \in DOMAIN marked
        PROVE k \notin InvalidKeys /\ DOMAIN marked[k] # {} /\ DOMAIN marked[k] \cap InvalidLocales = {}
    <3>1. CASE k \in {"X-Deepin-GenerateSource", "Hidden"}
      BY <1>10, <2>1, <2>2, <3>1
    <3>2. CASE k \notin {"X-Deepin-GenerateSource", "Hidden"}
      <4>1. k \in DOMAIN groups[Main] /\ marked[k] = groups[Main][k]
        BY <1>10, <3>2
      <4> QED
        BY <1>5, <1>12, <4>1 DEF Readable
    <3> QED
      BY <3>1, <3>2
  <2>4. ASSUME NEW g \in DOMAIN content, NEW k \in DOMAIN content[g]
        PROVE k \notin InvalidKeys /\ DOMAIN content[g][k] # {} /\ DOMAIN content[g][k] \cap InvalidLocales = {}
    <3>1. CASE g = Main
      BY <1>14, <2>3, <3>1
    <3>2. CASE g # Main
      <4>1. g \in DOMAIN groups /\ content[g] = groups[g]
        BY <1>13, <1>14, <3>2
      <4> QED
        BY <1>5, <4>1 DEF Readable
    <3> QED
      BY <3>1, <3>2
  <2> QED
    BY <2>4 DEF Readable
<1>17. IsFile' /\ IsDesktop'
  <2>1. IsFile
    BY <1>3, WritableIsFile
  <2> QED
    BY <1>2, <1>3, <2>1 DEF IsFile, IsDesktop, Reader
<1>18. DesktopAsWritten'
  BY <1>2, <1>13, <1>15, <1>16 DEF DesktopAsWritten
<1> QED
  BY <1>17, <1>18, Zenon DEF AsWritten

LEMMA ListIsAsWritten ==
  ASSUME Inv, AsWritten, WriteList
  PROVE  AsWritten'
<1> DEFINE name == <<"Default Applications">>
           entries == IF name \in DOMAIN groups THEN groups[name] ELSE Empty
           old(type) == IF type \in DOMAIN entries THEN entries[type]["default"] ELSE <<>>
           texts(type) == [d \in {"default"} |-> Append(old(type), "app")]
           content(type) == Put(groups, name, Put(entries, type, texts(type)))
<1>1. PICK type \in {"type", "new"} : kept' = content(type)
  BY DEF WriteList
<1>2. text' = ListText(content(type)) /\ UNCHANGED input
  BY <1>1 DEF WriteList, BeginReading
<1>3. Writable /\ Reader = "list" /\ ~IsDesktop /\ at = "done" /\ err = "NoError"
  BY DEF WriteList, Writable, IsDesktop
<1>4. TypeOK /\ ContentTo(text, Reader, groups, Len(text)) /\ ContentType(groups, {})
  BY <1>3 DEF Inv, RInv, AtDone, TypeOK
<1>5. TextsFull(groups)
  BY <1>3, <1>4, ReadIsFull
<1>6. type \in Strings /\ "app" \in Strings /\ "app" \in Full
  <2>1. type \in Strings
    BY StringsAssumption
  <2>2. "app" \in Strings /\ "app" # ""
    BY StringsAssumption, Zenon
  <2> QED
    BY <2>1, <2>2, FullIs, Zenon
<1>7. EntriesType(entries, {}) /\ \A k \in DOMAIN entries : entries[k]["default"] \in Seq(Full)
  BY <1>4, <1>5, EmptyTypes DEF ContentType, TextsFull
<1> HIDE DEF entries
<1>8. old(type) \in Seq(Full)
  <2>1. <<>> \in Seq(Full)
    OBVIOUS
  <2> QED
    BY <1>7, <2>1
<1> HIDE DEF old
<1> DEFINE v == Append(old(type), "app")
<1>9. v \in Seq(Full) /\ v \in Words
  <2>1. v \in Seq(Full)
    BY <1>6, <1>8
  <2>2. Full \subseteq Strings
    BY FullIs, Zenon
  <2> HIDE DEF v
  <2> QED
    BY <2>1, <2>2 DEF Words
<1>10. texts(type)["default"] = v /\ texts(type) = [d \in {"default"} |-> v]
  OBVIOUS
<1> HIDE DEF v, texts
<1>11. TextMap(texts(type)) /\ DOMAIN texts(type) = {"default"}
  BY <1>9, <1>10, OneText
<1>12. EntriesType(Put(entries, type, texts(type)), {})
  BY <1>6, <1>7, <1>11, PutEntries
<1>13. name \in Words
  BY NameTypes
<1> HIDE DEF name
<1>14. ContentType(content(type), {})
  BY <1>4, <1>12, <1>13, PutContent
<1>15. TextsFull(content(type))
  <2>1. /\ DOMAIN content(type) = DOMAIN groups \cup {name}
        /\ content(type)[name] = Put(entries, type, texts(type))
        /\ \A g \in DOMAIN groups \ {name} : content(type)[g] = groups[g]
    BY DEF Put
  <2>2. /\ DOMAIN Put(entries, type, texts(type)) = DOMAIN entries \cup {type}
        /\ Put(entries, type, texts(type))[type] = texts(type)
        /\ \A k \in DOMAIN entries \ {type} : Put(entries, type, texts(type))[k] = entries[k]
    BY DEF Put
  <2>3. \A k \in DOMAIN Put(entries, type, texts(type)) : Put(entries, type, texts(type))[k]["default"] \in Seq(Full)
    BY <1>7, <1>9, <1>10, <2>2
  <2> HIDE DEF content
  <2>4. ASSUME NEW g \in DOMAIN content(type), NEW k \in DOMAIN content(type)[g]
        PROVE  content(type)[g][k]["default"] \in Seq(Full)
    <3>1. CASE g = name
      BY <2>1, <2>3, <3>1
    <3>2. CASE g # name
      BY <1>5, <2>1, <3>2 DEF TextsFull
    <3> QED
      BY <3>1, <3>2
  <2> QED
    BY <2>4 DEF TextsFull
<1> HIDE DEF content
<1>16. IsFile' /\ ~IsDesktop' /\ (Reader = "list")'
  <2>1. IsFile
    BY <1>3, WritableIsFile
  <2> QED
    BY <1>2, <1>3, <2>1 DEF IsFile, IsDesktop, Reader
<1>17. ListAsWritten'
  BY <1>1, <1>2, <1>14, <1>15, <1>16 DEF ListAsWritten
<1> QED
  BY <1>16, <1>17, Zenon DEF AsWritten

LEMMA RequestIsAsWritten ==
  ASSUME Inv, AsWritten, Generate
  PROVE  AsWritten'
<1>1. UNCHANGED input /\ at = "generate"
  BY DEF Generate
<1>2. RequestType(input)
  BY <1>1, RequestedAssumption DEF Inv, RInv, AtGenerate
<1>3. ~IsFile'
  BY <1>1, <1>2 DEF IsFile, RequestType
<1>4. CASE Refused(input)
  BY <1>3, <1>4 DEF Generate, AsWritten
<1>5. CASE ~Refused(input)
  <2>1. kept' = Content(input) /\ text' = DesktopText(kept')
    BY <1>5 DEF Generate, BeginReading
  <2>2. RequestAsWritten'
    BY <1>1, <1>2, <1>5, <2>1 DEF RequestAsWritten
  <2> QED
    BY <1>3, <2>2, Zenon DEF AsWritten
<1> QED
  BY <1>4, <1>5

LEMMA InitAsWritten == Init => AsWritten
<1> SUFFICES ASSUME Init PROVE AsWritten
  OBVIOUS
<1>1. kept = NotWritten /\ at = (IF IsFile THEN "open" ELSE "generate")
  BY DEF Init
<1> QED
  BY <1>1 DEF AsWritten

LEMMA NextAsWritten == Inv /\ AsWritten /\ [Next]_vars => AsWritten'
<1> SUFFICES ASSUME Inv, AsWritten, [Next]_vars PROVE AsWritten'
  OBVIOUS
<1>1. CASE Read
  BY <1>1, ReadAsWritten
<1>2. CASE WriteAutostart
  BY <1>2, AutostartAsWritten
<1>3. CASE WriteList
  BY <1>3, ListIsAsWritten
<1>4. CASE Generate
  BY <1>4, RequestIsAsWritten
<1>5. CASE UNCHANGED vars
  <2>1. UNCHANGED <<input, text, kept, at>>
    BY <1>5 DEF vars
  <2>2. UNCHANGED <<IsFile, Reader, IsDesktop>>
    BY <2>1 DEF IsFile, Reader, IsDesktop
  <2>3. /\ UNCHANGED DesktopAsWritten /\ UNCHANGED ListAsWritten /\ UNCHANGED RequestAsWritten
        /\ UNCHANGED (kept = NotWritten)
    BY <2>1, <2>2 DEF DesktopAsWritten, ListAsWritten, RequestAsWritten
  <2> QED
    BY <2>1, <2>2, <2>3, Zenon DEF AsWritten
<1> QED
  BY <1>1, <1>2, <1>3, <1>4, <1>5 DEF Next

LEMMA WrittenInvariance == Spec => [](Inv /\ AsWritten)
<1>1. Init => Inv /\ AsWritten
  BY InitInv, InitAsWritten
<1>2. Inv /\ AsWritten /\ [Next]_vars => (Inv /\ AsWritten)'
  BY NextInv, NextAsWritten
<1> QED
  BY <1>1, <1>2, PTL DEF Spec

(* A desktop file that was written is read as the groups that were laid    *)
(* out in it.                                                              *)
LEMMA DesktopReads ==
  ASSUME Inv, at = "done", IsDesktop, NEW c, text = DesktopText(c), ContentType(c, LocaleKeys),
         ValidContent(c), Readable(c), Once(ActionsOf(c))
  PROVE  err = "NoError"
         /\ groups = [g \in {g \in DOMAIN c : IsAction(g) => g[2] \in Range(ActionsOf(c))} |-> c[g]]
<1> DEFINE N == {g \in DOMAIN c : IsAction(g) => g[2] \in Range(ActionsOf(c))}
           e == [g \in N |-> c[g]]
<1>1. Main \in DOMAIN c
  BY DEF ValidContent
<1>2. Laid(text, N, c) /\ Len(text) >= 1 /\ text[1] = Header(Main)
  BY <1>1, DesktopLaid
<1>3. N \subseteq DOMAIN c /\ Main \in N
  BY <1>1, ActionNames
<1>4. DOMAIN e = N /\ e = [g \in DOMAIN e |-> e[g]] /\ \A g \in N : e[g] = c[g]
  <2> HIDE DEF N
  <2> QED
    OBVIOUS
<1> HIDE DEF N
<1>5. AcceptedTo(text, "desktop", Len(text)) /\ ContentTo(text, "desktop", e, Len(text))
  BY <1>2, <1>3, LaidDesktop
<1> HIDE DEF e
<1>6. IsFiniteSet(N)
  BY <1>3, FS_Subset DEF ContentType
<1>7. ContentType(e, LocaleKeys)
  BY <1>3, <1>4, <1>6 DEF ContentType
<1>8. ValidContent(e)
  BY <1>3, <1>4 DEF ValidContent
<1>9. err = "NoError" /\ groups = e
  BY <1>2, <1>5, <1>7, <1>8, DesktopDone
<1> QED
  BY <1>9 DEF e, N

(* The actions that are generated are those that are read of the list. *)
LEMMA RequestActions ==
  ASSUME NEW r, RequestType(r), ~Refused(r), r.listed \/ Len(r.actions) <= 1
  PROVE  \A a : a \in Range(ActionsOf(Content(r))) <=> "Actions" \in r.keys /\ a \in Actions(r)
<1> DEFINE c == Content(r)
<1>1. c[Main] = MainEntries(r)
  BY DEF Content
<1>2. /\ "Actions" \in DOMAIN MainEntries(r) <=> "Actions" \in r.keys
      /\ "Actions" \in r.keys => MainEntries(r)["Actions"]["default"] = r.actions
  <2>1. "Actions" \in DOMAIN MainEntries(r) <=> "Actions" \in r.keys
    BY DEF MainEntries
  <2>2. ASSUME "Actions" \in r.keys PROVE MainEntries(r)["Actions"] = [d \in {"default"} |-> r.actions]
    BY <2>2 DEF MainEntries
  <2> QED
    BY <2>1, <2>2
<1> HIDE DEF c
<1>3. CASE "Actions" \notin r.keys
  <2>1. ActionsOf(c) = <<>>
    BY <1>1, <1>2, <1>3 DEF ActionsOf
  <2>2. Range(<<>>) = {}
    BY DEF Range
  <2> QED
    BY <1>3, <2>1, <2>2 DEF c
<1>4. CASE "Actions" \in r.keys
  <2>1. r.actions \in Words /\ r.actions \in Seq(Strings)
    BY DEF RequestType, Words
  <2>2. ActionsOf(c) = Kept(r.actions, Full)
    <3>1. ActionsOf(c) = Applications(r.actions)
      BY <1>1, <1>2, <1>4, Zenon DEF ActionsOf, Applications
    <3> QED
      BY <2>1, <3>1, ApplicationsKept, Zenon
  <2>3. Kept(r.actions, Full) \in Seq(Full) /\ Members(Kept(r.actions, Full), {x \in Full : \E i \in 1..Len(r.actions) : r.actions[i] = x})
    BY <2>1, KeepMembers
  <2> DEFINE k == Kept(r.actions, Full)
  <2> HIDE DEF k
  <2>4. \A a : a \in Range(k) <=> a \in Full /\ \E i \in 1..Len(r.actions) : r.actions[i] = a
    <3>1. \A a : a \in Range(k) <=> \E i \in 1..Len(k) : k[i] = a
      BY <2>3 DEF Range, k
    <3>2. \A a : a \in {x \in Full : \E i \in 1..Len(r.actions) : r.actions[i] = x} <=> \E i \in 1..Len(k) : k[i] = a
      BY <2>3 DEF Members, k
    <3> QED
      BY <3>1, <3>2
  <2>5. \A a : a \in Range(r.actions) <=> \E i \in 1..Len(r.actions) : r.actions[i] = a
    BY <2>1 DEF Range
  <2>6. Range(r.actions) \subseteq Strings
    BY <2>1, <2>5
  <2>7. \A a : a \in Range(k) <=> a \in Range(r.actions) /\ a # ""
    <3>1. \A a : a \in Range(k) <=> a \in Full /\ a \in Range(r.actions)
      BY <2>4, <2>5, Zenon
    <3> QED
      BY <3>1, <2>6, FullIs, Zenon
  <2>8. \A a : a \in Range(ActionList(r)) /\ a # "" <=> a \in Range(r.actions) /\ a # ""
    <3>1. CASE r.listed
      BY <3>1, Zenon DEF ActionList
    <3>2. CASE ~r.listed /\ r.actions # <<>>
      <4>1. Len(r.actions) = 1
        <5>1. Len(r.actions) <= 1
          BY <3>2
        <5>2. \A s \in Seq(Strings) : Len(s) \in Nat /\ (Len(s) = 0 => s = <<>>)
          OBVIOUS
        <5>3. Len(r.actions) \in Nat /\ Len(r.actions) # 0
          BY <2>1, <3>2, <5>2, Zenon
        <5>4. \A n \in Nat : n # 0 /\ n <= 1 => n = 1
          OBVIOUS
        <5> QED
          BY <5>1, <5>3, <5>4, Zenon
      <4>2. ActionList(r) = r.actions
        BY <3>2, <4>1, Zenon DEF ActionList, AsOneAction
      <4> QED
        BY <4>2, Zenon
    <3>3. CASE ~r.listed /\ r.actions = <<>>
      <4>1. ActionList(r) = <<"">>
        <5>1. Len(<<>>) # 1
          OBVIOUS
        <5> QED
          BY <3>3, <5>1, Zenon DEF ActionList, AsOneAction
      <4>2. \A x : \A a : a \in Range(<<x>>) <=> a = x
        BY DEF Range
      <4>3. Range(<<>>) = {}
        BY DEF Range
      <4> QED
        BY <3>3, <4>1, <4>2, <4>3, Zenon
    <3> QED
      BY <3>1, <3>2, <3>3, Zenon
  <2>9. \A a : a \in Actions(r) <=> a \in Range(ActionList(r)) /\ a # ""
    BY Zenon DEF Actions
  <2>10. Range(ActionsOf(c)) = Range(k)
    BY <2>2 DEF k
  <2> HIDE DEF c
  <2> QED
    BY <1>4, <2>7, <2>8, <2>9, <2>10, Zenon DEF c
<1> QED
  BY <1>3, <1>4

LEMMA RequestValid ==
  ASSUME NEW r, RequestType(r), ~Refused(r)
  PROVE  ValidContent(Content(r))
<1> DEFINE c == Content(r)
<1>1. Main \in DOMAIN c /\ c[Main] = MainEntries(r)
  BY DEF Content
<1>2. /\ {"Type", "Name"} \subseteq r.keys /\ r.value["Type"]["default"] # <<>>
      /\ r.value["Type"]["default"] = <<"Link">> => "URL" \in r.keys
  BY DEF Refused, CheckValidation
<1>3. {"Type", "Name"} \subseteq DOMAIN MainEntries(r) /\ ("URL" \in r.keys => "URL" \in DOMAIN MainEntries(r))
  BY <1>2 DEF MainEntries
<1>4. MainEntries(r)["Type"] = r.value["Type"]
  BY <1>2 DEF MainEntries
<1> HIDE DEF c
<1>5. ValidContent(c)
  BY <1>1, <1>2, <1>3, <1>4 DEF ValidContent
<1> QED
  BY <1>5 DEF c

LEMMA DoneWritten == Inv /\ AsWritten => WrittenReads
<1> SUFFICES ASSUME Inv, AsWritten, at = "done", kept # NotWritten
             PROVE  AutostartKeeps /\ ListKeeps /\ GeneratedReads
  BY DEF WrittenReads
<1>1. ~IsFile => IsDesktop
  BY Readers DEF Inv, IsDesktop
<1>2. AutostartKeeps
  <2> SUFFICES ASSUME IsDesktop, IsFile, Once(ActionsOf(kept))
               PROVE  /\ err = "NoError"
                      /\ groups = [g \in {g \in DOMAIN kept : IsAction(g) => g[2] \in Range(ActionsOf(kept))} |-> kept[g]]
    BY DEF AutostartKeeps
  <2>1. DesktopAsWritten
    BY DEF AsWritten
  <2> QED
    BY <2>1, DesktopReads DEF DesktopAsWritten
<1>3. ListKeeps
  <2> SUFFICES ASSUME ~IsDesktop, \A g \in DOMAIN kept : \A k \in DOMAIN kept[g] : kept[g][k]["default"] # <<>>
               PROVE  err = "NoError" /\ groups = kept
    BY DEF ListKeeps
  <2>1. Reader = "list" /\ text = ListText(kept) /\ ContentType(kept, {}) /\ TextsFull(kept)
    BY <1>1 DEF AsWritten, ListAsWritten
  <2>2. AcceptedTo(text, "list", Len(text)) /\ ContentTo(text, "list", kept, Len(text))
    BY <2>1, ListReads DEF TextsFull
  <2> QED
    BY <2>1, <2>2, ListDone
<1>4. GeneratedReads
  <2> SUFFICES ASSUME ~IsFile, Once(ActionsOf(kept)), Readable(kept), input.listed \/ Len(input.actions) <= 1
               PROVE  /\ err = "NoError" /\ groups = kept
                      /\ \A a \in Range(ActionsOf(groups)) :
                           ActionGroup(a) \in DOMAIN groups /\ "Name" \in DOMAIN groups[ActionGroup(a)]
    BY DEF GeneratedReads
  <2>1. text = DesktopText(kept) /\ kept = Content(input) /\ RequestType(input) /\ ~Refused(input)
    BY DEF AsWritten, RequestAsWritten
  <2> DEFINE N == {g \in DOMAIN kept : IsAction(g) => g[2] \in Range(ActionsOf(kept))}
  <2>2. ContentType(kept, LocaleKeys) /\ ValidContent(kept)
    BY <2>1, RequestContent, RequestValid
  <2>3. err = "NoError" /\ groups = [g \in N |-> kept[g]]
    <3>1. IsDesktop /\ text = DesktopText(kept)
      BY <1>1, <2>1
    <3>2. /\ err = "NoError"
          /\ groups = [g \in {g \in DOMAIN kept : IsAction(g) => g[2] \in Range(ActionsOf(kept))} |-> kept[g]]
      BY <2>2, <3>1, DesktopReads
    <3> QED
      BY <3>2, Zenon
  <2>4. \A a : a \in Range(ActionsOf(kept)) <=> "Actions" \in input.keys /\ a \in Actions(input)
    BY <2>1, RequestActions
  <2>5. DOMAIN kept = (IF "Actions" \in input.keys THEN {ActionGroup(a) : a \in Actions(input)} ELSE {}) \cup {Main}
    BY <2>1 DEF Content
  <2>6. N = DOMAIN kept
    BY <2>4, <2>5, ActionNames
  <2>7. groups = kept
    <3>1. kept = [g \in DOMAIN kept |-> kept[g]]
      BY <2>2 DEF ContentType
    <3> HIDE DEF N
    <3> QED
      BY <2>3, <2>6, <3>1, Zenon
  <2>8. ASSUME NEW a, a \in Range(ActionsOf(kept)) PROVE ActionGroup(a) \in DOMAIN kept /\ "Name" \in DOMAIN kept[ActionGroup(a)]
    <3>1. ActionGroup(a) \in DOMAIN kept
      BY <2>4, <2>5, <2>8
    <3>2. ActionGroup(a) # Main /\ ActionGroup(a)[2] = a
      BY ActionNames
    <3>3. kept[ActionGroup(a)] = ActionEntries(input, a)
      BY <2>1, <3>1, <3>2 DEF Content
    <3>4. "Name" \in DOMAIN ActionEntries(input, a)
      BY DEF ActionEntries
    <3> QED
      BY <3>1, <3>3, <3>4
  <2> QED
    BY <2>3, <2>7, <2>8
<1> QED
  BY <1>2, <1>3, <1>4

(* What AM has written, it reads again: an autostart file made of an entry *)
(* with the groups that toString keeps and the marks that were added, a    *)
(* changed list with all of its applications unless a type had none, and   *)
(* all of what was generated for a user, whatever the groups, keys and     *)
(* locales (saveAutostartEntry, insertToSection, generate, both toString   *)
(* and both parsers).                                                      *)
THEOREM WrittenIsRead == Spec => []WrittenReads
BY WrittenInvariance, DoneWritten, PTL

=============================================================================
