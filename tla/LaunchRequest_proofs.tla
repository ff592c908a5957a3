------------------------- MODULE LaunchRequest_proofs -------------------------
(***************************************************************************)
(* Proofs about LaunchRequest: the types of the job, of what its items     *)
(* share and of the command lines, that at most one late item of a launch  *)
(* asks for a unit, and that the unit of the first item runs the command   *)
(* of its request with the settings of its request, for any requests, any  *)
(* number of resources and of pool threads.                                *)
(*                                                                         *)
(* The order is that of the program: types; that at most one late item     *)
(* finds the options; how a line that was written with quotes is read      *)
(* again (LineIs); processExec, character by character, against the places *)
(* of the field codes (LineWords); the hooks (HooksAre); generateCommand   *)
(* (CommandsAre); the helper's cmdParse (ParsedIs) and what systemd makes  *)
(* of its encoding (DecodedBack); the item that goes through the job       *)
(* (UnitInv) and the theorem UnitsIntact.                                  *)
(***************************************************************************)
EXTENDS LaunchRequest, FiniteSetTheorems, TLAPS

-----------------------------------------------------------------------------
(***************************************************************************)
(* Numbers, recursive functions and sequences.                             *)
(***************************************************************************)
LEMMA LeastNumber ==
  ASSUME NEW T, T \subseteq Nat, T # {}
  PROVE  \E x \in T : \A y \in T : x <= y
<1> DEFINE R == {p \in Nat \X Nat : p[1] < p[2]}
<1>1. OpToRel(<, Nat) = R
  BY Zenon DEF OpToRel
<1>2. IsWellFoundedOn(OpToRel(<, Nat), Nat)
  BY NatLessThanWellFounded, Zenon
<1>3. IsWellFoundedOn(R, Nat)
  <2> HIDE DEF R
  <2> QED BY <1>1, <1>2, Zenon
<1>4. \A x, y \in Nat : y < x => <<y, x>> \in R
  OBVIOUS
<1> HIDE DEF R
<1>5. PICK x \in T : \A y \in T : ~(<<y, x>> \in R)
  BY <1>3, WFMin
<1>6. ASSUME NEW y \in T PROVE x <= y
  <2>1. x \in Nat /\ y \in Nat
    OBVIOUS
  <2>2. ~(y < x)
    BY <2>1, <1>4, <1>5, Zenon
  <2> QED BY <2>1, <2>2
<1> QED BY <1>6

LEMMA GreatestNumber ==
  ASSUME NEW n \in Nat, NEW T, T \subseteq 0..n, T # {}
  PROVE  \E x \in T : \A y \in T : y <= x
<1> DEFINE U == {n - x : x \in T}
<1>1. U \subseteq Nat /\ U # {}
  <2>1. \A x \in T : x \in 0..n /\ n - x \in Nat
    OBVIOUS
  <2>2. U \subseteq Nat
    BY <2>1
  <2>3. PICK x \in T : TRUE
    OBVIOUS
  <2>4. n - x \in U
    BY <2>3
  <2> QED BY <2>2, <2>4, Zenon
<1>2. PICK u \in U : \A v \in U : u <= v
  <2> HIDE DEF U
  <2> QED BY <1>1, LeastNumber
<1>3. PICK x \in T : u = n - x
  OBVIOUS
<1>4. ASSUME NEW y \in T PROVE y <= x
  <2>1. n - y \in U
    OBVIOUS
  <2>2. n - x <= n - y
    BY <1>2, <1>3, <2>1
  <2> QED BY <2>2
<1> QED BY <1>4

(* What holds at first and is kept by each step holds all along.           *)
LEMMA KeptAlong ==
  ASSUME NEW n \in Nat, NEW T, NEW f, f[0] \in T, \A i \in 1..n : f[i-1] \in T => f[i] \in T
  PROVE  \A i \in 0..n : f[i] \in T
<1> DEFINE B == {i \in 0..n : f[i] \notin T}
<1>1. SUFFICES ASSUME B # {} PROVE FALSE
  OBVIOUS
<1>2. PICK m \in B : \A k \in B : m <= k
  <2>1. B \subseteq Nat
    OBVIOUS
  <2> HIDE DEF B
  <2> QED BY <1>1, <2>1, LeastNumber
<1>3. m \in 0..n /\ f[m] \notin T /\ m # 0
  OBVIOUS
<1>4. m - 1 \in 0..n /\ m \in 1..n /\ m - 1 \notin B
  BY <1>2, <1>3
<1>5. f[m-1] \in T
  BY <1>4
<1> QED BY <1>3, <1>4, <1>5

(* A function can be defined by its first value b and by the step to the   *)
(* next: g[i][x] is the value at i when x is the one before.               *)
StepsOf(n, T, b, g, f) ==
  /\ f = [i \in 0..n |-> f[i]] /\ f[0] = b
  /\ \A i \in 1..n : f[i-1] \in T /\ f[i] = g[i][f[i-1]]
Keeps(n, T, g) == \A i \in 1..n : \A x \in T : g[i][x] \in T

LEMMA Recursion ==
  ASSUME NEW n \in Nat, NEW T, NEW b \in T, NEW g, Keeps(n, T, g)
  PROVE  \E f : StepsOf(n, T, b, g, f)
<1> USE DEF StepsOf, Keeps
<1> DEFINE Steps(m, f) == f[0] = b /\ \A i \in 1..m : f[i] = g[i][f[i-1]]
           B == {m \in 0..n : ~ \E f \in [0..m -> T] : Steps(m, f)}
<1>1. CASE B = {}
  BY <1>1
<1>0. SUFFICES ASSUME B # {} PROVE FALSE
  BY <1>1
<1>2. PICK m \in B : \A k \in B : m <= k
  <2>1. B \subseteq Nat
    OBVIOUS
  <2> HIDE DEF B
  <2> QED BY <1>0, <2>1, LeastNumber
<1>3. m \in 0..n /\ ~ \E f \in [0..m -> T] : Steps(m, f)
  OBVIOUS
<1>4. m # 0
  <2>1. SUFFICES ASSUME m = 0 PROVE FALSE
    OBVIOUS
  <2> DEFINE f == [i \in 0..0 |-> b]
  <2>2. f \in [0..0 -> T] /\ Steps(0, f)
    OBVIOUS
  <2> QED BY <1>3, <2>1, <2>2
<1>5. m - 1 \in 0..n /\ m - 1 \in Nat /\ m \in 1..n
  BY <1>3, <1>4
<1>6. PICK f \in [0..(m-1) -> T] : Steps(m - 1, f)
  <2>1. m - 1 \notin B
    <3> HIDE DEF B
    <3> QED BY <1>2, <1>5
  <2> QED BY <1>5, <2>1
<1> DEFINE h == [i \in 0..m |-> IF i = m THEN g[m][f[m-1]] ELSE f[i]]
<1>7. g[m][f[m-1]] \in T
  BY <1>5, <1>6
<1>8. \A i \in 0..m : h[i] = IF i = m THEN g[m][f[m-1]] ELSE f[i]
  OBVIOUS
<1>9. h \in [0..m -> T]
  BY <1>3, <1>6, <1>7
<1> HIDE DEF h
<1>10. h[0] = b
  BY <1>3, <1>4, <1>6, <1>8
<1>11. ASSUME NEW i \in 1..m PROVE h[i] = g[i][h[i-1]]
  BY <1>3, <1>8, <1>6
<1> QED BY <1>3, <1>9, <1>10, <1>11

(* The recursive function of FlattenSeq exists ...                         *)
FlattensTo(ss, m, f) == f = [i \in 1..m |-> IF i = 1 THEN ss[i] ELSE f[i-1] \o ss[i]]

LEMMA FlattenNext ==
  ASSUME NEW ss, NEW m \in Nat, m > 1, NEW f, FlattensTo(ss, m - 1, f)
  PROVE  \E g : FlattensTo(ss, m, g)
<1> DEFINE g == [i \in 1..m |-> IF i = m THEN f[m-1] \o ss[m] ELSE f[i]]
<1>1. \A i \in 1..(m-1) : f[i] = IF i = 1 THEN ss[i] ELSE f[i-1] \o ss[i]
  BY DEF FlattensTo
<1>2. /\ g = [i \in 1..m |-> g[i]]
      /\ g[m] = f[m-1] \o ss[m]
      /\ \A i \in 1..(m-1) : g[i] = f[i]
  <2>1. g = [i \in 1..m |-> g[i]]
    BY Zenon
  <2>2. g[m] = f[m-1] \o ss[m]
    <3>1. m \in 1..m
      OBVIOUS
    <3> QED BY <3>1, Zenon
  <2>3. ASSUME NEW i \in 1..(m-1) PROVE g[i] = f[i]
    OBVIOUS
  <2> QED BY <2>1, <2>2, <2>3, Zenon
<1> HIDE DEF g
<1>3. ASSUME NEW i \in 1..m PROVE g[i] = IF i = 1 THEN ss[i] ELSE g[i-1] \o ss[i]
  <2>1. CASE i = m
    <3>1. m - 1 \in 1..(m-1) /\ m # 1
      OBVIOUS
    <3>2. g[m-1] = f[m-1]
      BY <1>2, <3>1, Zenon
    <3> QED BY <1>2, <2>1, <3>1, <3>2, Zenon
  <2>2. CASE i # m
    <3>1. i \in 1..(m-1) /\ (i # 1 => i - 1 \in 1..(m-1))
      BY <2>2
    <3> QED BY <3>1, <1>1, <1>2
  <2> QED BY <2>1, <2>2
<1>4. g = [i \in 1..m |-> IF i = 1 THEN ss[i] ELSE g[i-1] \o ss[i]]
  BY <1>2, <1>3
<1> QED BY <1>4 DEF FlattensTo

LEMMA FlattenExists ==
  ASSUME NEW ss, Len(ss) \in Nat \ {0}
  PROVE  \E f : FlattensTo(ss, Len(ss), f)
<1> DEFINE Flattens(m) == \E f : FlattensTo(ss, m, f)
           T == {m \in 1..Len(ss) : ~Flattens(m)}
<1>1. Flattens(1)
  <2> DEFINE f == [i \in 1..1 |-> ss[1]]
  <2>1. FlattensTo(ss, 1, f)
    BY DEF FlattensTo
  <2> QED BY <2>1
<1>2. \A m \in Nat : m > 1 /\ Flattens(m - 1) => Flattens(m)
  BY FlattenNext
<1> HIDE DEF Flattens
<1>3. ASSUME T # {} PROVE FALSE
  <2>1. T \subseteq Nat
    OBVIOUS
  <2>2. PICK m \in T : \A k \in T : m <= k
    <3> HIDE DEF T
    <3> QED BY <1>3, <2>1, LeastNumber
  <2>3. m \in 1..Len(ss) /\ ~Flattens(m) /\ m # 1
    BY <1>1
  <2>4. m - 1 \in 1..Len(ss) /\ m - 1 \notin T
    BY <2>2, <2>3
  <2> QED BY <2>3, <2>4, <1>2
<1>4. Flattens(Len(ss))
  BY <1>3
<1> QED BY <1>4 DEF Flattens

(* ... so FlattenSeq of sequences over a set is a sequence over the set.   *)
LEMMA FlattenType ==
  ASSUME NEW S, NEW ss \in Seq(Seq(S))
  PROVE  FlattenSeq(ss) \in Seq(S)
<1>1. CASE Len(ss) = 0
  BY <1>1 DEF FlattenSeq
<1>2. CASE Len(ss) # 0
  <2> DEFINE f == CHOOSE f : FlattensTo(ss, Len(ss), f)
             T == {i \in 1..Len(ss) : f[i] \notin Seq(S)}
  <2>1. Len(ss) \in Nat \ {0}
    BY <1>2
  <2>2. FlattensTo(ss, Len(ss), f)
    BY <2>1, FlattenExists
  <2>3. FlattenSeq(ss) = f[Len(ss)]
    BY <1>2 DEF FlattenSeq, FlattensTo
  <2> HIDE DEF f
  <2>4. \A i \in 1..Len(ss) : f[i] = IF i = 1 THEN ss[i] ELSE f[i-1] \o ss[i]
    BY <2>2 DEF FlattensTo
  <2>5. T = {}
    <3>1. SUFFICES ASSUME T # {} PROVE FALSE
      OBVIOUS
    <3>2. PICK m \in T : \A k \in T : m <= k
      <4>1. T \subseteq Nat
        OBVIOUS
      <4> HIDE DEF T
      <4> QED BY <3>1, <4>1, LeastNumber
    <3>3. m \in 1..Len(ss) /\ ss[m] \in Seq(S) /\ f[m] \notin Seq(S)
      OBVIOUS
    <3>4. m # 1 /\ f[m] = f[m-1] \o ss[m]
      BY <3>3, <2>4
    <3>5. m - 1 \in 1..Len(ss) /\ m - 1 \notin T
      BY <3>2, <3>3, <3>4
    <3>6. f[m-1] \in Seq(S)
      BY <3>5
    <3> QED BY <3>3, <3>4, <3>6
  <2> QED BY <2>1, <2>3, <2>5
<1> QED BY <1>1, <1>2

(* A function on 1..n is a sequence. *)
LEMMA FlattenParts ==
  ASSUME NEW S, NEW n \in Nat, NEW f \in [1..n -> Seq(S)]
  PROVE  FlattenSeq(f) \in Seq(S)
<1>1. f \in Seq(Seq(S))
  OBVIOUS
<1> QED BY <1>1, FlattenType

(* ... and it has what one of its parts has. *)
LEMMA FlattenNonempty ==
  ASSUME NEW S, NEW n \in Nat, NEW f \in [1..n -> Seq(S)], NEW k \in 1..n, f[k] # <<>>
  PROVE  FlattenSeq(f) # <<>>
<1>1. f \in Seq(Seq(S)) /\ Len(f) = n /\ n # 0
  OBVIOUS
<1> DEFINE g == CHOOSE g : FlattensTo(f, n, g)
<1>2. FlattensTo(f, n, g) /\ FlattenSeq(f) = g[n]
  BY <1>1, FlattenExists DEF FlattenSeq, FlattensTo
<1> HIDE DEF g
<1>3. \A i \in 1..n : g[i] = IF i = 1 THEN f[i] ELSE g[i-1] \o f[i]
  BY <1>2 DEF FlattensTo
<1> DEFINE T == {i \in 1..n : ~(g[i] \in Seq(S) /\ (k <= i => g[i] # <<>>))}
<1>4. T = {}
  <2>1. SUFFICES ASSUME T # {} PROVE FALSE
    OBVIOUS
  <2>2. PICK m \in T : \A i \in T : m <= i
    <3>1. T \subseteq Nat
      OBVIOUS
    <3> HIDE DEF T
    <3> QED BY <2>1, <3>1, LeastNumber
  <2>3. m \in 1..n /\ f[m] \in Seq(S) /\ ~(g[m] \in Seq(S) /\ (k <= m => g[m] # <<>>))
    OBVIOUS
  <2>4. CASE m = 1
    BY <1>3, <2>3, <2>4
  <2>5. CASE m # 1
    <3>1. g[m] = g[m-1] \o f[m] /\ m - 1 \in 1..n /\ m - 1 \notin T
      <4> HIDE DEF T
      <4>1. g[m] = g[m-1] \o f[m] /\ m - 1 \in 1..n
        <5>1. m \in Nat /\ m - 1 \in 1..n
          BY <1>1, <2>3, <2>5
        <5> QED BY <1>3, <2>3, <2>5, <5>1
      <4> QED BY <2>2, <2>3, <4>1
    <3>2. g[m-1] \in Seq(S) /\ (k <= m - 1 => g[m-1] # <<>>)
      BY <3>1
    <3>3. k <= m => k <= m - 1 \/ k = m
      BY <2>3
    <3>4. g[m] \in Seq(S) /\ Len(g[m]) = Len(g[m-1]) + Len(f[m])
      BY <2>3, <3>1, <3>2
    <3>5. ASSUME k <= m PROVE Len(g[m]) # 0
      BY <2>3, <3>2, <3>4, <3>3, <3>5
    <3> QED BY <2>3, <3>4, <3>5
  <2> QED BY <2>4, <2>5
<1>5. n \in 1..n /\ n \notin T /\ k <= n
  BY <1>1, <1>4
<1> QED BY <1>2, <1>5

LEMMA PartOfSequence ==
  ASSUME NEW S, NEW s \in Seq(S), NEW m \in Nat \ {0}, NEW n \in Int, n <= Len(s)
  PROVE  SubSeq(s, m, n) \in Seq(S)
  BY SMT

(* Texts are sequences of sequences. *)
LEMMA TextOps ==
  /\ <<>> \in Text
  /\ \A a \in Atoms : <<a>> \in Text
  /\ \A a, b \in Atoms : <<a, b>> \in Text
  /\ \A s, t \in Text : s \o t \in Text
  /\ \A s \in Text, a \in Atoms : Append(s, a) \in Text
  BY DEF Text

LEMMA TextsOps ==
  /\ <<>> \in Texts
  /\ \A a \in Text : <<a>> \in Texts
  /\ \A a, b \in Text : <<a, b>> \in Texts
  /\ \A s, t \in Texts : s \o t \in Texts
  /\ \A s \in Texts, a \in Text : Append(s, a) \in Texts
  BY DEF Texts

LEMMA TextParts ==
  /\ \A t \in Text : Len(t) \in Nat /\ DOMAIN t = 1..Len(t) /\ \A i \in 1..Len(t) : t[i] \in Atoms
  /\ \A t \in Texts : Len(t) \in Nat /\ DOMAIN t = 1..Len(t) /\ \A i \in 1..Len(t) : t[i] \in Text
  BY DEF Text, Texts

-----------------------------------------------------------------------------
(***************************************************************************)
(* The text of Exec.                                                       *)
(***************************************************************************)
LEMMA Literals ==
  /\ {" ", "newline", "tab", "return", ";", "\\", "\"", "$", "backtick", "apostrophe", "%", "-", "=", "!AM_FULL!"} \subseteq Atoms
  /\ {"icon", "e", "keep-open", "deepin-terminal", "DSG_APP_ID", "app", "app-DDE-app@instance.service"} \subseteq Atoms
  /\ {"unitName", "SyslogIdentifier", "SourcePath", "ExecSearchPath", "Environment", "UnsetEnvironment"} \subseteq Atoms
  /\ {"WorkingDirectory", "longer", "pkexec", "user", "name", "env", "DISPLAY", ":0", "XAUTHORITY", "file"} \subseteq Atoms
  BY AtomsAssumption

(* The recursive function of unescapeValue.                                *)
UnescapesTo(text, f) ==
  f = [i \in 0..Len(text) |->
         IF i = 0 THEN [text |-> <<>>, escape |-> FALSE] ELSE UnescapeStep(f[i - 1], text[i])]
Unescaped == [text : Text, escape : BOOLEAN]

LEMMA UnescapeStepType ==
  ASSUME NEW s \in Unescaped, NEW c \in Atoms
  PROVE  UnescapeStep(s, c) \in Unescaped
<1>1. s.text \in Text /\ s.escape \in BOOLEAN
  BY DEF Unescaped
<1>2. CASE s.escape
  <2>1. CASE c \in DOMAIN Escapes
    <3>1. Escapes[c] \in Atoms
      BY <2>1, Literals DEF Escapes
    <3>2. s.text \o <<Escapes[c]>> \in Text
      BY <1>1, <3>1, TextOps
    <3> QED BY <1>2, <2>1, <3>2 DEF UnescapeStep, Unescaped
  <2>2. CASE c \notin DOMAIN Escapes
    <3>1. s.text \o <<"\\", c>> \in Text
      BY <1>1, TextOps, Literals
    <3> QED BY <1>2, <2>2, <3>1 DEF UnescapeStep, Unescaped
  <2> QED BY <2>1, <2>2
<1>3. CASE ~s.escape
  <2>1. Append(s.text, c) \in Text
    BY <1>1, TextOps
  <2> QED BY <1>3, <2>1 DEF UnescapeStep, Unescaped
<1> QED BY <1>2, <1>3

LEMMA UnescapeType ==
  ASSUME NEW text \in Text
  PROVE  UnescapeValue(text) \in Text
<1> DEFINE n == Len(text)
           b == [text |-> <<>>, escape |-> FALSE]
           g == [i \in 1..n |-> [s \in Unescaped |-> UnescapeStep(s, text[i])]]
           read == CHOOSE f : UnescapesTo(text, f)
<1>1. n \in Nat /\ \A i \in 1..n : text[i] \in Atoms
  BY TextParts
<1>2. b \in Unescaped
  BY TextOps DEF Unescaped
<1>3. Keeps(n, Unescaped, g)
  BY <1>1, UnescapeStepType DEF Keeps
<1>4. \A i \in 1..n : \A s \in Unescaped : g[i][s] = UnescapeStep(s, text[i])
  OBVIOUS
<1>5. UnescapeValue(text) = IF read[n].escape THEN Append(read[n].text, "\\") ELSE read[n].text
  BY DEF UnescapeValue, UnescapesTo
<1> HIDE DEF b, g
<1>6. PICK f : StepsOf(n, Unescaped, b, g, f)
  BY <1>1, <1>2, <1>3, Recursion
<1>7. UnescapesTo(text, f)
  <2>1. ASSUME NEW i \in 0..n PROVE f[i] = IF i = 0 THEN b ELSE UnescapeStep(f[i-1], text[i])
    <3>1. i # 0 => i \in 1..n
      BY <1>1
    <3> QED BY <1>4, <1>6, <3>1 DEF StepsOf
  <2> QED BY <2>1, <1>6 DEF StepsOf, UnescapesTo, b
<1>8. UnescapesTo(text, read)
  BY <1>7
<1> HIDE DEF read
<1>9. read[n] \in Unescaped
  <2>1. read[0] = b
    BY <1>1, <1>8 DEF UnescapesTo, b
  <2>2. ASSUME NEW i \in 1..n PROVE read[i] = UnescapeStep(read[i-1], text[i])
    <3>1. i \in 0..Len(text) /\ i # 0
      BY <1>1
    <3> QED BY <1>8, <3>1 DEF UnescapesTo
  <2>3. \A i \in 1..n : read[i-1] \in Unescaped => read[i] \in Unescaped
    BY <1>1, <2>2, UnescapeStepType
  <2>4. n \in Nat /\ read[0] \in Unescaped
    BY <1>1, <1>2, <2>1
  <2> HIDE DEF n
  <2>5. \A i \in 0..n : read[i] \in Unescaped
    BY <2>3, <2>4, KeptAlong, Zenon
  <2> QED BY <2>4, <2>5
<1> QED BY <1>5, <1>9, TextOps, Literals DEF Unescaped

(* splitExecArguments. *)
NoSplit == [words |-> <<>>, word |-> <<>>, quote |-> "", has |-> FALSE, escape |-> FALSE]
SplitsTo(text, f) ==
  f = [i \in 0..Len(text) |->
         IF i = 0 THEN [words |-> <<>>, word |-> <<>>, quote |-> "", has |-> FALSE, escape |-> FALSE]
         ELSE SplitStep(f[i - 1], text[i])]
Splitting ==
  [words : Texts, word : Text, quote : {"", "\"", "apostrophe"}, has : BOOLEAN, escape : BOOLEAN]

LEMMA TakeType ==
  ASSUME NEW s \in Splitting, NEW chars \in Text
  PROVE  Take(s, chars) \in Splitting
<1>1. s.word \o chars \in Text
  BY TextOps DEF Splitting
<1> QED BY <1>1 DEF Take, Splitting

LEMMA SplitStepType ==
  ASSUME NEW s \in Splitting, NEW c \in Atoms
  PROVE  SplitStep(s, c) \in Splitting
<1>1. Take(s, <<c>>) \in Splitting /\ Take(s, <<"\\", c>>) \in Splitting
  BY TextOps, Literals, TakeType
<1>2. [s EXCEPT !.escape = TRUE] \in Splitting /\ [s EXCEPT !.quote = ""] \in Splitting
  BY DEF Splitting
<1>3. c \in {"\"", "apostrophe"} => [s EXCEPT !.quote = c, !.has = TRUE] \in Splitting
  BY DEF Splitting
<1>4. [s EXCEPT !.words = Append(@, s.word), !.word = <<>>, !.has = FALSE] \in Splitting
  <2>1. Append(s.words, s.word) \in Texts /\ <<>> \in Text
    BY TextOps, TextsOps DEF Splitting
  <2> QED BY <2>1 DEF Splitting
<1> QED BY <1>1, <1>2, <1>3, <1>4 DEF SplitStep

LEMMA SplitExecType ==
  ASSUME NEW text \in Text
  PROVE  SplitExec(text) \in Texts
<1> DEFINE n == Len(text)
           g == [i \in 1..n |-> [s \in Splitting |-> SplitStep(s, text[i])]]
           read == CHOOSE f : SplitsTo(text, f)
<1>1. n \in Nat /\ \A i \in 1..n : text[i] \in Atoms
  BY TextParts
<1>2. NoSplit \in Splitting
  BY TextOps, TextsOps DEF Splitting, NoSplit
<1>3. Keeps(n, Splitting, g)
  BY <1>1, SplitStepType DEF Keeps
<1>4. \A i \in 1..n : \A s \in Splitting : g[i][s] = SplitStep(s, text[i])
  OBVIOUS
<1>5. SplitExec(text) =
        IF read[n].quote # "" \/ read[n].escape THEN <<>>
        ELSE IF read[n].has THEN Append(read[n].words, read[n].word) ELSE read[n].words
  BY DEF SplitExec, SplitsTo
<1> HIDE DEF g
<1>6. PICK f : StepsOf(n, Splitting, NoSplit, g, f)
  <2>1. n \in Nat
    BY <1>1
  <2> HIDE DEF n
  <2> QED BY <2>1, <1>2, <1>3, Recursion
<1>7. SplitsTo(text, f)
  <2>1. ASSUME NEW i \in 0..n PROVE f[i] = IF i = 0 THEN NoSplit ELSE SplitStep(f[i-1], text[i])
    <3>1. i # 0 => i \in 1..n
      BY <1>1
    <3> QED BY <1>4, <1>6, <3>1 DEF StepsOf
  <2> QED BY <2>1, <1>6 DEF StepsOf, SplitsTo, NoSplit
<1>8. SplitsTo(text, read)
  BY <1>7
<1> HIDE DEF read
<1>9. read[n] \in Splitting
  <2>1. read[0] = NoSplit
    <3>1. 0 \in 0..Len(text)
      BY <1>1
    <3> QED BY <1>8, <3>1, Zenon DEF SplitsTo, NoSplit
  <2>2. ASSUME NEW i \in 1..n PROVE read[i] = SplitStep(read[i-1], text[i])
    <3>1. i \in 0..Len(text) /\ i # 0
      BY <1>1
    <3> QED BY <1>8, <3>1 DEF SplitsTo
  <2>3. \A i \in 1..n : read[i-1] \in Splitting => read[i] \in Splitting
    BY <1>1, <2>2, SplitStepType
  <2>4. n \in Nat /\ read[0] \in Splitting
    BY <1>1, <1>2, <2>1
  <2> HIDE DEF n
  <2>5. \A i \in 0..n : read[i] \in Splitting
    BY <2>3, <2>4, KeptAlong, Zenon
  <2> QED BY <2>4, <2>5
<1> QED BY <1>5, <1>9, TextsOps DEF Splitting


(***************************************************************************)
(* The line of a launch: quoted by the author of a file, split by AM.      *)
(***************************************************************************)
LEMMA EscapedType ==
  ASSUME NEW word \in Text, NEW special
  PROVE  FlattenSeq([i \in DOMAIN word |-> IF word[i] \in special THEN <<"\\", word[i]>> ELSE <<word[i]>>]) \in Text
<1> DEFINE n == Len(word)
           f == [i \in DOMAIN word |-> IF word[i] \in special THEN <<"\\", word[i]>> ELSE <<word[i]>>]
<1>1. n \in Nat /\ DOMAIN word = 1..n /\ \A i \in 1..n : word[i] \in Atoms
  BY TextParts
<1>2. \A i \in 1..n : (IF word[i] \in special THEN <<"\\", word[i]>> ELSE <<word[i]>>) \in Text
  BY <1>1, TextOps, Literals
<1>3. f \in [1..n -> Seq(Atoms)]
  BY <1>1, <1>2, Zenon DEF Text
<1> HIDE DEF n, f
<1>4. FlattenSeq(f) \in Seq(Atoms)
  BY <1>1, <1>3, FlattenParts, Zenon
<1> QED BY <1>4 DEF f, Text

(* The words that stand for the Exec of the entry, in double quotes, in    *)
(* single quotes and with backslashes.                                     *)
EscapedWord(word, special) ==
  FlattenSeq([i \in DOMAIN word |-> IF word[i] \in special THEN <<"\\", word[i]>> ELSE <<word[i]>>])
InDouble(word, quoting) == word # <<FullExec>> /\ (quoting \in {"double", "open"} \/ word = <<>>)
InSingle(word, quoting) ==
  word \notin {<<FullExec>>, <<>>} /\ quoting \notin {"double", "open"} /\ quoting = "single" /\ ~Has(word, "apostrophe")

LEMMA QuotedIs ==
  ASSUME NEW word, NEW quoting
  PROVE  /\ word = <<FullExec>> => Quoted(word, quoting) = word
         /\ InDouble(word, quoting) =>
              Quoted(word, quoting) = <<"\"">> \o EscapedWord(word, {"\"", "\\", "$", "backtick"}) \o <<"\"">>
         /\ InSingle(word, quoting) => Quoted(word, quoting) = <<"apostrophe">> \o word \o <<"apostrophe">>
         /\ word # <<FullExec>> /\ ~InDouble(word, quoting) /\ ~InSingle(word, quoting) =>
              Quoted(word, quoting) = EscapedWord(word, ({"\"", "\\", "apostrophe"} \cup Blanks))
<1>1. word = <<FullExec>> => Quoted(word, quoting) = word
  BY Zenon DEF Quoted
<1>2. InDouble(word, quoting) =>
        Quoted(word, quoting) = <<"\"">> \o EscapedWord(word, {"\"", "\\", "$", "backtick"}) \o <<"\"">>
  BY Zenon DEF Quoted, InDouble, EscapedWord
<1>3. InSingle(word, quoting) => Quoted(word, quoting) = <<"apostrophe">> \o word \o <<"apostrophe">>
  BY Zenon DEF Quoted, InSingle
<1>4. word # <<FullExec>> /\ ~InDouble(word, quoting) /\ ~InSingle(word, quoting) =>
        Quoted(word, quoting) = EscapedWord(word, ({"\"", "\\", "apostrophe"} \cup Blanks))
  BY Zenon DEF Quoted, InDouble, InSingle, EscapedWord
<1> QED BY <1>1, <1>2, <1>3, <1>4

LEMMA QuotedType ==
  ASSUME NEW word \in Text, NEW quoting
  PROVE  Quoted(word, quoting) \in Text
<1>1. \A special : EscapedWord(word, special) \in Text
  BY EscapedType DEF EscapedWord
<1>2. Quoted(word, quoting) \in
        {word, <<"\"">> \o EscapedWord(word, {"\"", "\\", "$", "backtick"}) \o <<"\"">>,
         <<"apostrophe">> \o word \o <<"apostrophe">>, EscapedWord(word, ({"\"", "\\", "apostrophe"} \cup Blanks))}
  BY QuotedIs
<1>3. <<"\"">> \o EscapedWord(word, {"\"", "\\", "$", "backtick"}) \o <<"\"">> \in Text
  BY <1>1, TextOps, Literals
<1>4. <<"apostrophe">> \o word \o <<"apostrophe">> \in Text
  BY TextOps, Literals
<1> QED BY <1>1, <1>2, <1>3, <1>4

LEMMA WrittenType ==
  ASSUME NEW words \in Texts, NEW quoting
  PROVE  Written(words, quoting) \in Text
<1> DEFINE n == Len(words)
           f == [i \in DOMAIN words |-> (IF i = 1 THEN <<>> ELSE <<" ">>) \o Quoted(words[i], quoting)]
           open == IF quoting = "open" THEN <<" ", "\"">> ELSE <<>>
<1>1. n \in Nat /\ DOMAIN words = 1..n /\ \A i \in 1..n : words[i] \in Text
  BY TextParts
<1>2. \A i \in 1..n : (IF i = 1 THEN <<>> ELSE <<" ">>) \o Quoted(words[i], quoting) \in Text
  BY <1>1, QuotedType, TextOps, Literals
<1>3. f \in [1..n -> Seq(Atoms)]
  BY <1>1, <1>2, Zenon DEF Text
<1>4. Written(words, quoting) = FlattenSeq(f) \o open
  BY Zenon DEF Written
<1>5. open \in Text
  BY TextOps, Literals
<1> HIDE DEF n, f, open
<1>6. FlattenSeq(f) \in Text
  BY <1>1, <1>3, FlattenParts, Zenon DEF Text
<1> QED BY <1>4, <1>5, <1>6, TextOps

LEMMA EscapedValueType ==
  ASSUME NEW text \in Text
  PROVE  EscapedValue(text) \in Text
<1> DEFINE n == Len(text)
           f == [i \in DOMAIN text |-> IF text[i] = "\\" THEN <<"\\", "\\">> ELSE <<text[i]>>]
<1>1. n \in Nat /\ DOMAIN text = 1..n /\ \A i \in 1..n : text[i] \in Atoms
  BY TextParts
<1>2. \A i \in 1..n : (IF text[i] = "\\" THEN <<"\\", "\\">> ELSE <<text[i]>>) \in Text
  BY <1>1, TextOps, Literals
<1>3. f \in [1..n -> Seq(Atoms)]
  BY <1>1, <1>2, Zenon DEF Text
<1>4. EscapedValue(text) = FlattenSeq(f)
  BY Zenon DEF EscapedValue
<1> HIDE DEF n, f
<1> QED BY <1>1, <1>3, <1>4, FlattenParts, Zenon DEF Text

LEMMA ResolveType ==
  ASSUME NEW text \in Text, NEW original \in Text
  PROVE  ResolveExecValue(text, original) \in Text
<1> DEFINE n == Len(text)
           f == [i \in DOMAIN text |-> IF text[i] = FullExec THEN original ELSE <<text[i]>>]
<1>1. n \in Nat /\ DOMAIN text = 1..n /\ \A i \in 1..n : text[i] \in Atoms
  BY TextParts
<1>2. \A i \in 1..n : (IF text[i] = FullExec THEN original ELSE <<text[i]>>) \in Text
  BY <1>1, TextOps
<1>3. f \in [1..n -> Seq(Atoms)]
  BY <1>1, <1>2, Zenon DEF Text
<1>4. ResolveExecValue(text, original) = FlattenSeq(f)
  BY Zenon DEF ResolveExecValue
<1> HIDE DEF n, f
<1> QED BY <1>1, <1>3, <1>4, FlattenParts, Zenon DEF Text

(* The group of the application is one of the compatibility file's, or     *)
(* empty.                                                                  *)
LEMMA CompatGroupType ==
  ASSUME NEW file, CompatType(file), NEW id, NEW group
  PROVE  CompatGroup(file, id, group).exec \in Texts /\ CompatGroup(file, id, group).env \in Texts
<1> DEFINE config == LoadCompatibility(file)
           read == {i \in DOMAIN file : \A j \in 1..i : "other" \notin DOMAIN file[j].groups}
<1>1. CASE id \in DOMAIN config /\ group \in DOMAIN config[id]
  <2>1. id \in {file[i].id : i \in read} /\ config[id] = file[CHOOSE i \in read : file[i].id = id].groups
    BY <1>1, Zenon DEF LoadCompatibility
  <2>2. PICK i \in read : file[i].id = id
    BY <2>1, Zenon
  <2> DEFINE k == CHOOSE j \in read : file[j].id = id
  <2>3. k \in read
    BY <2>2, Zenon
  <2>4. config[id] = file[k].groups
    BY <2>1, Zenon
  <2>5. k \in DOMAIN file
    BY <2>3, Zenon
  <2>6. CompatGroup(file, id, group) = config[id][group]
    BY <1>1, Zenon DEF CompatGroup
  <2> HIDE DEF k, config, read
  <2> QED BY <1>1, <2>4, <2>5, <2>6, Zenon DEF CompatType
<1>2. CASE ~(id \in DOMAIN config /\ group \in DOMAIN config[id])
  BY <1>2, TextsOps DEF CompatGroup
<1> QED BY <1>1, <1>2

LEMMA CompatExecType ==
  ASSUME NEW r \in Requests
  PROVE  CompatExec(r) \in Texts /\ GetEnv(r.compatFile, "app") \in Texts
  BY RequestsAssumption, CompatGroupType, Zenon DEF RequestType, CompatExec, GetExec, GetEnv

LEMMA LineType ==
  ASSUME NEW r \in Requests
  PROVE  LineOf(r) \in Texts
  BY RequestsAssumption, WrittenType, EscapedValueType, UnescapeType, CompatExecType, ResolveType,
     SplitExecType DEF RequestType, EntryExec, MainExec, ProcessCompatibility, LineOf

-----------------------------------------------------------------------------
(***************************************************************************)
(* The task that processExec makes of the line.                            *)
(***************************************************************************)
Items == Seq(Seq(ResourceType))
Tasks ==
  [command : Texts, arg : Text, percent : BOOLEAN, dynamic : BOOLEAN, exclusive : BOOLEAN, argNum : Int,
   location : Int, local : BOOLEAN, items : Items, bad : BOOLEAN]
LookType(look) == {look.icon, look.name, look.path} \subseteq Text /\ look.fields \in Seq(ResourceType)

LEMMA ItemsOf ==
  ASSUME NEW fields \in Seq(ResourceType)
  PROVE  <<fields>> \in Items /\ [i \in DOMAIN fields |-> <<fields[i]>>] \in Items
<1> HIDE DEF ResourceType
<1>1. <<fields>> \in Items
  BY DEF Items
<1> DEFINE n == Len(fields)
           f == [i \in 1..n |-> <<fields[i]>>]
<1>2. n \in Nat /\ DOMAIN fields = 1..n /\ \A i \in 1..n : <<fields[i]>> \in Seq(ResourceType)
  OBVIOUS
<1>3. f \in [1..n -> Seq(ResourceType)]
  BY <1>2
<1>4. f \in Items
  BY <1>2, <1>3 DEF Items
<1> QED BY <1>1, <1>2, <1>4

LEMMA FieldType ==
  ASSUME NEW t \in Tasks, NEW c \in {"f", "F", "u", "U"}, NEW fields \in Seq(ResourceType), "%" \in Atoms, c \in Atoms
  PROVE  Field(t, c, fields) \in Tasks
<1> DEFINE items == IF c \in {"F", "U"} THEN <<fields>> ELSE [i \in DOMAIN fields |-> <<fields[i]>>]
           local == c \in {"f", "F"}
           arg == t.arg \o <<"%", c>>
<1>1. items \in Items
  BY ItemsOf
<1>2. arg \in Text
  BY TextOps DEF Tasks
<1>3. t.command \in Texts /\ t.arg \in Text /\ Len(t.command) \in Int /\ Len(t.arg) \in Int /\ local \in BOOLEAN
  BY TextParts DEF Tasks
<1>4. CASE t.exclusive \/ fields = <<>>
  BY <1>4 DEF Field, Tasks
<1>5. CASE ~(t.exclusive \/ fields = <<>>)
  <2>1. Field(t, c, fields) =
          [t EXCEPT !.exclusive = TRUE, !.dynamic = TRUE, !.argNum = Len(t.command), !.location = Len(t.arg),
                    !.local = local, !.items = items, !.arg = arg]
    BY <1>5, Zenon DEF Field
  <2> HIDE DEF items, local, arg
  <2> QED BY <1>1, <1>2, <1>3, <2>1 DEF Tasks
<1> QED BY <1>4, <1>5

LEMMA IconType ==
  ASSUME NEW t \in Tasks, NEW icon \in Text
  PROVE  Icon(t, icon) \in Tasks
<1> DEFINE command == t.command \o (IF t.arg = <<>> THEN <<>> ELSE <<t.arg>>) \o <<IconOption, icon>>
<1>1. IconOption \in Text
  <2>1. <<"-", "-">> \in Text /\ <<"icon">> \in Text
    BY TextOps, Literals
  <2>2. IconOption = <<"-", "-">> \o <<"icon">>
    BY DEF IconOption
  <2> QED BY <2>1, <2>2, TextOps
<1>2. command \in Texts
  BY <1>1, TextsOps DEF Tasks
<1>3. Icon(t, icon) = IF icon = <<>> THEN t ELSE [t EXCEPT !.command = command, !.arg = <<>>]
  BY Zenon DEF Icon
<1> HIDE DEF command
<1> QED BY <1>2, <1>3, TextOps DEF Tasks

LEMMA CodeType ==
  ASSUME NEW t \in Tasks, NEW c \in Atoms, NEW look, LookType(look)
  PROVE  Code(t, c, look) \in Tasks
<1>1. "%" \in Atoms /\ {look.icon, look.name, look.path} \subseteq Text /\ look.fields \in Seq(ResourceType)
  BY Literals DEF LookType
<1>2. CASE c \in FieldCodes
  BY <1>1, <1>2, FieldType DEF Code, FieldCodes
<1>3. CASE c = "i"
  BY <1>1, <1>3, IconType DEF Code, FieldCodes
<1>4. CASE c \notin FieldCodes /\ c # "i"
  <2>1. t.arg \in Text
    BY DEF Tasks
  <2>2. t.arg \o look.name \in Text /\ t.arg \o look.path \in Text /\ Append(t.arg, "%") \in Text
    BY <1>1, <2>1, TextOps
  <2>3. \A a \in Text : [t EXCEPT !.arg = a] \in Tasks
    BY DEF Tasks
  <2>4. [t EXCEPT !.bad = TRUE] \in Tasks
    BY DEF Tasks
  <2>5. Code(t, c, look) \in {[t EXCEPT !.arg = t.arg \o look.name], [t EXCEPT !.arg = t.arg \o look.path],
                              [t EXCEPT !.arg = Append(t.arg, "%")], t, [t EXCEPT !.bad = TRUE]}
    BY <1>4 DEF Code
  <2> QED BY <2>2, <2>3, <2>4, <2>5
<1> QED BY <1>2, <1>3, <1>4

LEMMA CharacterType ==
  ASSUME NEW t \in Tasks, NEW c \in Atoms, NEW look, LookType(look)
  PROVE  Character(t, c, look) \in Tasks
<1>1. [t EXCEPT !.percent = FALSE] \in Tasks /\ [t EXCEPT !.percent = TRUE] \in Tasks
  BY DEF Tasks
<1>2. Append(t.arg, c) \in Text
  BY TextOps DEF Tasks
<1>3. [t EXCEPT !.arg = Append(@, c)] \in Tasks
  BY <1>2 DEF Tasks
<1> QED BY <1>1, <1>3, CodeType DEF Character

(* The recursive function of an argument, character by character.          *)
Opened(t) == [t EXCEPT !.arg = <<>>, !.dynamic = FALSE]
ReadsArgument(t, a, look, f) ==
  f = [i \in 0..Len(a) |->
         IF i = 0 THEN [t EXCEPT !.arg = <<>>, !.dynamic = FALSE] ELSE Character(f[i - 1], a[i], look)]

LEMMA ArgumentType ==
  ASSUME NEW t \in Tasks, NEW a \in Text, NEW look, LookType(look)
  PROVE  Argument(t, a, look) \in Tasks
<1> DEFINE n == Len(a)
           g == [i \in 1..n |-> [s \in Tasks |-> Character(s, a[i], look)]]
           read == CHOOSE f : ReadsArgument(t, a, look, f)
           r == read[n]
           arg == IF r.percent THEN Append(r.arg, "%") ELSE r.arg
           command == IF r.dynamic \/ arg # <<>> THEN Append(r.command, arg) ELSE r.command
<1>1. n \in Nat /\ \A i \in 1..n : a[i] \in Atoms
  BY TextParts
<1>2. Opened(t) \in Tasks
  BY TextOps DEF Tasks, Opened
<1>3. Keeps(n, Tasks, g)
  BY <1>1, CharacterType DEF Keeps
<1>4. \A i \in 1..n : \A s \in Tasks : g[i][s] = Character(s, a[i], look)
  OBVIOUS
<1>5. Argument(t, a, look) =
        IF ~Has(a, "%") THEN [t EXCEPT !.command = Append(@, a)]
        ELSE [r EXCEPT !.percent = FALSE, !.arg = <<>>, !.command = command]
  BY DEF Argument, ReadsArgument
<1> HIDE DEF g
<1>6. PICK f : StepsOf(n, Tasks, Opened(t), g, f)
  <2>1. n \in Nat
    BY <1>1
  <2> HIDE DEF n
  <2> QED BY <2>1, <1>2, <1>3, Recursion
<1>7. ReadsArgument(t, a, look, f)
  <2>1. ASSUME NEW i \in 0..n PROVE f[i] = IF i = 0 THEN Opened(t) ELSE Character(f[i-1], a[i], look)
    <3>1. i # 0 => i \in 1..n
      BY <1>1
    <3> QED BY <1>4, <1>6, <3>1 DEF StepsOf
  <2>2. f = [i \in 0..n |-> f[i]]
    BY <1>6 DEF StepsOf
  <2> QED BY <2>1, <2>2, Zenon DEF ReadsArgument, Opened
<1>8. ReadsArgument(t, a, look, read)
  BY <1>7
<1> HIDE DEF read
<1>9. read[n] \in Tasks
  <2>1. read[0] = Opened(t)
    BY <1>1, <1>8 DEF ReadsArgument, Opened
  <2>2. ASSUME NEW i \in 1..n PROVE read[i] = Character(read[i-1], a[i], look)
    BY <1>1, <1>8 DEF ReadsArgument
  <2>3. \A i \in 1..n : read[i-1] \in Tasks => read[i] \in Tasks
    BY <1>1, <2>2, CharacterType
  <2>4. n \in Nat /\ read[0] \in Tasks
    BY <1>1, <1>2, <2>1
  <2> HIDE DEF n
  <2>5. \A i \in 0..n : read[i] \in Tasks
    BY <2>3, <2>4, KeptAlong, Zenon
  <2> QED BY <2>4, <2>5
<1>10. arg \in Text
  BY <1>9, TextOps, Literals DEF Tasks
<1>11. command \in Texts
  BY <1>9, <1>10, TextsOps DEF Tasks
<1>12. [r EXCEPT !.percent = FALSE, !.arg = <<>>, !.command = command] \in Tasks
  <2>1. r \in Tasks
    BY <1>9
  <2> HIDE DEF r, command
  <2> QED BY <1>11, <2>1, TextOps DEF Tasks
<1>13. [t EXCEPT !.command = Append(@, a)] \in Tasks
  <2>1. Append(t.command, a) \in Texts
    BY TextsOps DEF Tasks
  <2> QED BY <2>1 DEF Tasks
<1> HIDE DEF r, command
<1> QED BY <1>5, <1>12, <1>13

(* ... and of the line, argument by argument.                              *)
ReadsLine(line, look, f) ==
  f = [i \in 0..Len(line) |-> IF i = 0 THEN NoTask ELSE Argument(f[i - 1], line[i], look)]

LEMMA ProcessExecType ==
  ASSUME NEW line \in Texts, NEW look, LookType(look)
  PROVE  ProcessExec(line, look) \in Tasks
<1> DEFINE n == Len(line)
           g == [i \in 1..n |-> [s \in Tasks |-> Argument(s, line[i], look)]]
           read == CHOOSE f : ReadsLine(line, look, f)
<1>1. n \in Nat /\ \A i \in 1..n : line[i] \in Text
  BY TextParts
<1>2. NoTask \in Tasks
  BY TextOps, TextsOps DEF Items, Tasks, NoTask
<1>3. Keeps(n, Tasks, g)
  BY <1>1, ArgumentType DEF Keeps
<1>4. \A i \in 1..n : \A s \in Tasks : g[i][s] = Argument(s, line[i], look)
  OBVIOUS
<1>5. ProcessExec(line, look) = [read[n] EXCEPT !.items = IF @ = <<>> THEN << <<>> >> ELSE @]
  BY DEF ProcessExec, ReadsLine
<1> HIDE DEF g
<1>6. PICK f : StepsOf(n, Tasks, NoTask, g, f)
  <2>1. n \in Nat
    BY <1>1
  <2> HIDE DEF n
  <2> QED BY <2>1, <1>2, <1>3, Recursion
<1>7. ReadsLine(line, look, f)
  <2>1. ASSUME NEW i \in 0..n PROVE f[i] = IF i = 0 THEN NoTask ELSE Argument(f[i-1], line[i], look)
    <3>1. i # 0 => i \in 1..n
      BY <1>1
    <3> QED BY <1>4, <1>6, <3>1 DEF StepsOf
  <2>2. f = [i \in 0..n |-> f[i]]
    BY <1>6 DEF StepsOf
  <2> QED BY <2>1, <2>2, Zenon DEF ReadsLine
<1>8. ReadsLine(line, look, read)
  BY <1>7
<1> HIDE DEF read
<1>9. read[n] \in Tasks
  <2>1. read[0] = NoTask
    BY <1>1, <1>8 DEF ReadsLine
  <2>2. ASSUME NEW i \in 1..n PROVE read[i] = Argument(read[i-1], line[i], look)
    BY <1>1, <1>8 DEF ReadsLine
  <2>3. \A i \in 1..n : read[i-1] \in Tasks => read[i] \in Tasks
    BY <1>1, <2>2, ArgumentType
  <2>4. n \in Nat /\ read[0] \in Tasks
    BY <1>1, <1>2, <2>1
  <2> HIDE DEF n
  <2>5. \A i \in 0..n : read[i] \in Tasks
    BY <2>3, <2>4, KeptAlong, Zenon
  <2> QED BY <2>4, <2>5
<1>10. << <<>> >> \in Items
  BY DEF Items
<1> QED BY <1>5, <1>9, <1>10 DEF Tasks

LEMMA TaskType ==
  ASSUME NEW r \in Requests
  PROVE  TaskOf(r) \in Tasks
  BY RequestsAssumption, LineType, ProcessExecType DEF RequestType, LookType, TaskOf

-----------------------------------------------------------------------------
(***************************************************************************)
(* The options: hooks, environment, and the command line made of them.     *)
(***************************************************************************)
LEMMA Bounded ==
  ASSUME NEW S, S \subseteq Nat, IsFiniteSet(S)
  PROVE  \E b \in Nat : \A x \in S : x <= b
<1>1. PICK n \in Nat : ExistsSurjection(1..n, S)
  BY FS_NatSurjection, Zenon
<1>2. PICK s \in [1..n -> S] : \A x \in S : \E i \in 1..n : s[i] = x
  BY <1>1 DEF ExistsSurjection, Surjection
<1> DEFINE Below(m) == \E b \in Nat : \A i \in 1..m : s[i] <= b
           B == {m \in 0..n : ~Below(m)}
<1>3. B = {}
  <2>1. SUFFICES ASSUME B # {} PROVE FALSE
    OBVIOUS
  <2>2. PICK m \in B : \A k \in B : m <= k
    <3>1. B \subseteq Nat
      OBVIOUS
    <3> HIDE DEF B
    <3> QED BY <2>1, <3>1, LeastNumber
  <2>3. m \in 0..n /\ ~Below(m)
    OBVIOUS
  <2>4. m # 0
    BY <2>3
  <2>5. m - 1 \in 0..n /\ m \in 1..n /\ m - 1 \notin B
    <3> HIDE DEF B, Below
    <3> QED BY <2>2, <2>3, <2>4
  <2>6. PICK b \in Nat : \A i \in 1..(m-1) : s[i] <= b
    BY <2>5
  <2>7. s[m] \in Nat
    BY <2>5
  <2> DEFINE c == IF s[m] <= b THEN b ELSE s[m]
  <2>8. c \in Nat /\ b <= c /\ s[m] <= c
    BY <2>7
  <2>9. ASSUME NEW i \in 1..m PROVE s[i] <= c
    <3>1. s[i] \in Nat
      <4>1. i \in 1..n
        BY <2>3
      <4> QED BY <4>1
    <3>2. CASE i = m
      BY <2>8, <3>2
    <3>3. CASE i # m
      BY <2>3, <3>3, <2>6, <2>8, <3>1
    <3> QED BY <3>2, <3>3
  <2> QED BY <2>3, <2>8, <2>9
<1>4. Below(n)
  <2>1. n \in 0..n /\ n \notin B
    <3> HIDE DEF B
    <3> QED BY <1>3
  <2> QED BY <2>1
<1>5. PICK b \in Nat : \A i \in 1..n : s[i] <= b
  BY <1>4
<1>6. \A x \in S : x <= b
  BY <1>2, <1>5
<1> QED BY <1>6

LEMMA LargestOf ==
  ASSUME NEW S, S \subseteq Nat, IsFiniteSet(S)
  PROVE  Max({0} \cup S) \in Nat
<1> DEFINE T == {0} \cup S
<1>1. PICK b \in Nat : \A x \in S : x <= b
  BY Bounded
<1>2. T \subseteq 0..b /\ T # {}
  BY <1>1
<1>3. \E x \in T : \A y \in T : y <= x
  <2> HIDE DEF T
  <2> QED BY <1>2, GreatestNumber
<1>4. T \subseteq Nat /\ \E x \in T : \A y \in T : x >= y
  BY <1>2, <1>3
<1>5. Max(T) \in Nat
  <2> HIDE DEF T
  <2> QED BY <1>4 DEF Max
<1> QED BY <1>5

LEMMA HookType ==
  ASSUME NEW dirs, HooksType(dirs), NEW n
  PROVE  HookIn(dirs, n) \in Texts
<1> DEFINE found == {i \in DOMAIN dirs : n \in DOMAIN dirs[i] /\ dirs[i][n] # NoHook}
<1>1. CASE found = {}
  BY <1>1, TextsOps, Zenon DEF HookIn, NoHook
<1>2. CASE found # {}
  <2> DEFINE k == CHOOSE i \in found : \A j \in found : i <= j
  <2>1. HookIn(dirs, n) = dirs[k][n]
    BY <1>2, Zenon DEF HookIn
  <2>2. found \subseteq Nat
    BY Zenon DEF HooksType
  <2>3. \E i \in found : \A j \in found : i <= j
    <3> HIDE DEF found
    <3> QED BY <1>2, <2>2, LeastNumber
  <2>4. k \in found
    BY <2>3, Zenon
  <2>5. k \in DOMAIN dirs /\ n \in DOMAIN dirs[k]
    BY <2>4, Zenon
  <2> HIDE DEF k, found
  <2> QED BY <2>1, <2>5, Zenon DEF HooksType
<1> QED BY <1>1, <1>2

LEMMA LoadHooksType ==
  ASSUME NEW dirs, HooksType(dirs)
  PROVE  LoadHooks(dirs) \in Texts
  BY LargestOf, HookType, FlattenParts DEF HooksType, LoadHooks, Texts

(* The words of an assignment, between the blanks.                         *)
Cutting == [words : Texts, word : Text]
NoCut == [words |-> <<>>, word |-> <<>>]
CutStep(s, x, c) ==
  IF x \in c THEN [words |-> Append(s.words, s.word), word |-> <<>>] ELSE [s EXCEPT !.word = Append(@, x)]
CutsTo(text, c, f) ==
  f = [i \in 0..Len(text) |->
         IF i = 0 THEN [words |-> <<>>, word |-> <<>>]
         ELSE IF text[i] \in c THEN [words |-> Append(f[i - 1].words, f[i - 1].word), word |-> <<>>]
         ELSE [f[i - 1] EXCEPT !.word = Append(@, text[i])]]

LEMMA CutStepType ==
  ASSUME NEW s \in Cutting, NEW x \in Atoms, NEW c
  PROVE  CutStep(s, x, c) \in Cutting
<1>1. Append(s.words, s.word) \in Texts /\ Append(s.word, x) \in Text /\ <<>> \in Text
  BY TextOps, TextsOps DEF Cutting
<1> QED BY <1>1 DEF CutStep, Cutting

LEMMA SplitAtType ==
  ASSUME NEW text \in Text, NEW c
  PROVE  SplitAt(text, c) \in Texts
<1> DEFINE n == Len(text)
           g == [i \in 1..n |-> [s \in Cutting |-> CutStep(s, text[i], c)]]
           read == CHOOSE f : CutsTo(text, c, f)
           words == Append(read[n].words, read[n].word)
           parts == [i \in DOMAIN words |-> IF words[i] = <<>> THEN <<>> ELSE <<words[i]>>]
<1>1. n \in Nat /\ \A i \in 1..n : text[i] \in Atoms
  BY TextParts
<1>2. NoCut \in Cutting
  BY TextOps, TextsOps DEF Cutting, NoCut
<1>3. Keeps(n, Cutting, g)
  BY <1>1, CutStepType DEF Keeps
<1>4. \A i \in 1..n : \A s \in Cutting : g[i][s] = CutStep(s, text[i], c)
  OBVIOUS
<1>5. SplitAt(text, c) = FlattenSeq(parts)
  BY Zenon DEF SplitAt, CutsTo
<1> HIDE DEF g
<1>6. PICK f : StepsOf(n, Cutting, NoCut, g, f)
  <2>1. n \in Nat
    BY <1>1
  <2> HIDE DEF n
  <2> QED BY <2>1, <1>2, <1>3, Recursion
<1>7. CutsTo(text, c, f)
  <2>1. ASSUME NEW i \in 0..n PROVE f[i] = IF i = 0 THEN NoCut ELSE CutStep(f[i-1], text[i], c)
    <3>1. i # 0 => i \in 1..n
      BY <1>1
    <3> QED BY <1>4, <1>6, <3>1 DEF StepsOf
  <2>2. f = [i \in 0..n |-> f[i]]
    BY <1>6 DEF StepsOf
  <2> QED BY <2>1, <2>2, Zenon DEF CutsTo, CutStep, NoCut
<1>8. CutsTo(text, c, read)
  BY <1>7
<1> HIDE DEF read
<1>9. read[n] \in Cutting
  <2>1. read[0] = NoCut
    BY <1>1, <1>8 DEF CutsTo, NoCut
  <2>2. ASSUME NEW i \in 1..n PROVE read[i] = CutStep(read[i-1], text[i], c)
    <3>1. i \in 0..Len(text) /\ i # 0
      BY <1>1
    <3> QED BY <1>8, <3>1, Zenon DEF CutsTo, CutStep
  <2>3. \A i \in 1..n : read[i-1] \in Cutting => read[i] \in Cutting
    BY <1>1, <2>2, CutStepType
  <2>4. n \in Nat /\ read[0] \in Cutting
    BY <1>1, <1>2, <2>1
  <2> HIDE DEF n
  <2>5. \A i \in 0..n : read[i] \in Cutting
    BY <2>3, <2>4, KeptAlong, Zenon
  <2> QED BY <2>4, <2>5
<1>10. words \in Texts
  BY <1>9, TextsOps DEF Cutting
<1> HIDE DEF words
<1>11. Len(words) \in Nat /\ DOMAIN words = 1..Len(words) /\ \A i \in 1..Len(words) : words[i] \in Text
  BY <1>10, TextParts
<1>12. parts \in [1..Len(words) -> Seq(Text)]
  BY <1>11, TextsOps DEF Texts
<1> HIDE DEF parts
<1> QED BY <1>5, <1>11, <1>12, FlattenParts, Zenon DEF Texts

LEMMA UnescapeEnvsType ==
  ASSUME NEW words \in Texts
  PROVE  UnescapeEnvs(words) \in Texts
<1> DEFINE n == Len(words)
           f == [i \in DOMAIN words |-> IF IsAppId(words[i]) THEN <<words[i]>> ELSE SplitAt(words[i], {" ", "tab"})]
<1>1. n \in Nat /\ DOMAIN words = 1..n /\ \A i \in 1..n : words[i] \in Text
  BY TextParts
<1>2. \A i \in 1..n : (IF IsAppId(words[i]) THEN <<words[i]>> ELSE SplitAt(words[i], {" ", "tab"})) \in Texts
  BY <1>1, TextsOps, SplitAtType
<1>3. f \in [1..n -> Seq(Text)]
  BY <1>1, <1>2, Zenon DEF Texts
<1>4. UnescapeEnvs(words) \in {words, FlattenSeq(f)}
  BY Zenon DEF UnescapeEnvs
<1> HIDE DEF n, f
<1>5. FlattenSeq(f) \in Texts
  BY <1>1, <1>3, FlattenParts, Zenon DEF Texts
<1> QED BY <1>4, <1>5

LEMMA EnvironmentsType ==
  ASSUME NEW r \in Requests
  PROVE  Environments(r) \in Texts
<1>1. r.environ \in Text /\ r.env \in Texts
  BY RequestsAssumption DEF RequestType
<1>2. AppId \in Text
  <2>1. <<"DSG_APP_ID", "=">> \in Text /\ <<"app">> \in Text
    BY TextOps, Literals
  <2>2. AppId = <<"DSG_APP_ID", "=">> \o <<"app">>
    BY DEF AppId
  <2> QED BY <2>1, <2>2, TextOps
<1>3. AppendExtraEnvironments(r) \in Texts
  BY <1>1, <1>2, TextsOps DEF AppendExtraEnvironments
<1>4. AppendExtraEnvironments(r) \o (IF CompatExec(r) # <<>> THEN GetEnv(r.compatFile, "app") ELSE <<>>) \in Texts
  BY <1>3, CompatExecType, TextsOps
<1> QED BY <1>4, UnescapeEnvsType DEF Environments

(* The order of the options: "--" is one of them, put in as the last.      *)
Keys(keys) == (keys \cap {"_builtIn_searchExec", "_hooks", "env", "path", "uid", "unsetEnv"}) \cup {"--"}

LEMMA InsertType ==
  ASSUME NEW S, NEW s \in Seq(S), NEW k \in S
  PROVE  Insert(s, k) \in Seq(S) /\ \E i \in 1..Len(Insert(s, k)) : Insert(s, k)[i] = k
<1> DEFINE stops == {j \in DOMAIN s : ~Before(k, s[j])}
           at == IF s = <<>> \/ Before(k, s[1]) THEN 0 ELSE CHOOSE j \in stops : \A i \in stops : i <= j
<1>1. at \in 0..Len(s)
  <2>1. CASE s = <<>> \/ Before(k, s[1])
    BY <2>1
  <2>2. CASE ~(s = <<>> \/ Before(k, s[1]))
    <3>1. stops \subseteq 0..Len(s) /\ 1 \in stops
      BY <2>2
    <3>2. \E j \in stops : \A i \in stops : i <= j
      <4>1. Len(s) \in Nat
        OBVIOUS
      <4> HIDE DEF stops
      <4> DEFINE m == Len(s)
      <4>2. m \in Nat /\ stops \subseteq 0..m /\ stops # {}
        BY <3>1, <4>1
      <4> HIDE DEF m
      <4> QED BY <4>2, GreatestNumber
    <3>3. at \in stops
      BY <2>2, <3>2
    <3> HIDE DEF at, stops
    <3> QED BY <3>1, <3>3
  <2> QED BY <2>1, <2>2
<1>2. Insert(s, k) = SubSeq(s, 1, at) \o <<k>> \o SubSeq(s, at + 1, Len(s))
  BY Zenon DEF Insert
<1> HIDE DEF at
<1>3. SubSeq(s, 1, at) \in Seq(S) /\ Len(SubSeq(s, 1, at)) = at
  BY <1>1
<1>4. SubSeq(s, at + 1, Len(s)) \in Seq(S)
  BY <1>1
<1> DEFINE u == SubSeq(s, 1, at)
           v == SubSeq(s, at + 1, Len(s))
<1> HIDE DEF u, v
<1>5. ASSUME u \in Seq(S), Len(u) = at, v \in Seq(S)
      PROVE  u \o <<k>> \o v \in Seq(S) /\ at + 1 \in 1..Len(u \o <<k>> \o v) /\ (u \o <<k>> \o v)[at + 1] = k
  BY <1>1, <1>5
<1> QED BY <1>2, <1>3, <1>4, <1>5 DEF u, v

SortsTo(given, f) == f = [i \in 0..Len(given) |-> IF i = 0 THEN <<>> ELSE Insert(f[i - 1], given[i])]
Given(keys) ==
  FlattenSeq([i \in DOMAIN OptionKeys |-> IF OptionKeys[i] \in keys THEN <<OptionKeys[i]>> ELSE <<>>]) \o <<"--">>

LEMMA GivenType ==
  ASSUME NEW keys
  PROVE  /\ Given(keys) \in Seq(Keys(keys))
         /\ Len(Given(keys)) \in Nat \ {0}
         /\ Given(keys)[Len(Given(keys))] = "--"
<1> DEFINE f == [i \in DOMAIN OptionKeys |-> IF OptionKeys[i] \in keys THEN <<OptionKeys[i]>> ELSE <<>>]
           S == Keys(keys)
<1>1. DOMAIN OptionKeys = 1..6
  BY DEF OptionKeys
<1>2. \A i \in 1..6 : OptionKeys[i] \in {"_builtIn_searchExec", "_hooks", "env", "path", "uid", "unsetEnv"}
  BY DEF OptionKeys
<1>3. \A i \in 1..6 : (IF OptionKeys[i] \in keys THEN <<OptionKeys[i]>> ELSE <<>>) \in Seq(S)
  <2>1. \A i \in 1..6 : OptionKeys[i] \in keys => OptionKeys[i] \in S
    BY <1>2, Zenon DEF Keys
  <2> HIDE DEF S
  <2> QED BY <2>1
<1>4. f \in [1..6 -> Seq(S)]
  BY <1>1, <1>3, Zenon
<1>5. FlattenSeq(f) \in Seq(S)
  <2> HIDE DEF f, S
  <2> QED BY <1>4, FlattenParts
<1>6. Given(keys) = FlattenSeq(f) \o <<"--">>
  BY Zenon DEF Given
<1>7. "--" \in S
  BY DEF Keys
<1> HIDE DEF f, S
<1>8. Given(keys) \in Seq(S) /\ Len(Given(keys)) \in Nat \ {0} /\ Given(keys)[Len(Given(keys))] = "--"
  BY <1>5, <1>6, <1>7
<1> QED BY <1>8 DEF S

LEMMA SortedType ==
  ASSUME NEW keys
  PROVE  /\ Sorted(keys) \in Seq(Keys(keys))
         /\ \E i \in 1..Len(Sorted(keys)) : Sorted(keys)[i] = "--"
<1> DEFINE given == Given(keys)
           S == Keys(keys)
           T == Seq(S)
           n == Len(given)
           g == [i \in 1..n |-> [s \in T |-> Insert(s, given[i])]]
           read == CHOOSE f : SortsTo(given, f)
<1>1. n \in Nat \ {0} /\ given[n] = "--" /\ \A i \in 1..n : given[i] \in S
  BY GivenType
<1>2. Sorted(keys) = read[n]
  BY Zenon DEF Sorted, Given, SortsTo
<1> HIDE DEF given, S
<1>3. <<>> \in T
  OBVIOUS
<1>4. ASSUME NEW i \in 1..n, NEW s \in T PROVE Insert(s, given[i]) \in T
  BY <1>1, InsertType
<1>5. Keeps(n, T, g)
  BY <1>4, Zenon DEF Keeps
<1>6. \A i \in 1..n : \A s \in T : g[i][s] = Insert(s, given[i])
  BY Zenon
<1> HIDE DEF g, T
<1>7. PICK f : StepsOf(n, T, <<>>, g, f)
  BY <1>1, <1>3, <1>5, Recursion
<1>8. SortsTo(given, f)
  <2>1. ASSUME NEW i \in 0..n PROVE f[i] = IF i = 0 THEN <<>> ELSE Insert(f[i-1], given[i])
    <3>1. i # 0 => i \in 1..n
      BY <1>1
    <3> QED BY <1>6, <1>7, <3>1 DEF StepsOf
  <2>2. f = [i \in 0..n |-> f[i]]
    BY <1>7 DEF StepsOf
  <2> QED BY <2>1, <2>2, Zenon DEF SortsTo
<1>9. SortsTo(given, read)
  BY <1>8
<1> HIDE DEF read
<1>10. ASSUME NEW i \in 1..n PROVE read[i] = Insert(read[i-1], given[i])
  BY <1>1, <1>9 DEF SortsTo
<1>11. \A i \in 0..n : read[i] \in T
  <2>1. read[0] = <<>>
    BY <1>1, <1>9 DEF SortsTo
  <2>2. \A i \in 1..n : read[i-1] \in T => read[i] \in T
    BY <1>4, <1>10, Zenon
  <2>3. n \in Nat /\ read[0] \in T
    BY <1>1, <1>3, <2>1
  <2> HIDE DEF n
  <2> QED BY <2>2, <2>3, KeptAlong, Zenon
<1>12. read[n] \in T /\ read[n-1] \in T /\ read[n] = Insert(read[n-1], "--")
  BY <1>1, <1>10, <1>11
<1>13. \E i \in 1..Len(read[n]) : read[n][i] = "--"
  <2>1. "--" \in S
    BY DEF S, Keys
  <2> DEFINE s == read[n-1]
  <2>2. s \in Seq(S) /\ read[n] = Insert(s, "--")
    BY <1>12 DEF T
  <2> HIDE DEF s
  <2>3. \E i \in 1..Len(Insert(s, "--")) : Insert(s, "--")[i] = "--"
    BY <2>1, <2>2, InsertType
  <2> QED BY <2>2, <2>3, Zenon
<1> QED BY <1>2, <1>12, <1>13 DEF T, S

LEMMA SettingType ==
  ASSUME NEW key \in Atoms, NEW word \in Text
  PROVE  Setting(key, word) \in Text
<1>1. <<"-", "-">> \in Text /\ <<key, "=">> \in Text
  BY TextOps, Literals
<1>2. <<"-", "-", key, "=">> = <<"-", "-">> \o <<key, "=">>
  OBVIOUS
<1> QED BY <1>1, <1>2, TextOps DEF Setting

LEMMA SettingsType ==
  ASSUME NEW key \in Atoms, NEW words \in Texts
  PROVE  Settings(key, words) \in Texts
  BY TextParts, SettingType DEF Settings, Texts

LEMMA RunAsType == RunAs \in Texts
<1>1. <<"pkexec">> \in Text /\ <<"name">> \in Text /\ <<"env">> \in Text
  BY TextOps, Literals
<1>2. <<"-", "-", "user">> \in Text
  <2>1. <<"-", "-">> \in Text /\ <<"user">> \in Text
    BY TextOps, Literals
  <2>2. <<"-", "-", "user">> = <<"-", "-">> \o <<"user">>
    OBVIOUS
  <2> QED BY <2>1, <2>2, TextOps
<1>3. <<"DISPLAY", "=", ":0">> \in Text
  <2>1. <<"DISPLAY", "=">> \in Text /\ <<":0">> \in Text
    BY TextOps, Literals
  <2>2. <<"DISPLAY", "=", ":0">> = <<"DISPLAY", "=">> \o <<":0">>
    OBVIOUS
  <2> QED BY <2>1, <2>2, TextOps
<1>4. <<"XAUTHORITY", "=", "file">> \in Text
  <2>1. <<"XAUTHORITY", "=">> \in Text /\ <<"file">> \in Text
    BY TextOps, Literals
  <2>2. <<"XAUTHORITY", "=", "file">> = <<"XAUTHORITY", "=">> \o <<"file">>
    OBVIOUS
  <2> QED BY <2>1, <2>2, TextOps
<1> DEFINE u == <<"-", "-", "user">>
           d == <<"DISPLAY", "=", ":0">>
           x == <<"XAUTHORITY", "=", "file">>
<1>5. RunAs = << <<"pkexec">>, u, <<"name">>, <<"env">>, d, x >>
  BY Zenon DEF RunAs
<1> HIDE DEF u, d, x
<1>6. u \in Text /\ d \in Text /\ x \in Text
  BY <1>2, <1>3, <1>4 DEF u, d, x
<1> QED BY <1>1, <1>5, <1>6 DEF Texts

ValuesType(val) ==
  /\ "--" \in DOMAIN val
  /\ DOMAIN val \subseteq {"_builtIn_searchExec", "_hooks", "env", "path", "uid", "unsetEnv", "--"}
  /\ \A k \in DOMAIN val : k \in {"_builtIn_searchExec", "_hooks", "env", "unsetEnv"} => val[k] \in Texts
  /\ "path" \in DOMAIN val => val["path"] \in Text

LEMMA OptionArgsType ==
  ASSUME NEW val, ValuesType(val), NEW k \in DOMAIN val
  PROVE  OptionArgs(k, val) \in Texts /\ (k = "--" => OptionArgs(k, val) # <<>>)
<1>1. CASE k = "--"
  <2>1. OptionArgs(k, val) = << <<"-", "-">> >>
    BY <1>1 DEF OptionArgs
  <2>2. <<"-", "-">> \in Text
    BY TextOps, Literals
  <2> QED BY <2>1, <2>2, TextsOps
<1>2. CASE k \in {"_builtIn_searchExec", "env", "unsetEnv"}
  <2>1. val[k] \in Texts
    BY <1>2 DEF ValuesType
  <2>2. {"ExecSearchPath", "Environment", "UnsetEnvironment"} \subseteq Atoms
    BY Literals
  <2>3. OptionArgs(k, val) \in {Settings("ExecSearchPath", val[k]), Settings("Environment", val[k]),
                                Settings("UnsetEnvironment", val[k])}
    BY <1>2 DEF OptionArgs
  <2> QED BY <1>2, <2>1, <2>2, <2>3, SettingsType
<1>3. CASE k = "path"
  <2>1. val["path"] \in Text
    BY <1>3 DEF ValuesType
  <2>2. <<Setting("WorkingDirectory", val["path"])>> \in Texts
    BY <2>1, Literals, SettingType, TextsOps
  <2> QED BY <1>3, <2>2, TextsOps DEF OptionArgs
<1>4. CASE k = "_hooks"
  BY <1>4 DEF OptionArgs, ValuesType
<1>5. CASE k = "uid"
  BY <1>5, RunAsType, TextsOps DEF OptionArgs
<1> QED BY <1>1, <1>2, <1>3, <1>4, <1>5 DEF ValuesType

LEMMA GenerateType ==
  ASSUME NEW val, ValuesType(val)
  PROVE  GenerateCommand(val) \in Texts /\ GenerateCommand(val) # <<>>
<1> DEFINE order == Sorted(DOMAIN val)
           S == Keys(DOMAIN val)
           n == Len(order)
           f == [i \in DOMAIN order |-> OptionArgs(order[i], val)]
<1>1. order \in Seq(S) /\ \E i \in 1..n : order[i] = "--"
  BY SortedType
<1>2. S \subseteq DOMAIN val
  BY DEF Keys, ValuesType
<1>3. GenerateCommand(val) = FlattenSeq(f)
  BY Zenon DEF GenerateCommand
<1> HIDE DEF order, S
<1>4. n \in Nat /\ DOMAIN order = 1..n /\ \A i \in 1..n : order[i] \in DOMAIN val
  BY <1>1, <1>2
<1>5. PICK k \in 1..n : order[k] = "--"
  BY <1>1
<1>6. \A i \in 1..n : OptionArgs(order[i], val) \in Texts
  BY <1>4, OptionArgsType
<1>7. f \in [1..n -> Seq(Text)]
  BY <1>4, <1>6, Zenon DEF Texts
<1>8. f[k] # <<>>
  BY <1>4, <1>5, OptionArgsType DEF ValuesType
<1> HIDE DEF n, f
<1> QED BY <1>3, <1>4, <1>5, <1>7, <1>8, FlattenParts, FlattenNonempty, Zenon DEF Texts

LEMMA CommandsType ==
  ASSUME NEW r \in Requests
  PROVE  Commands(r) \in Texts /\ Len(Commands(r)) >= 1
<1>1. /\ r.searchPath \in Texts /\ r.unset \in Texts
      /\ r.path \in Text /\ r.entryPath \in Text
      /\ LoadHooks(r.hookDirs) \in Texts /\ Environments(r) \in Texts
  BY RequestsAssumption, LoadHooksType, EnvironmentsType DEF RequestType
<1>2. ValuesType(OptionsOf(r))
  BY <1>1 DEF OptionsOf, OptionKeys, Range, OptionValue, ValuesType
<1>3. GenerateCommand(OptionsOf(r)) \in Texts /\ Len(GenerateCommand(OptionsOf(r))) # 0
  BY <1>2, GenerateType DEF Texts
<1>4. Terminal \in Texts
  <2>1. <<"deepin-terminal">> \in Text /\ <<"-", "e">> \in Text /\ <<"-", "-">> \in Text /\ <<"keep-open">> \in Text
    BY TextOps, Literals
  <2>2. <<"-", "-", "keep-open">> = <<"-", "-">> \o <<"keep-open">>
    OBVIOUS
  <2>3. <<"-", "-", "keep-open">> \in Text
    BY <2>1, <2>2, TextOps
  <2> DEFINE o == <<"-", "-", "keep-open">>
  <2>4. Terminal = << <<"deepin-terminal">>, o, <<"-", "e">> >>
    BY Zenon DEF Terminal
  <2> HIDE DEF o
  <2>5. o \in Text
    BY <2>3 DEF o
  <2> QED BY <2>1, <2>4, <2>5 DEF Texts
<1> DEFINE t == IF r.terminal THEN Terminal ELSE <<>>
<1>5. t \in Texts
  BY <1>4, TextsOps
<1>6. Commands(r) = GenerateCommand(OptionsOf(r)) \o t
  BY Zenon DEF Commands
<1> HIDE DEF t
<1> QED BY <1>3, <1>5, <1>6 DEF Texts

-----------------------------------------------------------------------------
(***************************************************************************)
(* The lambda of the job: what an item makes of its resources.             *)
(***************************************************************************)
LEMMA MovedType ==
  ASSUME NEW list \in Texts
  PROVE  /\ Moved(list) \in Texts
         /\ Len(Moved(list)) = Len(list)
         /\ \A i \in 1..Len(list) : Moved(list)[i] = <<>>
  BY TextParts, TextOps DEF Moved, Texts

LEMMA LeftByType ==
  ASSUME NEW list \in Texts
  PROVE  /\ LeftBy(list) \in Texts
         /\ job.adding => LeftBy(list) = list
         /\ ~job.adding => LeftBy(list) = Moved(list)
  BY MovedType, Zenon DEF LeftBy

Formatting == [texts : Texts, argNum : Int]
FormatStep(s, resource) ==
  IF Usable(resource) THEN [s EXCEPT !.texts = Append(@, resource.path)]
  ELSE [s EXCEPT !.argNum = IF Len(s.texts) < @ THEN @ - 1 ELSE @]
FormatsTo(value, argNum, f) ==
  f = [i \in 0..Len(value) |->
         IF i = 0 THEN [texts |-> <<>>, argNum |-> argNum]
         ELSE IF Usable(value[i]) THEN [f[i - 1] EXCEPT !.texts = Append(@, value[i].path)]
         ELSE [f[i - 1] EXCEPT !.argNum = IF Len(f[i - 1].texts) < @ THEN @ - 1 ELSE @]]

LEMMA FormatStepType ==
  ASSUME NEW s \in Formatting, NEW resource \in ResourceType
  PROVE  FormatStep(s, resource) \in Formatting
<1>1. resource.path \in Text
  BY DEF ResourceType
<1>2. Append(s.texts, resource.path) \in Texts /\ s.argNum \in Int
  BY <1>1, TextsOps DEF Formatting
<1> DEFINE lower == IF Len(s.texts) < s.argNum THEN s.argNum - 1 ELSE s.argNum
<1>3. lower \in Int
  BY <1>2
<1>4. FormatStep(s, resource) \in {[s EXCEPT !.texts = Append(@, resource.path)], [s EXCEPT !.argNum = lower]}
  BY Zenon DEF FormatStep
<1> HIDE DEF lower
<1> QED BY <1>2, <1>3, <1>4 DEF Formatting

Formats(value, argNum, read) ==
  /\ read[0] = [texts |-> <<>>, argNum |-> argNum]
  /\ \A i \in 1..Len(value) : read[i] = FormatStep(read[i-1], value[i])
  /\ Formatted(value, argNum) = read[Len(value)]

LEMMA SomeFormats ==
  ASSUME NEW value \in Seq(ResourceType), NEW argNum \in Int
  PROVE  \E read : Formats(value, argNum, read) /\ \A i \in 0..Len(value) : read[i] \in Formatting
<1> DEFINE n == Len(value)
           b == [texts |-> <<>>, argNum |-> argNum]
           g == [i \in 1..n |-> [s \in Formatting |-> FormatStep(s, value[i])]]
           read == CHOOSE f : FormatsTo(value, argNum, f)
<1>1. n \in Nat /\ \A i \in 1..n : value[i] \in ResourceType
  OBVIOUS
<1>2. b \in Formatting
  BY TextsOps DEF Formatting
<1>3. Keeps(n, Formatting, g)
  BY <1>1, FormatStepType DEF Keeps
<1>4. \A i \in 1..n : \A s \in Formatting : g[i][s] = FormatStep(s, value[i])
  BY Zenon
<1>5. Formatted(value, argNum) = read[n]
  BY Zenon DEF Formatted, FormatsTo
<1> HIDE DEF g, b
<1>6. PICK f : StepsOf(n, Formatting, b, g, f)
  <2>1. n \in Nat
    BY <1>1
  <2> HIDE DEF n
  <2> QED BY <2>1, <1>2, <1>3, Recursion
<1>7. FormatsTo(value, argNum, f)
  <2>1. ASSUME NEW i \in 0..n PROVE f[i] = IF i = 0 THEN b ELSE FormatStep(f[i-1], value[i])
    <3>1. i # 0 => i \in 1..n
      BY <1>1
    <3> QED BY <1>4, <1>6, <3>1 DEF StepsOf
  <2>2. f = [i \in 0..n |-> f[i]]
    BY <1>6 DEF StepsOf
  <2> QED BY <2>1, <2>2, Zenon DEF FormatsTo, FormatStep, b
<1>8. FormatsTo(value, argNum, read)
  BY <1>7
<1> HIDE DEF read
<1>9. read[0] = b
  BY <1>1, <1>8 DEF FormatsTo, b
<1>10. ASSUME NEW i \in 1..n PROVE read[i] = FormatStep(read[i-1], value[i])
  <2>1. i \in 0..Len(value) /\ i # 0
    BY <1>1
  <2> QED BY <1>8, <2>1, Zenon DEF FormatsTo, FormatStep
<1>11. \A i \in 0..n : read[i] \in Formatting
  <2>1. \A i \in 1..n : read[i-1] \in Formatting => read[i] \in Formatting
    BY <1>1, <1>10, FormatStepType
  <2>2. n \in Nat /\ read[0] \in Formatting
    BY <1>1, <1>2, <1>9
  <2> HIDE DEF n
  <2> QED BY <2>1, <2>2, KeptAlong, Zenon
<1>12. Formats(value, argNum, read)
  BY <1>5, <1>9, <1>10, Zenon DEF Formats, b
<1> QED BY <1>11, <1>12

LEMMA FormattedType ==
  ASSUME NEW value \in Seq(ResourceType), NEW argNum \in Int
  PROVE  Formatted(value, argNum) \in Formatting
<1>1. PICK read : Formats(value, argNum, read) /\ \A i \in 0..Len(value) : read[i] \in Formatting
  BY SomeFormats
<1>2. Len(value) \in 0..Len(value)
  <2> HIDE DEF ResourceType
  <2> QED OBVIOUS
<1> QED BY <1>1, <1>2 DEF Formats

LEMMA UrlsType ==
  ASSUME NEW value \in Seq(ResourceType)
  PROVE  [i \in DOMAIN value |-> value[i].url] \in Texts
<1> DEFINE n == Len(value)
           f == [i \in 1..n |-> value[i].url]
<1>1. n \in Nat /\ DOMAIN value = 1..n /\ \A i \in 1..n : value[i] \in ResourceType
  <2> HIDE DEF ResourceType
  <2> QED OBVIOUS
<1>2. \A i \in 1..n : value[i].url \in Text
  BY <1>1 DEF ResourceType
<1>3. [i \in DOMAIN value |-> value[i].url] = f
  BY <1>1, Zenon
<1>4. f \in [1..n -> Text]
  BY <1>2, Zenon
<1> HIDE DEF n, f
<1> QED BY <1>1, <1>3, <1>4 DEF Texts

LEMMA ReplaceType ==
  ASSUME NEW arg \in Text, NEW location \in Int, NEW text \in Text
  PROVE  ReplaceCode(arg, location, text) \in Text
  BY PartOfSequence, TextOps DEF ReplaceCode, Text

-----------------------------------------------------------------------------
(***************************************************************************)
(* app-launch-helper.                                                      *)
(***************************************************************************)
LEMMA PairType ==
  ASSUME NEW a \in Text, HasPair(a)
  PROVE  Key(a) \in Atoms /\ Value(a) \in Text
<1> DEFINE places == {i \in DOMAIN a : a[i] = "="}
<1>1. Len(a) \in Nat /\ Len(a) >= 3 /\ DOMAIN a = 1..Len(a) /\ \A i \in 1..Len(a) : a[i] \in Atoms
  BY TextParts DEF HasPair, IsOption
<1>2. places # {} /\ places \subseteq Nat
  BY <1>1 DEF HasPair, Has
<1>3. PICK k \in places : \A i \in places : k <= i
  <2> HIDE DEF places
  <2> QED BY <1>2, LeastNumber
<1>4. k \in DOMAIN a /\ a[k] = "=" /\ \A j \in 1..(k - 1) : a[j] # "="
  BY <1>1, <1>2, <1>3
<1>5. Equals(a) \in DOMAIN a
  BY <1>4, Zenon DEF Equals
<1>6. Key(a) \in Atoms
  <2>1. 3 \in 1..Len(a)
    BY <1>1
  <2>2. "longer" \in Atoms /\ a[3] \in Atoms
    BY <1>1, <2>1, Literals
  <2> QED BY <2>2 DEF Key
<1>7. Value(a) \in Text
  BY <1>1, <1>5, PartOfSequence DEF Text, Value
<1> QED BY <1>6, <1>7

Cuts(args) == {i \in DOMAIN args : args[i] = <<"-", "-">>}
Cut(args) ==
  IF Cuts(args) = {} THEN Len(args) + 1 ELSE CHOOSE i \in Cuts(args) : \A j \in Cuts(args) : i <= j

LEMMA CutPlace ==
  ASSUME NEW args \in Texts
  PROVE  /\ Cut(args) \in 1..(Len(args) + 1)
         /\ Cut(args) \in Cuts(args) \/ Cut(args) = Len(args) + 1
<1>1. Len(args) \in Nat /\ DOMAIN args = 1..Len(args)
  BY TextParts
<1>2. CASE Cuts(args) = {}
  BY <1>1, <1>2 DEF Cut
<1>3. CASE Cuts(args) # {}
  <2>1. Cuts(args) \subseteq Nat /\ Cuts(args) \subseteq 1..Len(args)
    BY <1>1 DEF Cuts
  <2>2. \E i \in Cuts(args) : \A j \in Cuts(args) : i <= j
    BY <1>3, <2>1, LeastNumber
  <2>3. Cut(args) \in Cuts(args)
    BY <1>3, <2>2, Zenon DEF Cut
  <2> QED BY <1>1, <2>1, <2>3
<1> QED BY <1>2, <1>3

LEMMA ParseFields ==
  ASSUME NEW args
  PROVE  LET cut     == Cut(args)
             options == {args[i] : i \in 1..(cut - 1)}
             names   == {i \in 1..(cut - 1) : HasPair(args[i]) /\ Key(args[i]) = "unitName"}
         IN /\ CmdParse(args).refused <=> \E a \in options : ~HasPair(a)
            /\ CmdParse(args).name =
                 IF names = {} THEN <<>> ELSE Value(args[CHOOSE i \in names : \A j \in names : j <= i])
            /\ CmdParse(args).props = Properties(options)
            /\ CmdParse(args).command = SubSeq(args, cut + 1, Len(args))
  BY DEF CmdParse, Cut, Cuts

LEMMA ParseType ==
  ASSUME NEW args \in Texts
  PROVE  /\ CmdParse(args).name \in Text
         /\ CmdParse(args).props \subseteq Atoms \X Text
         /\ CmdParse(args).command \in Texts
<1> DEFINE cut == Cut(args)
           options == {args[i] : i \in 1..(cut - 1)}
           names == {i \in 1..(cut - 1) : HasPair(args[i]) /\ Key(args[i]) = "unitName"}
<1>1. Len(args) \in Nat /\ \A i \in 1..Len(args) : args[i] \in Text
  BY TextParts
<1>2. cut \in 1..(Len(args) + 1)
  BY CutPlace
<1> HIDE DEF cut
<1>3. \A i \in 1..(cut - 1) : args[i] \in Text
  BY <1>1, <1>2
<1>4. CmdParse(args).name \in Text
  <2>1. CmdParse(args).name = IF names = {} THEN <<>> ELSE Value(args[CHOOSE i \in names : \A j \in names : j <= i])
    BY ParseFields, Zenon DEF cut
  <2>2. CASE names = {}
    BY <2>1, <2>2, TextOps
  <2>3. CASE names # {}
    <3> DEFINE k == CHOOSE i \in names : \A j \in names : j <= i
               n == cut - 1
    <3>1. n \in Nat /\ names \subseteq 0..n
      BY <1>1, <1>2
    <3>2. \E i \in names : \A j \in names : j <= i
      <4> HIDE DEF names, n
      <4> QED BY <2>3, <3>1, GreatestNumber
    <3>3. k \in names
      BY <3>2, Zenon
    <3>4. args[k] \in Text /\ HasPair(args[k])
      BY <1>3, <3>3, Zenon
    <3> QED BY <2>1, <2>3, <3>4, PairType, Zenon
  <2> QED BY <2>2, <2>3
<1>5. CmdParse(args).props \subseteq Atoms \X Text
  BY ParseFields, <1>3, PairType DEF cut, Properties
<1>6. CmdParse(args).command \in Texts
  <2>1. CmdParse(args).command = SubSeq(args, cut + 1, Len(args))
    BY ParseFields, Zenon DEF cut
  <2>2. cut + 1 \in Nat \ {0} /\ args \in Seq(Text) /\ Len(args) \in Int
    BY <1>1, <1>2 DEF Texts
  <2> QED BY <2>1, <2>2, PartOfSequence DEF Texts
<1> QED BY <1>4, <1>5, <1>6

LEMMA EncodeType ==
  ASSUME NEW arg \in Text
  PROVE  Encode(arg) \in Text
<1> DEFINE n == Len(arg)
           f == [i \in DOMAIN arg |-> IF arg[i] = "$" THEN <<"$", "$">> ELSE <<arg[i]>>]
<1>1. n \in Nat /\ DOMAIN arg = 1..n /\ \A i \in 1..n : arg[i] \in Atoms
  BY TextParts
<1>2. \A i \in 1..n : (IF arg[i] = "$" THEN <<"$", "$">> ELSE <<arg[i]>>) \in Text
  BY <1>1, TextOps, Literals
<1>3. f \in [1..n -> Seq(Atoms)]
  BY <1>1, <1>2, Zenon DEF Text
<1>4. Encode(arg) \in {<<"\\", ";">>, FlattenSeq(f)}
  BY Zenon DEF Encode
<1>5. <<"\\", ";">> \in Text
  BY TextOps, Literals
<1> HIDE DEF n, f
<1>6. FlattenSeq(f) \in Text
  BY <1>1, <1>3, FlattenParts, Zenon DEF Text
<1> QED BY <1>4, <1>5, <1>6

LEMMA ExecStartType ==
  ASSUME NEW command \in Texts
  PROVE  ExecStart(command) \in Texts
  BY TextParts, EncodeType DEF ExecStart, Texts

-----------------------------------------------------------------------------
(***************************************************************************)
(* The type invariant.  A running job is that of a request.                *)
(***************************************************************************)
Jobs ==
  [state : {"idle", "running", "crashed"}, request : Requests \cup {NoRequest}, items : Items, local : BOOLEAN,
   location : Int, adding : BOOLEAN]
Captures == [cmds : Texts, command : Texts, argNum : Int, extra : Texts]
Places == {"rest", "options", "resources", "command", "helper"}
Workers == [at : Places, value : Seq(ResourceType), args : Texts, resources : Texts, index : Nat, late : BOOLEAN]
Units == [name : Text, props : SUBSET (Atoms \X Text), value : Seq(ResourceType), command : Texts, late : BOOLEAN]

TInv == TypeOK /\ (job.state = "running" => job.request \in Requests)

LEMMA TypeParts ==
  TypeOK <=> /\ job \in Jobs /\ shared \in Captures /\ worker \in [Threads -> Workers]
             /\ units \in Seq(Units) /\ overlap \in {"none", "alone", "more", "raced"}
  BY Zenon DEF TypeOK, Jobs, Items, Captures, Places, Workers, Units

LEMMA NextTypeParts ==
  TypeOK' <=> /\ job' \in Jobs /\ shared' \in Captures /\ worker' \in [Threads -> Workers]
              /\ units' \in Seq(Units) /\ overlap' \in {"none", "alone", "more", "raced"}
  BY Zenon DEF TypeOK, Jobs, Items, Captures, Places, Workers, Units

LEMMA RestTypes ==
  /\ NoJob \in Jobs /\ [NoJob EXCEPT !.state = "crashed"] \in Jobs
  /\ NoJob.state = "idle" /\ [NoJob EXCEPT !.state = "crashed"].state = "crashed"
  /\ NoCaptures \in Captures
  /\ Resting \in Workers /\ Resting.at = "rest"
<1>1. <<>> \in Items /\ <<>> \in Texts /\ <<>> \in Seq(ResourceType)
  BY TextsOps DEF Items
<1>2. NoJob \in Jobs /\ [NoJob EXCEPT !.state = "crashed"] \in Jobs
  <2>1. NoJob \in Jobs
    BY <1>1, SMTT(30) DEF NoJob, Jobs
  <2>2. \A j \in Jobs : [j EXCEPT !.state = "crashed"] \in Jobs
    BY DEF Jobs
  <2> QED BY <2>1, <2>2
<1>3. NoJob.state = "idle" /\ [NoJob EXCEPT !.state = "crashed"].state = "crashed"
  BY DEF NoJob
<1>4. NoCaptures \in Captures
  BY <1>1 DEF NoCaptures, Captures
<1>5. Resting \in Workers /\ Resting.at = "rest"
  BY <1>1 DEF Resting, Workers, Places
<1> QED BY <1>2, <1>3, <1>4, <1>5

(* A thread that takes a step is still one.                                *)
LEMMA Moves ==
  ASSUME NEW w \in Threads, NEW x \in Workers, worker \in [Threads -> Workers]
  PROVE  [worker EXCEPT ![w] = x] \in [Threads -> Workers]
  BY Zenon

LEMMA OwnSettingsType ==
  ASSUME job.request \in Requests
  PROVE  OwnSettings \in Texts /\ Len(OwnSettings) = 3
<1>1. job.request.look.path \in Text
  BY RequestsAssumption DEF RequestType
<1> DEFINE a == Setting("unitName", UnitName)
           b == Setting("SyslogIdentifier", <<"app">>)
           c == Setting("SourcePath", job.request.look.path)
<1>2. UnitName \in Text /\ <<"app">> \in Text
  BY TextOps, Literals DEF UnitName
<1>3. a \in Text /\ b \in Text /\ c \in Text
  BY <1>1, <1>2, Literals, SettingType
<1>4. OwnSettings = <<a, b, c>>
  BY Zenon DEF OwnSettings
<1> HIDE DEF a, b, c
<1> QED BY <1>3, <1>4 DEF Texts

LEMMA InitTypes == Init => TInv
  BY RestTypes, TypeParts DEF Init, TInv

LEMMA LaunchTypes ==
  ASSUME TInv, NEW r \in Requests, Launch(r)
  PROVE  TInv'
<1> DEFINE task == TaskOf(r)
           j == [state |-> "running", request |-> r, items |-> task.items, local |-> task.local,
                 location |-> task.location, adding |-> TRUE]
           s == [cmds |-> Commands(r), command |-> task.command, argNum |-> task.argNum, extra |-> r.extra]
<1>1. TypeOK /\ job.state = "idle"
  BY DEF TInv, Launch
<1>2. j \in Jobs
  BY TaskType DEF Tasks, Jobs
<1>3. s \in Captures
  BY TaskType, CommandsType, RequestsAssumption DEF Tasks, RequestType, Captures
<1>4. worker' = worker /\ units' = units /\ overlap' = overlap
  BY DEF Launch
<1>5. \/ job' = job /\ shared' = shared
      \/ job' = [NoJob EXCEPT !.state = "crashed"] /\ shared' = shared
      \/ job' = j /\ shared' = s
  BY DEF Launch
<1>6. j.request = r
  OBVIOUS
<1> HIDE DEF j, s
<1>7. job' \in Jobs /\ shared' \in Captures /\ (job'.state = "running" => job'.request \in Requests)
  BY <1>1, <1>2, <1>3, <1>5, <1>6, RestTypes, TypeParts
<1> QED BY <1>1, <1>4, <1>7, TypeParts, NextTypeParts DEF TInv

LEMMA BeginItemTypes ==
  ASSUME TInv, NEW w \in Threads, BeginItem(w)
  PROVE  TInv'
<1>1. TypeOK /\ job.request \in Requests /\ job.state = "running"
  BY DEF TInv, BeginItem, At
<1>2. job \in Jobs /\ job.items \in Items /\ job.items # <<>>
  BY <1>1, TypeParts DEF BeginItem, Jobs
<1>3. Head(job.items) \in Seq(ResourceType) /\ Tail(job.items) \in Items
  BY <1>2 DEF Items
<1> DEFINE x == [Resting EXCEPT !.at = "options", !.value = Head(job.items)]
           j == [job EXCEPT !.items = Tail(job.items)]
<1>4. x \in Workers
  BY <1>3, RestTypes DEF Workers, Places
<1>5. j \in Jobs /\ j.request = job.request
  BY <1>2, <1>3 DEF Jobs
<1>6. worker' = [worker EXCEPT ![w] = x] /\ job' = j /\ shared' = shared /\ units' = units
  BY Zenon DEF BeginItem
<1>7. overlap' \in {"none", "alone", "more", "raced"}
  BY <1>1 DEF BeginItem, TypeOK
<1> HIDE DEF x, j
<1>8. worker' \in [Threads -> Workers]
  BY <1>1, <1>4, <1>6, Moves, TypeParts
<1> QED BY <1>1, <1>5, <1>6, <1>7, <1>8, TypeParts, NextTypeParts DEF TInv

(* Threads that take the same step: each of them comes to x[w].            *)
LEMMA Advances ==
  ASSUME worker \in [Threads -> Workers], NEW W \in SUBSET Threads, NEW x, \A w \in W : x[w] \in Workers,
         NEW next, next = [w \in Threads |-> IF w \in W THEN x[w] ELSE worker[w]]
  PROVE  next \in [Threads -> Workers]
  BY Zenon

LEMMA TakeOptionsTypes ==
  ASSUME TInv, NEW W \in SUBSET Threads, W # {}, TakeOptions(W)
  PROVE  TInv'
<1>1. TypeOK /\ job.state = "running" /\ job.request \in Requests
  BY DEF TInv, TakeOptions, At
<1>2. shared \in Captures /\ worker \in [Threads -> Workers]
  BY <1>1, TypeParts
<1>3. shared.cmds \in Texts
  BY <1>2 DEF Captures
<1> DEFINE x == [w \in Threads |-> [worker[w] EXCEPT !.at = "resources", !.args = OwnSettings \o shared.cmds, !.late = ~job.adding]]
<1>4. \A w \in Threads : x[w] \in Workers
  <2>1. OwnSettings \o shared.cmds \in Texts /\ (~job.adding) \in BOOLEAN
    BY <1>1, <1>3, OwnSettingsType, TextsOps
  <2>2. \A u \in Workers, a \in Texts, b \in BOOLEAN : [u EXCEPT !.at = "resources", !.args = a, !.late = b] \in Workers
    BY DEF Workers, Places
  <2>3. \A w \in Threads : worker[w] \in Workers
    BY <1>2
  <2> QED BY <2>1, <2>2, <2>3
<1>5. worker' = [w \in Threads |-> IF w \in W THEN x[w] ELSE worker[w]]
  BY DEF TakeOptions, Advance
<1> HIDE DEF x
<1>6. worker' \in [Threads -> Workers]
  BY <1>2, <1>4, <1>5, Advances
<1>7. shared' \in Captures
  BY <1>3, LeftByType, <1>2 DEF TakeOptions, Captures
<1>8. job' = job /\ units' = units /\ overlap' \in {"none", "alone", "more", "raced"}
  BY <1>1 DEF TakeOptions, Together, TypeOK
<1> QED BY <1>1, <1>6, <1>7, <1>8, TypeParts, NextTypeParts DEF TInv

LEMMA FormatTypes ==
  ASSUME TInv, NEW w \in Threads, FormatResources(w)
  PROVE  TInv'
<1>1. TypeOK /\ job.state = "running" /\ job.request \in Requests
  BY DEF TInv, FormatResources, At
<1>2. shared \in Captures /\ worker \in [Threads -> Workers]
  BY <1>1, TypeParts
<1> DEFINE value == worker[w].value
           local == Formatted(value, shared.argNum)
           urls == [i \in DOMAIN value |-> value[i].url]
<1>3. value \in Seq(ResourceType) /\ shared.argNum \in Int
  BY <1>2 DEF Workers, Captures
<1>4. local.texts \in Texts /\ local.argNum \in Int /\ urls \in Texts
  <2> HIDE DEF value
  <2> QED BY <1>3, FormattedType, UrlsType DEF Formatting
<1>5. \/ /\ worker' = [worker EXCEPT ![w].at = "command", ![w].resources = local.texts]
         /\ shared' = [shared EXCEPT !.argNum = local.argNum]
      \/ worker' = [worker EXCEPT ![w].at = "command", ![w].resources = urls] /\ shared' = shared
  BY Zenon DEF FormatResources
<1> HIDE DEF value, local, urls
<1>6. \A t \in Texts : [worker EXCEPT ![w].at = "command", ![w].resources = t] \in [Threads -> Workers]
  BY <1>2 DEF Workers, Places
<1>7. worker' \in [Threads -> Workers]
  BY <1>4, <1>5, <1>6, Zenon
<1>8. shared' \in Captures
  BY <1>2, <1>4, <1>5 DEF Captures
<1>9. job' = job /\ units' = units /\ overlap' = overlap
  BY DEF FormatResources
<1> QED BY <1>1, <1>7, <1>8, <1>9, TypeParts, NextTypeParts DEF TInv

LEMMA ExpandedType ==
  ASSUME TInv, NEW w \in Threads, NEW arg \in Text
  PROVE  Expanded(w, arg) \in Texts
  BY TypeParts, ReplaceType, TextOps, TextsOps DEF TInv, Workers, Jobs, Expanded, Texts

LEMMA TakeArgumentTypes ==
  ASSUME TInv, NEW W \in SUBSET Threads, W # {}, TakeArgument(W)
  PROVE  TInv'
<1>1. TypeOK /\ job.state = "running" /\ job.request \in Requests
  BY DEF TInv, TakeArgument, At
<1>2. shared \in Captures /\ worker \in [Threads -> Workers]
  BY <1>1, TypeParts
<1>3. Head(shared.command) \in Text /\ Tail(shared.command) \in Texts
  BY <1>2 DEF Captures, TakeArgument, Texts
<1> DEFINE x == [w \in Threads |->
                   [worker[w] EXCEPT !.args = @ \o Expanded(w, Head(shared.command)),
                                     !.resources = IF worker[w].index # shared.argNum THEN @ ELSE <<>>,
                                     !.index = @ + 1]]
<1>4. ASSUME NEW w \in Threads PROVE x[w] \in Workers
  <2> DEFINE u == worker[w]
             e == Expanded(w, Head(shared.command))
             t == IF u.index # shared.argNum THEN u.resources ELSE <<>>
  <2>1. u \in Workers
    BY <1>2
  <2>2. e \in Texts
    BY <1>3, ExpandedType
  <2>3. x[w] = [u EXCEPT !.args = @ \o e, !.resources = t, !.index = @ + 1]
    BY Zenon
  <2>4. t \in Texts
    BY <2>1, TextsOps DEF Workers
  <2> HIDE DEF u, e, t, x
  <2>5. u.args \o e \in Texts
    BY <2>1, <2>2, TextsOps DEF Workers
  <2>6. u.index + 1 \in Nat
    BY <2>1 DEF Workers
  <2>7. \A a \in Texts, b \in Texts, i \in Nat : [u EXCEPT !.args = a, !.resources = b, !.index = i] \in Workers
    BY <2>1 DEF Workers
  <2> QED BY <2>3, <2>4, <2>5, <2>6, <2>7
<1>5. worker' = [w \in Threads |-> IF w \in W THEN x[w] ELSE worker[w]]
  BY DEF TakeArgument, Advance
<1> HIDE DEF x
<1>6. worker' \in [Threads -> Workers]
  BY <1>2, <1>4, <1>5, Advances
<1>7. shared' \in Captures
  <2>1. shared' = [shared EXCEPT !.command = Tail(shared.command)]
    BY Zenon DEF TakeArgument
  <2> QED BY <1>2, <1>3, <2>1 DEF Captures
<1>8. job' = job /\ units' = units /\ overlap' \in {"none", "alone", "more", "raced"}
  BY <1>1 DEF TakeArgument, Together, TypeOK
<1> QED BY <1>1, <1>6, <1>7, <1>8, TypeParts, NextTypeParts DEF TInv

LEMMA ExtraArgsTypes ==
  ASSUME TInv, NEW W \in SUBSET Threads, W # {}, AppendExtraArgs(W)
  PROVE  TInv'
<1>1. TypeOK /\ job.state = "running" /\ job.request \in Requests
  BY DEF TInv, AppendExtraArgs, At
<1>2. shared \in Captures /\ worker \in [Threads -> Workers]
  BY <1>1, TypeParts
<1>3. shared.extra \in Texts
  BY <1>2 DEF Captures
<1> DEFINE x == [w \in Threads |-> [worker[w] EXCEPT !.at = "helper", !.args = @ \o shared.extra]]
<1>4. ASSUME NEW w \in Threads PROVE x[w] \in Workers
  <2> DEFINE u == worker[w]
  <2>1. u \in Workers
    BY <1>2
  <2>2. x[w] = [u EXCEPT !.at = "helper", !.args = @ \o shared.extra]
    BY Zenon
  <2> HIDE DEF u, x
  <2>3. u.args \o shared.extra \in Texts
    BY <1>3, <2>1, TextsOps DEF Workers
  <2> QED BY <2>1, <2>2, <2>3 DEF Workers, Places
<1>5. worker' = [w \in Threads |-> IF w \in W THEN x[w] ELSE worker[w]]
  BY DEF AppendExtraArgs, Advance
<1> HIDE DEF x
<1>6. worker' \in [Threads -> Workers]
  BY <1>2, <1>4, <1>5, Advances
<1>7. shared' \in Captures
  BY <1>3, LeftByType, <1>2 DEF AppendExtraArgs, Captures
<1>8. job' = job /\ units' = units /\ overlap' \in {"none", "alone", "more", "raced"}
  BY <1>1 DEF AppendExtraArgs, Together, TypeOK
<1> QED BY <1>1, <1>6, <1>7, <1>8, TypeParts, NextTypeParts DEF TInv

LEMMA RunHelperTypes ==
  ASSUME TInv, NEW w \in Threads, RunHelper(w)
  PROVE  TInv'
<1> DEFINE u == CmdParse(worker[w].args)
           unit == [name |-> u.name, props |-> u.props, value |-> worker[w].value, command |-> ExecStart(u.command), late |-> worker[w].late]
<1>1. TypeOK /\ worker \in [Threads -> Workers] /\ units \in Seq(Units)
  BY TypeParts DEF TInv
<1>2. worker[w] \in Workers /\ worker[w].args \in Texts /\ worker[w].value \in Seq(ResourceType) /\ worker[w].late \in BOOLEAN
  BY <1>1 DEF Workers
<1>3. unit \in Units
  BY <1>2, ParseType, ExecStartType DEF Units
<1>4. units' = (IF Startable(u) THEN Append(units, unit) ELSE units) /\ worker' = [worker EXCEPT ![w] = Resting]
  BY Zenon DEF RunHelper
<1>5. job' = job /\ shared' = shared /\ overlap' = overlap
  BY DEF RunHelper
<1> HIDE DEF u, unit
<1>6. units' \in Seq(Units)
  BY <1>1, <1>3, <1>4
<1>7. worker' \in [Threads -> Workers]
  BY <1>1, <1>4, Moves, RestTypes
<1> QED BY <1>1, <1>5, <1>6, <1>7, TypeParts, NextTypeParts DEF TInv

LEMMA AddedTypes ==
  ASSUME TInv, AddJobReturns
  PROVE  /\ TInv' /\ job'.state = "running" /\ job.state = "running" /\ job'.request = job.request
         /\ job'.items = job.items /\ job'.local = job.local /\ job'.location = job.location
<1>1. TypeOK /\ job \in Jobs /\ (job.state = "running" => job.request \in Requests)
  BY TypeParts DEF TInv
<1>2. job' = [job EXCEPT !.adding = FALSE] /\ job.state = "running"
  BY Zenon DEF AddJobReturns
<1>3. /\ job' \in Jobs /\ job'.state = "running" /\ job'.request = job.request
      /\ job'.items = job.items /\ job'.local = job.local /\ job'.location = job.location
  BY <1>1, <1>2 DEF Jobs
<1>4. shared' = shared /\ worker' = worker /\ units' = units /\ overlap' = overlap
  BY DEF AddJobReturns
<1> QED BY <1>1, <1>2, <1>3, <1>4, TypeParts, NextTypeParts DEF TInv

LEMMA EndTypes ==
  ASSUME TInv, DataRace \/ EndJob \/ Restart
  PROVE  TInv'
<1>1. TypeOK /\ shared \in Captures /\ worker \in [Threads -> Workers] /\ units \in Seq(Units)
  BY TypeParts DEF TInv
<1>2. [w \in Threads |-> Resting] \in [Threads -> Workers] /\ <<>> \in Seq(Units)
  BY RestTypes
<1>3. worker' \in [Threads -> Workers] /\ shared' \in Captures /\ units' \in Seq(Units)
  BY <1>1, <1>2, RestTypes DEF DataRace, EndJob, Restart
<1>4. job' \in Jobs /\ job'.state # "running"
  BY RestTypes DEF DataRace, EndJob, Restart
<1>5. overlap' \in {"none", "alone", "more", "raced"}
  BY <1>1 DEF DataRace, EndJob, Restart, TypeOK
<1> QED BY <1>3, <1>4, <1>5, NextTypeParts DEF TInv

(* Every state of the program has the types of TypeOK, whatever the        *)
(* requests, the resources and the threads (ApplicationService::Launch,    *)
(* the lambda of its job, app-launch-helper).                              *)
THEOREM TypeCorrect == Spec => []TypeOK
<1>1. Init => TInv
  BY InitTypes
<1>2. TInv /\ [Next]_vars => TInv'
  <2> SUFFICES ASSUME TInv, [Next]_vars PROVE TInv'
    OBVIOUS
  <2>1. CASE UNCHANGED vars
    BY <2>1 DEF TInv, TypeOK, vars
  <2>2. ASSUME NEW r \in Requests, Launch(r) PROVE TInv'
    BY <2>2, LaunchTypes
  <2>3. ASSUME NEW w \in Threads, Item(w) PROVE TInv'
    BY <2>3, BeginItemTypes, TakeOptionsTypes, FormatTypes, TakeArgumentTypes, ExtraArgsTypes,
       RunHelperTypes DEF Item
  <2>4. ASSUME NEW v \in Threads, NEW w \in Threads, Race(v, w) PROVE TInv'
    BY <2>4, TakeOptionsTypes, TakeArgumentTypes, ExtraArgsTypes DEF Race
  <2>5. CASE DataRace \/ EndJob \/ Restart
    BY <2>5, EndTypes
  <2>6. CASE AddJobReturns
    BY <2>6, AddedTypes
  <2> QED BY <2>1, <2>2, <2>3, <2>4, <2>5, <2>6 DEF Next
<1>3. TInv => TypeOK
  BY DEF TInv
<1> QED BY <1>1, <1>2, <1>3, PTL DEF Spec

-----------------------------------------------------------------------------
(***************************************************************************)
(* One late unit.  The item that takes the options when addJob returned    *)
(* leaves a list of the same length with nothing in it, and the helper     *)
(* refuses the arguments that are made of that: the fourth of them is no   *)
(* setting.                                                                *)
(***************************************************************************)
Doomed(args) == Len(args) >= 4 /\ args[4] = <<>> /\ \A i \in 1..3 : args[i] # <<"-", "-">>
Spoilt == shared.cmds[1] = <<>>
Able(w) == worker[w].late /\ worker[w].at \in {"resources", "command", "helper"} /\ ~Doomed(worker[w].args)
NoLate == \A i \in DOMAIN units : ~units[i].late

(* As long as no two items were at a capture at once, at most one late     *)
(* item has the options, and no late unit was asked for before it does.    *)
OneAble ==
  /\ Len(shared.cmds) >= 1
  /\ ~Spoilt => NoLate /\ \A w \in Threads : ~Able(w)
  /\ \A v, w \in Threads : Able(v) /\ Able(w) => v = w
  /\ \A w \in Threads : Able(w) => NoLate

OneInv ==
  /\ TInv
  /\ job.state # "running" => \A w \in Threads : worker[w].at = "rest"
  /\ job.state = "idle" => units = <<>>
  /\ OneLateUnit
  /\ job.state = "running" /\ overlap # "raced" => OneAble

LEMMA DoomedRefused ==
  ASSUME NEW args \in Texts, Doomed(args)
  PROVE  ~Startable(CmdParse(args))
<1> DEFINE cut == Cut(args)
           options == {args[i] : i \in 1..(cut - 1)}
<1>1. Len(args) \in Nat /\ DOMAIN args = 1..Len(args)
  BY TextParts
<1>2. Len(args) >= 4 /\ args[4] = <<>> /\ \A i \in 1..3 : args[i] # <<"-", "-">>
  BY DEF Doomed
<1>3. cut \in Nat /\ 4 \in 1..(cut - 1)
  <2>1. cut \in 1..(Len(args) + 1) /\ (cut \in Cuts(args) \/ cut = Len(args) + 1)
    BY CutPlace
  <2>2. cut \in Cuts(args) => args[cut] = <<"-", "-">>
    BY DEF Cuts
  <2> HIDE DEF cut
  <2>3. cut \notin 1..3
    BY <1>1, <1>2, <2>1, <2>2
  <2>4. args[4] # <<"-", "-">>
    BY <1>2
  <2>5. cut \notin Cuts(args) => cut >= 5
    BY <1>1, <1>2, <2>1
  <2>6. cut # 4
    BY <2>2, <2>4, <2>5
  <2>7. cut \in Nat /\ cut > 4
    BY <1>1, <2>1, <2>3, <2>6
  <2> QED BY <2>7
<1>4. <<>> \in options
  BY <1>2, <1>3
<1>5. ~HasPair(<<>>)
  BY DEF HasPair, IsOption
<1>6. CmdParse(args).refused
  <2>1. CmdParse(args).refused <=> \E a \in options : ~HasPair(a)
    BY ParseFields, Zenon
  <2> HIDE DEF options
  <2> QED BY <1>4, <1>5, <2>1
<1> QED BY <1>6, Zenon DEF Startable

LEMMA DoomedLonger ==
  ASSUME NEW args \in Texts, NEW more \in Texts, Doomed(args)
  PROVE  Doomed(args \o more)
  BY DEF Doomed, Texts

LEMMA DoomedOptions ==
  ASSUME job.request \in Requests, NEW cmds \in Texts, Len(cmds) >= 1, cmds[1] = <<>>
  PROVE  Doomed(OwnSettings \o cmds)
<1> DEFINE a == Setting("unitName", UnitName)
           b == Setting("SyslogIdentifier", <<"app">>)
           c == Setting("SourcePath", job.request.look.path)
<1>1. OwnSettings \in Texts /\ OwnSettings = <<a, b, c>>
  BY OwnSettingsType, Zenon DEF OwnSettings
<1>2. \A key \in Atoms, word \in Text : Setting(key, word) # <<"-", "-">>
  <2> TAKE key \in Atoms, word \in Text
  <2>1. <<"-", "-">> \in Seq(Atoms) /\ <<key, "=">> \in Seq(Atoms) /\ word \in Seq(Atoms)
    BY TextOps, Literals DEF Text
  <2>2. <<"-", "-", key, "=">> = <<"-", "-">> \o <<key, "=">>
    OBVIOUS
  <2>3. <<"-", "-", key, "=">> \in Seq(Atoms)
    BY <2>1, <2>2
  <2>4. Len(Setting(key, word)) = 4 + Len(word) /\ Len(word) \in Nat
    BY <2>1, <2>3 DEF Setting
  <2>5. SUFFICES ASSUME Setting(key, word) = <<"-", "-">> PROVE FALSE
    OBVIOUS
  <2>6. Len(<<"-", "-">>) = 2
    OBVIOUS
  <2>7. 4 + Len(word) = 2
    BY <2>4, <2>5, <2>6, Zenon
  <2> QED BY <2>4, <2>7
<1>3. UnitName \in Text /\ <<"app">> \in Text /\ job.request.look.path \in Text
  BY TextOps, Literals, RequestsAssumption DEF UnitName, RequestType
<1>4. a # <<"-", "-">> /\ b # <<"-", "-">> /\ c # <<"-", "-">>
  BY <1>2, <1>3, Literals
<1> HIDE DEF a, b, c
<1> DEFINE s == <<a, b, c>> \o cmds
<1>5. Len(s) >= 4 /\ s[1] = a /\ s[2] = b /\ s[3] = c /\ s[4] = <<>>
  BY <1>1 DEF Texts
<1> HIDE DEF s
<1>6. Doomed(s)
  <2> DEFINE d == <<"-", "-">>
  <2>1. a # d /\ b # d /\ c # d
    BY <1>4
  <2> HIDE DEF d
  <2>2. \A i \in 1..3 : s[i] # d
    BY <1>5, <2>1
  <2> QED BY <1>5, <2>2, Zenon DEF Doomed, d
<1> QED BY <1>1, <1>6 DEF s

(* A step after which no more items are able, the list of commands is as   *)
(* empty as it was, and no unit was added.                                 *)
LEMMA OneAbleKept ==
  ASSUME OneAble, shared'.cmds = shared.cmds, units' = units,
         \A w \in Threads : Able(w)' => Able(w)
  PROVE  OneAble'
  BY DEF Spoilt, OneAble, NoLate

(* A unit more: the last.                                                  *)
LEMMA UnitAdded ==
  ASSUME units \in Seq(Units), NEW unit \in Units, units' = Append(units, unit)
  PROVE  \A i \in DOMAIN units' : \/ i \in DOMAIN units /\ units'[i] = units[i]
                                  \/ i = Len(units) + 1 /\ units'[i] = unit
  OBVIOUS

(* What the steps of one item do to the overlap, and those of two.         *)
LEMMA Overlaps ==
  /\ \A w \in Threads : Together({w}) => overlap' = overlap
  /\ \A v, w \in Threads : v # w /\ Together({v, w}) => overlap' = "raced"
<1>1. ASSUME NEW w \in Threads, Together({w}) PROVE overlap' = overlap
  <2>1. Cardinality({w}) = 1
    BY FS_Singleton
  <2> QED BY <1>1, <2>1 DEF Together
<1>2. ASSUME NEW v \in Threads, NEW w \in Threads, v # w, Together({v, w}) PROVE overlap' = "raced"
  <2>1. IsFiniteSet({v}) /\ Cardinality({v}) = 1
    BY FS_Singleton
  <2>2. Cardinality({v} \cup {w}) = Cardinality({v}) + 1
    BY <1>2, <2>1, FS_AddElement
  <2>3. {v} \cup {w} = {v, w}
    OBVIOUS
  <2>4. Cardinality({v, w}) > 1
    BY <2>1, <2>2, <2>3
  <2> QED BY <1>2, <2>4 DEF Together
<1> QED BY <1>1, <1>2

LEMMA OneInit == Init => OneInv
  BY InitTypes, RestTypes DEF Init, OneLateUnit, OneInv

LEMMA OneLaunch ==
  ASSUME OneInv, NEW r \in Requests, Launch(r)
  PROVE  OneInv'
<1> DEFINE task == TaskOf(r)
<1>1. TInv /\ TInv'
  BY LaunchTypes DEF OneInv
<1>2. /\ job.state = "idle" /\ units = <<>> /\ \A w \in Threads : worker[w].at = "rest"
      /\ worker' = worker /\ units' = units /\ overlap' = overlap
  BY DEF Launch, OneInv
<1>3. OneLateUnit'
  BY <1>2 DEF OneLateUnit
<1>4. job'.state = "running" => shared'.cmds = Commands(r)
  <2>1. CASE ~HasExec(r)
    BY <1>2, <2>1, Zenon DEF Launch
  <2>2. CASE HasExec(r) /\ r.uid = "unknown"
    <3>1. job' = [NoJob EXCEPT !.state = "crashed"]
      BY <2>2, Zenon DEF Launch
    <3> QED BY <3>1, RestTypes
  <2>3. CASE HasExec(r) /\ r.uid # "unknown" /\ Invalid(LineOf(r), task)
    BY <2>3, <1>2 DEF Launch
  <2>4. CASE HasExec(r) /\ r.uid # "unknown" /\ ~Invalid(LineOf(r), task)
    BY <2>4 DEF Launch
  <2> QED BY <2>1, <2>2, <2>3, <2>4
<1>5. ASSUME job'.state = "running" PROVE OneAble'
  <2>1. NoLate' /\ \A w \in Threads : ~Able(w)'
    BY <1>2 DEF Able, NoLate
  <2>2. Len(shared'.cmds) >= 1
    BY <1>4, <1>5, CommandsType
  <2> QED BY <2>1, <2>2 DEF OneAble
<1> QED BY <1>1, <1>2, <1>3, <1>5 DEF OneInv

LEMMA OneBegin ==
  ASSUME OneInv, NEW w \in Threads, BeginItem(w)
  PROVE  OneInv'
<1>1. TInv' /\ worker \in [Threads -> Workers] /\ job \in Jobs
  BY BeginItemTypes, TypeParts DEF OneInv, TInv
<1>2. job.state = "running" /\ shared' = shared /\ units' = units
  BY DEF BeginItem, At
<1>3. overlap' = "raced" <=> overlap = "raced"
  BY DEF BeginItem
<1>4. job'.state = "running"
  BY <1>1, <1>2 DEF BeginItem, Jobs
<1>5. OneLateUnit'
  BY <1>2, <1>3 DEF OneInv, OneLateUnit
<1>6. ASSUME overlap' # "raced" PROVE OneAble'
  BY <1>2, <1>3, <1>6, <1>1, OneAbleKept DEF OneInv, BeginItem, Resting, Able
<1> QED BY <1>1, <1>4, <1>5, <1>6 DEF OneInv

(* A step of two items at once is a race, after which nothing is said.     *)
LEMMA OneRace ==
  ASSUME OneInv, NEW v \in Threads, NEW w \in Threads, Race(v, w)
  PROVE  OneInv'
  BY TakeOptionsTypes, TakeArgumentTypes, ExtraArgsTypes, Overlaps DEF Race, OneInv, TakeOptions,
     TakeArgument, AppendExtraArgs, At, OneLateUnit

(* The first item to take the options is the one that is able.             *)
LEMMA OneOptions ==
  ASSUME OneInv, NEW w \in Threads, TakeOptions({w})
  PROVE  OneInv'
<1>1. {w} \in SUBSET Threads /\ {w} # {}
  OBVIOUS
<1>2. TInv /\ TInv' /\ worker \in [Threads -> Workers] /\ shared \in Captures
  BY <1>1, TakeOptionsTypes, TypeParts DEF OneInv, TInv
<1>3. overlap' = overlap /\ job' = job /\ units' = units /\ job.state = "running" /\ job.request \in Requests
  BY <1>2, Overlaps DEF TakeOptions, At, TInv
<1>4. OneLateUnit'
  BY <1>3 DEF OneInv, OneLateUnit
<1>5. ASSUME overlap # "raced" PROVE OneAble'
  <2>1. OneAble
    BY <1>3, <1>5 DEF OneInv
  <2>2. shared.cmds \in Texts /\ Len(shared.cmds) >= 1 /\ Len(shared.cmds) \in Nat
    BY <1>2, <2>1, TextParts DEF Captures, OneAble
  <2>3. Len(shared'.cmds) >= 1 /\ (Spoilt \/ ~job.adding => Spoilt') /\ (job.adding => shared'.cmds = shared.cmds)
    BY <1>2, <2>2, MovedType, LeftByType DEF TakeOptions, Captures, Spoilt
  <2>4. ASSUME NEW v \in Threads, v # w PROVE Able(v)' <=> Able(v)
    <3>1. worker'[v] = worker[v]
      BY <1>2, <2>4 DEF TakeOptions, Advance
    <3> QED BY <3>1 DEF Able
  <2>5. worker'[w].args = OwnSettings \o shared.cmds /\ worker'[w].late = ~job.adding
    BY <1>2 DEF TakeOptions, Advance, Workers
  <2>6. CASE Spoilt \/ job.adding
    <3>1. ~Able(w)'
      BY <1>3, <2>2, <2>5, <2>6, DoomedOptions DEF Spoilt, Able
    <3>2. \A v \in Threads : Able(v)' => Able(v)
      BY <2>4, <3>1
    <3> QED BY <1>3, <2>1, <2>3, <2>6, <3>2 DEF OneAble, NoLate, Spoilt
  <2>7. CASE ~Spoilt /\ ~job.adding
    BY <2>1, <2>7, <2>4, <1>3, <2>3 DEF OneAble, NoLate
  <2> QED BY <2>6, <2>7
<1> QED BY <1>2, <1>3, <1>4, <1>5 DEF OneInv

(* The other statements only add to the arguments of an item.              *)
LEMMA OneFormat ==
  ASSUME OneInv, NEW w \in Threads, FormatResources(w)
  PROVE  OneInv'
<1>1. TInv' /\ worker \in [Threads -> Workers] /\ shared \in Captures
  BY FormatTypes, TypeParts DEF OneInv, TInv
<1>2. job' = job /\ units' = units /\ overlap' = overlap /\ job.state = "running" /\ worker[w].at = "resources"
  BY DEF FormatResources, At
<1>3. OneLateUnit'
  BY <1>2 DEF OneInv, OneLateUnit
<1>4. ASSUME overlap # "raced" PROVE OneAble'
  <2>1. OneAble
    BY <1>2, <1>4 DEF OneInv
  <2>2. shared'.cmds = shared.cmds
    BY <1>1 DEF FormatResources, Captures
  <2>3. worker'[w].args = worker[w].args /\ worker'[w].late = worker[w].late /\ \A v \in Threads : v # w => worker'[v] = worker[v]
    BY <1>1 DEF FormatResources, Workers
  <2>4. \A v \in Threads : Able(v)' => Able(v)
    BY <1>2, <2>3 DEF Able
  <2> QED BY <1>2, <2>1, <2>2, <2>4, OneAbleKept
<1> QED BY <1>1, <1>2, <1>3, <1>4 DEF OneInv

LEMMA OneArgument ==
  ASSUME OneInv, NEW w \in Threads, TakeArgument({w})
  PROVE  OneInv'
<1>1. {w} \in SUBSET Threads /\ {w} # {}
  OBVIOUS
<1>2. TInv /\ TInv' /\ worker \in [Threads -> Workers] /\ shared \in Captures
  BY <1>1, TakeArgumentTypes, TypeParts DEF OneInv, TInv
<1>3. overlap' = overlap /\ job' = job /\ units' = units /\ job.state = "running" /\ worker[w].at = "command"
  BY Overlaps DEF TakeArgument, At
<1>4. OneLateUnit'
  BY <1>3 DEF OneInv, OneLateUnit
<1>5. ASSUME overlap # "raced" PROVE OneAble'
  <2>1. OneAble
    BY <1>3, <1>5 DEF OneInv
  <2>2. shared'.cmds = shared.cmds
    BY <1>2 DEF TakeArgument, Captures
  <2> DEFINE e == Expanded(w, Head(shared.command))
  <2>3. worker'[w].args = worker[w].args \o e /\ worker'[w].late = worker[w].late
    BY <1>2 DEF TakeArgument, Advance, Workers
  <2>4. \A v \in Threads : v # w => worker'[v] = worker[v]
    BY <1>2 DEF TakeArgument, Advance
  <2>5. worker[w].args \in Texts /\ e \in Texts
    BY <1>2, ExpandedType DEF Captures, TakeArgument, Texts, Workers
  <2> HIDE DEF e
  <2>6. Doomed(worker[w].args) => Doomed(worker'[w].args)
    BY <2>3, <2>5, DoomedLonger
  <2>7. \A v \in Threads : Able(v)' => Able(v)
    BY <1>3, <2>3, <2>4, <2>6 DEF Able
  <2> QED BY <1>3, <2>1, <2>2, <2>7, OneAbleKept
<1> QED BY <1>2, <1>3, <1>4, <1>5 DEF OneInv

LEMMA OneExtraArgs ==
  ASSUME OneInv, NEW w \in Threads, AppendExtraArgs({w})
  PROVE  OneInv'
<1>1. {w} \in SUBSET Threads /\ {w} # {}
  OBVIOUS
<1>2. TInv /\ TInv' /\ worker \in [Threads -> Workers] /\ shared \in Captures
  BY <1>1, ExtraArgsTypes, TypeParts DEF OneInv, TInv
<1>3. overlap' = overlap /\ job' = job /\ units' = units /\ job.state = "running" /\ worker[w].at = "command"
  BY Overlaps DEF AppendExtraArgs, At
<1>4. OneLateUnit'
  BY <1>3 DEF OneInv, OneLateUnit
<1>5. ASSUME overlap # "raced" PROVE OneAble'
  <2>1. OneAble
    BY <1>3, <1>5 DEF OneInv
  <2>2. shared'.cmds = shared.cmds
    BY <1>2 DEF AppendExtraArgs, Captures
  <2>3. worker'[w].args = worker[w].args \o shared.extra /\ worker'[w].late = worker[w].late
    BY <1>2 DEF AppendExtraArgs, Advance, Workers
  <2>4. \A v \in Threads : v # w => worker'[v] = worker[v]
    BY <1>2 DEF AppendExtraArgs, Advance
  <2>5. worker[w].args \in Texts /\ shared.extra \in Texts
    BY <1>2 DEF Workers, Captures
  <2>6. Doomed(worker[w].args) => Doomed(worker'[w].args)
    BY <2>3, <2>5, DoomedLonger
  <2>7. \A v \in Threads : Able(v)' => Able(v)
    BY <1>3, <2>3, <2>4, <2>6 DEF Able
  <2> QED BY <1>3, <2>1, <2>2, <2>7, OneAbleKept
<1> QED BY <1>2, <1>3, <1>4, <1>5 DEF OneInv

(* Only an able item gets a unit, and it is the last that was able.        *)
LEMMA OneHelper ==
  ASSUME OneInv, NEW w \in Threads, RunHelper(w)
  PROVE  OneInv'
<1> DEFINE u == CmdParse(worker[w].args)
           unit == [name |-> u.name, props |-> u.props, value |-> worker[w].value, command |-> ExecStart(u.command), late |-> worker[w].late]
<1>1. TInv' /\ worker \in [Threads -> Workers] /\ units \in Seq(Units)
  BY RunHelperTypes, TypeParts DEF OneInv, TInv
<1>2. job' = job /\ shared' = shared /\ overlap' = overlap /\ job.state = "running" /\ worker[w].at = "helper"
  BY DEF RunHelper, At
<1>3. units' = IF Startable(u) THEN Append(units, unit) ELSE units
  BY Zenon DEF RunHelper
<1>4. worker'[w].at = "rest" /\ \A v \in Threads : v # w => worker'[v] = worker[v]
  BY <1>1, RestTypes DEF RunHelper
<1>5. worker[w] \in Workers /\ worker[w].args \in Texts
  BY <1>1 DEF Workers
<1>6. unit \in Units /\ unit.late = worker[w].late
  BY <1>5, ParseType, ExecStartType DEF Units, Workers
<1>7. Startable(u) /\ worker[w].late => Able(w)
  BY <1>5, DoomedRefused, <1>2 DEF Able
<1> HIDE DEF u, unit
<1>8. ASSUME NEW v \in Threads, Able(v)' PROVE Able(v) /\ v # w
  BY <1>4, <1>8 DEF Able
<1>9. ASSUME overlap # "raced" PROVE OneAble' /\ OneLateUnit'
  <2>1. OneAble /\ OneLateUnit
    BY <1>2, <1>9 DEF OneInv
  <2>2. CASE ~Startable(u)
    BY <1>2, <1>3, <1>8, <2>1, <2>2, OneAbleKept DEF OneLateUnit
  <2>3. CASE Startable(u)
    <3>1. \A i \in DOMAIN units' : \/ i \in DOMAIN units /\ units'[i] = units[i]
                                   \/ i = Len(units) + 1 /\ units'[i] = unit
      BY <1>1, <1>3, <1>6, <2>3, UnitAdded
    <3>2. CASE worker[w].late
      <4>1. NoLate /\ Spoilt /\ \A v \in Threads : ~Able(v)'
        BY <1>7, <1>8, <2>1, <2>3, <3>2 DEF OneAble
      <4>2. OneLateUnit'
        BY <3>1, <4>1 DEF NoLate, OneLateUnit
      <4> QED BY <1>2, <2>1, <4>1, <4>2 DEF OneAble, Spoilt
    <3>3. CASE ~worker[w].late
      <4>1. \A i \in DOMAIN units' : units'[i].late => i \in DOMAIN units /\ units[i].late
        BY <1>6, <3>1, <3>3
      <4>2. OneLateUnit' /\ (NoLate => NoLate')
        BY <1>9, <2>1, <4>1 DEF OneLateUnit, NoLate
      <4> QED BY <1>2, <1>8, <2>1, <4>2 DEF OneAble, Spoilt
    <3> QED BY <3>2, <3>3
  <2> QED BY <2>2, <2>3
<1>10. OneLateUnit'
  BY <1>2, <1>9 DEF OneLateUnit
<1> QED BY <1>1, <1>2, <1>9, <1>10 DEF OneInv

LEMMA OneAdded ==
  ASSUME OneInv, AddJobReturns
  PROVE  OneInv'
<1>1. TInv' /\ job'.state = "running" /\ job.state = "running"
  BY AddedTypes DEF OneInv
<1>2. shared' = shared /\ worker' = worker /\ units' = units /\ overlap' = overlap
  BY DEF AddJobReturns
<1> QED BY <1>1, <1>2, OneAbleKept DEF OneInv, OneLateUnit, Able

LEMMA OneEnd ==
  ASSUME OneInv, DataRace \/ EndJob \/ Restart
  PROVE  OneInv'
<1>1. TInv' /\ job'.state # "running"
  BY EndTypes, RestTypes DEF OneInv, DataRace, EndJob, Restart
<1>2. CASE DataRace
  BY <1>2, RestTypes, <1>1 DEF DataRace, OneInv, OneLateUnit
<1>3. CASE EndJob
  BY <1>3, <1>1 DEF EndJob, Busy, OneLateUnit, OneInv
<1>4. CASE Restart
  BY <1>4, <1>1 DEF Restart, OneLateUnit, OneInv
<1> QED BY <1>2, <1>3, <1>4

LEMMA OneNext == OneInv /\ [Next]_vars => OneInv'
<1> SUFFICES ASSUME OneInv, [Next]_vars PROVE OneInv'
  OBVIOUS
<1>1. CASE UNCHANGED vars
  BY <1>1 DEF OneInv, TInv, TypeOK, OneLateUnit, OneAble, Able, Spoilt, NoLate, vars
<1>2. ASSUME NEW r \in Requests, Launch(r) PROVE OneInv'
  BY <1>2, OneLaunch
<1>3. ASSUME NEW w \in Threads, Item(w) PROVE OneInv'
  BY <1>3, OneBegin, OneOptions, OneFormat, OneArgument, OneExtraArgs, OneHelper DEF Item
<1>4. ASSUME NEW v \in Threads, NEW w \in Threads, Race(v, w) PROVE OneInv'
  BY <1>4, OneRace
<1>5. CASE DataRace \/ EndJob \/ Restart
  BY <1>5, OneEnd
<1>6. CASE AddJobReturns
  BY <1>6, OneAdded
<1> QED BY <1>1, <1>2, <1>3, <1>4, <1>5, <1>6 DEF Next

(* Of the items of a launch that take the options when addJob has returned *)
(* at most one gets a unit, for any number of resources and of threads,    *)
(* unless two items were at a capture at the same time: the next finds the *)
(* options moved away, and the helper refuses what is left of them (the    *)
(* std::move of the captures in the lambda of ApplicationService::Launch,  *)
(* cmdParse).                                                              *)
THEOREM OneLateUnitPerLaunch == Spec => []OneLateUnit
<1>1. Init => OneInv
  BY OneInit
<1>2. OneInv /\ [Next]_vars => OneInv'
  BY OneNext
<1>3. OneInv => OneLateUnit
  BY DEF OneInv
<1> QED BY <1>1, <1>2, <1>3, PTL DEF Spec

(* What holds at 0 and goes from each number to the next holds up to n.    *)
LEMMA CountUp ==
  ASSUME NEW n \in Nat, NEW T, 0 \in T, \A i \in 1..n : i - 1 \in T => i \in T
  PROVE  \A i \in 0..n : i \in T
<1> DEFINE f == [i \in 0..n |-> i]
<1>1. \A i \in 0..n : f[i] = i
  OBVIOUS
<1>2. f[0] \in T /\ \A i \in 1..n : f[i-1] \in T => f[i] \in T
  BY <1>1
<1> HIDE DEF f
<1>3. \A i \in 0..n : f[i] \in T
  BY <1>2, KeptAlong
<1> QED BY <1>1, <1>3

(* FlattenSeq joins parts from the left.                                   *)
Joins(ss, m, f) == \A i \in 1..m : f[i] = IF i = 1 THEN ss[i] ELSE f[i-1] \o ss[i]

LEMMA JoinsUnique ==
  ASSUME NEW m \in Nat, NEW ss, NEW f, Joins(ss, m, f), NEW g, Joins(ss, m, g)
  PROVE  \A i \in 1..m : f[i] = g[i]
<1> DEFINE B == {i \in 1..m : f[i] # g[i]}
<1>1. SUFFICES ASSUME B # {} PROVE FALSE
  OBVIOUS
<1>2. PICK j \in B : \A i \in B : j <= i
  <2>1. B \subseteq Nat
    OBVIOUS
  <2> HIDE DEF B
  <2> QED BY <1>1, <2>1, LeastNumber
<1>3. j \in 1..m /\ f[j] # g[j]
  OBVIOUS
<1>4. j # 1
  BY <1>3 DEF Joins
<1>5. j - 1 \in 1..m /\ j - 1 \notin B
  BY <1>2, <1>3, <1>4
<1>6. f[j-1] = g[j-1]
  BY <1>5
<1> QED BY <1>3, <1>4, <1>6 DEF Joins

Join(f, m) == FlattenSeq([i \in 1..m |-> f[i]])

LEMMA JoinNone == \A f : Join(f, 0) = <<>>
  BY DEF Join, FlattenSeq

LEMMA JoinIs ==
  ASSUME NEW S, NEW n \in Nat \ {0}, NEW f \in [1..n -> Seq(S)]
  PROVE  \E g : Joins(f, n, g) /\ Join(f, n) = g[n]
<1> DEFINE h == [i \in 1..n |-> f[i]]
           g == CHOOSE g : FlattensTo(h, n, g)
<1>1. h \in Seq(Seq(S)) /\ Len(h) = n /\ \A i \in 1..n : h[i] = f[i]
  OBVIOUS
<1> HIDE DEF h
<1>2. FlattensTo(h, n, g) /\ FlattenSeq(h) = g[n]
  BY <1>1, FlattenExists DEF FlattenSeq, FlattensTo
<1> HIDE DEF g
<1>3. Joins(f, n, g)
  <2>1. \A i \in 1..n : g[i] = IF i = 1 THEN h[i] ELSE g[i-1] \o h[i]
    BY <1>2 DEF FlattensTo
  <2> QED BY <1>1, <2>1 DEF Joins
<1>4. Join(f, n) = FlattenSeq(h)
  BY DEF Join, h
<1> QED BY <1>2, <1>3, <1>4

LEMMA JoinType ==
  ASSUME NEW S, NEW n \in Nat, NEW f \in [1..n -> Seq(S)]
  PROVE  FlattenSeq(f) = Join(f, n) /\ \A m \in 0..n : Join(f, m) \in Seq(S)
  BY FlattenParts DEF Join

LEMMA JoinNext ==
  ASSUME NEW S, NEW n \in Nat, NEW f \in [1..n -> Seq(S)], NEW m \in 1..n
  PROVE  Join(f, m) = Join(f, m - 1) \o f[m]
<1>1. PICK g : Joins(f, m, g) /\ Join(f, m) = g[m]
  <2> DEFINE h == [i \in 1..m |-> f[i]]
  <2>1. h \in [1..m -> Seq(S)] /\ m \in Nat \ {0} /\ \A i \in 1..m : h[i] = f[i]
    OBVIOUS
  <2>2. [i \in 1..m |-> h[i]] = [i \in 1..m |-> f[i]]
    OBVIOUS
  <2> HIDE DEF h
  <2>3. PICK g : Joins(h, m, g) /\ Join(h, m) = g[m]
    BY <2>1, JoinIs
  <2>4. Joins(f, m, g)
    BY <2>1, <2>3 DEF Joins
  <2>5. Join(f, m) = Join(h, m)
    BY <2>2, Zenon DEF Join
  <2> QED BY <2>3, <2>4, <2>5
<1>2. CASE m = 1
  <2>1. 1 \in 1..1 /\ m - 1 = 0 /\ f[m] \in Seq(S)
    BY <1>2
  <2>2. Join(f, m) = f[m]
    BY <1>1, <1>2, <2>1 DEF Joins
  <2>3. <<>> \o f[m] = f[m]
    BY <2>1
  <2> QED BY <2>1, <2>2, <2>3, JoinNone
<1>3. CASE m # 1
  <2>1. m - 1 \in Nat \ {0} /\ m - 1 \in 1..n /\ m \in 1..m
    BY <1>3
  <2> DEFINE h == [i \in 1..(m-1) |-> f[i]]
  <2>2. h \in [1..(m-1) -> Seq(S)] /\ \A i \in 1..(m-1) : h[i] = f[i]
    OBVIOUS
  <2>3. [i \in 1..(m-1) |-> h[i]] = [i \in 1..(m-1) |-> f[i]]
    OBVIOUS
  <2> HIDE DEF h
  <2>4. PICK k : Joins(h, m - 1, k) /\ Join(h, m - 1) = k[m-1]
    BY <2>1, <2>2, JoinIs
  <2>5. Joins(f, m - 1, k) /\ Joins(f, m - 1, g)
    BY <1>1, <2>2, <2>4 DEF Joins
  <2>6. k[m-1] = g[m-1]
    BY <2>1, <2>5, JoinsUnique
  <2>7. Join(f, m - 1) = g[m-1]
    <3>1. Join(f, m - 1) = Join(h, m - 1)
      BY <2>3, Zenon DEF Join
    <3> QED BY <2>4, <2>6, <3>1
  <2>8. g[m] = g[m-1] \o f[m]
    BY <1>1, <1>3, <2>1 DEF Joins
  <2> QED BY <1>1, <2>7, <2>8
<1> QED BY <1>2, <1>3

(* Sequences put together.                                                 *)
LEMMA ConcatAssoc ==
  ASSUME NEW S, NEW a \in Seq(S), NEW b \in Seq(S), NEW c \in Seq(S)
  PROVE  (a \o b) \o c = a \o (b \o c)
  OBVIOUS

LEMMA ConcatEmpty ==
  \A S : \A s \in Seq(S) : s \o <<>> = s /\ <<>> \o s = s
  OBVIOUS

LEMMA AppendIs ==
  ASSUME NEW S, NEW s \in Seq(S), NEW x \in S
  PROVE  Append(s, x) = s \o <<x>> /\ <<x>> \in Seq(S)
  OBVIOUS

LEMMA ConcatAt ==
  ASSUME NEW S, NEW a \in Seq(S), NEW b \in Seq(S)
  PROVE  /\ \A i \in 1..Len(a) : (a \o b)[i] = a[i]
         /\ \A i \in 1..Len(b) : (a \o b)[Len(a) + i] = b[i]
         /\ Len(a \o b) = Len(a) + Len(b) /\ a \o b \in Seq(S)
  OBVIOUS
LEMMA PairJoin ==
  ASSUME NEW S, NEW a \in S, NEW b \in S
  PROVE  <<a>> \o <<b>> = <<a, b>>
<1> DEFINE k == <<a>>
           l == <<b>>
           x == k \o l
           y == <<a, b>>
<1>1. k \in Seq(S) /\ l \in Seq(S) /\ Len(k) = 1 /\ Len(l) = 1 /\ k[1] = a /\ l[1] = b
  OBVIOUS
<1>2. y \in Seq(S) /\ Len(y) = 2 /\ y[1] = a /\ y[2] = b
  OBVIOUS
<1> HIDE DEF k, l, y
<1>3. /\ \A i \in 1..Len(k) : x[i] = k[i]
      /\ \A i \in 1..Len(l) : x[Len(k) + i] = l[i]
      /\ Len(x) = Len(k) + Len(l) /\ x \in Seq(S)
  BY <1>1, ConcatAt
<1> HIDE DEF x
<1>4. Len(x) = 2 /\ x[1] = a /\ x[2] = b
  BY <1>1, <1>3
<1>5. x = y
  BY <1>2, <1>3, <1>4
<1> QED BY <1>5 DEF x, y, k, l

(* The parts of two sequences of parts.                                    *)
TwoLists(S, m, n, f, g, h) ==
  /\ m \in Nat /\ n \in Nat /\ f \in [1..m -> Seq(S)] /\ g \in [1..n -> Seq(S)] /\ h \in [1..(m + n) -> Seq(S)]
  /\ \A i \in 1..m : h[i] = f[i]
  /\ \A i \in 1..n : h[m + i] = g[i]

LEMMA FlattenTwo ==
  ASSUME NEW S, NEW m, NEW n, NEW f, NEW g, NEW h, TwoLists(S, m, n, f, g, h)
  PROVE  FlattenSeq(h) = FlattenSeq(f) \o FlattenSeq(g)
<1> DEFINE l == m + n
<1>0. /\ m \in Nat /\ n \in Nat /\ l \in Nat /\ l = m + n
      /\ f \in [1..m -> Seq(S)] /\ g \in [1..n -> Seq(S)] /\ h \in [1..l -> Seq(S)]
      /\ \A i \in 1..m : h[i] = f[i]
      /\ \A i \in 1..n : h[m + i] = g[i]
  BY DEF TwoLists
<1> HIDE DEF l
<1> USE <1>0
<1>1. FlattenSeq(f) = Join(f, m) /\ FlattenSeq(g) = Join(g, n) /\ FlattenSeq(h) = Join(h, l)
  BY JoinType
<1>2. Join(f, m) = Join(h, m)
  BY DEF Join
<1>3. Join(f, m) \in Seq(S) /\ \A i \in 0..n : Join(g, i) \in Seq(S)
  <2>1. m \in 0..m
    OBVIOUS
  <2> QED BY <2>1, JoinType
<1>4. \A k \in 1..(m + n) : Join(h, k) = Join(h, k - 1) \o h[k]
  <2>1. l \in Nat
    OBVIOUS
  <2>2. \A k \in 1..l : Join(h, k) = Join(h, k - 1) \o h[k]
    BY <2>1, JoinNext
  <2> QED BY <2>2
<1> DEFINE T == {i \in 0..n : Join(h, m + i) = Join(f, m) \o Join(g, i)}
<1>5. 0 \in T
  BY <1>3, JoinNone, <1>2
<1>6. ASSUME NEW i \in 1..n, i - 1 \in T PROVE i \in T
  <2>1. m + i \in 1..(m + n) /\ (m + i) - 1 = m + (i - 1) /\ i - 1 \in 0..n /\ i \in 0..n
    OBVIOUS
  <2>2. Join(h, m + i) = Join(h, m + (i - 1)) \o h[m + i]
    BY <1>4, <2>1
  <2>3. Join(g, i) = Join(g, i - 1) \o g[i]
    BY JoinNext
  <2>4. Join(h, m + (i - 1)) = Join(f, m) \o Join(g, i - 1) /\ h[m + i] = g[i] /\ g[i] \in Seq(S)
    BY <1>6
  <2>5. (Join(f, m) \o Join(g, i - 1)) \o g[i] = Join(f, m) \o (Join(g, i - 1) \o g[i])
    <3> DEFINE a == Join(f, m)
               b == Join(g, i - 1)
               c == g[i]
    <3>1. a \in Seq(S) /\ b \in Seq(S) /\ c \in Seq(S)
      BY <1>3, <2>1, <2>4
    <3> HIDE DEF a, b, c
    <3> HIDE <1>0
    <3>2. (a \o b) \o c = a \o (b \o c)
      BY <3>1, ConcatAssoc
    <3> QED BY <3>2 DEF a, b, c
  <2>6. Join(h, m + i) = Join(f, m) \o Join(g, i)
    BY <2>2, <2>3, <2>4, <2>5
  <2> QED BY <2>1, <2>6
<1> HIDE DEF T
<1>7. n \in T
  <2>1. \A i \in 0..n : i \in T
    BY <1>5, <1>6, CountUp
  <2> QED BY <2>1
<1> QED BY <1>1, <1>7 DEF T

(* A text with each of its atoms replaced by a text.                       *)
Each(m, text) == FlattenSeq([i \in DOMAIN text |-> m[text[i]]])

LEMMA EachParts ==
  ASSUME NEW m \in [Atoms -> Text], NEW text \in Text
  PROVE  /\ [i \in DOMAIN text |-> m[text[i]]] \in [1..Len(text) -> Seq(Atoms)]
         /\ Each(m, text) \in Text
<1> DEFINE n == Len(text)
           f == [i \in DOMAIN text |-> m[text[i]]]
<1>1. n \in Nat /\ DOMAIN text = 1..n /\ \A i \in 1..n : text[i] \in Atoms
  BY TextParts
<1>2. \A i \in 1..n : m[text[i]] \in Seq(Atoms)
  BY <1>1 DEF Text
<1>3. f \in [1..n -> Seq(Atoms)]
  BY <1>1, <1>2, Zenon
<1>4. Each(m, text) = FlattenSeq(f)
  BY Zenon DEF Each
<1> HIDE DEF n, f
<1>5. FlattenSeq(f) \in Text
  BY <1>1, <1>3, FlattenParts, Zenon DEF Text
<1> QED BY <1>3, <1>4, <1>5 DEF n, f

LEMMA EachConcat ==
  ASSUME NEW m \in [Atoms -> Text], NEW a \in Text, NEW b \in Text
  PROVE  Each(m, a \o b) = Each(m, a) \o Each(m, b)
<1> DEFINE k == Len(a)
           n == Len(b)
           f == [i \in DOMAIN a |-> m[a[i]]]
           g == [i \in DOMAIN b |-> m[b[i]]]
           h == [i \in DOMAIN (a \o b) |-> m[(a \o b)[i]]]
<1>1. k \in Nat /\ n \in Nat /\ DOMAIN a = 1..k /\ DOMAIN b = 1..n
  BY TextParts
<1>2. a \o b \in Text /\ Len(a \o b) = k + n
  BY DEF Text
<1>3. f \in [1..k -> Seq(Atoms)] /\ g \in [1..n -> Seq(Atoms)] /\ h \in [1..(k + n) -> Seq(Atoms)]
  BY <1>2, EachParts
<1>4. DOMAIN (a \o b) = 1..(k + n)
  BY <1>2, TextParts
<1>5. \A i \in 1..k : h[i] = f[i]
  BY <1>1, <1>4 DEF Text
<1>6. \A i \in 1..n : h[k + i] = g[i]
  BY <1>1, <1>4 DEF Text
<1>7. Each(m, a \o b) = FlattenSeq(h) /\ Each(m, a) = FlattenSeq(f) /\ Each(m, b) = FlattenSeq(g)
  BY Zenon DEF Each
<1> HIDE DEF k, n, f, g, h
<1>8. FlattenSeq(h) = FlattenSeq(f) \o FlattenSeq(g)
  <2>1. TwoLists(Atoms, k, n, f, g, h)
    BY <1>1, <1>3, <1>5, <1>6 DEF TwoLists
  <2> QED BY <2>1, FlattenTwo
<1> QED BY <1>7, <1>8

LEMMA EachOne ==
  ASSUME NEW m \in [Atoms -> Text], NEW c \in Atoms
  PROVE  Each(m, <<c>>) = m[c] /\ Each(m, <<>>) = <<>>
<1> DEFINE f == [i \in DOMAIN <<c>> |-> m[<<c>>[i]]]
           e == [i \in DOMAIN <<>> |-> m[<<>>[i]]]
<1>1. f = <<m[c]>> /\ e = <<>>
  OBVIOUS
<1>2. Each(m, <<c>>) = FlattenSeq(f) /\ Each(m, <<>>) = FlattenSeq(e)
  BY Zenon DEF Each
<1> HIDE DEF f, e
<1>3. f \in [1..1 -> Seq(Atoms)] /\ f[1] = m[c] /\ e = [i \in 1..0 |-> f[i]] /\ m[c] \in Seq(Atoms)
  BY <1>1 DEF Text
<1>4. FlattenSeq(f) = Join(f, 1) /\ Join(f, 1) = Join(f, 0) \o f[1] /\ Join(f, 0) = <<>>
  <2>1. 1 \in Nat /\ 1 \in 1..1 /\ 1 - 1 = 0
    OBVIOUS
  <2>2. FlattenSeq(f) = Join(f, 1)
    BY <1>3, <2>1, JoinType
  <2>3. Join(f, 1) = Join(f, 1 - 1) \o f[1]
    BY <1>3, <2>1, JoinNext
  <2> QED BY <2>1, <2>2, <2>3, JoinNone
<1>5. FlattenSeq(e) = <<>>
  BY <1>3, <1>4, Zenon DEF Join
<1> QED BY <1>2, <1>3, <1>4, <1>5

(* Each of the texts that a text consists of is replaced on its own.       *)
LEMMA EachFlatten ==
  ASSUME NEW m \in [Atoms -> Text], NEW n \in Nat, NEW f \in [1..n -> Text]
  PROVE  /\ Each(m, FlattenSeq(f)) = FlattenSeq([i \in 1..n |-> Each(m, f[i])])
         /\ [i \in 1..n |-> Each(m, f[i])] \in [1..n -> Text]
<1> DEFINE g == [i \in 1..n |-> Each(m, f[i])]
<1>1. \A i \in 1..n : f[i] \in Text /\ Each(m, f[i]) \in Text
  BY EachParts
<1>2. g \in [1..n -> Text] /\ \A i \in 1..n : g[i] = Each(m, f[i])
  BY <1>1
<1> HIDE DEF g
<1>3. f \in [1..n -> Seq(Atoms)] /\ g \in [1..n -> Seq(Atoms)]
  BY <1>2 DEF Text
<1>4. FlattenSeq(f) = Join(f, n) /\ FlattenSeq(g) = Join(g, n) /\ \A i \in 0..n : Join(f, i) \in Text
  BY <1>3, JoinType DEF Text
<1> DEFINE T == {i \in 0..n : Each(m, Join(f, i)) = Join(g, i)}
<1>5. 0 \in T
  <2>1. Join(f, 0) = <<>> /\ Join(g, 0) = <<>> /\ 0 \in 0..n
    BY JoinNone
  <2>2. Each(m, <<>>) = <<>>
    BY EachOne, Literals
  <2> QED BY <2>1, <2>2
<1>6. ASSUME NEW i \in 1..n, i - 1 \in T PROVE i \in T
  <2>1. i - 1 \in 0..n /\ i \in 0..n
    OBVIOUS
  <2>2. Join(f, i) = Join(f, i - 1) \o f[i] /\ Join(g, i) = Join(g, i - 1) \o g[i]
    BY <1>3, JoinNext
  <2>3. Each(m, Join(f, i - 1)) = Join(g, i - 1)
    BY <1>6
  <2>4. Each(m, Join(f, i - 1) \o f[i]) = Each(m, Join(f, i - 1)) \o Each(m, f[i])
    <3> DEFINE a == Join(f, i - 1)
    <3>1. a \in Text /\ f[i] \in Text
      BY <1>1, <1>4, <2>1
    <3> HIDE DEF a
    <3>2. Each(m, a \o f[i]) = Each(m, a) \o Each(m, f[i])
      BY <3>1, EachConcat
    <3> QED BY <3>2 DEF a
  <2>5. Each(m, Join(f, i)) = Join(g, i)
    BY <1>2, <2>2, <2>3, <2>4
  <2> QED BY <2>1, <2>5
<1> HIDE DEF T
<1>7. n \in T
  BY <1>5, <1>6, CountUp
<1> QED BY <1>2, <1>4, <1>7 DEF T, g

LEMMA EachSame ==
  ASSUME NEW m \in [Atoms -> Text], NEW text \in Text, \A i \in DOMAIN text : m[text[i]] = <<text[i]>>
  PROVE  Each(m, text) = text
<1> DEFINE n == Len(text)
           f == [i \in DOMAIN text |-> m[text[i]]]
<1>1. n \in Nat /\ DOMAIN text = 1..n /\ \A i \in 1..n : text[i] \in Atoms
  BY TextParts
<1>2. f \in [1..n -> Seq(Atoms)] /\ \A i \in 1..n : f[i] = <<text[i]>>
  BY <1>1, EachParts
<1>3. Each(m, text) = FlattenSeq(f)
  BY Zenon DEF Each
<1> HIDE DEF f
<1>4. FlattenSeq(f) = Join(f, n)
  BY <1>1, <1>2, JoinType
<1> DEFINE T == {i \in 0..n : Join(f, i) = SubSeq(text, 1, i)}
<1>5. 0 \in T
  <2>1. Join(f, 0) = <<>> /\ 0 \in 0..n
    BY <1>1, JoinNone
  <2>2. SubSeq(text, 1, 0) = <<>>
    BY DEF Text
  <2> QED BY <2>1, <2>2
<1>6. ASSUME NEW i \in 1..n, i - 1 \in T PROVE i \in T
  <2>1. i \in 0..n
    BY <1>1
  <2>2. Join(f, i) = Join(f, i - 1) \o f[i]
    BY <1>1, <1>2, JoinNext
  <2>3. Join(f, i - 1) = SubSeq(text, 1, i - 1) /\ f[i] = <<text[i]>>
    BY <1>2, <1>6
  <2>4. SubSeq(text, 1, i - 1) \o <<text[i]>> = SubSeq(text, 1, i)
    BY <1>1 DEF Text
  <2> QED BY <2>1, <2>2, <2>3, <2>4
<1> HIDE DEF T
<1>7. n \in T
  BY <1>1, <1>5, <1>6, CountUp
<1>8. SubSeq(text, 1, n) = text
  BY DEF Text
<1> QED BY <1>3, <1>4, <1>7, <1>8 DEF T

(***************************************************************************)
(* A reader with states S takes a text from state s to state t, atom by    *)
(* atom; step[<<x, c>>] is the state after atom c in state x.              *)
(***************************************************************************)
Reads(S, step, s, text, t) ==
  \E f \in [0..Len(text) -> S] :
    /\ f[0] = s /\ f[Len(text)] = t
    /\ \A i \in 1..Len(text) : f[i] = step[<<f[i-1], text[i]>>]

LEMMA ReadsNone ==
  ASSUME NEW S, NEW step, NEW s \in S
  PROVE  Reads(S, step, s, <<>>, s)
<1> DEFINE f == [i \in 0..0 |-> s]
<1>1. Len(<<>>) = 0
  OBVIOUS
<1>2. f \in [0..0 -> S] /\ f[0] = s
  OBVIOUS
<1> HIDE DEF f
<1> QED BY <1>1, <1>2 DEF Reads

LEMMA ReadsOne ==
  ASSUME NEW S, NEW step, NEW s \in S, NEW c \in Atoms, step[<<s, c>>] \in S
  PROVE  Reads(S, step, s, <<c>>, step[<<s, c>>])
<1> DEFINE t == step[<<s, c>>]
           f == [i \in 0..1 |-> IF i = 0 THEN s ELSE t]
<1>1. Len(<<c>>) = 1 /\ <<c>>[1] = c
  OBVIOUS
<1>2. t \in S
  OBVIOUS
<1> HIDE DEF t
<1>3. f \in [0..1 -> S] /\ f[0] = s /\ f[1] = t
  BY <1>2
<1> HIDE DEF f
<1>4. \A i \in 1..1 : i = 1 /\ i - 1 = 0
  OBVIOUS
<1>5. \A i \in 1..1 : f[i] = step[<<f[i-1], <<c>>[i]>>]
  BY <1>4, <1>3, <1>1 DEF t
<1>6. Reads(S, step, s, <<c>>, t)
  BY <1>1, <1>3, <1>5 DEF Reads
<1> QED BY <1>6 DEF t

LEMMA ReadsConcat ==
  ASSUME NEW S, NEW step, NEW s, NEW t, NEW u, NEW a \in Text, NEW b \in Text,
         Reads(S, step, s, a, t), Reads(S, step, t, b, u)
  PROVE  Reads(S, step, s, a \o b, u)
<1> DEFINE m == Len(a)
           n == Len(b)
           l == Len(a \o b)
<1>1. PICK f \in [0..m -> S] : f[0] = s /\ f[m] = t /\ \A i \in 1..m : f[i] = step[<<f[i-1], a[i]>>]
  BY DEF Reads
<1>2. PICK g \in [0..n -> S] : g[0] = t /\ g[n] = u /\ \A i \in 1..n : g[i] = step[<<g[i-1], b[i]>>]
  BY DEF Reads
<1> DEFINE h == [i \in 0..l |-> IF i <= m THEN f[i] ELSE g[i-m]]
<1>3. m \in Nat /\ n \in Nat /\ l = m + n
  BY DEF Text
<1>4. (\A i \in 1..m : (a \o b)[i] = a[i]) /\ \A i \in 1..n : (a \o b)[m+i] = b[i]
  BY DEF Text
<1> HIDE DEF m, n, l
<1>5. \A i \in 0..l : h[i] = IF i <= m THEN f[i] ELSE g[i-m]
  OBVIOUS
<1>6. h \in [0..l -> S]
  BY <1>3, <1>1, <1>2
<1> HIDE DEF h
<1>7. h[0] = s /\ h[l] = u
  BY <1>3, <1>5, <1>1, <1>2
<1>8. ASSUME NEW i \in 1..l PROVE h[i] = step[<<h[i-1], (a \o b)[i]>>]
  <2>1. CASE i <= m
    <3>1. i \in 1..m /\ i \in 0..l /\ i - 1 \in 0..l /\ i - 1 <= m
      BY <1>3, <2>1
    <3>2. h[i] = f[i] /\ h[i-1] = f[i-1]
      BY <1>5, <2>1, <3>1
    <3> QED BY <1>1, <1>4, <3>1, <3>2
  <2>2. CASE ~(i <= m)
    <3> DEFINE j == i - m
    <3>1. j \in 1..n /\ i = m + j /\ i \in 0..l /\ i - 1 \in 0..l
      BY <1>3, <2>2
    <3>2. h[i] = g[j]
      BY <1>5, <2>2, <3>1
    <3>3. h[i-1] = g[j-1]
      BY <1>3, <3>1, <1>5, <1>1, <1>2
    <3>4. (a \o b)[i] = b[j]
      BY <1>4, <3>1
    <3> HIDE DEF j
    <3> QED BY <1>2, <3>1, <3>2, <3>3, <3>4
  <2> QED BY <2>1, <2>2
<1> QED BY <1>6, <1>7, <1>8 DEF Reads, l

(* It takes the parts of a text one after the other.                       *)
PartsRead(S, step, n, f, u) ==
  /\ n \in Nat /\ f \in [1..n -> Text] /\ u[0] \in S
  /\ \A i \in 1..n : Reads(S, step, u[i-1], f[i], u[i])

LEMMA ReadsParts ==
  ASSUME NEW S, NEW step, NEW n, NEW f, NEW u, PartsRead(S, step, n, f, u)
  PROVE  FlattenSeq(f) \in Text /\ Reads(S, step, u[0], FlattenSeq(f), u[n])
<1>1. n \in Nat /\ f \in [1..n -> Seq(Atoms)] /\ f \in [1..n -> Text]
  BY DEF PartsRead, Text
<1>2. FlattenSeq(f) = Join(f, n) /\ \A i \in 0..n : Join(f, i) \in Text
  BY <1>1, JoinType DEF Text
<1> DEFINE T == {i \in 0..n : Reads(S, step, u[0], Join(f, i), u[i])}
<1>3. 0 \in T
  BY <1>1, JoinNone, ReadsNone DEF PartsRead
<1>4. ASSUME NEW i \in 1..n, i - 1 \in T PROVE i \in T
  <2> DEFINE a == Join(f, i - 1)
             b == f[i]
             j == i - 1
  <2>1. i \in 0..n /\ i - 1 \in 0..n
    BY <1>1
  <2>2. Join(f, i) = a \o b
    BY <1>1, JoinNext
  <2>3. a \in Text /\ b \in Text
    BY <1>1, <1>2, <2>1
  <2>4. Reads(S, step, u[0], a, u[j]) /\ Reads(S, step, u[j], b, u[i])
    BY <1>4 DEF PartsRead
  <2> HIDE DEF a, b, j
  <2>5. Reads(S, step, u[0], a \o b, u[i])
    BY <2>3, <2>4, ReadsConcat
  <2> QED BY <2>1, <2>2, <2>5
<1> HIDE DEF T
<1>5. n \in T
  <2>1. \A i \in 0..n : i \in T
    BY <1>1, <1>3, <1>4, CountUp
  <2> QED BY <1>1, <2>1
<1> QED BY <1>1, <1>2, <1>5 DEF T

(* A recursive function over the text ends where the reader does.          *)
Follows(S, step, s, text, read) ==
  /\ Len(text) \in Nat /\ read[0] = s
  /\ \A i \in 1..Len(text) : read[i-1] \in S => read[i] = step[<<read[i-1], text[i]>>]

LEMMA ReadsEnd ==
  ASSUME NEW S, NEW step, NEW s, NEW text, NEW t, Reads(S, step, s, text, t),
         NEW read, Follows(S, step, s, text, read)
  PROVE  read[Len(text)] = t
<1> DEFINE n == Len(text)
<1>0. n \in Nat /\ read[0] = s /\ \A i \in 1..n : read[i-1] \in S => read[i] = step[<<read[i-1], text[i]>>]
  BY DEF Follows
<1>1. PICK f \in [0..n -> S] : f[0] = s /\ f[n] = t /\ \A i \in 1..n : f[i] = step[<<f[i-1], text[i]>>]
  BY DEF Reads
<1> DEFINE T == {i \in 0..n : read[i] = f[i]}
<1>2. n \in Nat
  BY <1>0
<1>3. 0 \in T
  BY <1>0, <1>1
<1>4. ASSUME NEW i \in 1..n, i - 1 \in T PROVE i \in T
  <2>1. i - 1 \in 0..n /\ i \in 0..n
    BY <1>2
  <2>2. read[i-1] = f[i-1] /\ f[i-1] \in S
    BY <1>1, <1>4, <2>1
  <2>3. read[i] = step[<<read[i-1], text[i]>>] /\ f[i] = step[<<f[i-1], text[i]>>]
    BY <1>0, <1>1, <2>2
  <2> QED BY <2>1, <2>2, <2>3
<1> HIDE DEF T
<1>5. n \in T
  <2>1. \A i \in 0..n : i \in T
    BY <1>2, <1>3, <1>4, CountUp
  <2> QED BY <1>2, <2>1
<1> QED BY <1>1, <1>5 DEF T

LEMMA ReadsOnce ==
  ASSUME NEW S, NEW step, NEW s, NEW text \in Text, NEW t, NEW u, Reads(S, step, s, text, t), Reads(S, step, s, text, u)
  PROVE  t = u
<1>1. PICK f \in [0..Len(text) -> S] :
        f[0] = s /\ f[Len(text)] = t /\ \A i \in 1..Len(text) : f[i] = step[<<f[i-1], text[i]>>]
  BY DEF Reads
<1>2. Len(text) \in Nat
  BY TextParts
<1>3. Follows(S, step, s, text, f)
  BY <1>1, <1>2 DEF Follows
<1>4. f[Len(text)] = u
  BY <1>3, ReadsEnd
<1> QED BY <1>1, <1>4

(* A text in which each atom was replaced is read replacement by           *)
(* replacement.                                                            *)
AtomsRead(S, step, m, text, u) ==
  /\ m \in [Atoms -> Text] /\ text \in Text /\ u[0] \in S
  /\ \A i \in 1..Len(text) : Reads(S, step, u[i-1], m[text[i]], u[i])

LEMMA ReadsEach ==
  ASSUME NEW S, NEW step, NEW m, NEW text, NEW u, AtomsRead(S, step, m, text, u)
  PROVE  Reads(S, step, u[0], Each(m, text), u[Len(text)])
<1> DEFINE n == Len(text)
           f == [i \in DOMAIN text |-> m[text[i]]]
<1>1. m \in [Atoms -> Text] /\ text \in Text
  BY DEF AtomsRead
<1>2. n \in Nat /\ DOMAIN text = 1..n
  BY <1>1, TextParts
<1>3. f \in [1..n -> Text] /\ \A i \in 1..n : f[i] = m[text[i]]
  BY <1>1, EachParts, <1>2 DEF Text
<1>4. Each(m, text) = FlattenSeq(f)
  BY Zenon DEF Each
<1> HIDE DEF f
<1>5. PartsRead(S, step, n, f, u)
  BY <1>2, <1>3 DEF PartsRead, AtomsRead
<1> QED BY <1>4, <1>5, ReadsParts

(* What splitExecArguments has read: the words before the one it is in,    *)
(* this word, the quote it is in, whether the word has begun, and whether  *)
(* the next character is kept.                                             *)
SplitMoves == [p \in Splitting \X Atoms |-> SplitStep(p[1], p[2])]
Splits(s, text, t) == Reads(Splitting, SplitMoves, s, text, t)
NoQuote == ""
Double == "\""
Single == "apostrophe"
Yes == TRUE
No == FALSE
(* What an author writes behind a backslash outside of quotes, and inside.  *)
Special == {"\"", "\\", "apostrophe"} \cup Blanks
Doubled == {"\"", "\\", "$", "backtick"}
State(ws, w, q, h, e) == [words |-> ws, word |-> w, quote |-> q, has |-> h, escape |-> e]

LEMMA StateType ==
  ASSUME NEW ws \in Texts, NEW w \in Text, NEW q \in {NoQuote, Double, Single}, NEW h \in BOOLEAN, NEW e \in BOOLEAN
  PROVE  State(ws, w, q, h, e) \in Splitting
  BY Zenon DEF State, Splitting, NoQuote, Double, Single

LEMMA YesNo == Yes /\ ~No /\ Yes \in BOOLEAN /\ No \in BOOLEAN
  BY Zenon DEF Yes, No

LEMMA SplitMove ==
  ASSUME NEW s \in Splitting, NEW c \in Atoms
  PROVE  Splits(s, <<c>>, SplitStep(s, c))
<1>1. SplitMoves[<<s, c>>] = SplitStep(s, c) /\ SplitStep(s, c) \in Splitting
  BY SplitStepType DEF SplitMoves
<1>2. Reads(Splitting, SplitMoves, s, <<c>>, SplitMoves[<<s, c>>])
  BY <1>1, ReadsOne
<1> QED BY <1>1, <1>2 DEF Splits

LEMMA SplitMore ==
  ASSUME NEW s, NEW t, NEW u, NEW a \in Text, NEW b \in Text, Splits(s, a, t), Splits(t, b, u)
  PROVE  Splits(s, a \o b, u)
  BY ReadsConcat DEF Splits

LEMMA QuoteMarks ==
  /\ NoQuote # "\"" /\ NoQuote # "apostrophe" /\ "\"" # "apostrophe" /\ "\\" # "\"" /\ "\\" # "apostrophe"
  /\ Double = "\"" /\ Single = "apostrophe"
  BY DEF NoQuote, Double, Single

LEMMA StateWith ==
  \A ws, w, q, h, e, x :
    /\ [State(ws, w, q, h, e) EXCEPT !.words = x] = State(x, w, q, h, e)
    /\ [State(ws, w, q, h, e) EXCEPT !.word = x] = State(ws, x, q, h, e)
    /\ [State(ws, w, q, h, e) EXCEPT !.quote = x] = State(ws, w, x, h, e)
    /\ [State(ws, w, q, h, e) EXCEPT !.has = x] = State(ws, w, q, x, e)
    /\ [State(ws, w, q, h, e) EXCEPT !.escape = x] = State(ws, w, q, h, x)
  BY DEF State

LEMMA FieldsOf ==
  \A ws, w, q, h, e :
    /\ State(ws, w, q, h, e).words = ws /\ State(ws, w, q, h, e).word = w /\ State(ws, w, q, h, e).quote = q
    /\ State(ws, w, q, h, e).has = h /\ State(ws, w, q, h, e).escape = e
  BY DEF State

LEMMA TakeIs ==
  ASSUME NEW ws, NEW w, NEW q, NEW h, NEW e, NEW x
  PROVE  Take(State(ws, w, q, h, e), x) = State(ws, w \o x, q, Yes, No)
<1> DEFINE s == State(ws, w, q, h, e)
           y == w \o x
<1>1. s.word = w
  BY FieldsOf
<1> HIDE DEF s
<1>2. Take(s, x) = [[[s EXCEPT !.word = s.word \o x] EXCEPT !.has = Yes] EXCEPT !.escape = No]
  BY Zenon DEF Take, Yes, No
<1>3. Take(s, x) = [[[s EXCEPT !.word = y] EXCEPT !.has = Yes] EXCEPT !.escape = No]
  BY <1>1, <1>2, Zenon
<1> HIDE DEF y
<1>4. [s EXCEPT !.word = y] = State(ws, y, q, h, e)
  BY StateWith DEF s
<1>5. [State(ws, y, q, h, e) EXCEPT !.has = Yes] = State(ws, y, q, Yes, e)
  BY StateWith
<1>6. [State(ws, y, q, Yes, e) EXCEPT !.escape = No] = State(ws, y, q, Yes, No)
  BY StateWith
<1>7. Take(s, x) = State(ws, y, q, Yes, No)
  BY <1>3, <1>4, <1>5, <1>6
<1> QED BY <1>7 DEF s, y

EndWord(s) == [s EXCEPT !.words = Append(@, s.word), !.word = <<>>, !.has = FALSE]
Open(s, x) == [s EXCEPT !.quote = x, !.has = TRUE]

LEMMA WordEnds ==
  ASSUME NEW ws, NEW w, NEW q, NEW h, NEW e, NEW s, s = State(ws, w, q, h, e)
  PROVE  EndWord(s) = State(Append(ws, w), <<>>, q, No, e)
<1> DEFINE y == Append(ws, w)
           none == <<>>
           t == EndWord(s)
<1>1. s.word = w /\ s.words = ws
  BY FieldsOf
<1>2. t = [[[s EXCEPT !.words = Append(s.words, s.word)] EXCEPT !.word = none] EXCEPT !.has = No]
  BY Zenon DEF No, EndWord
<1> HIDE DEF t
<1>3. t = [[[s EXCEPT !.words = y] EXCEPT !.word = none] EXCEPT !.has = No]
  BY <1>1, <1>2, Zenon
<1> HIDE DEF y, none
<1>4. [s EXCEPT !.words = y] = State(y, w, q, h, e)
  BY StateWith
<1>5. [State(y, w, q, h, e) EXCEPT !.word = none] = State(y, none, q, h, e)
  BY StateWith
<1>6. [State(y, none, q, h, e) EXCEPT !.has = No] = State(y, none, q, No, e)
  BY StateWith
<1>7. t = State(y, none, q, No, e)
  BY <1>3, <1>4, <1>5, <1>6
<1> QED BY <1>7 DEF t, y, none

LEMMA QuoteBegins ==
  ASSUME NEW ws, NEW w, NEW q, NEW h, NEW e, NEW x, NEW s, s = State(ws, w, q, h, e)
  PROVE  Open(s, x) = State(ws, w, x, Yes, e)
<1> DEFINE t == Open(s, x)
<1>1. t = [[s EXCEPT !.quote = x] EXCEPT !.has = Yes]
  BY Zenon DEF Yes, Open
<1> HIDE DEF t
<1>2. [s EXCEPT !.quote = x] = State(ws, w, x, h, e)
  BY StateWith
<1>3. [State(ws, w, x, h, e) EXCEPT !.has = Yes] = State(ws, w, x, Yes, e)
  BY StateWith
<1>4. t = State(ws, w, x, Yes, e)
  BY <1>1, <1>2, <1>3
<1> QED BY <1>4 DEF t

LEMMA EscapeBegins ==
  ASSUME NEW ws, NEW w, NEW q, NEW h, NEW e, NEW s, s = State(ws, w, q, h, e)
  PROVE  [s EXCEPT !.escape = TRUE] = State(ws, w, q, h, Yes)
<1>1. [s EXCEPT !.escape = Yes] = State(ws, w, q, h, Yes)
  BY StateWith
<1> QED BY <1>1, Zenon DEF Yes

(* The steps that read what an author writes, outside of quotes ...        *)
LEMMA StepEscaped ==
  ASSUME NEW ws, NEW w, NEW h, NEW c
  PROVE  SplitStep(State(ws, w, NoQuote, h, Yes), c) = State(ws, w \o <<c>>, NoQuote, Yes, No)
<1> DEFINE s == State(ws, w, NoQuote, h, Yes)
<1>1. s.escape = Yes /\ s.quote = NoQuote
  BY FieldsOf
<1>2. Take(s, <<c>>) = State(ws, w \o <<c>>, NoQuote, Yes, No)
  BY TakeIs
<1> HIDE DEF s
<1>3. s.escape /\ s.quote = ""
  BY <1>1, YesNo, Zenon DEF NoQuote
<1>4. SplitStep(s, c) = Take(s, <<c>>)
  BY <1>3, Zenon DEF SplitStep
<1>5. SplitStep(s, c) = State(ws, w \o <<c>>, NoQuote, Yes, No)
  BY <1>2, <1>4, Zenon
<1> QED BY <1>5 DEF s

LEMMA StepOutside ==
  ASSUME NEW ws, NEW w, NEW h, NEW c
  PROVE  /\ c = "\\" => SplitStep(State(ws, w, NoQuote, h, No), c) = State(ws, w, NoQuote, h, Yes)
         /\ c \in {"\"", "apostrophe"} => SplitStep(State(ws, w, NoQuote, h, No), c) = State(ws, w, c, Yes, No)
<1> DEFINE s == State(ws, w, NoQuote, h, No)
<1>1. s.escape = No /\ s.quote = NoQuote /\ s = State(ws, w, NoQuote, h, No)
  BY FieldsOf
<1> HIDE DEF s
<1>3. [s EXCEPT !.escape = TRUE] = State(ws, w, NoQuote, h, Yes) /\ Open(s, c) = State(ws, w, c, Yes, No)
  BY <1>1, EscapeBegins, QuoteBegins
<1>4. ~s.escape /\ s.quote = "" /\ "" # "\"" /\ "" # "apostrophe"
  BY <1>1, YesNo, QuoteMarks, Zenon DEF NoQuote
<1>7. \A x \in {"\\", "\"", "apostrophe"} : x \notin Blanks
  BY DEF Blanks
<1>5. ASSUME c = "\\" PROVE SplitStep(s, c) = [s EXCEPT !.escape = TRUE]
  BY <1>4, <1>5, <1>7, Zenon DEF SplitStep
<1>6. ASSUME c \in {"\"", "apostrophe"} PROVE SplitStep(s, c) = Open(s, c)
  <2>1. c # "\\" /\ c \notin Blanks
    BY <1>6, <1>7, QuoteMarks
  <2> QED BY <1>4, <1>6, <2>1, Zenon DEF SplitStep, Open
<1> QED BY <1>3, <1>5, <1>6, Zenon DEF s

LEMMA StepPlain ==
  ASSUME NEW ws, NEW w, NEW h, NEW c, c \notin Special
  PROVE  SplitStep(State(ws, w, NoQuote, h, No), c) = State(ws, w \o <<c>>, NoQuote, Yes, No)
<1> DEFINE s == State(ws, w, NoQuote, h, No)
<1>1. s.escape = No /\ s.quote = NoQuote /\ s = State(ws, w, NoQuote, h, No)
  BY FieldsOf
<1>2. Take(s, <<c>>) = State(ws, w \o <<c>>, NoQuote, Yes, No)
  BY TakeIs
<1> HIDE DEF s
<1>3. ~s.escape /\ s.quote = "" /\ "" # "\"" /\ "" # "apostrophe"
  BY <1>1, YesNo, QuoteMarks, Zenon DEF NoQuote
<1>4. SplitStep(s, c) = Take(s, <<c>>)
  BY <1>3, Zenon DEF SplitStep, Special
<1> QED BY <1>2, <1>4, Zenon DEF s

LEMMA StepBlank ==
  ASSUME NEW ws, NEW w
  PROVE  SplitStep(State(ws, w, NoQuote, Yes, No), " ") = State(Append(ws, w), <<>>, NoQuote, No, No)
<1> DEFINE s == State(ws, w, NoQuote, Yes, No)
<1>1. s.escape = No /\ s.quote = NoQuote /\ s.has = Yes /\ s = State(ws, w, NoQuote, Yes, No)
  BY FieldsOf
<1> HIDE DEF s
<1>2. EndWord(s) = State(Append(ws, w), <<>>, NoQuote, No, No)
  BY <1>1, WordEnds
<1>3. ~s.escape /\ s.quote = "" /\ s.has
  BY <1>1, YesNo, Zenon DEF NoQuote
<1>4. " " # "\\" /\ " " \notin {"\"", "apostrophe"} /\ " " \in Blanks
  BY DEF Blanks
<1>5. SplitStep(s, " ") = EndWord(s)
  BY <1>3, <1>4, Zenon DEF SplitStep, EndWord
<1>6. SplitStep(s, " ") = State(Append(ws, w), <<>>, NoQuote, No, No)
  BY <1>2, <1>5, Zenon
<1> QED BY <1>6 DEF s

(* ... and inside.                                                         *)
LEMMA StepKept ==
  ASSUME NEW ws, NEW w, NEW h, NEW c, c \in Doubled
  PROVE  SplitStep(State(ws, w, Double, h, Yes), c) = State(ws, w \o <<c>>, Double, Yes, No)
<1> DEFINE s == State(ws, w, Double, h, Yes)
<1>1. s.escape = Yes /\ s.quote = Double
  BY FieldsOf
<1>2. Take(s, <<c>>) = State(ws, w \o <<c>>, Double, Yes, No)
  BY TakeIs
<1> HIDE DEF s
<1>3. s.escape /\ s.quote = "\"" /\ "" # "\""
  BY <1>1, YesNo, QuoteMarks, Zenon DEF NoQuote
<1>4. SplitStep(s, c) = Take(s, <<c>>)
  BY <1>3, Zenon DEF SplitStep, Doubled
<1> QED BY <1>2, <1>4, Zenon DEF s

LEMMA StepQuoted ==
  ASSUME NEW ws, NEW w, NEW h, NEW c, c \notin Doubled
  PROVE  SplitStep(State(ws, w, Double, h, No), c) = State(ws, w \o <<c>>, Double, Yes, No)
<1> DEFINE s == State(ws, w, Double, h, No)
<1>1. s.escape = No /\ s.quote = Double
  BY FieldsOf
<1>2. Take(s, <<c>>) = State(ws, w \o <<c>>, Double, Yes, No)
  BY TakeIs
<1> HIDE DEF s
<1>3. ~s.escape /\ s.quote = "\"" /\ "" # "\""
  BY <1>1, YesNo, QuoteMarks, Zenon DEF NoQuote
<1>4. SplitStep(s, c) = Take(s, <<c>>)
  BY <1>3, Zenon DEF SplitStep, Doubled
<1> QED BY <1>2, <1>4, Zenon DEF s

LEMMA StepDouble ==
  ASSUME NEW ws, NEW w, NEW h, NEW c
  PROVE  /\ c = "\\" => SplitStep(State(ws, w, Double, h, No), c) = State(ws, w, Double, h, Yes)
         /\ c = "\"" => SplitStep(State(ws, w, Double, h, No), c) = State(ws, w, NoQuote, h, No)
<1> DEFINE s == State(ws, w, Double, h, No)
<1>1. s.escape = No /\ s.quote = Double /\ s = State(ws, w, Double, h, No)
  BY FieldsOf
<1> HIDE DEF s
<1>2. [s EXCEPT !.escape = TRUE] = State(ws, w, Double, h, Yes) /\ [s EXCEPT !.quote = NoQuote] = State(ws, w, NoQuote, h, No)
  BY <1>1, EscapeBegins, StateWith
<1>3. ~s.escape /\ s.quote = "\"" /\ "" # "\"" /\ "\"" # "apostrophe" /\ "\\" # "\""
  BY <1>1, YesNo, QuoteMarks, Zenon DEF NoQuote
<1>4. ASSUME c = "\\" PROVE SplitStep(s, c) = [s EXCEPT !.escape = TRUE]
  BY <1>3, <1>4, Zenon DEF SplitStep
<1>5. ASSUME c = "\"" PROVE SplitStep(s, c) = [s EXCEPT !.quote = NoQuote]
  BY <1>3, <1>5, Zenon DEF SplitStep, NoQuote
<1> QED BY <1>2, <1>4, <1>5, Zenon DEF s

LEMMA StepVerbatim ==
  ASSUME NEW ws, NEW w, NEW h, NEW c, c # "apostrophe"
  PROVE  SplitStep(State(ws, w, Single, h, No), c) = State(ws, w \o <<c>>, Single, Yes, No)
<1> DEFINE s == State(ws, w, Single, h, No)
<1>1. s.escape = No /\ s.quote = Single
  BY FieldsOf
<1>2. Take(s, <<c>>) = State(ws, w \o <<c>>, Single, Yes, No)
  BY TakeIs
<1> HIDE DEF s
<1>3. ~s.escape /\ s.quote = "apostrophe" /\ "" # "apostrophe"
  BY <1>1, YesNo, QuoteMarks, Zenon DEF NoQuote
<1>4. SplitStep(s, c) = Take(s, <<c>>)
  BY <1>3, Zenon DEF SplitStep
<1> QED BY <1>2, <1>4, Zenon DEF s

LEMMA StepSingle ==
  ASSUME NEW ws, NEW w, NEW h
  PROVE  SplitStep(State(ws, w, Single, h, No), "apostrophe") = State(ws, w, NoQuote, h, No)
<1> DEFINE s == State(ws, w, Single, h, No)
           c == "apostrophe"
<1>1. s.escape = No /\ s.quote = Single /\ s = State(ws, w, Single, h, No)
  BY FieldsOf
<1> HIDE DEF s
<1>2. [s EXCEPT !.quote = NoQuote] = State(ws, w, NoQuote, h, No)
  BY <1>1, StateWith
<1>3. ~s.escape /\ s.quote = "apostrophe" /\ "" # "apostrophe" /\ "\\" # "apostrophe"
  BY <1>1, YesNo, QuoteMarks, Zenon DEF NoQuote
<1>4. SplitStep(s, c) = [s EXCEPT !.quote = NoQuote]
  BY <1>3, Zenon DEF SplitStep, NoQuote
<1> QED BY <1>2, <1>4, Zenon DEF s

(* A word's atoms, the special ones behind a backslash.                    *)
Escaping(special) == [c \in Atoms |-> IF c \in special THEN <<"\\", c>> ELSE <<c>>]

LEMMA EscapingType ==
  ASSUME NEW special
  PROVE  /\ Escaping(special) \in [Atoms -> Text]
         /\ \A c \in Atoms : Escaping(special)[c] = IF c \in special THEN <<"\\", c>> ELSE <<c>>
<1>1. \A c \in Atoms : (IF c \in special THEN <<"\\", c>> ELSE <<c>>) \in Text
  BY TextOps, Literals
<1> QED BY <1>1 DEF Escaping

LEMMA EscapingIs ==
  ASSUME NEW word \in Text, NEW special
  PROVE  /\ EscapedWord(word, special) = Each(Escaping(special), word)
         /\ special = {} => Each(Escaping(special), word) = word
<1> DEFINE m == Escaping(special)
<1>1. m \in [Atoms -> Text] /\ \A c \in Atoms : m[c] = IF c \in special THEN <<"\\", c>> ELSE <<c>>
  BY EscapingType
<1> HIDE DEF m
<1>2. DOMAIN word = 1..Len(word) /\ Len(word) \in Nat /\ \A i \in 1..Len(word) : word[i] \in Atoms
  BY TextParts
<1>3. [i \in DOMAIN word |-> IF word[i] \in special THEN <<"\\", word[i]>> ELSE <<word[i]>>] = [i \in DOMAIN word |-> m[word[i]]]
  BY <1>1, <1>2
<1>4. EscapedWord(word, special) = Each(m, word)
  BY <1>3, Zenon DEF EscapedWord, Each
<1>5. ASSUME special = {} PROVE Each(m, word) = word
  BY <1>1, <1>2, <1>5, EachSame
<1> QED BY <1>4, <1>5 DEF m

(* In a quote q, what m writes for c is read as c.                         *)
ReadsAs(q, m, c) ==
  \A ws \in Texts : \A w \in Text : \A h \in BOOLEAN :
    Splits(State(ws, w, q, h, No), m[c], State(ws, w \o <<c>>, q, Yes, No))

LEMMA WordRead ==
  ASSUME NEW q \in {NoQuote, Double, Single}, NEW m \in [Atoms -> Text], NEW word \in Text,
         \A i \in 1..Len(word) : ReadsAs(q, m, word[i]),
         NEW ws \in Texts, NEW h \in BOOLEAN, word # <<>> \/ h = Yes
  PROVE  Splits(State(ws, <<>>, q, h, No), Each(m, word), State(ws, word, q, Yes, No))
<1> DEFINE n == Len(word)
           u == [i \in 0..n |-> State(ws, SubSeq(word, 1, i), q, IF i = 0 THEN h ELSE Yes, No)]
<1>1. n \in Nat /\ SubSeq(word, 1, 0) = <<>> /\ SubSeq(word, 1, n) = word
  BY DEF Text
<1>2. ASSUME NEW i \in 1..n
      PROVE  SubSeq(word, 1, i) = SubSeq(word, 1, i - 1) \o <<word[i]>> /\ SubSeq(word, 1, i - 1) \in Text
  BY <1>1 DEF Text
<1>3. \A i \in 0..n : u[i] = State(ws, SubSeq(word, 1, i), q, IF i = 0 THEN h ELSE Yes, No)
  OBVIOUS
<1> HIDE DEF u
<1>4. u[0] = State(ws, <<>>, q, h, No) /\ u[0] \in Splitting
  <2>1. u[0] = State(ws, <<>>, q, h, No)
    <3>1. 0 \in 0..n
      BY <1>1
    <3>2. u[0] = State(ws, SubSeq(word, 1, 0), q, IF 0 = 0 THEN h ELSE Yes, No)
      BY <1>3, <3>1, Zenon
    <3> QED BY <1>1, <3>2, Zenon
  <2>2. <<>> \in Text
    BY TextOps
  <2>3. State(ws, <<>>, q, h, No) \in Splitting
    BY <2>2, StateType, YesNo
  <2> QED BY <2>1, <2>3
<1>5. u[n] = State(ws, word, q, Yes, No)
  <2>1. CASE n = 0
    BY <2>1, <1>1, <1>4 DEF Text
  <2>2. CASE n # 0
    <3>1. n \in 0..n
      BY <1>1
    <3>2. u[n] = State(ws, SubSeq(word, 1, n), q, IF n = 0 THEN h ELSE Yes, No)
      BY <1>3, <3>1, Zenon
    <3> QED BY <1>1, <2>2, <3>2, Zenon
  <2> QED BY <2>1, <2>2
<1>6. ASSUME NEW i \in 1..n PROVE Reads(Splitting, SplitMoves, u[i-1], m[word[i]], u[i])
  <2> DEFINE w == SubSeq(word, 1, i - 1)
             x == w \o <<word[i]>>
             g == IF i - 1 = 0 THEN h ELSE Yes
  <2>1. g \in BOOLEAN /\ w \in Text
    BY <1>2, YesNo
  <2>2. u[i-1] = State(ws, w, q, g, No)
    BY <1>1, <1>3
  <2>3. u[i] = State(ws, x, q, Yes, No)
    <3>1. i \in 0..n /\ i # 0
      BY <1>1
    <3>2. u[i] = State(ws, SubSeq(word, 1, i), q, IF i = 0 THEN h ELSE Yes, No)
      BY <1>3, <3>1
    <3>3. SubSeq(word, 1, i) = x
      BY <1>2
    <3> QED BY <3>1, <3>2, <3>3
  <2> HIDE DEF w, g
  <2>4. Splits(State(ws, w, q, g, No), m[word[i]], State(ws, x, q, Yes, No))
    BY <2>1 DEF ReadsAs
  <2> QED BY <2>2, <2>3, <2>4 DEF Splits
<1>7. AtomsRead(Splitting, SplitMoves, m, word, u)
  BY <1>4, <1>6 DEF AtomsRead
<1>8. Reads(Splitting, SplitMoves, u[0], Each(m, word), u[n])
  BY <1>7, ReadsEach
<1> QED BY <1>4, <1>5, <1>8 DEF Splits

(* What is written in each way reads as itself.                            *)
LEMMA PlainRead ==
  ASSUME NEW c \in Atoms
  PROVE  ReadsAs(NoQuote, Escaping(Special), c)
<1> DEFINE m == Escaping(Special)
<1> SUFFICES ASSUME NEW ws \in Texts, NEW w \in Text, NEW h \in BOOLEAN
             PROVE  Splits(State(ws, w, NoQuote, h, No), m[c], State(ws, w \o <<c>>, NoQuote, Yes, No))
  BY Zenon DEF ReadsAs
<1> DEFINE s == State(ws, w, NoQuote, h, No)
           t == State(ws, w, NoQuote, h, Yes)
           x == w \o <<c>>
           u == State(ws, x, NoQuote, Yes, No)
           b == "\\"
<1>1. s \in Splitting /\ t \in Splitting
  BY StateType, YesNo
<1>2. m[c] = IF c \in Special THEN <<b, c>> ELSE <<c>>
  BY EscapingType
<1>3. ASSUME c \in Special PROVE SplitStep(t, c) = u
  BY StepEscaped
<1>4. SplitStep(s, b) = t
  <2> DEFINE d == b
  <2>1. d = "\\"
    OBVIOUS
  <2> HIDE DEF d
  <2>2. SplitStep(s, d) = t
    BY <2>1, StepOutside
  <2> QED BY <2>2 DEF d
<1>5. ASSUME c \notin Special PROVE SplitStep(s, c) = u
  BY <1>5, StepPlain
<1>6. b \in Atoms
  BY Literals
<1> HIDE DEF s, t, u, m, b
<1>7. CASE c \in Special
  <2> DEFINE k == <<b>>
             l == <<c>>
  <2>1. Splits(s, k, SplitStep(s, b)) /\ Splits(t, l, SplitStep(t, c))
    BY <1>1, <1>6, SplitMove
  <2>2. k \in Text /\ l \in Text
    BY <1>6, TextOps
  <2>3. k \o l = m[c]
    BY <1>2, <1>6, <1>7, PairJoin
  <2> HIDE DEF k, l
  <2>4. Splits(s, k, t) /\ Splits(t, l, u)
    BY <1>3, <1>4, <1>7, <2>1
  <2>5. Splits(s, k \o l, u)
    BY <2>2, <2>4, SplitMore
  <2>6. Splits(s, m[c], u)
    BY <2>3, <2>5
  <2> QED BY <2>6 DEF s, u
<1>8. CASE c \notin Special
  BY <1>1, SplitMove, <1>2, <1>5, <1>8 DEF s, u
<1> QED BY <1>7, <1>8

LEMMA DoubleRead ==
  ASSUME NEW c \in Atoms
  PROVE  ReadsAs(Double, Escaping(Doubled), c)
<1> DEFINE m == Escaping(Doubled)
<1> SUFFICES ASSUME NEW ws \in Texts, NEW w \in Text, NEW h \in BOOLEAN
             PROVE  Splits(State(ws, w, Double, h, No), m[c], State(ws, w \o <<c>>, Double, Yes, No))
  BY Zenon DEF ReadsAs
<1> DEFINE s == State(ws, w, Double, h, No)
           t == State(ws, w, Double, h, Yes)
           x == w \o <<c>>
           u == State(ws, x, Double, Yes, No)
           b == "\\"
<1>1. s \in Splitting /\ t \in Splitting
  BY StateType, YesNo
<1>2. m[c] = IF c \in Doubled THEN <<b, c>> ELSE <<c>>
  BY EscapingType
<1>3. ASSUME c \in Doubled PROVE SplitStep(t, c) = u
  BY <1>3, StepKept
<1>4. SplitStep(s, b) = t
  <2> DEFINE d == b
  <2>1. d = "\\"
    OBVIOUS
  <2> HIDE DEF d
  <2>2. SplitStep(s, d) = t
    BY <2>1, StepDouble
  <2> QED BY <2>2 DEF d
<1>5. ASSUME c \notin Doubled PROVE SplitStep(s, c) = u
  BY <1>5, StepQuoted
<1>6. b \in Atoms
  BY Literals
<1> HIDE DEF s, t, u, m, b
<1>7. CASE c \in Doubled
  <2> DEFINE k == <<b>>
             l == <<c>>
  <2>1. Splits(s, k, SplitStep(s, b)) /\ Splits(t, l, SplitStep(t, c))
    BY <1>1, <1>6, SplitMove
  <2>2. k \in Text /\ l \in Text
    BY <1>6, TextOps
  <2>3. k \o l = m[c]
    BY <1>2, <1>6, <1>7, PairJoin
  <2> HIDE DEF k, l
  <2>4. Splits(s, k, t) /\ Splits(t, l, u)
    BY <1>3, <1>4, <1>7, <2>1
  <2>5. Splits(s, k \o l, u)
    BY <2>2, <2>4, SplitMore
  <2>6. Splits(s, m[c], u)
    BY <2>3, <2>5
  <2> QED BY <2>6 DEF s, u
<1>8. CASE c \notin Doubled
  <2>1. Splits(s, <<c>>, SplitStep(s, c))
    BY <1>1, SplitMove
  <2>2. Splits(s, m[c], u)
    BY <1>2, <1>5, <1>8, <2>1
  <2> QED BY <2>2 DEF s, u
<1> QED BY <1>7, <1>8

LEMMA SingleRead ==
  ASSUME NEW c \in Atoms, c # "apostrophe"
  PROVE  ReadsAs(Single, Escaping({}), c)
<1> DEFINE m == Escaping({})
<1> SUFFICES ASSUME NEW ws \in Texts, NEW w \in Text, NEW h \in BOOLEAN
             PROVE  Splits(State(ws, w, Single, h, No), m[c], State(ws, w \o <<c>>, Single, Yes, No))
  BY Zenon DEF ReadsAs
<1> DEFINE s == State(ws, w, Single, h, No)
           x == w \o <<c>>
           u == State(ws, x, Single, Yes, No)
<1>1. s \in Splitting
  BY StateType, YesNo
<1>2. m[c] = <<c>>
  BY EscapingType
<1>3. SplitStep(s, c) = u
  BY StepVerbatim
<1> HIDE DEF s, u, m
<1>4. Splits(s, <<c>>, SplitStep(s, c))
  BY <1>1, SplitMove
<1>5. Splits(s, m[c], u)
  BY <1>2, <1>3, <1>4
<1> QED BY <1>5 DEF s, u

(* The marks of a quote begin and end it.                                  *)
LEMMA MarksRead ==
  ASSUME NEW ws \in Texts, NEW w \in Text, NEW h \in BOOLEAN
  PROVE  /\ Splits(State(ws, w, NoQuote, h, No), <<"\"">>, State(ws, w, Double, Yes, No))
         /\ Splits(State(ws, w, Double, h, No), <<"\"">>, State(ws, w, NoQuote, h, No))
         /\ Splits(State(ws, w, NoQuote, h, No), <<"apostrophe">>, State(ws, w, Single, Yes, No))
         /\ Splits(State(ws, w, Single, h, No), <<"apostrophe">>, State(ws, w, NoQuote, h, No))
<1> DEFINE c == "\""
           d == "apostrophe"
           p == State(ws, w, NoQuote, h, No)
           q == State(ws, w, Double, h, No)
           r == State(ws, w, Single, h, No)
<1>1. p \in Splitting /\ q \in Splitting /\ r \in Splitting
  BY StateType, YesNo
<1>2. c \in Atoms /\ d \in Atoms
  BY Literals
<1>3. c = Double /\ d = Single
  BY Zenon DEF Double, Single
<1>4. c = "\"" /\ d = "apostrophe" /\ c \in {"\"", "apostrophe"} /\ d \in {"\"", "apostrophe"}
  OBVIOUS
<1>5. SplitStep(r, d) = State(ws, w, NoQuote, h, No)
  BY StepSingle
<1> HIDE DEF c, d
<1>6. SplitStep(p, c) = State(ws, w, Double, Yes, No)
  <2>1. SplitStep(State(ws, w, NoQuote, h, No), c) = State(ws, w, c, Yes, No)
    BY <1>4, StepOutside
  <2> QED BY <1>3, <2>1, Zenon
<1>7. SplitStep(p, d) = State(ws, w, Single, Yes, No)
  <2>1. SplitStep(State(ws, w, NoQuote, h, No), d) = State(ws, w, d, Yes, No)
    BY <1>4, StepOutside
  <2> QED BY <1>3, <2>1, Zenon
<1>8. SplitStep(q, c) = State(ws, w, NoQuote, h, No)
  BY <1>4, StepDouble
<1> HIDE DEF p, q, r
<1>9. /\ Splits(p, <<c>>, SplitStep(p, c)) /\ Splits(q, <<c>>, SplitStep(q, c))
      /\ Splits(p, <<d>>, SplitStep(p, d)) /\ Splits(r, <<d>>, SplitStep(r, d))
  BY <1>1, <1>2, SplitMove
<1>10. /\ Splits(p, <<c>>, State(ws, w, Double, Yes, No)) /\ Splits(q, <<c>>, State(ws, w, NoQuote, h, No))
       /\ Splits(p, <<d>>, State(ws, w, Single, Yes, No)) /\ Splits(r, <<d>>, State(ws, w, NoQuote, h, No))
  BY <1>5, <1>6, <1>7, <1>8, <1>9
<1> QED BY <1>10 DEF p, q, r, c, d

(* A word that was written is read as this word, however it was quoted.    *)
LEMMA QuotedRead ==
  ASSUME NEW ws \in Texts, NEW word \in Text, NEW quoting
  PROVE  Splits(State(ws, <<>>, NoQuote, No, No), Quoted(word, quoting), State(ws, word, NoQuote, Yes, No))
<1> DEFINE none == <<>>
           from == State(ws, none, NoQuote, No, No)
           to == State(ws, word, NoQuote, Yes, No)
<1>1. none \in Text /\ none = <<>>
  BY TextOps
<1>2. \A i \in 1..Len(word) : word[i] \in Atoms
  BY TextParts
<1>3. \A special : Escaping(special) \in [Atoms -> Text]
  BY EscapingType
<1>4. Special = ({"\"", "\\", "apostrophe"} \cup Blanks) /\ Doubled = {"\"", "\\", "$", "backtick"}
  BY Zenon DEF Special, Doubled
<1> HIDE DEF none
<1>5. CASE word = <<FullExec>>
  <2> DEFINE c == FullExec
             m == Escaping(Special)
             x == none \o <<c>>
  <2>1. c \in Atoms /\ c \notin Special
    BY Literals DEF FullExec, Special, Blanks
  <2> HIDE DEF c
  <2>2. m[c] = <<c>>
    BY <2>1, EscapingType
  <2>3. x = <<c>>
    BY <1>1, <2>1, ConcatEmpty, TextOps DEF Text
  <2>4. ReadsAs(NoQuote, m, c)
    BY <2>1, PlainRead
  <2> HIDE DEF m
  <2>5. Splits(State(ws, none, NoQuote, No, No), m[c], State(ws, x, NoQuote, Yes, No))
    BY <1>1, <2>4, YesNo DEF ReadsAs
  <2>6. m[c] = word /\ x = word
    BY <1>5, <2>2, <2>3 DEF c
  <2>7. Quoted(word, quoting) = word
    BY <1>5, QuotedIs
  <2> QED BY <1>1, <2>5, <2>6, <2>7, Zenon
<1>6. CASE InDouble(word, quoting)
  <2> DEFINE c == <<"\"">>
             e == Each(Escaping(Doubled), word)
             s == State(ws, none, Double, Yes, No)
             t == State(ws, word, Double, Yes, No)
  <2>1. Splits(from, c, s)
    BY <1>1, MarksRead, YesNo
  <2>2. Splits(s, e, t)
    <3>1. \A i \in 1..Len(word) : ReadsAs(Double, Escaping(Doubled), word[i])
      BY <1>2, DoubleRead
    <3> DEFINE m == Escaping(Doubled)
    <3>2. \A i \in 1..Len(word) : ReadsAs(Double, m, word[i])
      BY <3>1
    <3>3. m \in [Atoms -> Text]
      BY <1>3
    <3> HIDE DEF m
    <3>4. Splits(State(ws, <<>>, Double, Yes, No), Each(m, word), State(ws, word, Double, Yes, No))
      BY <3>2, <3>3, WordRead, YesNo
    <3> QED BY <1>1, <3>4, Zenon DEF m
  <2>3. Splits(t, c, to)
    BY MarksRead, YesNo
  <2>4. c \in Text /\ e \in Text /\ c \o e \in Text
    <3>1. e \in Text
      BY <1>3, EachParts
    <3>2. c \in Text
      BY TextOps, Literals
    <3> HIDE DEF c, e
    <3> QED BY <3>1, <3>2, TextOps
  <2>5. Quoted(word, quoting) = c \o e \o c
    <3>1. Quoted(word, quoting) = c \o EscapedWord(word, {"\"", "\\", "$", "backtick"}) \o c
      BY <1>6, QuotedIs
    <3>2. EscapedWord(word, Doubled) = e
      BY EscapingIs
    <3> QED BY <1>4, <3>1, <3>2, Zenon
  <2> HIDE DEF c, e, s, t, from, to
  <2>6. Splits(from, c \o e, t)
    BY <2>1, <2>2, <2>4, SplitMore
  <2>7. Splits(from, c \o e \o c, to)
    BY <2>4, <2>6, <2>3, SplitMore
  <2>8. Splits(from, Quoted(word, quoting), to)
    BY <2>5, <2>7
  <2> QED BY <1>1, <2>8, Zenon DEF from, to
<1>7. CASE InSingle(word, quoting)
  <2> DEFINE c == <<"apostrophe">>
             s == State(ws, none, Single, Yes, No)
             t == State(ws, word, Single, Yes, No)
  <2>1. Splits(from, c, s)
    BY <1>1, MarksRead, YesNo
  <2>2. Splits(s, word, t)
    <3> DEFINE m == Escaping({})
    <3>1. \A i \in 1..Len(word) : word[i] \in Atoms /\ word[i] # "apostrophe"
      BY <1>7, TextParts, <1>2 DEF InSingle, Has
    <3>2. \A i \in 1..Len(word) : ReadsAs(Single, m, word[i])
      BY <3>1, SingleRead
    <3>3. m \in [Atoms -> Text]
      BY <1>3
    <3>4. Each(m, word) = word
      BY EscapingIs
    <3> HIDE DEF m
    <3>5. Splits(State(ws, <<>>, Single, Yes, No), Each(m, word), State(ws, word, Single, Yes, No))
      BY <3>2, <3>3, WordRead, YesNo
    <3> QED BY <1>1, <3>4, <3>5, Zenon
  <2>3. Splits(t, c, to)
    BY MarksRead, YesNo
  <2>4. c \in Text /\ c \o word \in Text
    <3>1. c \in Text
      BY TextOps, Literals
    <3> HIDE DEF c
    <3> QED BY <3>1, TextOps
  <2>5. Quoted(word, quoting) = c \o word \o c
    BY <1>7, QuotedIs
  <2> HIDE DEF c, s, t, from, to
  <2>6. Splits(from, c \o word, t)
    BY <2>1, <2>2, <2>4, SplitMore
  <2>7. Splits(from, c \o word \o c, to)
    BY <2>4, <2>6, <2>3, SplitMore
  <2>8. Splits(from, Quoted(word, quoting), to)
    BY <2>5, <2>7
  <2> QED BY <1>1, <2>8, Zenon DEF from, to
<1>8. CASE word # <<FullExec>> /\ ~InDouble(word, quoting) /\ ~InSingle(word, quoting)
  <2> DEFINE m == Escaping(Special)
  <2>1. word # <<>>
    BY <1>8 DEF InDouble
  <2>2. \A i \in 1..Len(word) : ReadsAs(NoQuote, m, word[i])
    BY <1>2, PlainRead
  <2>3. m \in [Atoms -> Text]
    BY <1>3
  <2>4. Quoted(word, quoting) = Each(m, word)
    <3>1. Quoted(word, quoting) = EscapedWord(word, ({"\"", "\\", "apostrophe"} \cup Blanks))
      BY <1>8, QuotedIs
    <3>2. EscapedWord(word, Special) = Each(m, word)
      BY EscapingIs
    <3> QED BY <1>4, <3>1, <3>2, Zenon
  <2> HIDE DEF m
  <2>5. Splits(State(ws, <<>>, NoQuote, No, No), Each(m, word), State(ws, word, NoQuote, Yes, No))
    BY <2>1, <2>2, <2>3, WordRead, YesNo
  <2> QED BY <2>4, <2>5, Zenon
<1> QED BY <1>5, <1>6, <1>7, <1>8

(* After the words ws and a blank, a text is taken for the words l.        *)
Blank(ws) == State(ws, <<>>, NoQuote, No, No)
Took(ws, text, l) ==
  \E v \in Texts : \E w \in Text :
    Splits(Blank(ws), text, State(v, w, NoQuote, Yes, No)) /\ Append(v, w) = ws \o l

LEMMA TookWord ==
  ASSUME NEW ws \in Texts, NEW word \in Text, NEW quoting
  PROVE  Took(ws, Quoted(word, quoting), <<word>>)
  BY QuotedRead, AppendIs DEF Blank, Texts, Took

LEMMA TookMore ==
  ASSUME NEW ws \in Texts, NEW k \in Texts, NEW l \in Texts, NEW a \in Text, NEW b \in Text,
         Took(ws, a, k), Took(ws \o k, b, l)
  PROVE  Took(ws, a \o (<<" ">> \o b), k \o l)
<1> DEFINE c == " "
           d == <<c>>
           x == ws \o k
<1>1. PICK v \in Texts, w \in Text : Splits(Blank(ws), a, State(v, w, NoQuote, Yes, No)) /\ Append(v, w) = x
  BY DEF Took
<1>2. PICK y \in Texts, z \in Text : Splits(Blank(x), b, State(y, z, NoQuote, Yes, No)) /\ Append(y, z) = x \o l
  BY DEF Took
<1>3. d \in Text /\ c \in Atoms
  BY TextOps, Literals
<1>4. Splits(State(v, w, NoQuote, Yes, No), d, Blank(x))
  <2> DEFINE s == State(v, w, NoQuote, Yes, No)
  <2>1. s \in Splitting
    BY StateType, YesNo
  <2>2. SplitStep(s, " ") = Blank(x)
    <3>1. SplitStep(s, " ") = State(Append(v, w), <<>>, NoQuote, No, No)
      BY StepBlank
    <3> QED BY <1>1, <3>1, Zenon DEF Blank
  <2> HIDE DEF s
  <2>3. SplitStep(s, c) = Blank(x)
    BY <2>2
  <2> HIDE DEF c
  <2>4. Splits(s, <<c>>, SplitStep(s, c))
    BY <1>3, <2>1, SplitMove
  <2>5. Splits(s, <<c>>, Blank(x))
    BY <2>3, <2>4
  <2> QED BY <2>5 DEF s, d
<1> HIDE DEF c, d
<1>5. Splits(State(v, w, NoQuote, Yes, No), d \o b, State(y, z, NoQuote, Yes, No))
  BY <1>2, <1>3, <1>4, SplitMore
<1>6. Splits(Blank(ws), a \o (d \o b), State(y, z, NoQuote, Yes, No))
  BY <1>3, <1>5, TextOps, <1>1, SplitMore
<1>7. x \o l = ws \o (k \o l)
  BY ConcatAssoc DEF Texts
<1>8. Append(y, z) = ws \o (k \o l)
  BY <1>2, <1>7, Zenon
<1>9. Took(ws, a \o (d \o b), k \o l)
  BY <1>6, <1>8, Zenon DEF Took
<1> QED BY <1>9 DEF d, c

(* Pieces with blanks between them.                                        *)
Spaced(n, texts) == [i \in 1..n |-> (IF i = 1 THEN <<>> ELSE <<" ">>) \o texts[i]]

LEMMA SpacedType ==
  ASSUME NEW n \in Nat, NEW texts \in [1..n -> Text]
  PROVE  /\ Spaced(n, texts) \in [1..n -> Text]
         /\ \A i \in 1..n : Spaced(n, texts)[i] = IF i = 1 THEN texts[i] ELSE <<" ">> \o texts[i]
<1> DEFINE f == Spaced(n, texts)
<1>1. \A i \in 1..n : (IF i = 1 THEN <<>> ELSE <<" ">>) \o texts[i] = IF i = 1 THEN texts[i] ELSE <<" ">> \o texts[i]
  <2> TAKE i \in 1..n
  <2>1. texts[i] \in Text /\ <<>> \o texts[i] = texts[i]
    BY ConcatEmpty DEF Text
  <2> QED BY <2>1
<1>2. \A i \in 1..n : f[i] = IF i = 1 THEN texts[i] ELSE <<" ">> \o texts[i]
  BY <1>1 DEF Spaced
<1>3. \A i \in 1..n : (IF i = 1 THEN texts[i] ELSE <<" ">> \o texts[i]) \in Text
  BY TextOps, Literals
<1>4. f \in [1..n -> Text]
  BY <1>2, <1>3 DEF Spaced
<1> QED BY <1>2, <1>4

AllTook(n, texts, lines) ==
  /\ n \in Nat \ {0} /\ texts \in [1..n -> Text] /\ lines \in [1..n -> Texts]
  /\ \A i \in 1..n : \A ws \in Texts : Took(ws, texts[i], lines[i])

LEMMA TookAll ==
  ASSUME NEW n, NEW texts, NEW lines, AllTook(n, texts, lines), NEW ws \in Texts
  PROVE  Took(ws, FlattenSeq(Spaced(n, texts)), FlattenSeq(lines))
<1> DEFINE f == Spaced(n, texts)
<1>1. /\ n \in Nat /\ n \in Nat \ {0} /\ texts \in [1..n -> Text] /\ lines \in [1..n -> Texts]
      /\ \A i \in 1..n : \A v \in Texts : Took(v, texts[i], lines[i])
  BY DEF AllTook
<1>2. f \in [1..n -> Text] /\ f \in [1..n -> Seq(Atoms)] /\ \A i \in 1..n : f[i] = IF i = 1 THEN texts[i] ELSE <<" ">> \o texts[i]
  BY <1>1, SpacedType DEF Text
<1> HIDE DEF f
<1>3. lines \in [1..n -> Seq(Text)]
  BY <1>1 DEF Texts
<1>4. /\ FlattenSeq(f) = Join(f, n) /\ FlattenSeq(lines) = Join(lines, n)
      /\ \A i \in 0..n : Join(f, i) \in Text /\ Join(lines, i) \in Texts
  BY <1>1, <1>2, <1>3, JoinType DEF Text, Texts
<1> DEFINE T == {i \in 0..n : i = 0 \/ Took(ws, Join(f, i), Join(lines, i))}
<1>5. 0 \in T
  BY <1>1
<1>6. ASSUME NEW i \in 1..n, i - 1 \in T PROVE i \in T
  <2>1. i \in 0..n /\ i - 1 \in 0..n
    BY <1>1
  <2>2. Join(f, i) = Join(f, i - 1) \o f[i] /\ Join(lines, i) = Join(lines, i - 1) \o lines[i]
    BY <1>1, <1>2, <1>3, JoinNext
  <2>3. texts[i] \in Text /\ lines[i] \in Texts
    BY <1>1
  <2>4. CASE i = 1
    <3>1. Join(f, i - 1) = <<>> /\ Join(lines, i - 1) = <<>>
      BY <2>4, JoinNone
    <3>2. f[i] = texts[i]
      BY <1>2, <2>4
    <3>3. Join(f, i) = texts[i] /\ Join(lines, i) = lines[i]
      BY <2>2, <2>3, <3>1, <3>2, ConcatEmpty DEF Text, Texts
    <3>4. Took(ws, texts[i], lines[i])
      BY <1>1
    <3> QED BY <2>1, <3>3, <3>4
  <2>5. CASE i # 1
    <3> DEFINE a == Join(f, i - 1)
               k == Join(lines, i - 1)
               b == texts[i]
               l == lines[i]
    <3>1. a \in Text /\ k \in Texts /\ b \in Text /\ l \in Texts
      BY <1>4, <2>1, <2>3
    <3>2. Took(ws, a, k)
      BY <1>6, <2>5
    <3>3. ws \o k \in Texts
      BY <3>1, TextsOps
    <3>4. Took(ws \o k, b, l)
      BY <1>1, <3>3
    <3>5. Join(f, i) = a \o (<<" ">> \o b) /\ Join(lines, i) = k \o l
      BY <1>2, <2>2, <2>5
    <3> HIDE DEF a, k, b, l
    <3>6. Took(ws, a \o (<<" ">> \o b), k \o l)
      BY <3>1, <3>2, <3>4, TookMore
    <3>7. Took(ws, Join(f, i), Join(lines, i))
      BY <3>5, <3>6, Zenon
    <3> QED BY <2>1, <3>7
  <2> QED BY <2>4, <2>5
<1> HIDE DEF T
<1>7. n \in T
  BY <1>1, <1>5, <1>6, CountUp
<1>8. Took(ws, Join(f, n), Join(lines, n))
  BY <1>1, <1>7 DEF T
<1> QED BY <1>4, <1>8, Zenon DEF f

(* The line that a text is, once it was read to its end.                   *)
LEMMA SplitEnds ==
  ASSUME NEW text \in Text, NEW t, Splits(Blank(<<>>), text, t)
  PROVE  SplitExec(text) =
           IF t.quote # "" \/ t.escape THEN <<>> ELSE IF t.has THEN Append(t.words, t.word) ELSE t.words
<1> DEFINE n == Len(text)
           g == [i \in 1..n |-> [s \in Splitting |-> SplitStep(s, text[i])]]
           read == CHOOSE f : SplitsTo(text, f)
<1>1. n \in Nat /\ \A i \in 1..n : text[i] \in Atoms
  BY TextParts
<1>2. NoSplit \in Splitting /\ NoSplit = Blank(<<>>)
  <2>1. NoSplit \in Splitting
    BY TextOps, TextsOps DEF Splitting, NoSplit
  <2>2. NoSplit = Blank(<<>>)
    BY Zenon DEF NoSplit, Blank, State, NoQuote, No
  <2> QED BY <2>1, <2>2
<1>3. Keeps(n, Splitting, g)
  BY <1>1, SplitStepType DEF Keeps
<1>4. \A i \in 1..n : \A s \in Splitting : g[i][s] = SplitStep(s, text[i])
  OBVIOUS
<1>5. SplitExec(text) =
        IF read[n].quote # "" \/ read[n].escape THEN <<>>
        ELSE IF read[n].has THEN Append(read[n].words, read[n].word) ELSE read[n].words
  BY DEF SplitExec, SplitsTo
<1> HIDE DEF g
<1>6. PICK f : StepsOf(n, Splitting, NoSplit, g, f)
  BY <1>1, <1>2, <1>3, Recursion
<1>7. SplitsTo(text, f)
  <2>1. ASSUME NEW i \in 0..n PROVE f[i] = IF i = 0 THEN NoSplit ELSE SplitStep(f[i-1], text[i])
    <3>1. i # 0 => i \in 1..n
      BY <1>1
    <3> QED BY <1>4, <1>6, <3>1 DEF StepsOf
  <2> QED BY <2>1, <1>6 DEF StepsOf, SplitsTo, NoSplit
<1>8. SplitsTo(text, read)
  BY <1>7
<1> HIDE DEF read
<1>9. read[n] = t
  <2>1. read[0] = NoSplit
    <3>1. 0 \in 0..Len(text)
      BY <1>1
    <3> QED BY <1>8, <3>1, Zenon DEF SplitsTo, NoSplit
  <2>2. ASSUME NEW i \in 1..n, read[i-1] \in Splitting PROVE read[i] = SplitMoves[<<read[i-1], text[i]>>]
    <3>1. i \in 0..Len(text) /\ i # 0
      BY <1>1
    <3>2. read[i] = SplitStep(read[i-1], text[i])
      BY <1>8, <3>1 DEF SplitsTo
    <3>3. text[i] \in Atoms
      BY <1>1
    <3> QED BY <2>2, <3>2, <3>3 DEF SplitMoves
  <2>3. Reads(Splitting, SplitMoves, NoSplit, text, t)
    BY <1>2 DEF Splits
  <2>4. Len(text) \in Nat /\ \A i \in 1..Len(text) : read[i-1] \in Splitting => read[i] = SplitMoves[<<read[i-1], text[i]>>]
    BY <1>1, <2>2
  <2>5. read[Len(text)] = t
    BY <2>1, <2>4, <2>3, ReadsEnd DEF Follows
  <2> QED BY <2>5
<1> QED BY <1>5, <1>9, Zenon

LEMMA TookLine ==
  ASSUME NEW text \in Text, NEW l \in Texts, Took(<<>>, text, l)
  PROVE  SplitExec(text) = l
<1>1. PICK v \in Texts, w \in Text : Splits(Blank(<<>>), text, State(v, w, NoQuote, Yes, No)) /\ Append(v, w) = <<>> \o l
  BY DEF Took
<1> DEFINE t == State(v, w, NoQuote, Yes, No)
<1>2. t.quote = NoQuote /\ t.escape = No /\ t.has = Yes /\ t.words = v /\ t.word = w
  BY FieldsOf
<1>3. <<>> \o l = l
  BY ConcatEmpty DEF Texts
<1>4. Splits(Blank(<<>>), text, t)
  BY <1>1
<1> HIDE DEF t
<1>5. SplitExec(text) =
        IF t.quote # "" \/ t.escape THEN <<>> ELSE IF t.has THEN Append(t.words, t.word) ELSE t.words
  BY <1>4, SplitEnds
<1>6. t.quote = "" /\ ~t.escape /\ t.has
  BY <1>2, YesNo, Zenon DEF NoQuote
<1> QED BY <1>1, <1>2, <1>3, <1>5, <1>6, Zenon

(* A quote that begins after the line and does not end spoils it.          *)
LEMMA TookOpen ==
  ASSUME NEW text \in Text, NEW l \in Texts, Took(<<>>, text, l)
  PROVE  SplitExec(text \o <<" ", "\"">>) = <<>>
<1> DEFINE a == <<" ">>
           b == <<"\"">>
           none == <<>>
           c == " "
<1>1. PICK v \in Texts, w \in Text : Splits(Blank(none), text, State(v, w, NoQuote, Yes, No)) /\ Append(v, w) = none \o l
  BY DEF Took
<1> DEFINE x == Append(v, w)
           s == State(v, w, NoQuote, Yes, No)
           t == State(x, none, Double, Yes, No)
<1>2. a \in Text /\ b \in Text /\ c \in Atoms /\ a \o b = <<" ", "\"">> /\ a = <<c>>
  <2>1. a \in Text /\ b \in Text
    BY TextOps, Literals
  <2>2. a \o b = <<" ", "\"">>
    BY Literals, PairJoin
  <2> QED BY <2>1, <2>2, Literals
<1>3. x \in Texts /\ none \in Text
  BY TextsOps, TextOps
<1>4. Splits(s, a, State(x, none, NoQuote, No, No))
  <2>1. s \in Splitting
    BY StateType, YesNo
  <2>2. SplitStep(s, c) = State(x, none, NoQuote, No, No)
    BY StepBlank
  <2> HIDE DEF s, c, a
  <2>3. Splits(s, <<c>>, SplitStep(s, c))
    BY <1>2, <2>1, SplitMove
  <2> QED BY <1>2, <2>2, <2>3
<1> HIDE DEF x, none
<1>5. Splits(State(x, none, NoQuote, No, No), b, t)
  BY <1>3, MarksRead, YesNo
<1> HIDE DEF a, b
<1>6. Splits(Blank(none), text \o (a \o b), t)
  <2> DEFINE d == a \o b
             y == State(x, none, NoQuote, No, No)
  <2>1. d \in Text
    BY <1>2, TextOps
  <2>2. Splits(s, d, t)
    <3> HIDE DEF s, t, y
    <3>1. Splits(s, a, y) /\ Splits(y, b, t)
      BY <1>4, <1>5 DEF y
    <3> QED BY <1>2, <3>1, SplitMore DEF d
  <2> HIDE DEF d
  <2>3. Splits(Blank(none), text \o d, t)
    BY <1>1, <2>1, <2>2, SplitMore
  <2> QED BY <2>3 DEF d
<1>7. t.quote = Double
  BY FieldsOf
<1>8. t.quote # ""
  BY <1>7, QuoteMarks, Zenon DEF NoQuote
<1> HIDE DEF t
<1>9. text \o (a \o b) \in Text
  BY <1>2, TextOps
<1>10. SplitExec(text \o (a \o b)) = <<>>
  <2> DEFINE d == text \o (a \o b)
  <2>1. d \in Text /\ Splits(Blank(<<>>), d, t)
    BY <1>6, <1>9, Zenon DEF none
  <2> HIDE DEF d
  <2>2. SplitExec(d) =
          IF t.quote # "" \/ t.escape THEN <<>> ELSE IF t.has THEN Append(t.words, t.word) ELSE t.words
    BY <2>1, SplitEnds
  <2>3. SplitExec(d) = <<>>
    BY <1>8, <2>2, Zenon
  <2> QED BY <2>3 DEF d
<1> QED BY <1>2, <1>10, Zenon

(* A sequence is put together from its elements.                           *)
LEMMA Elements ==
  ASSUME NEW S, NEW s \in Seq(S)
  PROVE  /\ FlattenSeq([i \in 1..Len(s) |-> <<s[i]>>]) = s
         /\ [i \in 1..Len(s) |-> <<s[i]>>] \in [1..Len(s) -> Seq(S)]
<1> DEFINE n == Len(s)
           f == [i \in 1..Len(s) |-> <<s[i]>>]
<1>1. n \in Nat /\ \A i \in 1..n : s[i] \in S
  OBVIOUS
<1>2. f \in [1..n -> Seq(S)] /\ \A i \in 1..n : f[i] = <<s[i]>>
  BY <1>1
<1> HIDE DEF f
<1>3. FlattenSeq(f) = Join(f, n)
  BY <1>1, <1>2, JoinType
<1> DEFINE T == {i \in 0..n : Join(f, i) = SubSeq(s, 1, i)}
<1>4. 0 \in T
  <2>1. Join(f, 0) = <<>> /\ 0 \in 0..n
    BY <1>1, JoinNone
  <2>2. SubSeq(s, 1, 0) = <<>>
    OBVIOUS
  <2> QED BY <2>1, <2>2
<1>5. ASSUME NEW i \in 1..n, i - 1 \in T PROVE i \in T
  <2>1. i \in 0..n
    BY <1>1
  <2>2. Join(f, i) = Join(f, i - 1) \o f[i]
    BY <1>1, <1>2, JoinNext
  <2>3. Join(f, i - 1) = SubSeq(s, 1, i - 1) /\ f[i] = <<s[i]>>
    BY <1>2, <1>5
  <2>4. SubSeq(s, 1, i - 1) \o <<s[i]>> = SubSeq(s, 1, i)
    BY <1>1
  <2> QED BY <2>1, <2>2, <2>3, <2>4
<1> HIDE DEF T
<1>6. n \in T
  <2>1. \A i \in 0..n : i \in T
    BY <1>1, <1>4, <1>5, CountUp
  <2> QED BY <1>1, <2>1
<1>7. SubSeq(s, 1, n) = s
  OBVIOUS
<1> QED BY <1>2, <1>3, <1>6, <1>7 DEF T, f

(* A reader that adds to the text it has, where m writes c, just c, takes  *)
(* what m writes for a text back to this text; state[w] is the reader that *)
(* has w.                                                                  *)
AddsAtoms(S, step, m, state, text) ==
  /\ m \in [Atoms -> Text] /\ state \in [Text -> S] /\ text \in Text
  /\ \A i \in 1..Len(text) : \A w \in Text : Reads(S, step, state[w], m[text[i]], state[w \o <<text[i]>>])

LEMMA ReadsBack ==
  ASSUME NEW S, NEW step, NEW m, NEW state, NEW text, AddsAtoms(S, step, m, state, text)
  PROVE  Reads(S, step, state[<<>>], Each(m, text), state[text])
<1> DEFINE n == Len(text)
           u == [i \in 0..n |-> state[SubSeq(text, 1, i)]]
<1>0. m \in [Atoms -> Text] /\ state \in [Text -> S] /\ text \in Text
  BY DEF AddsAtoms
<1>1. n \in Nat /\ SubSeq(text, 1, 0) = <<>> /\ SubSeq(text, 1, n) = text
  BY <1>0 DEF Text
<1>2. ASSUME NEW i \in 1..n
      PROVE  SubSeq(text, 1, i) = SubSeq(text, 1, i - 1) \o <<text[i]>> /\ SubSeq(text, 1, i - 1) \in Text
  BY <1>0, <1>1 DEF Text
<1>3. \A i \in 0..n : u[i] = state[SubSeq(text, 1, i)]
  OBVIOUS
<1> HIDE DEF u
<1>4. u[0] = state[<<>>] /\ u[n] = state[text] /\ u[0] \in S
  <2>1. 0 \in 0..n /\ n \in 0..n
    BY <1>1
  <2>2. u[0] = state[<<>>] /\ u[n] = state[text]
    BY <1>1, <1>3, <2>1
  <2>3. state[<<>>] \in S
    BY <1>0, TextOps
  <2> QED BY <2>2, <2>3
<1>5. ASSUME NEW i \in 1..n PROVE Reads(S, step, u[i-1], m[text[i]], u[i])
  <2> DEFINE w == SubSeq(text, 1, i - 1)
             x == w \o <<text[i]>>
  <2>1. i - 1 \in 0..n /\ i \in 0..n
    BY <1>1
  <2>2. u[i-1] = state[w] /\ u[i] = state[x] /\ w \in Text
    BY <1>2, <1>3, <2>1
  <2>3. Reads(S, step, state[w], m[text[i]], state[x])
    BY <2>2 DEF AddsAtoms
  <2> QED BY <2>2, <2>3
<1>6. AtomsRead(S, step, m, text, u)
  BY <1>0, <1>4, <1>5 DEF AtomsRead
<1> QED BY <1>4, <1>6, ReadsEach

(* unescapeValue undoes the escapes of a desktop file.                     *)
UnescapeMoves == [p \in Unescaped \X Atoms |-> UnescapeStep(p[1], p[2])]
Unesc(w, e) == [text |-> w, escape |-> e]

LEMMA UnescWith ==
  \A w, e, x :
    /\ [Unesc(w, e) EXCEPT !.text = x] = Unesc(x, e) /\ [Unesc(w, e) EXCEPT !.escape = x] = Unesc(w, x)
    /\ Unesc(w, e).text = w /\ Unesc(w, e).escape = e
  BY DEF Unesc

LEMMA UnescapeMove ==
  ASSUME NEW s \in Unescaped, NEW c \in Atoms
  PROVE  Reads(Unescaped, UnescapeMoves, s, <<c>>, UnescapeStep(s, c))
<1>1. UnescapeMoves[<<s, c>>] = UnescapeStep(s, c) /\ UnescapeStep(s, c) \in Unescaped
  BY UnescapeStepType DEF UnescapeMoves
<1>2. Reads(Unescaped, UnescapeMoves, s, <<c>>, UnescapeMoves[<<s, c>>])
  BY <1>1, ReadsOne
<1> QED BY <1>1, <1>2

LEMMA UnescapeReads ==
  ASSUME NEW c \in Atoms, NEW w \in Text
  PROVE  Reads(Unescaped, UnescapeMoves, Unesc(w, No), Escaping({"\\"})[c], Unesc(w \o <<c>>, No))
<1> DEFINE s == Unesc(w, No)
           t == Unesc(w, Yes)
           x == w \o <<c>>
           u == Unesc(x, No)
           one == {"\\"}
           m == Escaping(one)
<1>1. s \in Unescaped /\ t \in Unescaped
  BY YesNo, Zenon DEF Unesc, Unescaped
<1>2. s.escape = No /\ t.escape = Yes /\ s.text = w /\ t.text = w
  BY UnescWith
<1>3. m[c] = IF c \in one THEN <<"\\", c>> ELSE <<c>>
  BY EscapingType
<1>4. [s EXCEPT !.escape = Yes] = t
  BY UnescWith
<1>5. x = Append(w, c)
  BY AppendIs DEF Text
<1>6. [s EXCEPT !.text = x] = u
  <2> HIDE DEF x
  <2> QED BY UnescWith
<1> HIDE DEF s, t, x, m
<1>7. ASSUME c # "\\" PROVE UnescapeStep(s, c) = u
  BY <1>2, YesNo, <1>7, <1>5, <1>6 DEF UnescapeStep
<1>8. UnescapeStep(s, "\\") = t
  BY <1>2, YesNo, <1>4 DEF UnescapeStep, Yes
<1>9. ASSUME c = "\\" PROVE UnescapeStep(t, c) = u
  BY <1>2, YesNo, <1>9 DEF Escapes, UnescapeStep, No, Unesc, x
<1>10. CASE c = "\\"
  <2> DEFINE k == <<c>>
  <2>1. Reads(Unescaped, UnescapeMoves, s, k, UnescapeStep(s, c)) /\ Reads(Unescaped, UnescapeMoves, t, k, UnescapeStep(t, c))
    BY <1>1, UnescapeMove
  <2>2. UnescapeStep(s, c) = t
    BY <1>8, <1>10, Zenon
  <2>3. k \in Text
    BY TextOps
  <2>4. m[c] = k \o k
    BY PairJoin, <1>10, <1>3
  <2> HIDE DEF k, u
  <2>5. Reads(Unescaped, UnescapeMoves, s, k, t) /\ Reads(Unescaped, UnescapeMoves, t, k, u)
    BY <1>9, <1>10, <2>1, <2>2, Zenon
  <2>6. Reads(Unescaped, UnescapeMoves, s, k \o k, u)
    BY <2>3, <2>5, ReadsConcat
  <2>7. Reads(Unescaped, UnescapeMoves, s, m[c], u)
    BY <2>4, <2>6, Zenon
  <2> QED BY <2>7 DEF s, u, x, m
<1>11. CASE c # "\\"
  BY <1>1, UnescapeMove, <1>11, <1>3, <1>7 DEF s, u, x, m
<1> QED BY <1>10, <1>11

LEMMA UnescapedBack ==
  ASSUME NEW text \in Text
  PROVE  UnescapeValue(EscapedValue(text)) = text
<1> DEFINE m == Escaping({"\\"})
           e == Each(m, text)
           n == Len(e)
           b == [text |-> <<>>, escape |-> FALSE]
           state == [w \in Text |-> Unesc(w, No)]
           g == [i \in 1..n |-> [s \in Unescaped |-> UnescapeStep(s, e[i])]]
           read == CHOOSE f : UnescapesTo(e, f)
<1>1. m \in [Atoms -> Text]
  BY EscapingType
<1>2. EscapedValue(text) = e
  <2>1. DOMAIN text = 1..Len(text) /\ \A i \in 1..Len(text) : text[i] \in Atoms
    BY TextParts
  <2>2. \A c \in Atoms : m[c] = IF c = "\\" THEN <<"\\", "\\">> ELSE <<c>>
    <3> DEFINE one == {"\\"}
    <3>1. \A c \in Atoms : c \in one <=> c = "\\"
      OBVIOUS
    <3> HIDE DEF one
    <3>2. \A c \in Atoms : Escaping(one)[c] = IF c \in one THEN <<"\\", c>> ELSE <<c>>
      BY EscapingType
    <3>3. \A c \in Atoms : Escaping(one)[c] = IF c = "\\" THEN <<"\\", "\\">> ELSE <<c>>
      BY <3>1, <3>2
    <3> QED BY <3>3 DEF one
  <2> HIDE DEF m
  <2>3. [i \in DOMAIN text |-> IF text[i] = "\\" THEN <<"\\", "\\">> ELSE <<text[i]>>] = [i \in DOMAIN text |-> m[text[i]]]
    BY <2>1, <2>2
  <2> QED BY <2>3, Zenon DEF EscapedValue, Each
<1>3. \A c \in Atoms : \A w \in Text : Reads(Unescaped, UnescapeMoves, Unesc(w, No), m[c], Unesc(w \o <<c>>, No))
  BY UnescapeReads
<1> HIDE DEF m
<1>4. e \in Text
  BY <1>1, EachParts
<1>5. state \in [Text -> Unescaped] /\ \A w \in Text : state[w] = Unesc(w, No)
  BY YesNo DEF Unesc, Unescaped
<1>6. \A i \in 1..Len(text) : \A w \in Text : Reads(Unescaped, UnescapeMoves, state[w], m[text[i]], state[w \o <<text[i]>>])
  <2> TAKE i \in 1..Len(text)
  <2> TAKE w \in Text
  <2> DEFINE c == text[i]
             x == w \o <<c>>
  <2>1. c \in Atoms
    BY TextParts
  <2>2. x \in Text
    BY <2>1, TextOps
  <2>3. Reads(Unescaped, UnescapeMoves, Unesc(w, No), m[c], Unesc(x, No))
    BY <1>3, <2>1
  <2> HIDE DEF c, x, state
  <2>4. Reads(Unescaped, UnescapeMoves, state[w], m[c], state[x])
    BY <1>5, <2>2, <2>3
  <2> QED BY <2>4 DEF c, x
<1> HIDE DEF state
<1>7. Reads(Unescaped, UnescapeMoves, state[<<>>], e, state[text])
  <2>1. AddsAtoms(Unescaped, UnescapeMoves, m, state, text)
    BY <1>1, <1>5, <1>6 DEF AddsAtoms
  <2> QED BY <2>1, ReadsBack
<1>8. state[<<>>] = b /\ b \in Unescaped /\ state[text] = Unesc(text, No)
  <2>1. <<>> \in Text
    BY TextOps
  <2>2. Unesc(<<>>, No) = b
    BY Zenon DEF Unesc, No
  <2>3. state[<<>>] = Unesc(<<>>, No) /\ state[<<>>] \in Unescaped /\ state[text] = Unesc(text, No)
    BY <1>5, <2>1
  <2> QED BY <2>2, <2>3
<1> HIDE DEF e
<1>9. n \in Nat /\ \A i \in 1..n : e[i] \in Atoms
  BY <1>4, TextParts
<1>10. Keeps(n, Unescaped, g)
  BY <1>9, UnescapeStepType DEF Keeps
<1>11. \A i \in 1..n : \A s \in Unescaped : g[i][s] = UnescapeStep(s, e[i])
  OBVIOUS
<1>12. UnescapeValue(e) = IF read[n].escape THEN Append(read[n].text, "\\") ELSE read[n].text
  BY DEF UnescapeValue, UnescapesTo
<1> HIDE DEF b, g
<1>13. PICK f : StepsOf(n, Unescaped, b, g, f)
  BY <1>9, <1>8, <1>10, Recursion
<1>14. UnescapesTo(e, f)
  <2>1. ASSUME NEW i \in 0..n PROVE f[i] = IF i = 0 THEN b ELSE UnescapeStep(f[i-1], e[i])
    <3>1. i # 0 => i \in 1..n
      BY <1>9
    <3> QED BY <1>11, <1>13, <3>1 DEF StepsOf
  <2> QED BY <2>1, <1>13 DEF StepsOf, UnescapesTo, b
<1>15. UnescapesTo(e, read)
  BY <1>14
<1> HIDE DEF read
<1>16. read[n] = Unesc(text, No)
  <2>1. read[0] = b
    BY <1>9, <1>15 DEF UnescapesTo, b
  <2>2. ASSUME NEW i \in 1..n, read[i-1] \in Unescaped PROVE read[i] = UnescapeMoves[<<read[i-1], e[i]>>]
    <3>1. i \in 0..Len(e) /\ i # 0
      BY <1>9
    <3>2. read[i] = UnescapeStep(read[i-1], e[i])
      BY <1>15, <3>1 DEF UnescapesTo
    <3>3. e[i] \in Atoms
      BY <1>9
    <3> QED BY <2>2, <3>2, <3>3 DEF UnescapeMoves
  <2>3. Follows(Unescaped, UnescapeMoves, b, e, read)
    BY <1>9, <2>1, <2>2 DEF Follows
  <2>4. Reads(Unescaped, UnescapeMoves, b, e, Unesc(text, No))
    BY <1>7, <1>8, Zenon
  <2>5. read[Len(e)] = Unesc(text, No)
    BY <2>3, <2>4, ReadsEnd
  <2> QED BY <2>5
<1>17. ~read[n].escape /\ read[n].text = text
  BY <1>16, UnescWith, YesNo
<1>18. UnescapeValue(e) = text
  BY <1>12, <1>17, Zenon
<1> QED BY <1>2, <1>18, Zenon

(* The text of several words, but for a quote that does not end.           *)
Body(words, quoting) == FlattenSeq(Spaced(Len(words), [i \in 1..Len(words) |-> Quoted(words[i], quoting)]))

LEMMA BodyParts ==
  ASSUME NEW words \in Texts, NEW quoting
  PROVE  /\ Len(words) \in Nat
         /\ [i \in 1..Len(words) |-> Quoted(words[i], quoting)] \in [1..Len(words) -> Text]
         /\ Body(words, quoting) \in Text
<1> DEFINE n == Len(words)
           q == [i \in 1..Len(words) |-> Quoted(words[i], quoting)]
<1>1. n \in Nat /\ \A i \in 1..n : words[i] \in Text
  BY TextParts
<1>2. q \in [1..n -> Text]
  BY <1>1, QuotedType
<1>3. Body(words, quoting) = FlattenSeq(Spaced(n, q))
  BY Zenon DEF Body
<1> HIDE DEF n, q
<1>4. Spaced(n, q) \in [1..n -> Seq(Atoms)]
  BY <1>1, <1>2, SpacedType DEF Text
<1>5. FlattenSeq(Spaced(n, q)) \in Seq(Atoms)
  BY <1>1, <1>4, FlattenParts
<1> QED BY <1>1, <1>2, <1>3, <1>5 DEF Text, n, q

LEMMA WrittenIs ==
  ASSUME NEW words \in Texts, NEW quoting
  PROVE  Written(words, quoting) =
           IF quoting = "open" THEN Body(words, quoting) \o <<" ", "\"">> ELSE Body(words, quoting)
<1> DEFINE q == [i \in 1..Len(words) |-> Quoted(words[i], quoting)]
           f == [i \in DOMAIN words |-> (IF i = 1 THEN <<>> ELSE <<" ">>) \o Quoted(words[i], quoting)]
           open == IF quoting = "open" THEN <<" ", "\"">> ELSE <<>>
<1>1. DOMAIN words = 1..Len(words)
  BY TextParts
<1>2. f = Spaced(Len(words), q)
  BY <1>1 DEF Spaced
<1>3. Written(words, quoting) = Body(words, quoting) \o open
  <2>1. Written(words, quoting) = FlattenSeq(f) \o open
    BY Zenon DEF Written
  <2> QED BY <1>2, <2>1, Zenon DEF Body
<1>4. Body(words, quoting) \o <<>> = Body(words, quoting)
  BY BodyParts, ConcatEmpty DEF Text
<1> QED BY <1>3, <1>4, Zenon

LEMMA TookBody ==
  ASSUME NEW words \in Texts, words # <<>>, NEW quoting, NEW ws \in Texts
  PROVE  Took(ws, Body(words, quoting), words)
<1> DEFINE n == Len(words)
           q == [i \in 1..Len(words) |-> Quoted(words[i], quoting)]
           l == [i \in 1..Len(words) |-> <<words[i]>>]
<1>1. n \in Nat \ {0} /\ \A i \in 1..n : words[i] \in Text
  BY TextParts DEF Texts
<1>2. q \in [1..n -> Text]
  BY BodyParts
<1>3. l \in [1..n -> Texts] /\ FlattenSeq(l) = words
  BY Elements DEF Texts
<1>4. \A i \in 1..n : \A v \in Texts : Took(v, q[i], l[i])
  BY <1>1, TookWord
<1>5. Body(words, quoting) = FlattenSeq(Spaced(n, q))
  BY Zenon DEF Body
<1> HIDE DEF n, q, l
<1>6. AllTook(n, q, l)
  BY <1>1, <1>2, <1>3, <1>4 DEF AllTook
<1>7. Took(ws, FlattenSeq(Spaced(n, q)), FlattenSeq(l))
  BY <1>6, TookAll
<1> QED BY <1>3, <1>5, <1>7, Zenon

(* splitExecArguments takes the words that were written, or none.          *)
LEMMA SplitWritten ==
  ASSUME NEW words \in Texts, words # <<>>, NEW quoting
  PROVE  SplitExec(Written(words, quoting)) = IF quoting = "open" THEN <<>> ELSE words
<1> DEFINE b == Body(words, quoting)
<1>1. b \in Text
  BY BodyParts
<1>2. Took(<<>>, b, words)
  BY TookBody, TextsOps
<1>3. Written(words, quoting) = IF quoting = "open" THEN b \o <<" ", "\"">> ELSE b
  BY WrittenIs
<1> HIDE DEF b
<1>4. SplitExec(b) = words /\ SplitExec(b \o <<" ", "\"">>) = <<>>
  BY <1>1, <1>2, TookLine, TookOpen
<1> QED BY <1>3, <1>4, Zenon

(* The Exec that an override is given in place of FullExec.                *)
Resolving(original) == [c \in Atoms |-> IF c = FullExec THEN original ELSE <<c>>]

LEMMA ResolvingType ==
  ASSUME NEW original \in Text
  PROVE  /\ Resolving(original) \in [Atoms -> Text]
         /\ \A c \in Atoms : Resolving(original)[c] = IF c = FullExec THEN original ELSE <<c>>
  BY TextOps DEF Resolving

LEMMA ResolveIs ==
  ASSUME NEW text \in Text, NEW original \in Text
  PROVE  ResolveExecValue(text, original) = Each(Resolving(original), text)
<1> DEFINE m == Resolving(original)
<1>1. \A c \in Atoms : m[c] = IF c = FullExec THEN original ELSE <<c>>
  BY ResolvingType
<1> HIDE DEF m
<1>2. DOMAIN text = 1..Len(text) /\ \A i \in 1..Len(text) : text[i] \in Atoms
  BY TextParts
<1>3. [i \in DOMAIN text |-> IF text[i] = FullExec THEN original ELSE <<text[i]>>] = [i \in DOMAIN text |-> m[text[i]]]
  BY <1>1, <1>2
<1>4. ResolveExecValue(text, original) = Each(m, text)
  BY <1>3, Zenon DEF ResolveExecValue, Each
<1> QED BY <1>4 DEF m

LEMMA ResolvedSame ==
  ASSUME NEW original \in Text, NEW text \in Text, ~Has(text, FullExec)
  PROVE  Each(Resolving(original), text) = text
<1> DEFINE m == Resolving(original)
<1>1. m \in [Atoms -> Text] /\ \A c \in Atoms : m[c] = IF c = FullExec THEN original ELSE <<c>>
  BY ResolvingType
<1> HIDE DEF m
<1>2. DOMAIN text = 1..Len(text) /\ \A i \in 1..Len(text) : text[i] \in Atoms
  BY TextParts
<1>3. \A i \in DOMAIN text : m[text[i]] = <<text[i]>>
  BY <1>1, <1>2 DEF Has
<1>4. Each(m, text) = text
  BY <1>1, <1>3, EachSame
<1> QED BY <1>4 DEF m

LEMMA ResolvedEscapes ==
  ASSUME NEW original \in Text, NEW word \in Text, ~Has(word, FullExec), NEW special
  PROVE  Each(Resolving(original), EscapedWord(word, special)) = EscapedWord(word, special)
<1> DEFINE m == Resolving(original)
           e == Escaping(special)
           n == Len(word)
           f == [i \in DOMAIN word |-> e[word[i]]]
<1>1. m \in [Atoms -> Text]
  BY ResolvingType
<1>2. e \in [Atoms -> Text] /\ \A c \in Atoms : e[c] = IF c \in special THEN <<"\\", c>> ELSE <<c>>
  BY EscapingType
<1>3. EscapedWord(word, special) = Each(e, word)
  BY EscapingIs
<1> HIDE DEF e
<1>4. n \in Nat /\ DOMAIN word = 1..n /\ \A i \in 1..n : word[i] \in Atoms
  BY TextParts
<1>5. f \in [1..n -> Text] /\ \A i \in 1..n : f[i] = e[word[i]]
  BY <1>2, <1>4
<1>6. Each(e, word) = FlattenSeq(f)
  BY Zenon DEF Each
<1>7. f = [i \in 1..n |-> f[i]]
  BY <1>4
<1> HIDE DEF f
<1>8. ASSUME NEW i \in 1..n PROVE Each(m, f[i]) = f[i]
  <2> DEFINE c == word[i]
             b == "\\"
  <2>1. c \in Atoms /\ c # FullExec
    BY <1>4 DEF Has
  <2>2. b \in Atoms /\ b # FullExec
    BY Literals DEF FullExec
  <2>3. f[i] = IF c \in special THEN <<b, c>> ELSE <<c>>
    BY <1>2, <1>5, <2>1
  <2> HIDE DEF c, b
  <2>4. f[i] \in Text
    BY <1>5
  <2>5. ~Has(f[i], FullExec)
    BY <2>3, <2>1, <2>2 DEF Has
  <2> DEFINE x == f[i]
  <2>6. x \in Text /\ ~Has(x, FullExec)
    BY <2>4, <2>5
  <2> HIDE DEF x
  <2>7. Each(m, x) = x
    BY <2>6, ResolvedSame
  <2> QED BY <2>7 DEF x
<1> HIDE DEF m
<1>9. Each(m, FlattenSeq(f)) = FlattenSeq([i \in 1..n |-> Each(m, f[i])])
  BY <1>1, <1>4, <1>5, EachFlatten
<1>10. [i \in 1..n |-> Each(m, f[i])] = [i \in 1..n |-> f[i]]
  BY <1>8
<1>11. Each(m, FlattenSeq(f)) = FlattenSeq(f)
  BY <1>7, <1>9, <1>10, Zenon
<1> QED BY <1>3, <1>6, <1>11, Zenon DEF m

LEMMA ResolvedQuoted ==
  ASSUME NEW original \in Text, NEW word \in Text, NEW quoting, Has(word, FullExec) => word = <<FullExec>>
  PROVE  Each(Resolving(original), Quoted(word, quoting)) = IF word = <<FullExec>> THEN original ELSE Quoted(word, quoting)
<1> DEFINE m == Resolving(original)
<1>1. m \in [Atoms -> Text] /\ \A c \in Atoms : m[c] = IF c = FullExec THEN original ELSE <<c>>
  BY ResolvingType
<1>2. FullExec \in Atoms /\ FullExec # "\"" /\ FullExec # "apostrophe"
  BY Literals DEF FullExec
<1>3. CASE word = <<FullExec>>
  <2>1. Each(m, <<FullExec>>) = m[FullExec]
    BY <1>1, <1>2, EachOne
  <2>2. Quoted(word, quoting) = word
    BY <1>3, QuotedIs
  <2>3. m[FullExec] = original
    BY <1>1, <1>2
  <2> QED BY <1>3, <2>1, <2>2, <2>3, Zenon
<1>4. CASE word # <<FullExec>>
  <2>1. ~Has(word, FullExec)
    BY <1>4
  <2>2. \A special : Each(m, EscapedWord(word, special)) = EscapedWord(word, special)
    BY <2>1, ResolvedEscapes
  <2>3. \A special : EscapedWord(word, special) \in Text
    BY EscapedType DEF EscapedWord
  <2>4. ASSUME NEW c \in {"\"", "apostrophe"}, NEW e \in Text, Each(m, e) = e
        PROVE  Each(m, <<c>> \o e \o <<c>>) = <<c>> \o e \o <<c>>
    <3>1. c \in Atoms /\ c # FullExec
      BY <1>2, Literals
    <3>2. m[c] = <<c>>
      BY <1>1, <3>1
    <3> DEFINE k == <<c>>
               a == k \o e
    <3>3. Each(m, k) = k /\ k \in Text
      BY <1>1, <3>1, <3>2, EachOne, TextOps
    <3> HIDE DEF k
    <3>4. a \in Text /\ Each(m, a) = Each(m, k) \o Each(m, e)
      BY <1>1, <3>3, EachConcat, TextOps
    <3> HIDE DEF a, m
    <3>5. Each(m, a \o k) = Each(m, a) \o Each(m, k)
      BY <1>1, <3>3, <3>4, EachConcat
    <3>6. Each(m, a \o k) = a \o k
      BY <2>4, <3>3, <3>4, <3>5 DEF a
    <3> QED BY <3>6 DEF a, k
  <2>5. Each(m, word) = word
    BY <2>1, ResolvedSame
  <2> DEFINE dd == {"\"", "\\", "$", "backtick"}
             pp == {"\"", "\\", "apostrophe"} \cup Blanks
             cd == "\""
             cs == "apostrophe"
  <2>6. cd \in {"\"", "apostrophe"} /\ cs \in {"\"", "apostrophe"}
    OBVIOUS
  <2>7. /\ InDouble(word, quoting) => Quoted(word, quoting) = <<cd>> \o EscapedWord(word, dd) \o <<cd>>
        /\ InSingle(word, quoting) => Quoted(word, quoting) = <<cs>> \o word \o <<cs>>
        /\ ~InDouble(word, quoting) /\ ~InSingle(word, quoting) => Quoted(word, quoting) = EscapedWord(word, pp)
    BY <1>4, QuotedIs
  <2> HIDE DEF m, cd, cs, dd, pp
  <2>8. CASE InDouble(word, quoting)
    <3> DEFINE e == EscapedWord(word, dd)
    <3>1. e \in Text /\ Each(m, e) = e
      BY <2>2, <2>3
    <3>2. Quoted(word, quoting) = <<cd>> \o e \o <<cd>>
      BY <2>7, <2>8
    <3> HIDE DEF e
    <3>3. Each(m, <<cd>> \o e \o <<cd>>) = <<cd>> \o e \o <<cd>>
      BY <2>4, <2>6, <3>1
    <3> QED BY <1>4, <3>2, <3>3, Zenon DEF m
  <2>9. CASE InSingle(word, quoting)
    <3>1. Each(m, <<cs>> \o word \o <<cs>>) = <<cs>> \o word \o <<cs>>
      BY <2>4, <2>5, <2>6
    <3> QED BY <1>4, <2>7, <2>9, <3>1, Zenon DEF m
  <2>10. CASE ~InDouble(word, quoting) /\ ~InSingle(word, quoting)
    BY <2>2, <1>4, <2>7, <2>10 DEF m
  <2> QED BY <2>8, <2>9, <2>10
<1> QED BY <1>3, <1>4

(* The line of an override: its words, with those of the Exec it stands    *)
(* before.                                                                 *)
PutIn(override, main) ==
  FlattenSeq([i \in DOMAIN override |-> IF override[i] = <<FullExec>> THEN main ELSE <<override[i]>>])

LEMMA SplitResolved ==
  ASSUME NEW override \in Texts, override # <<>>, NEW main \in Texts, main # <<>>, NEW quoting, quoting # "open",
         \A i \in DOMAIN override : Has(override[i], FullExec) => override[i] = <<FullExec>>
  PROVE  SplitExec(ResolveExecValue(Written(override, quoting), Written(main, quoting))) = PutIn(override, main)
<1> DEFINE n == Len(override)
           original == Body(main, quoting)
           m == Resolving(original)
           q == [i \in 1..Len(override) |-> Quoted(override[i], quoting)]
           s == Spaced(n, q)
           p == [i \in 1..n |-> IF override[i] = <<FullExec>> THEN original ELSE Quoted(override[i], quoting)]
           l == [i \in DOMAIN override |-> IF override[i] = <<FullExec>> THEN main ELSE <<override[i]>>]
           y == " "
<1>1. n \in Nat \ {0} /\ n \in Nat /\ DOMAIN override = 1..n /\ \A i \in 1..n : override[i] \in Text
  BY TextParts DEF Texts
<1>2. original \in Text /\ Body(override, quoting) \in Text /\ q \in [1..n -> Text]
  BY BodyParts
<1>3. Written(override, quoting) = Body(override, quoting) /\ Written(main, quoting) = original
  BY WrittenIs
<1>4. Body(override, quoting) = FlattenSeq(s)
  BY Zenon DEF Body
<1>5. m \in [Atoms -> Text]
  BY <1>2, ResolvingType
<1>6. \A i \in 1..n : q[i] = Quoted(override[i], quoting)
  OBVIOUS
<1>7. \A i \in 1..n : p[i] = IF override[i] = <<FullExec>> THEN original ELSE Quoted(override[i], quoting)
  OBVIOUS
<1>8. \A i \in 1..n : l[i] = IF override[i] = <<FullExec>> THEN main ELSE <<override[i]>>
  BY <1>1
<1>9. ASSUME NEW i \in 1..n PROVE Each(m, q[i]) = p[i]
  <2> DEFINE w == override[i]
  <2>1. w \in Text /\ (Has(w, FullExec) => w = <<FullExec>>)
    BY <1>1
  <2>2. q[i] = Quoted(w, quoting) /\ p[i] = IF w = <<FullExec>> THEN original ELSE Quoted(w, quoting)
    BY <1>6, <1>7
  <2> HIDE DEF w, q, p, original
  <2>3. Each(m, Quoted(w, quoting)) = IF w = <<FullExec>> THEN original ELSE Quoted(w, quoting)
    BY <1>2, <2>1, ResolvedQuoted
  <2> QED BY <2>2, <2>3, Zenon
<1>10. p \in [1..n -> Text]
  BY <1>1, <1>2, QuotedType
<1>11. l \in [1..n -> Texts]
  BY <1>1, TextsOps
<1>12. \A i \in 1..n : \A ws \in Texts : Took(ws, p[i], l[i])
  BY <1>1, <1>7, <1>8, TookBody, TookWord
<1>13. PutIn(override, main) = FlattenSeq(l)
  BY Zenon DEF PutIn
<1> HIDE DEF q, p, l, original, m, n
<1>14. s \in [1..n -> Text] /\ \A i \in 1..n : s[i] = IF i = 1 THEN q[i] ELSE <<y>> \o q[i]
  BY <1>1, <1>2, SpacedType
<1>15. Spaced(n, p) \in [1..n -> Text] /\ \A i \in 1..n : Spaced(n, p)[i] = IF i = 1 THEN p[i] ELSE <<y>> \o p[i]
  BY <1>1, <1>10, SpacedType
<1>16. y \in Atoms /\ y # FullExec
  BY Literals DEF FullExec
<1> HIDE DEF s, y
<1>17. \A i \in 1..n : Each(m, s[i]) = Spaced(n, p)[i]
  <2> TAKE i \in 1..n
  <2> DEFINE a == q[i]
             k == <<y>>
  <2>1. a \in Text /\ k \in Text
    BY <1>2, <1>16, TextOps
  <2>2. Each(m, k) = k
    <3>1. Each(m, <<y>>) = m[y]
      BY <1>5, <1>16, EachOne
    <3>2. m[y] = <<y>>
      BY <1>2, <1>16, ResolvingType DEF m
    <3> QED BY <3>1, <3>2
  <2> HIDE DEF a, k
  <2>3. Each(m, k \o a) = Each(m, k) \o Each(m, a)
    BY <1>5, <2>1, EachConcat
  <2>4. Each(m, a) = p[i]
    BY <1>9 DEF a
  <2>5. s[i] = (IF i = 1 THEN a ELSE k \o a) /\ Spaced(n, p)[i] = IF i = 1 THEN p[i] ELSE k \o p[i]
    BY <1>14, <1>15 DEF a, k
  <2> QED BY <2>2, <2>3, <2>4, <2>5, Zenon
<1>18. Each(m, FlattenSeq(s)) = FlattenSeq([i \in 1..n |-> Each(m, s[i])])
  BY <1>1, <1>5, <1>14, EachFlatten
<1>19. [i \in 1..n |-> Each(m, s[i])] = Spaced(n, p)
  BY <1>15, <1>17
<1>20. ResolveExecValue(Written(override, quoting), Written(main, quoting)) = FlattenSeq(Spaced(n, p))
  <2>1. ResolveExecValue(FlattenSeq(s), original) = Each(m, FlattenSeq(s))
    BY <1>2, <1>4, ResolveIs DEF m
  <2> QED BY <1>3, <1>4, <1>18, <1>19, <2>1, Zenon
<1>21. AllTook(n, p, l)
  BY <1>1, <1>10, <1>11, <1>12 DEF AllTook
<1>22. Took(<<>>, FlattenSeq(Spaced(n, p)), FlattenSeq(l))
  BY <1>21, TookAll, TextsOps
<1>23. FlattenSeq(Spaced(n, p)) \in Text /\ FlattenSeq(l) \in Texts
  BY <1>11, <1>15, <1>1, FlattenParts DEF Text, Texts
<1> DEFINE t == FlattenSeq(Spaced(n, p))
           k == FlattenSeq(l)
<1>24. t \in Text /\ k \in Texts /\ Took(<<>>, t, k)
  BY <1>22, <1>23
<1> HIDE DEF t, k
<1>25. SplitExec(t) = k
  BY <1>24, TookLine
<1> QED BY <1>13, <1>20, <1>25, Zenon DEF t, k

(* The line is the one that was meant, or a quote did not end.             *)
LEMMA MeantEntryType ==
  ASSUME NEW r \in Requests
  PROVE  /\ MeantEntry(r) \in Texts /\ MeantLine(r) \in Texts
         /\ HasExec(r) => MeantEntry(r) # <<>>
         /\ EntryExec(r) = Written(MeantEntry(r), r.quoting)
<1>1. r.exec \in Texts /\ r.override \in Texts /\ \A a \in DOMAIN r.actions : r.actions[a] \in Texts
  BY RequestsAssumption DEF RequestType
<1>2. MeantEntry(r) \in Texts
  BY <1>1 DEF MeantEntry
<1>3. HasExec(r) => MeantEntry(r) # <<>>
  BY Zenon DEF HasExec, MeantEntry
<1>4. EntryExec(r) = Written(MeantEntry(r), r.quoting)
  BY <1>1, WrittenType, UnescapedBack DEF EntryExec, MeantEntry, MainExec
<1>5. MeantLine(r) \in Texts
  <2> DEFINE o == r.override
             e == MeantEntry(r)
             n == Len(o)
             l == [i \in DOMAIN o |-> IF o[i] = <<FullExec>> THEN e ELSE <<o[i]>>]
  <2>1. n \in Nat /\ DOMAIN o = 1..n /\ \A i \in 1..n : o[i] \in Text
    BY <1>1, TextParts
  <2>2. \A i \in 1..n : (IF o[i] = <<FullExec>> THEN e ELSE <<o[i]>>) \in Seq(Text)
    BY <1>2, <2>1, TextsOps DEF Texts
  <2>3. l \in [1..n -> Seq(Text)]
    BY <2>1, <2>2
  <2>4. MeantLine(r) = IF o # <<>> THEN FlattenSeq(l) ELSE IF CompatExec(r) # <<>> THEN CompatExec(r) ELSE e
    BY Zenon DEF MeantLine
  <2>5. CompatExec(r) \in Texts
    BY CompatExecType
  <2> HIDE DEF n, l, o, e
  <2>6. FlattenSeq(l) \in Texts
    BY <2>1, <2>3, FlattenParts DEF Texts
  <2> QED BY <1>2, <2>4, <2>5, <2>6 DEF e
<1> QED BY <1>2, <1>3, <1>4, <1>5

LEMMA LineIs ==
  ASSUME NEW r \in Requests, HasExec(r), OneReading(r), LineOf(r) # <<>>
  PROVE  LineOf(r) = MeantLine(r)
<1> DEFINE o == r.override
           e == MeantEntry(r)
           q == r.quoting
           c == CompatExec(r)
<1>1. o \in Texts /\ e \in Texts /\ e # <<>> /\ c \in Texts
  BY MeantEntryType, CompatExecType, RequestsAssumption DEF RequestType
<1>2. EntryExec(r) = Written(e, q)
  BY MeantEntryType
<1>3. LineOf(r) = SplitExec(ProcessCompatibility(r))
  BY Zenon DEF LineOf
<1>4. CASE o # <<>>
  <2>1. q # "open" /\ \A i \in DOMAIN o : Has(o[i], FullExec) => o[i] = <<FullExec>>
    BY <1>4, Zenon DEF OneReading
  <2>2. ProcessCompatibility(r) = ResolveExecValue(Written(o, q), Written(e, q))
    BY <1>2, <1>4, Zenon DEF ProcessCompatibility
  <2>3. MeantLine(r) = PutIn(o, e)
    BY <1>4, Zenon DEF MeantLine, PutIn
  <2> HIDE DEF o, e, q
  <2>4. SplitExec(ResolveExecValue(Written(o, q), Written(e, q))) = PutIn(o, e)
    BY <1>1, <1>4, <2>1, SplitResolved
  <2> QED BY <1>3, <2>2, <2>3, <2>4, Zenon
<1>5. CASE o = <<>> /\ c # <<>>
  BY <1>5, <1>1, SplitWritten, <1>3 DEF ProcessCompatibility, MeantLine
<1>6. CASE o = <<>> /\ c = <<>>
  BY <1>2, <1>6, <1>1, SplitWritten, <1>3 DEF ProcessCompatibility, MeantLine
<1> QED BY <1>4, <1>5, <1>6

(***************************************************************************)
(* What systemd makes of an argument that the helper encoded.              *)
(***************************************************************************)
Decoding == [text : Seq(Atoms \cup {"value"}), dollar : BOOLEAN]
DecodeMoves == [p \in Decoding \X Atoms |-> DecodeStep(p[1], p[2])]
Dec(w, d) == [text |-> w, dollar |-> d]
DecodesTo(arg, f) ==
  f = [i \in 0..Len(arg) |-> IF i = 0 THEN [text |-> <<>>, dollar |-> FALSE] ELSE DecodeStep(f[i - 1], arg[i])]

LEMMA DecWith ==
  \A w, d, x :
    /\ [Dec(w, d) EXCEPT !.text = x] = Dec(x, d) /\ [Dec(w, d) EXCEPT !.dollar = x] = Dec(w, x)
    /\ Dec(w, d).text = w /\ Dec(w, d).dollar = d
  BY DEF Dec

LEMMA DecType ==
  \A w \in Text : Dec(w, No) \in Decoding /\ Dec(w, Yes) \in Decoding
  BY YesNo DEF Text, Dec, Decoding

LEMMA DecodeStepType ==
  ASSUME NEW s \in Decoding, NEW c \in Atoms
  PROVE  DecodeStep(s, c) \in Decoding
<1> DEFINE V == Atoms \cup {"value"}
<1>1. s.text \in Seq(V) /\ s.dollar \in BOOLEAN
  BY DEF Decoding
<1>2. c \in V /\ (IF c = "$" THEN "$" ELSE "value") \in V
  BY Literals
<1>3. \A x \in V : Append(s.text, x) \in Seq(V)
  BY <1>1
<1>4. Append(s.text, c) \in Seq(V) /\ Append(s.text, IF c = "$" THEN "$" ELSE "value") \in Seq(V)
  BY <1>2, <1>3
<1>5. CASE s.dollar
  BY <1>5, <1>4 DEF DecodeStep, Decoding
<1>6. CASE ~s.dollar /\ c = "$"
  <2>1. DecodeStep(s, c) = [s EXCEPT !.dollar = TRUE]
    BY <1>6, Zenon DEF DecodeStep
  <2> QED BY <2>1 DEF Decoding
<1>7. CASE ~s.dollar /\ c # "$"
  BY <1>7, <1>4 DEF DecodeStep, Decoding
<1> QED BY <1>1, <1>5, <1>6, <1>7

LEMMA DecodeMove ==
  ASSUME NEW s \in Decoding, NEW c \in Atoms
  PROVE  Reads(Decoding, DecodeMoves, s, <<c>>, DecodeStep(s, c))
<1>1. DecodeMoves[<<s, c>>] = DecodeStep(s, c) /\ DecodeStep(s, c) \in Decoding
  BY DecodeStepType DEF DecodeMoves
<1>2. Reads(Decoding, DecodeMoves, s, <<c>>, DecodeMoves[<<s, c>>])
  BY <1>1, ReadsOne
<1> QED BY <1>1, <1>2

Dollars == [c \in Atoms |-> IF c = "$" THEN <<"$", "$">> ELSE <<c>>]

LEMMA DollarsType ==
  /\ Dollars \in [Atoms -> Text]
  /\ \A c \in Atoms : Dollars[c] = IF c = "$" THEN <<"$", "$">> ELSE <<c>>
<1>1. \A c \in Atoms : (IF c = "$" THEN <<"$", "$">> ELSE <<c>>) \in Text
  BY TextOps, Literals
<1> QED BY <1>1 DEF Dollars

LEMMA DecodeReads ==
  ASSUME NEW c \in Atoms, NEW w \in Text
  PROVE  Reads(Decoding, DecodeMoves, Dec(w, No), Dollars[c], Dec(w \o <<c>>, No))
<1> DEFINE s == Dec(w, No)
           t == Dec(w, Yes)
           x == w \o <<c>>
           u == Dec(x, No)
           m == Dollars
<1>1. s \in Decoding /\ t \in Decoding
  BY DecType
<1>2. s.dollar = No /\ t.dollar = Yes /\ s.text = w /\ t.text = w
  BY DecWith
<1>3. m[c] = IF c = "$" THEN <<"$", "$">> ELSE <<c>>
  BY DollarsType
<1>4. [s EXCEPT !.dollar = Yes] = t
  BY DecWith
<1>5. x = Append(w, c)
  BY AppendIs DEF Text
<1>6. [s EXCEPT !.text = x] = u
  <2> HIDE DEF x
  <2> QED BY DecWith
<1> HIDE DEF s, t, x, m
<1>7. ASSUME c # "$" PROVE DecodeStep(s, c) = u
  BY <1>2, YesNo, <1>7, <1>5, <1>6 DEF DecodeStep
<1>8. ASSUME c = "$" PROVE DecodeStep(s, c) = t
  BY <1>2, YesNo, <1>8, <1>4 DEF DecodeStep, Yes
<1>9. ASSUME c = "$" PROVE DecodeStep(t, c) = u
  BY <1>2, YesNo, <1>9, <1>5 DEF DecodeStep, No, Dec
<1>10. CASE c = "$"
  <2> DEFINE k == <<c>>
  <2>1. Reads(Decoding, DecodeMoves, s, k, DecodeStep(s, c)) /\ Reads(Decoding, DecodeMoves, t, k, DecodeStep(t, c))
    BY <1>1, DecodeMove
  <2>2. k \in Text
    BY TextOps
  <2>3. m[c] = k \o k
    BY PairJoin, <1>10, <1>3
  <2> HIDE DEF k, u
  <2>4. Reads(Decoding, DecodeMoves, s, k, t) /\ Reads(Decoding, DecodeMoves, t, k, u)
    BY <1>8, <1>9, <1>10, <2>1, Zenon
  <2>5. Reads(Decoding, DecodeMoves, s, k \o k, u)
    BY <2>2, <2>4, ReadsConcat
  <2>6. Reads(Decoding, DecodeMoves, s, m[c], u)
    BY <2>3, <2>5, Zenon
  <2> QED BY <2>6 DEF s, u, x, m
<1>11. CASE c # "$"
  BY <1>1, DecodeMove, <1>3, <1>11, <1>7 DEF s, u, x, m
<1> QED BY <1>10, <1>11

LEMMA DecodeAll ==
  ASSUME NEW word \in Text
  PROVE  /\ Reads(Decoding, DecodeMoves, Dec(<<>>, No), Each(Dollars, word), Dec(word, No))
         /\ Each(Dollars, word) \in Text
<1> DEFINE m == Dollars
           e == Each(m, word)
           state == [w \in Text |-> Dec(w, No)]
<1>1. m \in [Atoms -> Text]
  BY DollarsType
<1>2. \A c \in Atoms : \A w \in Text : Reads(Decoding, DecodeMoves, Dec(w, No), m[c], Dec(w \o <<c>>, No))
  BY DecodeReads
<1> HIDE DEF m
<1>3. e \in Text
  BY <1>1, EachParts
<1>4. state \in [Text -> Decoding] /\ \A w \in Text : state[w] = Dec(w, No)
  BY DecType
<1>5. \A i \in 1..Len(word) : \A w \in Text : Reads(Decoding, DecodeMoves, state[w], m[word[i]], state[w \o <<word[i]>>])
  <2> TAKE i \in 1..Len(word)
  <2> TAKE w \in Text
  <2> DEFINE c == word[i]
             x == w \o <<c>>
  <2>1. c \in Atoms
    BY TextParts
  <2>2. x \in Text
    BY <2>1, TextOps
  <2>3. Reads(Decoding, DecodeMoves, Dec(w, No), m[c], Dec(x, No))
    BY <1>2, <2>1
  <2> HIDE DEF c, x, state
  <2>4. Reads(Decoding, DecodeMoves, state[w], m[c], state[x])
    BY <1>4, <2>2, <2>3
  <2> QED BY <2>4 DEF c, x
<1> HIDE DEF state
<1>6. Reads(Decoding, DecodeMoves, state[<<>>], e, state[word])
  <2>1. AddsAtoms(Decoding, DecodeMoves, m, state, word)
    BY <1>1, <1>4, <1>5 DEF AddsAtoms
  <2> QED BY <2>1, ReadsBack
<1>7. state[<<>>] = Dec(<<>>, No) /\ state[word] = Dec(word, No)
  BY TextOps, <1>4
<1>8. Reads(Decoding, DecodeMoves, Dec(<<>>, No), e, Dec(word, No))
  BY <1>6, <1>7, Zenon
<1> QED BY <1>3, <1>8 DEF e, m

(* The text that is left of an argument in which dollar signs are doubled. *)
LEMMA DecodedText ==
  ASSUME NEW word \in Text
  PROVE  Decode(Each(Dollars, word)) = IF Each(Dollars, word) = <<"\\", ";">> THEN <<";">> ELSE word
<1> DEFINE m == Dollars
           e == Each(m, word)
           n == Len(e)
           b == [text |-> <<>>, dollar |-> FALSE]
           g == [i \in 1..n |-> [s \in Decoding |-> DecodeStep(s, e[i])]]
           read == CHOOSE f : DecodesTo(e, f)
<1>3. e \in Text
  BY DecodeAll
<1>6. Reads(Decoding, DecodeMoves, Dec(<<>>, No), e, Dec(word, No))
  BY DecodeAll
<1>7. Dec(<<>>, No) = b /\ b \in Decoding
  <2>1. <<>> \in Text
    BY TextOps
  <2>2. Dec(<<>>, No) = b
    BY Zenon DEF Dec, No
  <2>3. Dec(<<>>, No) \in Decoding
    BY <2>1, DecType
  <2> QED BY <2>2, <2>3
<1> HIDE DEF e, m
<1>8. n \in Nat /\ \A i \in 1..n : e[i] \in Atoms
  BY <1>3, TextParts
<1>9. Keeps(n, Decoding, g)
  BY <1>8, DecodeStepType DEF Keeps
<1>10. \A i \in 1..n : \A s \in Decoding : g[i][s] = DecodeStep(s, e[i])
  OBVIOUS
<1>11. Decode(e) = IF e = <<"\\", ";">> THEN <<";">> ELSE read[n].text
  BY DEF Decode, DecodesTo
<1> HIDE DEF b, g
<1>12. PICK f : StepsOf(n, Decoding, b, g, f)
  BY <1>8, <1>7, <1>9, Recursion
<1>13. DecodesTo(e, f)
  <2>1. ASSUME NEW i \in 0..n PROVE f[i] = IF i = 0 THEN b ELSE DecodeStep(f[i-1], e[i])
    <3>1. i # 0 => i \in 1..n
      BY <1>8
    <3> QED BY <1>10, <1>12, <3>1 DEF StepsOf
  <2> QED BY <2>1, <1>12 DEF StepsOf, DecodesTo, b
<1>14. DecodesTo(e, read)
  BY <1>13
<1> HIDE DEF read
<1>15. read[n] = Dec(word, No)
  <2>1. read[0] = b
    BY <1>8, <1>14 DEF DecodesTo, b
  <2>2. ASSUME NEW i \in 1..n, read[i-1] \in Decoding PROVE read[i] = DecodeMoves[<<read[i-1], e[i]>>]
    <3>1. i \in 0..Len(e) /\ i # 0
      BY <1>8
    <3>2. read[i] = DecodeStep(read[i-1], e[i])
      BY <1>14, <3>1 DEF DecodesTo
    <3>3. e[i] \in Atoms
      BY <1>8
    <3> QED BY <2>2, <3>2, <3>3 DEF DecodeMoves
  <2>3. Follows(Decoding, DecodeMoves, b, e, read)
    BY <1>8, <2>1, <2>2 DEF Follows
  <2>4. Reads(Decoding, DecodeMoves, b, e, Dec(word, No))
    BY <1>6, <1>7, Zenon
  <2>5. read[Len(e)] = Dec(word, No)
    BY <2>3, <2>4, ReadsEnd
  <2> QED BY <2>5
<1>16. read[n].text = word
  BY <1>15, DecWith
<1>17. Decode(e) = IF e = <<"\\", ";">> THEN <<";">> ELSE word
  BY <1>11, <1>16, Zenon
<1> QED BY <1>17 DEF e, m

LEMMA PairElements ==
  ASSUME NEW c, NEW d
  PROVE  \A i \in DOMAIN <<c, d>> : <<c, d>>[i] = c \/ <<c, d>>[i] = d
  OBVIOUS

LEMMA SeparatorSame ==
  <<"\\", ";">> \in Text /\ Each(Dollars, <<"\\", ";">>) = <<"\\", ";">>
<1> DEFINE c == "\\"
           d == ";"
           m == Dollars
<1>1. c \in Atoms /\ d \in Atoms /\ c # "$" /\ d # "$"
  BY Literals
<1>2. m \in [Atoms -> Text] /\ m[c] = <<c>> /\ m[d] = <<d>>
  BY <1>1, DollarsType
<1> HIDE DEF c, d, m
<1>3. <<c, d>> \in Text
  BY <1>1, TextOps
<1>4. \A i \in DOMAIN <<c, d>> : <<c, d>>[i] = c \/ <<c, d>>[i] = d
  BY PairElements
<1> DEFINE t == <<c, d>>
<1>5. t \in Text /\ \A i \in DOMAIN t : t[i] = c \/ t[i] = d
  BY <1>3, <1>4
<1> HIDE DEF t
<1>6. \A i \in DOMAIN t : m[t[i]] = <<t[i]>>
  BY <1>2, <1>5, Zenon
<1>7. Each(m, t) = t
  BY <1>2, <1>5, <1>6, EachSame
<1> QED BY <1>5, <1>7, Zenon DEF t, c, d, m

LEMMA DecodedBack ==
  ASSUME NEW word \in Text, word # <<"\\", ";">>
  PROVE  Decode(Encode(word)) = word
<1> DEFINE sep == <<"\\", ";">>
           e == Each(Dollars, word)
<1>1. CASE word = <<";">>
  <2>1. Encode(word) = sep
    BY <1>1, Zenon DEF Encode
  <2>2. Decode(sep) = <<";">>
    BY Zenon DEF Decode
  <2> QED BY <1>1, <2>1, <2>2, Zenon
<1>2. CASE word # <<";">>
  <2>1. Encode(word) = e
    <3> DEFINE m == Dollars
    <3>1. DOMAIN word = 1..Len(word) /\ \A i \in 1..Len(word) : word[i] \in Atoms
      BY TextParts
    <3>2. \A c \in Atoms : m[c] = IF c = "$" THEN <<"$", "$">> ELSE <<c>>
      BY DollarsType
    <3> HIDE DEF m
    <3>3. [i \in DOMAIN word |-> IF word[i] = "$" THEN <<"$", "$">> ELSE <<word[i]>>] = [i \in DOMAIN word |-> m[word[i]]]
      BY <3>1, <3>2
    <3>4. Encode(word) = Each(m, word)
      BY <1>2, <3>3, Zenon DEF Encode, Each
    <3> QED BY <3>4 DEF m
  <2>2. e # sep
    <3>1. SUFFICES ASSUME e = sep PROVE FALSE
      OBVIOUS
    <3>2. sep \in Text /\ Each(Dollars, sep) = sep
      BY SeparatorSame
    <3>3. Reads(Decoding, DecodeMoves, Dec(<<>>, No), e, Dec(word, No))
      BY DecodeAll
    <3>4. Reads(Decoding, DecodeMoves, Dec(<<>>, No), Each(Dollars, sep), Dec(sep, No))
      BY <3>2, DecodeAll
    <3> DEFINE f == Dec(<<>>, No)
    <3> HIDE DEF e, sep, f
    <3>5. Reads(Decoding, DecodeMoves, f, sep, Dec(word, No)) /\ Reads(Decoding, DecodeMoves, f, sep, Dec(sep, No))
      BY <3>1, <3>2, <3>3, <3>4 DEF f
    <3>6. Dec(word, No) = Dec(sep, No)
      BY <3>2, <3>5, ReadsOnce
    <3>7. word = sep
      <4>1. Dec(word, No).text = word /\ Dec(sep, No).text = sep
        BY DecWith
      <4> QED BY <3>6, <4>1, Zenon
    <3> QED BY <3>7 DEF sep
  <2>3. Decode(e) = IF e = sep THEN <<";">> ELSE word
    BY DecodedText
  <2> QED BY <2>1, <2>2, <2>3, Zenon
<1> QED BY <1>1, <1>2

(***************************************************************************)
(* What processExec makes of a line.                                       *)
(***************************************************************************)
(* How many "%" stand right before a place, and where a "%" begins a code  *)
(* or ends the argument.                                                   *)
Percent == "%"
RunTo(a, i) == {j \in 0..(i - 1) : \A k \in (j + 1)..(i - 1) : a[k] = Percent}
RunBefore(a, i) == i - 1 - (CHOOSE j \in RunTo(a, i) : \A k \in RunTo(a, i) : j <= k)
Waits(a) == {i \in 1..Len(a) : a[i] = Percent /\ RunBefore(a, i) % 2 = 0}

LEMMA RunStart ==
  ASSUME NEW a, NEW i \in Nat \ {0}
  PROVE  \E j \in RunTo(a, i) : RunBefore(a, i) = i - 1 - j /\ \A k \in RunTo(a, i) : j <= k
<1>1. RunTo(a, i) \subseteq Nat /\ i - 1 \in RunTo(a, i)
  BY DEF RunTo
<1>2. \E j \in RunTo(a, i) : \A k \in RunTo(a, i) : j <= k
  BY <1>1, LeastNumber
<1> QED BY <1>2, Zenon DEF RunBefore

LEMMA RunNext ==
  ASSUME NEW a, NEW i \in Nat \ {0}
  PROVE  /\ RunBefore(a, 1) = 0
         /\ RunBefore(a, i) \in Nat
         /\ RunBefore(a, i + 1) = IF a[i] = Percent THEN RunBefore(a, i) + 1 ELSE 0
<1> HIDE DEF Percent
<1> USE DEF RunTo
<1>1. PICK j \in RunTo(a, i) : RunBefore(a, i) = i - 1 - j /\ \A k \in RunTo(a, i) : j <= k
  BY RunStart
<1>2. PICK m \in RunTo(a, i + 1) : RunBefore(a, i + 1) = i + 1 - 1 - m /\ \A k \in RunTo(a, i + 1) : m <= k
  BY RunStart
<1>3. RunBefore(a, 1) = 0
  <2>1. 1 \in Nat \ {0}
    OBVIOUS
  <2>2. PICK k \in RunTo(a, 1) : RunBefore(a, 1) = 1 - 1 - k
    BY <2>1, RunStart
  <2> QED BY <2>2
<1>4. CASE a[i] = Percent
  BY <1>4, <1>1, <1>2, <1>3
<1>5. CASE a[i] # Percent
  BY <1>5, <1>1, <1>2, <1>3
<1> QED BY <1>4, <1>5

LEMMA WaitsNext ==
  ASSUME NEW a, Len(a) \in Nat
  PROVE  /\ 0 \notin Waits(a)
         /\ \A i \in 1..Len(a) : i \in Waits(a) <=> a[i] = Percent /\ i - 1 \notin Waits(a)
<1> HIDE DEF Percent
<1> USE DEF Waits
<1> DEFINE n == Len(a)
           T == {i \in 0..n : i \in Waits(a) <=> RunBefore(a, i + 1) % 2 = 1}
<1>1. 0 \in T
  BY RunNext
<1>2. ASSUME NEW i \in 1..n PROVE i - 1 \in T => i \in T
  <2>1. i \in Nat \ {0}
    OBVIOUS
  <2>2. RunBefore(a, i) \in Nat /\ RunBefore(a, i + 1) = IF a[i] = Percent THEN RunBefore(a, i) + 1 ELSE 0
    BY <2>1, RunNext
  <2>3. i \in 0..n
    OBVIOUS
  <2> HIDE DEF n
  <2> QED BY <2>2, <2>3 DEF n
<1>3. \A i \in 0..n : i \in T
  <2> HIDE DEF T
  <2> QED BY <1>1, <1>2, CountUp
<1>4. ASSUME NEW i \in 1..n PROVE i \in Waits(a) <=> a[i] = Percent /\ i - 1 \notin Waits(a)
  <2>1. i - 1 \in 0..n /\ (i - 1) + 1 = i
    OBVIOUS
  <2>2. i - 1 \in Waits(a) <=> RunBefore(a, i) % 2 = 1
    BY <1>3, <2>1
  <2>3. RunBefore(a, i) \in Nat
    BY RunNext
  <2> QED BY <2>2, <2>3
<1> QED BY <1>4

LEMMA CodeWaits ==
  ASSUME NEW a, Len(a) \in Nat, NEW i \in Int
  PROVE  CodeAt(a, i) <=> i \in Waits(a) /\ i < Len(a)
  BY DEF CodeAt, RunBefore, RunTo, Percent, Waits

(* The field codes of a line, in its order.                                *)
FieldIn(a, i) == i \in Waits(a) /\ i < Len(a) /\ a[i + 1] \in FieldCodes
Passed(line, n, k) == \E p \in FieldPlaces(line) : p[1] < n \/ (p[1] = n /\ p[2] < k)

LEMMA LongestArgument ==
  ASSUME NEW line \in Texts, NEW n \in DOMAIN line
  PROVE  LET longest == Max({Len(line[m]) : m \in DOMAIN line}) IN longest \in Nat /\ Len(line[n]) <= longest
<1> DEFINE l == Len(line)
           S == {Len(line[m]) : m \in 1..l}
<1>1. l \in Nat /\ DOMAIN line = 1..l /\ \A m \in 1..l : Len(line[m]) \in Nat
  BY TextParts
<1>2. S \subseteq Nat /\ Len(line[n]) \in S
  BY <1>1
<1> DEFINE T == {i \in 0..l : \E b \in Nat : \A m \in 1..i : Len(line[m]) <= b}
<1>3. l \in T
  <2>1. 0 \in T
    BY <1>1
  <2>2. ASSUME NEW i \in 1..l, i - 1 \in T PROVE i \in T
    <3>1. PICK b \in Nat : \A m \in 1..(i - 1) : Len(line[m]) <= b
      BY <2>2
    <3>2. Len(line[i]) \in Nat /\ b + Len(line[i]) \in Nat
      BY <1>1
    <3>3. ASSUME NEW m \in 1..i PROVE Len(line[m]) <= b + Len(line[i])
      BY <1>1, <3>1, <3>2
    <3>4. i \in 0..l
      BY <1>1
    <3> QED BY <3>2, <3>3, <3>4
  <2> HIDE DEF T
  <2>3. \A i \in 0..l : i \in T
    BY <1>1, <2>1, <2>2, CountUp
  <2> QED BY <1>1, <2>3
<1>4. \E x \in S : \A y \in S : y <= x
  <2>1. PICK b \in Nat : \A x \in S : x <= b
    BY <1>3
  <2> HIDE DEF S
  <2>2. S \subseteq 0..b /\ S # {}
    BY <1>2, <2>1
  <2> QED BY <2>2, GreatestNumber
<1>5. Max(S) \in S /\ \A y \in S : y <= Max(S)
  <2> HIDE DEF S
  <2>1. \E x \in S : \A y \in S : x >= y
    BY <1>2, <1>4
  <2> QED BY <1>2, <2>1 DEF Max
<1>6. S = {Len(line[m]) : m \in DOMAIN line}
  BY <1>1
<1> HIDE DEF S
<1> QED BY <1>2, <1>5, <1>6, Zenon

LEMMA FieldsAre ==
  ASSUME NEW line \in Texts
  PROVE  /\ \A n \in DOMAIN line, i \in Int : <<n, i>> \in FieldPlaces(line) <=> FieldIn(line[n], i)
         /\ \A p \in FieldPlaces(line) :
              p = <<p[1], p[2]>> /\ p[1] \in DOMAIN line /\ p[2] \in 1..(Len(line[p[1]]) - 1) /\ p[2] \in Waits(line[p[1]])
<1> DEFINE longest == Max({Len(line[m]) : m \in DOMAIN line})
           P == {<<n, i>> : n \in DOMAIN line, i \in 1..longest}
<1>1. FieldPlaces(line) = {p \in P : CodeAt(line[p[1]], p[2]) /\ line[p[1]][p[2] + 1] \in FieldCodes}
  BY DEF FieldPlaces
<1>2. ASSUME NEW n \in DOMAIN line
      PROVE  Len(line[n]) \in Nat /\ longest \in Nat /\ Len(line[n]) <= longest
  BY LongestArgument, TextParts
<1>3. ASSUME NEW n \in DOMAIN line, NEW i \in Int PROVE CodeAt(line[n], i) <=> i \in Waits(line[n]) /\ i < Len(line[n])
  BY <1>2, CodeWaits
<1> HIDE DEF longest
<1>4. ASSUME NEW n \in DOMAIN line, NEW i \in Int PROVE <<n, i>> \in FieldPlaces(line) <=> FieldIn(line[n], i)
  BY <1>2, <1>1, <1>3 DEF Waits, FieldIn
<1>5. ASSUME NEW p \in FieldPlaces(line)
      PROVE  p = <<p[1], p[2]>> /\ p[1] \in DOMAIN line /\ p[2] \in 1..(Len(line[p[1]]) - 1) /\ p[2] \in Waits(line[p[1]])
  <2>1. p \in P /\ CodeAt(line[p[1]], p[2])
    BY <1>1
  <2>2. PICK n \in DOMAIN line, i \in 1..longest : p = <<n, i>>
    BY <2>1
  <2>3. p[1] = n /\ p[2] = i /\ i \in Int
    BY <2>2
  <2>4. i \in Waits(line[n]) /\ i < Len(line[n])
    BY <2>1, <2>3, <1>3
  <2>5. i \in 1..(Len(line[n]) - 1)
    BY <1>2, <2>4 DEF Waits
  <2> QED BY <2>2, <2>3, <2>4, <2>5, Zenon
<1> QED BY <1>4, <1>5, Zenon

Earlier(q, n, k) == q[1] < n \/ (q[1] = n /\ q[2] < k)

LEMMA PassedIs ==
  ASSUME NEW line \in Texts, NEW n \in Int, NEW k \in Int
  PROVE  /\ Passed(line, n, k) <=> \E p \in FieldPlaces(line) : Earlier(p, n, k)
         /\ \A p \in FieldPlaces(line) : p[1] \in Nat /\ p[2] \in Nat /\ p = <<p[1], p[2]>>
  BY FieldsAre, TextParts DEF Passed, Earlier

LEMMA FirstExists ==
  ASSUME NEW line \in Texts, FieldPlaces(line) # {}
  PROVE  /\ FirstField(line) \in FieldPlaces(line)
         /\ \A q \in FieldPlaces(line) : ~Earlier(q, FirstField(line)[1], FirstField(line)[2])
<1> DEFINE P == FieldPlaces(line)
<1>1. \A p \in P : p[1] \in Nat /\ p[2] \in Nat /\ p = <<p[1], p[2]>>
  BY PassedIs
<1>2. FirstField(line) = CHOOSE p \in P : \A q \in P : p[1] < q[1] \/ (p[1] = q[1] /\ p[2] <= q[2])
  BY Zenon DEF FirstField
<1>3. P # {}
  OBVIOUS
<1> HIDE DEF P
<1> DEFINE M == {p[1] : p \in P}
<1>4. PICK m \in M : \A x \in M : m <= x
  <2>1. M \subseteq Nat /\ M # {}
    BY <1>1, <1>3
  <2> HIDE DEF M
  <2> QED BY <2>1, LeastNumber
<1> DEFINE N == {p[2] : p \in {q \in P : q[1] = m}}
<1>5. PICK k \in N : \A x \in N : k <= x
  <2>1. N \subseteq Nat /\ N # {}
    BY <1>1, <1>4
  <2> HIDE DEF N
  <2> QED BY <2>1, LeastNumber
<1>6. PICK p \in P : p[1] = m /\ p[2] = k
  BY <1>5
<1>7. ASSUME NEW q \in P PROVE p[1] < q[1] \/ (p[1] = q[1] /\ p[2] <= q[2])
  BY <1>4, <1>5, <1>1, <1>6
<1> DEFINE f == FirstField(line)
<1>8. f \in P /\ \A q \in P : f[1] < q[1] \/ (f[1] = q[1] /\ f[2] <= q[2])
  BY <1>7, <1>2 DEF f
<1> HIDE DEF f
<1>9. \A q \in P : ~Earlier(q, f[1], f[2])
  BY <1>1, <1>8 DEF Earlier
<1> QED BY <1>8, <1>9 DEF P, f

LEMMA FirstIs ==
  ASSUME NEW line \in Texts, NEW n \in Int, NEW i \in Int, <<n, i>> \in FieldPlaces(line), ~Passed(line, n, i)
  PROVE  FirstField(line) = <<n, i>>
<1> DEFINE f == FirstField(line)
           P == FieldPlaces(line)
<1>1. f \in P /\ \A q \in P : ~Earlier(q, f[1], f[2])
  BY FirstExists
<1>2. ~Earlier(f, n, i) /\ ~Earlier(<<n, i>>, f[1], f[2])
  BY <1>1, PassedIs
<1>3. f[1] \in Nat /\ f[2] \in Nat /\ f = <<f[1], f[2]>>
  BY <1>1, PassedIs
<1> HIDE DEF f, P
<1>4. <<n, i>>[1] = n /\ <<n, i>>[2] = i
  OBVIOUS
<1>5. f[1] = n /\ f[2] = i
  BY <1>2, <1>3, <1>4 DEF Earlier
<1> QED BY <1>3, <1>5 DEF f

(* The first field of the line is in argument n, before place k.           *)
Opens(line, n, k) == FieldPlaces(line) # {} /\ FirstField(line)[1] = n /\ FirstField(line)[2] < k

LEMMA PassedNext ==
  ASSUME NEW line \in Texts, NEW n \in DOMAIN line, NEW k \in Nat
  PROVE  /\ Passed(line, n, k + 1) <=> Passed(line, n, k) \/ FieldIn(line[n], k)
         /\ Opens(line, n, k + 1) <=> Opens(line, n, k) \/ (FieldIn(line[n], k) /\ ~Passed(line, n, k))
         /\ Opens(line, n, k) => Passed(line, n, k)
         /\ FieldIn(line[n], k) /\ ~Passed(line, n, k) => FirstField(line) = <<n, k>>
<1> DEFINE P == FieldPlaces(line)
           f == FirstField(line)
           l == k + 1
<1>0. n \in Nat
  BY TextParts
<1>1. <<n, k>> \in P <=> FieldIn(line[n], k)
  BY FieldsAre
<1>2. \A p \in P : p[1] \in Nat /\ p[2] \in Nat /\ p = <<p[1], p[2]>>
  BY <1>0, PassedIs
<1>3. Passed(line, n, k) <=> \E p \in P : Earlier(p, n, k)
  BY <1>0, PassedIs
<1>4. Passed(line, n, l) <=> \E p \in P : Earlier(p, n, l)
  BY <1>0, PassedIs
<1>5. P # {} => f \in P /\ \A q \in P : ~Earlier(q, f[1], f[2])
  BY FirstExists
<1>6. <<n, k>> \in P /\ ~Passed(line, n, k) => f = <<n, k>>
  BY <1>0, FirstIs
<1>7. Opens(line, n, k) <=> P # {} /\ f[1] = n /\ f[2] < k
  BY DEF Opens
<1>8. Opens(line, n, l) <=> P # {} /\ f[1] = n /\ f[2] < l
  BY DEF Opens
<1> DEFINE p == <<n, k>>
<1>9. p[1] = n /\ p[2] = k
  OBVIOUS
<1>10. \A q \in P : q[1] = n /\ q[2] = k => q = p
  BY <1>2
<1> HIDE DEF P, f, p
<1>11. ASSUME NEW q \in P PROVE Earlier(q, n, l) <=> Earlier(q, n, k) \/ q = p
  BY <1>2, <1>9, <1>10, <1>0 DEF Earlier
<1>12. Passed(line, n, l) <=> Passed(line, n, k) \/ p \in P
  BY <1>11, <1>3, <1>4
<1>13. Opens(line, n, k) => Passed(line, n, k)
  BY <1>5, <1>7, <1>3 DEF Earlier
<1>14. Opens(line, n, l) <=> Opens(line, n, k) \/ (p \in P /\ ~Passed(line, n, k))
  BY <1>5, <1>7, <1>8, <1>2, <1>10, <1>3, <1>6, <1>9 DEF p
<1> QED BY <1>1, <1>6, <1>12, <1>13, <1>14 DEF p, f

LEMMA PassedEnd ==
  ASSUME NEW line \in Texts, NEW n \in DOMAIN line
  PROVE  /\ ~Opens(line, n, 0)
         /\ Passed(line, n + 1, 0) <=> Passed(line, n, Len(line[n]))
         /\ (FieldPlaces(line) # {} /\ FirstField(line)[1] = n) <=> Opens(line, n, Len(line[n]))
         /\ ~Passed(line, 1, 0)
  BY TextParts, PassedIs, FieldsAre, FirstExists DEF Passed, Opens

(* The step of a character, by what it changes.                            *)
LocalCodes == {"f", "F"}
ManyCodes == {"F", "U"}
TextCodes == {"c", "k", "%"} \cup Deprecated
IconCode == "i"
CodeText(look, c) == CASE c = "c" -> look.name [] c = "k" -> look.path [] c = "%" -> <<"%">> [] OTHER -> <<>>
ItemsFor(c, fields) == IF c \in ManyCodes THEN <<fields>> ELSE [i \in DOMAIN fields |-> <<fields[i]>>]
Located(s, t) == s.argNum = t.argNum /\ s.location = t.location /\ s.local = t.local /\ s.items = t.items
Same(s, t) ==
  Located(s, t) /\ s.command = t.command /\ s.dynamic = t.dynamic /\ s.exclusive = t.exclusive /\ s.bad = t.bad

LEMMA PlainStep ==
  ASSUME NEW t \in Tasks, NEW c \in Atoms, NEW look, LookType(look), ~t.percent
  PROVE  LET s == Character(t, c, look)
         IN /\ Same(s, t)
            /\ c = Percent => s.percent /\ s.arg = t.arg
            /\ c # Percent => ~s.percent /\ s.arg = Append(t.arg, c)
  BY DEF Character, Percent, Tasks, Same, Located

LEMMA CodeTextIs ==
  ASSUME NEW c \in TextCodes, NEW look, LookType(look), NEW t \in Tasks
  PROVE  /\ c \notin FieldCodes /\ c # IconCode /\ CodeText(look, c) \in Text
         /\ Code(t, c, look) = [t EXCEPT !.arg = t.arg \o CodeText(look, c)]
<1>1. c \notin FieldCodes /\ c # "i"
  BY DEF TextCodes, Deprecated, FieldCodes
<1>2. t.arg \in Text /\ look.name \in Text /\ look.path \in Text /\ "%" \in Atoms
  BY Literals DEF Tasks, LookType
<1>3. CASE c = "c"
  BY <1>3, <1>1, <1>2 DEF CodeText, Deprecated, Code, IconCode
<1>4. CASE c = "k"
  BY <1>4, <1>1, <1>2 DEF CodeText, Deprecated, Code, IconCode
<1>5. CASE c = "%"
  <2>1. CodeText(look, c) = <<"%">>
    BY <1>5 DEF CodeText
  <2>2. Code(t, c, look) = [t EXCEPT !.arg = Append(t.arg, "%")]
    BY <1>1, <1>5 DEF Deprecated, Code
  <2>3. Append(t.arg, "%") = t.arg \o <<"%">>
    BY <1>2, AppendIs DEF Text
  <2>4. <<"%">> \in Text
    BY <1>2, TextOps
  <2> QED BY <1>1, <2>1, <2>2, <2>3, <2>4 DEF IconCode
<1>6. CASE c \in Deprecated
  BY <1>6, <1>1, <1>2, TextOps DEF Deprecated, CodeText, Code, Text, Tasks, IconCode
<1> QED BY <1>3, <1>4, <1>5, <1>6 DEF TextCodes

LEMMA TextStep ==
  ASSUME NEW t \in Tasks, NEW c \in Atoms, NEW look, LookType(look), t.percent, c \notin FieldCodes, c # IconCode
  PROVE  LET s == Character(t, c, look)
         IN /\ ~s.percent /\ (t.bad => s.bad)
            /\ ~s.bad => Same(s, t) /\ c \in TextCodes /\ s.arg = t.arg \o CodeText(look, c)
<1> DEFINE u == [t EXCEPT !.percent = FALSE]
           s == Character(t, c, look)
<1>1. s = Code(u, c, look)
  BY Zenon DEF Character
<1>2. u \in Tasks /\ Same(u, t) /\ u.arg = t.arg /\ ~u.percent
  BY DEF Tasks, Same, Located
<1> HIDE DEF u, s
<1>3. CASE c \in TextCodes
  <2> DEFINE x == u.arg \o CodeText(look, c)
  <2>1. s = [u EXCEPT !.arg = x]
    BY <1>1, <1>2, <1>3, CodeTextIs
  <2> HIDE DEF x
  <2>2. Same(s, u) /\ s.arg = x /\ ~s.percent
    BY <1>2, <2>1 DEF Tasks, Same, Located
  <2>3. Same(s, t)
    BY <1>2, <2>2, Zenon DEF Same, Located
  <2>4. t.bad => s.bad
    BY <2>3 DEF Same
  <2> QED BY <1>2, <1>3, <2>2, <2>3, <2>4 DEF x, s
<1>4. CASE c \notin TextCodes
  BY <1>4, <1>1, <1>2 DEF TextCodes, IconCode, Code, Tasks, s
<1> QED BY <1>3, <1>4

LEMMA FieldStep ==
  ASSUME NEW t \in Tasks, NEW c \in FieldCodes, NEW look, LookType(look), t.percent
  PROVE  LET s == Character(t, c, look)
         IN /\ ~s.percent /\ s.bad = t.bad /\ s.exclusive /\ s.command = t.command
            /\ t.exclusive \/ look.fields = <<>> => Located(s, t) /\ s.dynamic = t.dynamic /\ s.arg = t.arg
            /\ ~(t.exclusive \/ look.fields = <<>>) =>
                 /\ s.dynamic /\ s.argNum = Len(t.command) /\ s.location = Len(t.arg)
                 /\ s.local = (c \in LocalCodes) /\ s.items = ItemsFor(c, look.fields)
                 /\ s.arg = t.arg \o <<Percent, c>>
<1> DEFINE u == [t EXCEPT !.percent = FALSE]
           s == Character(t, c, look)
<1>1. s = Field(u, c, look.fields)
  BY DEF Character, FieldCodes, Deprecated, Code
<1>2. u \in Tasks /\ Same(u, t) /\ u.arg = t.arg /\ ~u.percent
  BY DEF Tasks, Same, Located
<1> HIDE DEF u, s
<1>3. CASE t.exclusive \/ look.fields = <<>>
  <2>0. u.exclusive \/ look.fields = <<>>
    BY <1>2, <1>3 DEF Same
  <2>1. s = [u EXCEPT !.exclusive = TRUE]
    BY <1>1, <2>0, Zenon DEF Field
  <2>2. Located(s, u) /\ s.command = u.command /\ s.dynamic = u.dynamic /\ s.bad = u.bad /\ s.exclusive /\ ~s.percent /\ s.arg = u.arg
    BY <1>2, <2>1 DEF Tasks, Located
  <2>3. Located(s, t) /\ s.command = t.command /\ s.dynamic = t.dynamic /\ s.bad = t.bad
    BY <1>2, <2>2, Zenon DEF Same, Located
  <2> QED BY <1>2, <1>3, <2>2, <2>3 DEF s
<1>4. CASE ~(t.exclusive \/ look.fields = <<>>)
  <2>0. ~(u.exclusive \/ look.fields = <<>>)
    BY <1>2, <1>4 DEF Same
  <2> DEFINE items == ItemsFor(c, look.fields)
             local == c \in LocalCodes
             arg == u.arg \o <<Percent, c>>
             l == Len(u.command)
             m == Len(u.arg)
  <2>1. s = [u EXCEPT !.exclusive = TRUE, !.dynamic = TRUE, !.argNum = l, !.location = m,
                      !.local = local, !.items = items, !.arg = arg]
    BY <1>1, <2>0, Zenon DEF Field, ItemsFor, LocalCodes, ManyCodes, Percent
  <2>2. local \in BOOLEAN
    OBVIOUS
  <2> HIDE DEF items, local, arg, l, m
  <2>3. /\ s.exclusive /\ s.dynamic /\ s.argNum = l /\ s.location = m /\ s.local = local /\ s.items = items /\ s.arg = arg
        /\ s.command = u.command /\ s.bad = u.bad /\ ~s.percent
    BY <1>2, <2>1, <2>2 DEF Tasks
  <2>4. u.command = t.command /\ u.bad = t.bad
    BY <1>2 DEF Same
  <2>5. /\ ~s.percent /\ s.bad = t.bad /\ s.exclusive /\ s.command = t.command
        /\ s.dynamic /\ s.argNum = Len(t.command) /\ s.location = Len(t.arg)
        /\ s.local = local /\ s.items = items
        /\ s.arg = t.arg \o <<Percent, c>>
    BY <1>2, <2>3, <2>4, Zenon DEF arg, l, m
  <2> QED BY <1>4, <2>5 DEF s, local, items
<1> QED BY <1>3, <1>4

(* The text that is meant at a place of an argument.                       *)
Here(line, value) == value # <<>> => Head(Resources(line, value)) \in Text

LEMMA TextAtIs ==
  ASSUME NEW line \in Texts, NEW n \in DOMAIN line, NEW look, LookType(look), NEW value, Here(line, value),
         NEW i \in 1..Len(line[n])
  PROVE  LET a == line[n]
             f == TextAt(line, n, i, look, value)
         IN /\ f \in Text
            /\ FieldIn(a, i) =>
                 f = IF value # <<>> /\ FirstField(line) = <<n, i>> THEN Head(Resources(line, value)) ELSE <<>>
            /\ i \in Waits(a) /\ i < Len(a) /\ a[i + 1] \in TextCodes => f = CodeText(look, a[i + 1])
            /\ i - 1 \in Waits(a) => f = <<>>
            /\ (i \notin Waits(a) \/ i = Len(a)) /\ i - 1 \notin Waits(a) => f = <<a[i]>>
<1> DEFINE a == line[n]
           f == TextAt(line, n, i, look, value)
           j == i + 1
           k == i - 1
           h == IF value # <<>> /\ FirstField(line) = <<n, i>> THEN Head(Resources(line, value)) ELSE <<>>
           C == CodeAt(a, i)
           B == CodeAt(a, k)
           p == <<"%">>
           o == <<a[i]>>
<1>1. a \in Text /\ Len(a) \in Nat /\ i \in Nat /\ a[i] \in Atoms
  BY TextParts
<1>2. /\ C <=> i \in Waits(a) /\ i < Len(a)
      /\ B <=> k \in Waits(a)
      /\ ~(B /\ i \in Waits(a))
  BY <1>1, CodeWaits, WaitsNext
<1>3. f = CASE C /\ a[j] \in FieldCodes -> h
            [] C /\ a[j] = "c" -> look.name
            [] C /\ a[j] = "k" -> look.path
            [] C /\ a[j] = "%" -> p
            [] C /\ a[j] \in Deprecated -> <<>>
            [] B -> <<>>
            [] OTHER -> o
  BY Zenon DEF TextAt
<1>4. h \in Text /\ look.name \in Text /\ look.path \in Text /\ p \in Text /\ <<>> \in Text /\ o \in Text
  BY <1>1, TextOps, Literals DEF LookType, Here
<1> DEFINE c == a[j]
<1>5. C => c \in Atoms
  BY <1>1, <1>2, TextParts
<1>6. c \in FieldCodes => c # "c" /\ c # "k" /\ c # "%" /\ c \notin Deprecated
  BY DEF FieldCodes, Deprecated
<1> HIDE DEF a, f, j, k, h, C, B, p, o
<1>7. C /\ c \in FieldCodes => f = h
  BY <1>2, <1>3, <1>6, Zenon
<1>8. C /\ c = "c" => f = look.name
  BY <1>2, <1>3 DEF FieldCodes, Deprecated
<1>9. C /\ c = "k" => f = look.path
  BY <1>2, <1>3 DEF FieldCodes, Deprecated
<1>10. C /\ c = "%" => f = p
  BY <1>2, <1>3 DEF FieldCodes, Deprecated
<1>11. C /\ c \in Deprecated => f = <<>> /\ c # "c" /\ c # "k" /\ c # "%"
  BY <1>2, <1>3 DEF FieldCodes, Deprecated
<1>12. B => f = <<>>
  BY <1>2, <1>3
<1>13. ~C /\ ~B => f = o
  BY <1>3, Zenon
<1>14. C /\ c \notin FieldCodes /\ c \notin TextCodes => f = o
  BY <1>2, <1>3 DEF TextCodes
<1>15. C /\ c \in TextCodes => f = CodeText(look, c)
  BY <1>8, <1>9, <1>10, <1>11 DEF CodeText, p, TextCodes
<1>16. f \in Text
  BY <1>4, <1>7, <1>8, <1>9, <1>10, <1>11, <1>14, <1>12, <1>13 DEF TextCodes
<1>17. FieldIn(a, i) => f = h
  BY <1>2, <1>7, Zenon DEF FieldIn, j
<1>18. i \in Waits(a) /\ i < Len(a) /\ c \in TextCodes => f = CodeText(look, c)
  BY <1>2, <1>15
<1>19. (i \notin Waits(a) \/ i = Len(a)) /\ k \notin Waits(a) => f = o
  BY <1>1, <1>2, <1>13
<1>20. k \in Waits(a) => f = <<>>
  BY <1>2, <1>12
<1> QED BY <1>16, <1>17, <1>18, <1>19, <1>20, Zenon DEF a, f, j, k, h, o

LEMMA NotFirst ==
  ASSUME NEW line \in Texts, NEW n \in Int, NEW k \in Int, Passed(line, n, k)
  PROVE  FirstField(line) # <<n, k>>
<1> DEFINE P == FieldPlaces(line)
           f == FirstField(line)
<1>1. PICK p \in P : Earlier(p, n, k)
  BY PassedIs
<1>2. ~Earlier(p, f[1], f[2])
  BY <1>1, FirstExists
<1> HIDE DEF f, P
<1>3. f = <<n, k>> => f[1] = n /\ f[2] = k
  OBVIOUS
<1>4. f # <<n, k>>
  BY <1>1, <1>2, <1>3
<1> QED BY <1>4 DEF f

(* Parts of two sequences put together.                                    *)
LEMMA LastParts ==
  ASSUME NEW S, NEW a \in Seq(S), NEW b \in Seq(S), NEW i \in 1..(Len(a) + 1)
  PROVE  SubSeq(a \o b, i, Len(a \o b)) = SubSeq(a, i, Len(a)) \o b
<1> DEFINE m == Len(a)
           n == Len(b)
           c == a \o b
           x == SubSeq(c, i, Len(c))
           y == SubSeq(a, i, m)
           z == y \o b
<1>1. m \in Nat /\ n \in Nat /\ c \in Seq(S) /\ Len(c) = m + n /\ i \in Nat \ {0} /\ i <= m + 1
  OBVIOUS
<1>2. (\A j \in 1..m : c[j] = a[j]) /\ (\A j \in 1..n : c[m + j] = b[j])
  BY ConcatAt
<1>3. y \in Seq(S) /\ Len(y) = m + 1 - i /\ \A j \in 1..(m + 1 - i) : y[j] = a[i + j - 1]
  OBVIOUS
<1> HIDE DEF c, y, m, n
<1>4. x \in Seq(S) /\ Len(x) = m + n + 1 - i /\ \A j \in 1..(m + n + 1 - i) : x[j] = c[i + j - 1]
  BY <1>1
<1> HIDE DEF x
<1>5. /\ z \in Seq(S) /\ Len(z) = (m + 1 - i) + n
      /\ \A j \in 1..(m + 1 - i) : z[j] = y[j]
      /\ \A j \in 1..n : z[(m + 1 - i) + j] = b[j]
  <2>1. /\ \A j \in 1..Len(y) : (y \o b)[j] = y[j]
        /\ \A j \in 1..Len(b) : (y \o b)[Len(y) + j] = b[j]
        /\ Len(y \o b) = Len(y) + Len(b) /\ y \o b \in Seq(S)
    BY <1>3, ConcatAt
  <2> QED BY <1>3, <2>1 DEF n
<1> HIDE DEF z
<1>6. ASSUME NEW j \in 1..Len(x) PROVE x[j] = z[j]
  <2>1. j \in 1..(m + n + 1 - i)
    BY <1>4
  <2>2. CASE j <= m + 1 - i
    BY <1>1, <2>1, <2>2, <1>3, <1>4, <1>5, <1>2
  <2>3. CASE j > m + 1 - i
    <3> DEFINE k == j - (m + 1 - i)
    <3>1. k \in 1..n /\ j = (m + 1 - i) + k /\ i + j - 1 = m + k
      BY <1>1, <2>1, <2>3
    <3> HIDE DEF k
    <3>2. x[j] = c[m + k]
      BY <1>4, <2>1, <3>1
    <3>3. z[j] = b[k]
      BY <1>5, <3>1
    <3>4. c[m + k] = b[k]
      BY <1>2, <3>1
    <3> QED BY <3>2, <3>3, <3>4
  <2> QED BY <1>1, <2>1, <2>2, <2>3
<1>7. x = z
  <2>1. Len(x) = Len(z)
    BY <1>1, <1>4, <1>5
  <2> QED BY <1>4, <1>5, <1>6, <2>1
<1> QED BY <1>7 DEF x, z, y, c, m

LEMMA FirstParts ==
  ASSUME NEW S, NEW a \in Seq(S), NEW b \in Seq(S), NEW i \in 0..Len(a)
  PROVE  SubSeq(a \o b, 1, i) = SubSeq(a, 1, i) /\ SubSeq(a, 1, i) \in Seq(S)
  BY ConcatAt

(* The place of the code in the text, filled or not yet.                   *)
LEMMA ReplaceLonger ==
  ASSUME NEW arg \in Text, NEW loc \in Nat, loc + 2 <= Len(arg), NEW h \in Text, NEW x \in Text
  PROVE  ReplaceCode(arg \o x, loc, h) = ReplaceCode(arg, loc, h) \o x
<1> DEFINE m == Len(arg)
           u == SubSeq(arg, 1, loc)
           v == SubSeq(arg, loc + 3, m)
<1>1. m \in Nat /\ loc \in 0..m /\ arg \o x \in Seq(Atoms) /\ Len(arg \o x) = m + Len(x) /\ loc \in 0..Len(arg \o x)
  BY DEF Text
<1>2. SubSeq(arg \o x, 1, loc) = u
  BY <1>1 DEF Text
<1>3. SubSeq(arg \o x, loc + 3, Len(arg \o x)) = v \o x
  <2> DEFINE i == loc + 3
  <2>1. i \in 1..(Len(arg) + 1) /\ arg \in Seq(Atoms) /\ x \in Seq(Atoms)
    BY <1>1 DEF Text
  <2> HIDE DEF i
  <2>2. SubSeq(arg \o x, i, Len(arg \o x)) = SubSeq(arg, i, Len(arg)) \o x
    BY <2>1, LastParts
  <2> QED BY <2>2 DEF i
<1>4. ReplaceCode(arg \o x, loc, h) = SubSeq(arg \o x, 1, loc) \o h \o SubSeq(arg \o x, loc + 3, Len(arg \o x))
  BY <1>1, Zenon DEF ReplaceCode
<1>5. ReplaceCode(arg, loc, h) = u \o h \o v
  BY <1>1, Zenon DEF ReplaceCode
<1>6. u \in Seq(Atoms) /\ v \in Seq(Atoms) /\ h \in Seq(Atoms) /\ x \in Seq(Atoms)
  BY <1>1 DEF Text
<1> HIDE DEF u, v, m
<1> DEFINE w == u \o h
<1>7. w \in Seq(Atoms)
  BY <1>6
<1> HIDE DEF w
<1>8. w \o (v \o x) = (w \o v) \o x
  <2>1. w \in Seq(Atoms) /\ v \in Seq(Atoms) /\ x \in Seq(Atoms)
    BY <1>6, <1>7
  <2>2. (w \o v) \o x = w \o (v \o x)
    BY <2>1, ConcatAssoc
  <2> QED BY <2>2
<1> QED BY <1>2, <1>3, <1>4, <1>5, <1>8, Zenon DEF w

LEMMA ReplaceLast ==
  ASSUME NEW arg \in Text, NEW pair \in Text, Len(pair) = 2, NEW h \in Text
  PROVE  ReplaceCode(arg \o pair, Len(arg), h) = arg \o h
<1> DEFINE m == Len(arg)
           s == arg \o pair
<1>1. m \in Nat /\ s \in Seq(Atoms) /\ Len(s) = m + 2 /\ m \in 0..Len(s)
  <2>1. \A a, b \in Text : Len(a) \in Nat /\ a \o b \in Seq(Atoms) /\ Len(a \o b) = Len(a) + Len(b)
    BY DEF Text
  <2>2. m \in Nat /\ s \in Seq(Atoms) /\ Len(s) = m + Len(pair)
    BY <2>1, Zenon
  <2> HIDE DEF m, s
  <2> QED BY <2>2
<1>2. SubSeq(s, 1, m) = arg
  BY <1>1 DEF Text
<1>3. SubSeq(s, m + 3, Len(s)) = <<>>
  BY <1>1
<1>4. ReplaceCode(s, m, h) = SubSeq(s, 1, m) \o h \o SubSeq(s, m + 3, Len(s))
  BY <1>1, Zenon DEF ReplaceCode
<1>5. (arg \o h) \o <<>> = arg \o h
  BY DEF Text
<1> QED BY <1>2, <1>3, <1>4, <1>5, Zenon

Filled(s, h) == IF s.dynamic THEN ReplaceCode(s.arg, s.location, h) ELSE s.arg
Placed(s) == s.dynamic => s.location \in Nat /\ s.location + 2 <= Len(s.arg)

LEMMA FilledMore ==
  ASSUME NEW s \in Tasks, NEW t \in Tasks, NEW x \in Text, NEW h, t.dynamic => h \in Text, Placed(t),
         s.dynamic = t.dynamic, s.location = t.location, s.arg = t.arg \o x
  PROVE  Placed(s) /\ Filled(s, h) = Filled(t, h) \o x
<1>1. t.arg \in Text /\ Len(t.arg) \in Nat /\ Len(x) \in Nat /\ s.arg \in Text /\ Len(s.arg) = Len(t.arg) + Len(x)
  BY DEF Tasks, Text
<1>2. CASE t.dynamic
  <2>1. t.location \in Nat /\ t.location + 2 <= Len(t.arg) /\ h \in Text
    BY <1>2 DEF Placed
  <2>2. ReplaceCode(t.arg \o x, t.location, h) = ReplaceCode(t.arg, t.location, h) \o x
    BY <1>1, <2>1, ReplaceLonger
  <2>3. Filled(s, h) = ReplaceCode(t.arg \o x, t.location, h) /\ Filled(t, h) = ReplaceCode(t.arg, t.location, h)
    BY <1>2, Zenon DEF Filled
  <2> QED BY <1>1, <2>1, <2>2, <2>3 DEF Placed
<1>3. CASE ~t.dynamic
  BY <1>3 DEF Filled, Placed
<1> QED BY <1>2, <1>3

(* The texts of the places of an argument.                                 *)
Shown(line, n, look, value) == [i \in DOMAIN line[n] |-> TextAt(line, n, i, look, value)]

LEMMA ShownType ==
  ASSUME NEW line \in Texts, NEW n \in DOMAIN line, NEW look, LookType(look), NEW value, Here(line, value)
  PROVE  /\ Shown(line, n, look, value) \in [1..Len(line[n]) -> Text]
         /\ \A i \in 1..Len(line[n]) : Shown(line, n, look, value)[i] = TextAt(line, n, i, look, value)
  BY TextParts, TextAtIs DEF Shown

(***************************************************************************)
(* An argument, character by character: t is the task before it, s after   *)
(* its first k characters.                                                 *)
(***************************************************************************)
Done(a, k) == IF k \in Waits(a) THEN k - 1 ELSE k
FirstCode(line) == line[FirstField(line)[1]][FirstField(line)[2] + 1]
Taken(s, t, look, c) ==
  s.argNum = Len(t.command) /\ s.local = (c \in LocalCodes) /\ s.items = ItemsFor(c, look.fields)
HeadOf(line, value) == Head(Resources(line, value))

(* A value has resources if the task that takes them has.                  *)
Given1(line, look, value) ==
  /\ line \in Texts /\ LookType(look) /\ Here(line, value)
  /\ FieldPlaces(line) # {} => (value = <<>> <=> look.fields = <<>>)
Before1(line, n, look, value, t) ==
  /\ Given1(line, look, value) /\ n \in DOMAIN line
  /\ t \in Tasks /\ ~t.percent /\ (~t.bad => (t.exclusive <=> Passed(line, n, 0)))
  /\ \A i \in Waits(line[n]) : i < Len(line[n]) => line[n][i + 1] # IconCode

Core(line, n, look, value, t, k, s) ==
  /\ s.command = t.command
  /\ s.exclusive <=> Passed(line, n, k)
  /\ s.dynamic <=> look.fields # <<>> /\ Opens(line, n, k)
  /\ Placed(s)
  /\ s.dynamic => Taken(s, t, look, FirstCode(line))
  /\ ~s.dynamic => Located(s, t)
  /\ Filled(s, HeadOf(line, value)) = Join(Shown(line, n, look, value), Done(line[n], k))
ArgInv(line, n, look, value, t, k, s) ==
  /\ s \in Tasks /\ (s.percent <=> k \in Waits(line[n])) /\ (t.bad => s.bad)
  /\ ~s.bad => Core(line, n, look, value, t, k, s)

LEMMA ArgumentBegins ==
  ASSUME NEW line, NEW n, NEW look, NEW value, NEW t, Before1(line, n, look, value, t)
  PROVE  ArgInv(line, n, look, value, t, 0, Opened(t))
<1> DEFINE s == Opened(t)
           a == line[n]
           f == Shown(line, n, look, value)
<1>0. line \in Texts /\ n \in DOMAIN line /\ t \in Tasks /\ ~t.percent /\ (~t.bad => (t.exclusive <=> Passed(line, n, 0)))
  BY DEF Before1, Given1
<1>1. s \in Tasks /\ ~s.percent /\ (s.bad <=> t.bad) /\ s.command = t.command /\ (s.exclusive <=> t.exclusive) /\ ~s.dynamic /\ s.arg = <<>>
  BY <1>0, TextOps DEF Tasks, Opened
<1>2. Located(s, t)
  BY <1>0 DEF Tasks, Opened, Located
<1>3. 0 \notin Waits(a) /\ Done(a, 0) = 0
  BY <1>0, TextParts, WaitsNext DEF Done
<1>4. ~Opens(line, n, 0)
  BY <1>0, PassedEnd
<1>5. Join(f, 0) = <<>>
  BY JoinNone
<1> HIDE DEF s, f, a
<1>6. Filled(s, HeadOf(line, value)) = Join(f, Done(a, 0))
  BY <1>1, <1>3, <1>5 DEF Filled
<1>7. Placed(s)
  BY <1>1 DEF Placed
<1>8. ~s.bad => Core(line, n, look, value, t, 0, s)
  BY <1>0, <1>1, <1>2, <1>4, <1>6, <1>7 DEF Core, f, a
<1> QED BY <1>1, <1>3, <1>8 DEF ArgInv, s, a

LEMMA CoreKept ==
  ASSUME NEW line, NEW n, NEW look, NEW value, NEW t, NEW k, NEW j, NEW s, NEW u,
         Core(line, n, look, value, t, j, s), Same(u, s),
         Passed(line, n, k) <=> Passed(line, n, j), Opens(line, n, k) <=> Opens(line, n, j), Placed(u),
         Filled(u, HeadOf(line, value)) = Join(Shown(line, n, look, value), Done(line[n], k))
  PROVE  Core(line, n, look, value, t, k, u)
  BY DEF Core, Same, Located, Taken

LEMMA ArgumentGoesOn ==
  ASSUME NEW line, NEW n, NEW look, NEW value, NEW t, Before1(line, n, look, value, t),
         NEW k \in 1..Len(line[n]), NEW s, ArgInv(line, n, look, value, t, k - 1, s)
  PROVE  ArgInv(line, n, look, value, t, k, Character(s, line[n][k], look))
<1> DEFINE a == line[n]
           f == Shown(line, n, look, value)
           h == HeadOf(line, value)
           c == a[k]
           j == k - 1
           u == Character(s, c, look)
           W == Waits(a)
<1>1. /\ line \in Texts /\ n \in DOMAIN line /\ LookType(look) /\ Here(line, value) /\ t \in Tasks
      /\ FieldPlaces(line) # {} => (value = <<>> <=> look.fields = <<>>)
  BY DEF Before1, Given1
<1>2. a \in Text /\ Len(a) \in Nat /\ c \in Atoms /\ k \in 1..Len(a) /\ n \in Int
  BY <1>1, TextParts
<1>3. j \in Nat /\ k = j + 1 /\ j < Len(a) /\ j \in 0..Len(a) /\ k \in Nat
  BY <1>2
<1>4. /\ s \in Tasks /\ (s.percent <=> j \in W) /\ (t.bad => s.bad)
      /\ ~s.bad => Core(line, n, look, value, t, j, s)
  BY DEF ArgInv
<1>5. k \in W <=> c = Percent /\ j \notin W
  BY <1>2, WaitsNext
<1>6. FieldIn(a, j) <=> j \in W /\ c \in FieldCodes
  BY <1>3 DEF FieldIn
<1>7. j \in W => c # IconCode /\ j \in 1..Len(a) /\ j - 1 \notin W
  BY <1>3, <1>2, WaitsNext DEF Before1, Waits
<1>8. /\ Passed(line, n, k) <=> Passed(line, n, j) \/ FieldIn(a, j)
      /\ Opens(line, n, k) <=> Opens(line, n, j) \/ (FieldIn(a, j) /\ ~Passed(line, n, j))
      /\ Opens(line, n, j) => Passed(line, n, j)
      /\ FieldIn(a, j) /\ ~Passed(line, n, j) => FirstField(line) = <<n, j>>
      /\ Passed(line, n, j) => FirstField(line) # <<n, j>>
      /\ FieldIn(a, j) => FieldPlaces(line) # {}
  <2> HIDE DEF j
  <2>1. /\ Passed(line, n, j + 1) <=> Passed(line, n, j) \/ FieldIn(line[n], j)
        /\ Opens(line, n, j + 1) <=> Opens(line, n, j) \/ (FieldIn(line[n], j) /\ ~Passed(line, n, j))
        /\ Opens(line, n, j) => Passed(line, n, j)
        /\ FieldIn(line[n], j) /\ ~Passed(line, n, j) => FirstField(line) = <<n, j>>
    BY <1>1, <1>3, PassedNext
  <2>2. Passed(line, n, j) => FirstField(line) # <<n, j>>
    BY <1>1, <1>2, <1>3, NotFirst
  <2>3. FieldIn(a, j) => <<n, j>> \in FieldPlaces(line)
    BY <1>1, <1>3, FieldsAre
  <2> QED BY <1>3, <2>1, <2>2, <2>3
<1>9. /\ f \in [1..Len(a) -> Text] /\ f \in [1..Len(a) -> Seq(Atoms)]
      /\ \A i \in 1..Len(a) : f[i] = TextAt(line, n, i, look, value)
  BY <1>1, ShownType DEF Text
<1>10. /\ \A i \in 1..Len(a) : Join(f, i) = Join(f, i - 1) \o f[i] /\ f[i] \in Text
       /\ \A i \in 0..Len(a) : Join(f, i) \in Text
  <2> HIDE DEF f, a
  <2>1. \A i \in 1..Len(a) : Join(f, i) = Join(f, i - 1) \o f[i]
    BY <1>2, <1>9, JoinNext
  <2>2. \A i \in 0..Len(a) : Join(f, i) \in Text
    BY <1>2, <1>9, JoinType DEF Text
  <2> QED BY <1>9, <2>1, <2>2
<1>23. Join(f, k) = Join(f, j) \o f[k] /\ (j \in 1..Len(a) => Join(f, j) = Join(f, j - 1) \o f[j])
  <2> HIDE DEF f, a, j
  <2>1. k - 1 = j
    BY <1>3
  <2>2. Join(f, k) = Join(f, k - 1) \o f[k]
    BY <1>2, <1>10
  <2>3. j \in 1..Len(a) => Join(f, j) = Join(f, j - 1) \o f[j]
    BY <1>10
  <2> QED BY <2>1, <2>2, <2>3
<1>11. /\ j \in W => f[k] = <<>>
       /\ j \notin W /\ k \notin W => f[k] = <<c>>
  BY <1>2, <1>9, <1>1, TextAtIs
<1>12. /\ FieldIn(a, j) => f[j] = IF value # <<>> /\ FirstField(line) = <<n, j>> THEN h ELSE <<>>
       /\ j \in W /\ c \in TextCodes => f[j] = CodeText(look, c)
  BY <1>6, <1>3, <1>7, <1>9, <1>1, TextAtIs DEF HeadOf
<1>13. ~s.bad /\ s.dynamic => h \in Text
  BY <1>4, <1>1 DEF Core, Opens, Here, HeadOf
<1>14. ~s.bad => Filled(s, h) = Join(f, Done(a, j)) /\ Placed(s) /\ (s.exclusive <=> Passed(line, n, j))
  BY <1>4 DEF Core
<1>15. /\ k \in W => Done(a, k) = j /\ Done(a, j) = j
       /\ j \notin W => Done(a, j) = j
       /\ k \notin W => Done(a, k) = k
       /\ j \in W => k \notin W /\ Done(a, j) = j - 1
  BY <1>5 DEF Done
<1>16. LookType(look) /\ s \in Tasks /\ c \in Atoms /\ u \in Tasks
  BY <1>1, <1>2, <1>4, CharacterType
<1>17. s.arg \in Text
  BY <1>16 DEF Tasks
<1>18. ArgInv(line, n, look, value, t, k, u) <=>
         /\ u \in Tasks /\ (u.percent <=> k \in W) /\ (t.bad => u.bad)
         /\ ~u.bad => Core(line, n, look, value, t, k, u)
  BY DEF ArgInv
<1> HIDE DEF j, W
<1>19. CASE j \notin W /\ c = Percent
  BY <1>4, <1>5, <1>19, <1>16, PlainStep, <1>14, <1>15, <1>6, <1>8, CoreKept, <1>18 DEF Same,
     Located, Filled, Placed, f, h, a, u, c
<1>20. CASE j \notin W /\ c # Percent
  <2>1. ~s.percent /\ k \notin W
    BY <1>4, <1>5, <1>20
  <2>2. Same(u, s) /\ ~u.percent /\ u.arg = Append(s.arg, c)
    BY <1>16, <1>20, <2>1, PlainStep
  <2> HIDE DEF u, c, a, f, h
  <2> DEFINE x == <<c>>
  <2>3. x \in Text /\ u.arg = s.arg \o x
    BY <1>17, <1>16, AppendIs, <2>2, TextOps DEF Text
  <2> HIDE DEF x
  <2>4. ASSUME ~u.bad PROVE Core(line, n, look, value, t, k, u)
    <3>1. ~s.bad /\ u.dynamic = s.dynamic /\ u.location = s.location
      BY <2>2, <2>4 DEF Same, Located
    <3>2. Placed(u) /\ Filled(u, h) = Filled(s, h) \o x
      BY <1>13, <1>14, <1>16, <2>3, <3>1, FilledMore
    <3>3. Filled(u, h) = Join(f, Done(a, k))
      <4>1. Join(f, k) = Join(f, j) \o f[k] /\ f[k] = x
        BY <1>11, <1>20, <1>23, <2>1 DEF x
      <4> QED BY <1>14, <1>15, <1>20, <2>1, <3>1, <3>2, <4>1
    <3>4. (Passed(line, n, k) <=> Passed(line, n, j)) /\ (Opens(line, n, k) <=> Opens(line, n, j))
      BY <1>6, <1>8, <1>20
    <3> QED BY <1>4, <2>2, <3>1, <3>2, <3>3, <3>4, CoreKept DEF f, h, a
  <2>5. t.bad => u.bad
    BY <1>4, <2>2 DEF Same
  <2>9. ArgInv(line, n, look, value, t, k, u)
    BY <1>16, <1>18, <2>1, <2>2, <2>4, <2>5
  <2> QED BY <2>9, Zenon DEF u, c, a
<1>21. CASE j \in W /\ c \notin FieldCodes
  <2>1. s.percent /\ k \notin W /\ c # IconCode
    BY <1>4, <1>7, <1>15, <1>21
  <2>2. /\ ~u.percent /\ (s.bad => u.bad)
        /\ ~u.bad => Same(u, s) /\ c \in TextCodes /\ u.arg = s.arg \o CodeText(look, c)
    <3> HIDE DEF c
    <3> QED BY <1>16, <1>21, <2>1, TextStep
  <2> HIDE DEF u, c, a, f, h
  <2>3. ASSUME ~u.bad PROVE Core(line, n, look, value, t, k, u)
    <3> DEFINE x == CodeText(look, c)
    <3>0. Same(u, s) /\ c \in TextCodes /\ u.arg = s.arg \o x
      BY <2>2, <2>3
    <3>1. ~s.bad /\ u.dynamic = s.dynamic /\ u.location = s.location
      BY <2>2, <2>3, <3>0 DEF Same, Located
    <3>2. x \in Text
      BY <1>16, <3>0, CodeTextIs
    <3>3. f[j] = x /\ f[k] = <<>>
      BY <1>11, <1>12, <1>21, <3>0
    <3> HIDE DEF x
    <3>4. Placed(u) /\ Filled(u, h) = Filled(s, h) \o x
      BY <1>13, <1>14, <1>16, <3>0, <3>1, <3>2, FilledMore
    <3>5. Filled(u, h) = Join(f, Done(a, k))
      BY <1>7, <1>21, <1>23, <1>3, <1>10, <1>14, <1>15, <2>1, <3>1, <3>3, <3>4 DEF Text
    <3>6. (Passed(line, n, k) <=> Passed(line, n, j)) /\ (Opens(line, n, k) <=> Opens(line, n, j))
      BY <1>6, <1>8, <1>21
    <3> QED BY <1>4, <3>0, <3>1, <3>4, <3>5, <3>6, CoreKept DEF f, h, a
  <2>4. t.bad => u.bad
    BY <1>4, <2>2
  <2>9. ArgInv(line, n, look, value, t, k, u)
    BY <1>16, <1>18, <2>1, <2>2, <2>3, <2>4
  <2> QED BY <2>9, Zenon DEF u, c, a
<1>22. CASE j \in W /\ c \in FieldCodes
  <2>1. s.percent /\ k \notin W /\ FieldIn(a, j)
    BY <1>4, <1>6, <1>15, <1>22
  <2>2. /\ ~u.percent /\ u.bad = s.bad /\ u.exclusive /\ u.command = s.command
        /\ s.exclusive \/ look.fields = <<>> => Located(u, s) /\ u.dynamic = s.dynamic /\ u.arg = s.arg
        /\ ~(s.exclusive \/ look.fields = <<>>) =>
             /\ u.dynamic /\ u.argNum = Len(s.command) /\ u.location = Len(s.arg)
             /\ u.local = (c \in LocalCodes) /\ u.items = ItemsFor(c, look.fields)
             /\ u.arg = s.arg \o <<Percent, c>>
    <3> HIDE DEF c
    <3> QED BY <1>16, <1>22, <2>1, FieldStep
  <2> HIDE DEF u, c, a, f, h
  <2>3. ASSUME ~u.bad PROVE Core(line, n, look, value, t, k, u)
    <3>1. ~s.bad /\ u.exclusive /\ Passed(line, n, k) /\ s.command = t.command /\ u.command = t.command
      BY <1>4, <1>8, <2>1, <2>2, <2>3 DEF Core
    <3>2. Join(f, k) = Join(f, j - 1) \o f[j] /\ Join(f, j - 1) \in Text /\ Done(a, j) = j - 1 /\ Done(a, k) = k
      <4>1. Join(f, k) = Join(f, j) \o f[k] /\ Join(f, j) = Join(f, j - 1) \o f[j] /\ f[k] = <<>>
        BY <1>7, <1>11, <1>22, <1>23
      <4>2. Join(f, j) \o <<>> = Join(f, j)
        BY <1>3, <1>10 DEF Text
      <4>3. j - 1 \in 0..Len(a)
        BY <1>3, <1>7, <1>22
      <4> QED BY <1>10, <1>15, <1>22, <2>1, <4>1, <4>2, <4>3
    <3>3. CASE s.exclusive \/ look.fields = <<>>
      <4>1. Located(u, s) /\ u.dynamic = s.dynamic /\ u.arg = s.arg
        BY <2>2, <3>3
      <4>2. f[j] = <<>>
        BY <1>1, <1>8, <1>14, <2>1, <3>1, <3>3, <1>12
      <4>3. look.fields # <<>> /\ Opens(line, n, k) <=> look.fields # <<>> /\ Opens(line, n, j)
        BY <1>8, <1>14, <3>1, <3>3
      <4>4. Filled(u, h) = Filled(s, h) /\ Placed(u)
        BY <1>14, <3>1, <4>1 DEF Filled, Placed, Located
      <4>5. Filled(u, h) = Join(f, Done(a, k))
        BY <3>2, <1>14, <3>1, <4>2, <4>4 DEF Text
      <4>6. /\ s.dynamic <=> look.fields # <<>> /\ Opens(line, n, j)
            /\ s.dynamic => Taken(s, t, look, FirstCode(line))
            /\ ~s.dynamic => Located(s, t)
        BY <1>4, <3>1 DEF Core
      <4>7. /\ u.dynamic => Taken(u, t, look, FirstCode(line))
            /\ ~u.dynamic => Located(u, t)
        BY <4>1, <4>6 DEF Located, Taken
      <4> QED BY <3>1, <4>1, <4>3, <4>4, <4>5, <4>6, <4>7 DEF Core, f, h, a
    <3>4. CASE ~(s.exclusive \/ look.fields = <<>>)
      <4>1. /\ u.dynamic /\ u.argNum = Len(s.command) /\ u.location = Len(s.arg)
            /\ u.local = (c \in LocalCodes) /\ u.items = ItemsFor(c, look.fields)
            /\ u.arg = s.arg \o <<Percent, c>>
        BY <2>2, <3>4
      <4>2. ~Passed(line, n, j) /\ FirstField(line) = <<n, j>> /\ FieldPlaces(line) # {}
        BY <1>8, <1>14, <2>1, <3>1, <3>4
      <4>3. value # <<>> /\ h \in Text /\ f[j] = h
        BY <1>1, <3>4, <4>2, <1>12, <2>1 DEF Here, HeadOf, h
      <4>4. Opens(line, n, k) /\ ~s.dynamic
        BY <1>4, <3>1, <1>8, <2>1, <4>2 DEF Core
      <4>5. Filled(s, h) = s.arg
        BY <4>4 DEF Filled
      <4>6. Filled(u, h) = s.arg \o h /\ Placed(u)
        <5> DEFINE pair == <<Percent, c>>
        <5>1. pair \in Text /\ Len(pair) = 2
          BY <1>16, TextOps, Literals DEF Percent
        <5>2. u.arg = s.arg \o pair
          BY <4>1
        <5> HIDE DEF pair
        <5>3. ReplaceCode(s.arg \o pair, Len(s.arg), h) = s.arg \o h
          BY <1>17, <4>3, <5>1, ReplaceLast
        <5>4. Filled(u, h) = ReplaceCode(u.arg, u.location, h)
          BY <4>1 DEF Filled
        <5>5. Len(s.arg) \in Nat /\ Len(s.arg \o pair) = Len(s.arg) + 2
          <6>1. \A x, y \in Text : Len(x) \in Nat /\ Len(x \o y) = Len(x) + Len(y)
            BY DEF Text
          <6> QED BY <1>17, <5>1, <6>1
        <5> QED BY <4>1, <5>2, <5>3, <5>4, <5>5 DEF Placed
      <4>7. Filled(u, h) = Join(f, Done(a, k))
        BY <1>14, <3>1, <3>2, <4>3, <4>5, <4>6
      <4>8. Taken(u, t, look, FirstCode(line))
        BY <4>2, <1>3, <3>1, <4>1 DEF FirstCode, c, a, Taken
      <4> QED BY <3>1, <3>4, <4>1, <4>4, <4>6, <4>7, <4>8 DEF Core, f, h, a
    <3> QED BY <3>3, <3>4
  <2>4. t.bad => u.bad
    BY <1>4, <2>2
  <2>9. ArgInv(line, n, look, value, t, k, u)
    BY <1>16, <1>18, <2>1, <2>2, <2>3, <2>4
  <2> QED BY <2>9, Zenon DEF u, c, a
<1> QED BY <1>19, <1>20, <1>21, <1>22 DEF u

(* The task after an argument that has a "%".                              *)
ArgumentOf(t, r) ==
  LET arg == IF r.percent THEN Append(r.arg, "%") ELSE r.arg
  IN [r EXCEPT !.percent = FALSE, !.arg = <<>>, !.command = IF r.dynamic \/ arg # <<>> THEN Append(@, arg) ELSE @]

LEMMA ArgumentReads ==
  ASSUME NEW t \in Tasks, NEW a \in Text, NEW look, LookType(look)
  PROVE  \E read :
           /\ read[0] = Opened(t) /\ \A i \in 1..Len(a) : read[i] = Character(read[i-1], a[i], look)
           /\ Argument(t, a, look) =
                IF ~Has(a, "%") THEN [t EXCEPT !.command = Append(@, a)] ELSE ArgumentOf(t, read[Len(a)])
<1> DEFINE n == Len(a)
           g == [i \in 1..n |-> [s \in Tasks |-> Character(s, a[i], look)]]
           read == CHOOSE f : ReadsArgument(t, a, look, f)
<1>1. n \in Nat /\ \A i \in 1..n : a[i] \in Atoms
  BY TextParts
<1>2. Opened(t) \in Tasks
  BY TextOps DEF Tasks, Opened
<1>3. Keeps(n, Tasks, g)
  BY <1>1, CharacterType DEF Keeps
<1>4. \A i \in 1..n : \A s \in Tasks : g[i][s] = Character(s, a[i], look)
  OBVIOUS
<1>5. Argument(t, a, look) = IF ~Has(a, "%") THEN [t EXCEPT !.command = Append(@, a)] ELSE ArgumentOf(t, read[n])
  BY DEF Argument, ReadsArgument, ArgumentOf
<1> HIDE DEF g
<1>6. PICK f : StepsOf(n, Tasks, Opened(t), g, f)
  BY <1>1, <1>2, <1>3, Recursion
<1>7. ReadsArgument(t, a, look, f)
  <2>1. ASSUME NEW i \in 0..n PROVE f[i] = IF i = 0 THEN Opened(t) ELSE Character(f[i-1], a[i], look)
    BY <1>1, <1>4, <1>6 DEF StepsOf
  <2>2. f = [i \in 0..n |-> f[i]]
    BY <1>6 DEF StepsOf
  <2> QED BY <2>1, <2>2, Zenon DEF ReadsArgument, Opened
<1>8. ReadsArgument(t, a, look, read)
  BY <1>7
<1> HIDE DEF read
<1>9. read[0] = Opened(t)
  BY <1>1, <1>8 DEF ReadsArgument, Opened
<1>10. ASSUME NEW i \in 1..Len(a) PROVE read[i] = Character(read[i-1], a[i], look)
  BY <1>1, <1>8 DEF ReadsArgument
<1> QED BY <1>5, <1>9, <1>10

(* What an argument leaves: the place of the first field, or its words.    *)
Opening(line, n, look) == look.fields # <<>> /\ FieldPlaces(line) # {} /\ FirstField(line)[1] = n
Held(u, t, look, line, h, text) ==
  \E x \in Text :
    /\ u.command = Append(t.command, x) /\ Taken(u, t, look, FirstCode(line))
    /\ u.location \in Nat /\ u.location + 2 <= Len(x) /\ ReplaceCode(x, u.location, h) = text

LEMMA ArgumentEnds ==
  ASSUME NEW line, NEW n, NEW look, NEW value, NEW t, Before1(line, n, look, value, t), Has(line[n], "%")
  PROVE  LET u    == Argument(t, line[n], look)
             text == FlattenSeq(Shown(line, n, look, value))
         IN ~u.bad =>
              /\ ~t.bad /\ ~u.percent /\ (u.exclusive <=> Passed(line, n + 1, 0))
              /\ Opening(line, n, look) => Held(u, t, look, line, HeadOf(line, value), text)
              /\ ~Opening(line, n, look) =>
                   Located(u, t) /\ u.command = t.command \o (IF text = <<>> THEN <<>> ELSE <<text>>)
<1> DEFINE a == line[n]
           f == Shown(line, n, look, value)
           h == HeadOf(line, value)
           m == Len(a)
           u == Argument(t, a, look)
           text == FlattenSeq(f)
<1>1. /\ line \in Texts /\ n \in DOMAIN line /\ LookType(look) /\ Here(line, value) /\ t \in Tasks
      /\ FieldPlaces(line) # {} => (value = <<>> <=> look.fields = <<>>)
  BY DEF Before1, Given1
<1>2. a \in Text /\ m \in Nat /\ DOMAIN a = 1..m
  BY <1>1, TextParts
<1>3. PICK read :
           /\ read[0] = Opened(t) /\ \A i \in 1..m : read[i] = Character(read[i-1], a[i], look)
           /\ u = IF ~Has(a, "%") THEN [t EXCEPT !.command = Append(@, a)] ELSE ArgumentOf(t, read[m])
  BY <1>1, <1>2, ArgumentReads
<1> DEFINE T == {i \in 0..m : ArgInv(line, n, look, value, t, i, read[i])}
           r == read[m]
<1>4. \A i \in 0..m : i \in T
  <2>1. 0 \in T
    BY <1>2, <1>3, ArgumentBegins
  <2>2. ASSUME NEW i \in 1..m, i - 1 \in T PROVE i \in T
    BY <1>2, <1>3, <2>2, ArgumentGoesOn
  <2> HIDE DEF T, m
  <2> QED BY <1>2, <2>1, <2>2, CountUp
<1>5. ArgInv(line, n, look, value, t, m, r)
  BY <1>2, <1>4
<1>6. u = ArgumentOf(t, r)
  BY <1>3
<1> HIDE DEF r, u
<1>7. m # 0
  <2>1. PICK i \in DOMAIN a : a[i] = "%"
    BY Zenon DEF Has
  <2> QED BY <1>2, <2>1
<1>8. r \in Tasks /\ (r.percent <=> m \in Waits(a)) /\ (t.bad => r.bad) /\ (~r.bad => Core(line, n, look, value, t, m, r))
  BY <1>5 DEF ArgInv
<1>9. /\ f \in [1..m -> Text] /\ f \in [1..m -> Seq(Atoms)]
      /\ \A i \in 1..m : f[i] = TextAt(line, n, i, look, value)
  BY <1>1, ShownType DEF Text
<1>10. text = Join(f, m) /\ Join(f, m) = Join(f, m - 1) \o f[m] /\ Join(f, m - 1) \in Text /\ Join(f, m) \in Text /\ f[m] \in Text
  <2>1. m \in 1..m /\ m - 1 \in 0..m /\ m \in 0..m
    BY <1>2, <1>7
  <2>2. f[m] \in Text
    BY <1>9, <2>1
  <2> HIDE DEF f, m
  <2>3. Join(f, m) = Join(f, m - 1) \o f[m]
    BY <1>2, <1>9, <2>1, JoinNext
  <2>4. FlattenSeq(f) = Join(f, m) /\ \A i \in 0..m : Join(f, i) \in Text
    BY <1>2, <1>9, JoinType DEF Text
  <2> QED BY <2>1, <2>2, <2>3, <2>4
<1>11. m \in Waits(a) => f[m] = <<Percent>>
  <2> HAVE m \in Waits(a)
  <2>1. m \in 1..m
    BY <1>2, <1>7
  <2>2. a[m] = Percent /\ m - 1 \notin Waits(a)
    BY <1>2, <2>1, WaitsNext
  <2> DEFINE y == TextAt(line, n, m, look, value)
  <2>3. (m \notin Waits(line[n]) \/ m = Len(line[n])) /\ m - 1 \notin Waits(line[n]) => y = <<line[n][m]>>
    <3>1. m \in 1..Len(line[n])
      BY <2>1
    <3> HIDE DEF y, m
    <3> QED BY <1>1, <3>1, TextAtIs DEF y
  <2>4. y = <<a[m]>>
    BY <2>2, <2>3
  <2>5. f[m] = y
    BY <1>9, <2>1
  <2> QED BY <2>2, <2>4, <2>5
<1> DEFINE x == IF r.percent THEN Append(r.arg, "%") ELSE r.arg
           add == IF r.percent THEN <<Percent>> ELSE <<>>
           v == [r EXCEPT !.arg = x]
           cc == IF r.dynamic \/ x # <<>> THEN Append(r.command, x) ELSE r.command
<1>12. r.arg \in Text /\ r.command \in Texts /\ add \in Text /\ x = r.arg \o add /\ x \in Text
  <2>1. r.arg \in Text /\ r.arg \in Seq(Atoms) /\ r.command \in Texts /\ Percent \in Atoms
    BY <1>8, Literals DEF Tasks, Text, Percent
  <2>2. Append(r.arg, "%") = r.arg \o <<Percent>>
    BY <2>1, AppendIs DEF Percent
  <2>3. r.arg \o <<>> = r.arg
    BY <2>1
  <2>4. add \in Text
    BY <2>1, TextOps
  <2>5. x = r.arg \o add
    BY <2>2, <2>3, Zenon
  <2> QED BY <2>1, <2>4, <2>5, TextOps
<1>13. v \in Tasks /\ v.arg = x /\ v.dynamic = r.dynamic /\ v.location = r.location /\ cc \in Texts
  <2> HIDE DEF x
  <2> QED BY <1>8, <1>12, TextsOps DEF Tasks
<1>14. u = [r EXCEPT !.percent = FALSE, !.arg = <<>>, !.command = cc]
  BY <1>6, Zenon DEF ArgumentOf
<1> HIDE DEF v, cc, x
<1>15. /\ u.bad = r.bad /\ ~u.percent /\ u.exclusive = r.exclusive /\ u.command = cc /\ u.location = r.location
       /\ u.argNum = r.argNum /\ u.local = r.local /\ u.items = r.items
  BY <1>8, <1>14 DEF Tasks
<1>16. ASSUME ~r.bad
       PROVE  /\ r.command = t.command /\ (r.exclusive <=> Passed(line, n, m))
              /\ r.dynamic <=> look.fields # <<>> /\ Opens(line, n, m)
              /\ Placed(r)
              /\ r.dynamic => Taken(r, t, look, FirstCode(line))
              /\ ~r.dynamic => Located(r, t)
              /\ Filled(r, h) = Join(f, Done(a, m))
  BY <1>8, <1>16 DEF Core
<1>17. (r.exclusive <=> Passed(line, n, m)) /\ (Opens(line, n, m) <=> FieldPlaces(line) # {} /\ FirstField(line)[1] = n)
         => (r.exclusive <=> Passed(line, n + 1, 0)) /\ (look.fields # <<>> /\ Opens(line, n, m) <=> Opening(line, n, look))
  BY <1>1, PassedEnd DEF Opening
<1>18. Opens(line, n, m) <=> FieldPlaces(line) # {} /\ FirstField(line)[1] = n
  BY <1>1, PassedEnd
<1> HIDE DEF f, h, a, m, add, text
<1>19. ASSUME ~r.bad PROVE Placed(v) /\ Filled(v, h) = text
  <2>1. r.dynamic => h \in Text
    BY <1>16, <1>19, <1>18, <1>1 DEF h, HeadOf, Here
  <2>2. Placed(v) /\ Filled(v, h) = Filled(r, h) \o add
    BY <1>8, <1>12, <1>13, <1>16, <1>19, <2>1, FilledMore
  <2>3. CASE m \in Waits(a)
    <3>1. add = <<Percent>> /\ Done(a, m) = m - 1
      BY <1>8, <2>3 DEF add, Done
    <3> QED BY <1>10, <1>11, <1>16, <1>19, <2>2, <2>3, <3>1
  <2>4. CASE m \notin Waits(a)
    <3>1. add = <<>> /\ Done(a, m) = m
      BY <1>8, <2>4 DEF add, Done
    <3>2. Join(f, m) \o <<>> = Join(f, m)
      BY <1>10 DEF Text
    <3> QED BY <1>10, <1>16, <1>19, <2>2, <3>1, <3>2
  <2> QED BY <2>3, <2>4
<1>20. ASSUME ~u.bad
       PROVE  /\ ~t.bad /\ ~u.percent /\ (u.exclusive <=> Passed(line, n + 1, 0))
              /\ Opening(line, n, look) => Held(u, t, look, line, h, text)
              /\ ~Opening(line, n, look) =>
                   Located(u, t) /\ u.command = t.command \o (IF text = <<>> THEN <<>> ELSE <<text>>)
  <2>1. ~r.bad /\ ~t.bad
    BY <1>8, <1>15, <1>20
  <2>2. (u.exclusive <=> Passed(line, n + 1, 0)) /\ (r.dynamic <=> Opening(line, n, look))
    BY <1>15, <1>16, <1>17, <1>18, <2>1
  <2>3. ASSUME r.dynamic PROVE Held(u, t, look, line, h, text)
    <3>1. cc = Append(t.command, x)
      BY <1>16, <2>1, <2>3 DEF cc
    <3>2. r.location \in Nat /\ r.location + 2 <= Len(x) /\ ReplaceCode(x, r.location, h) = text
      BY <1>13, <1>19, <2>1, <2>3 DEF Placed, Filled
    <3>3. Taken(u, t, look, FirstCode(line))
      BY <1>15, <1>16, <2>1, <2>3 DEF Taken
    <3> QED BY <1>12, <1>15, <3>1, <3>2, <3>3 DEF Held
  <2>4. ASSUME ~r.dynamic PROVE Located(u, t) /\ u.command = t.command \o (IF text = <<>> THEN <<>> ELSE <<text>>)
    <3>1. x = text
      BY <1>13, <1>19, <2>1, <2>4 DEF Filled
    <3>2. Located(u, t)
      BY <1>15, <1>16, <2>1, <2>4 DEF Located
    <3>3. t.command \in Seq(Text)
      BY <1>1 DEF Tasks, Texts
    <3>4. u.command = IF x # <<>> THEN Append(t.command, x) ELSE t.command
      BY <1>15, <1>16, <2>1, <2>4 DEF cc
    <3>5. Append(t.command, x) = t.command \o <<x>> /\ t.command \o <<>> = t.command
      <4>1. x \in Text
        BY <1>12
      <4>2. Append(t.command, x) = t.command \o <<x>>
        BY <3>3, <4>1, AppendIs
      <4>3. t.command \o <<>> = t.command
        BY <3>3
      <4> QED BY <4>2, <4>3
    <3> QED BY <3>1, <3>2, <3>4, <3>5
  <2> QED BY <1>15, <2>1, <2>2, <2>3, <2>4
<1> QED BY <1>20 DEF u, a, h, text, f

LEMMA NoPlaces ==
  ASSUME NEW line \in Texts, NEW n \in DOMAIN line, \A i \in Nat : ~FieldIn(line[n], i)
  PROVE  /\ FieldPlaces(line) # {} => FirstField(line)[1] # n
         /\ Passed(line, n + 1, 0) <=> Passed(line, n, 0)
  BY TextParts, PassedIs, FieldsAre, FirstExists DEF Passed

LEMMA NoCodes ==
  ASSUME NEW a \in Text, ~Has(a, "%")
  PROVE  Waits(a) = {}
  BY TextParts DEF Has, Percent, Waits

LEMMA IconCodes ==
  ASSUME NEW a, a = <<"%", "i">>
  PROVE  a \in Text => Has(a, "%") /\ \A i \in Nat : ~FieldIn(a, i)
  BY DEF Has, FieldIn, Waits, FieldCodes

LEMMA PlainText ==
  ASSUME NEW line \in Texts, NEW n \in DOMAIN line, NEW look, LookType(look), NEW value, Here(line, value), Waits(line[n]) = {}
  PROVE  FlattenSeq(Shown(line, n, look, value)) = line[n]
<1> DEFINE a == line[n]
           f == Shown(line, n, look, value)
           m == [c \in Atoms |-> <<c>>]
           g == [i \in DOMAIN a |-> m[a[i]]]
<1>1. a \in Text /\ DOMAIN a = 1..Len(a) /\ \A i \in 1..Len(a) : a[i] \in Atoms
  BY TextParts
<1>2. ASSUME NEW i \in 1..Len(a) PROVE f[i] = <<a[i]>>
  BY <1>2, ShownType, TextAtIs
<1>3. f \in [1..Len(a) -> Text]
  BY ShownType
<1>4. m \in [Atoms -> Text] /\ \A c \in Atoms : m[c] = <<c>>
  BY TextOps
<1>5. g \in [1..Len(a) -> Text] /\ Each(m, a) = FlattenSeq(g)
  BY <1>1, <1>4, EachParts DEF Each, g, Text
<1>6. \A i \in 1..Len(a) : g[i] = <<a[i]>>
  BY <1>1
<1> HIDE DEF f, g, m, a
<1>7. f = g
  BY <1>2, <1>3, <1>5, <1>6
<1>8. Each(m, a) = a
  BY <1>1, <1>4, EachSame
<1> QED BY <1>5, <1>7, <1>8 DEF f, a

ReadsOf(t, a, look, read) ==
  /\ read[0] = Opened(t) /\ \A i \in 1..Len(a) : read[i] = Character(read[i-1], a[i], look)
  /\ Argument(t, a, look) = IF ~Has(a, "%") THEN [t EXCEPT !.command = Append(@, a)] ELSE ArgumentOf(t, read[Len(a)])

LEMMA SomeReads ==
  ASSUME NEW t \in Tasks, NEW a \in Text, NEW look, LookType(look)
  PROVE  \E read : ReadsOf(t, a, look, read)
BY ArgumentReads DEF ReadsOf

LEMMA IconArgument ==
  ASSUME NEW t \in Tasks, ~t.percent, NEW a \in Text, a = <<"%", "i">>, NEW look, LookType(look)
  PROVE  LET u == Argument(t, a, look)
         IN /\ u.bad = t.bad /\ ~u.percent /\ u.exclusive = t.exclusive /\ Located(u, t)
            /\ u.command = t.command \o (IF look.icon = <<>> THEN <<>> ELSE <<IconOption, look.icon>>)
<1>1. Len(a) = 2 /\ a[1] = "%" /\ a[2] = "i" /\ 1 \in 1..Len(a) /\ 2 \in 1..Len(a) /\ 1 - 1 = 0 /\ 2 - 1 = 1
  OBVIOUS
<1>2. PICK read : ReadsOf(t, a, look, read)
  BY SomeReads, Zenon
<1> DEFINE o == Opened(t)
           p == [o EXCEPT !.percent = TRUE]
           q == [p EXCEPT !.percent = FALSE]
           s == Icon(q, look.icon)
           icon == look.icon
           words == IF icon = <<>> THEN <<>> ELSE <<IconOption, icon>>
<1>3. read[1] = Character(o, "%", look)
  BY <1>1, <1>2 DEF ReadsOf
<1>4. read[2] = Character(read[1], "i", look)
  BY <1>1, <1>2 DEF ReadsOf
<1>5. o \in Tasks /\ ~o.percent
  BY TextOps DEF Tasks, Opened
<1>6. read[1] = p
  BY <1>3, <1>5, Zenon DEF Character
<1>7. p \in Tasks /\ p.percent /\ q \in Tasks
  BY <1>5 DEF Tasks
<1>8. read[2] = s
  BY <1>4, <1>6, <1>7 DEF Character, FieldCodes, Deprecated, Code
<1>9. /\ q.command = t.command /\ q.arg = <<>> /\ ~q.percent /\ ~q.dynamic /\ q.bad = t.bad /\ q.exclusive = t.exclusive
      /\ q.argNum = t.argNum /\ q.location = t.location /\ q.local = t.local /\ q.items = t.items
  BY DEF Tasks, Opened
<1>10. icon \in Text /\ t.command \in Texts /\ words \in Texts /\ t.command \in Seq(Text)
  <2>1. icon \in Text /\ t.command \in Texts
    BY DEF Tasks, LookType
  <2>2. IconOption \in Text
    <3>1. <<"-", "-">> \in Text /\ <<"icon">> \in Text
      BY TextOps, Literals
    <3>2. IconOption = <<"-", "-">> \o <<"icon">>
      BY DEF IconOption
    <3> QED BY <3>1, <3>2, TextOps
  <2>3. words \in Texts
    BY <2>1, <2>2, TextsOps
  <2> QED BY <2>1, <2>3 DEF Texts
<1> DEFINE cc == t.command \o words
<1>11. s = [q EXCEPT !.command = cc, !.arg = <<>>] \/ (s = q /\ cc = t.command)
  <2>1. CASE icon = <<>>
    BY <2>1, <1>10 DEF Icon
  <2>2. CASE icon # <<>>
    <3> DEFINE z == <<IconOption, icon>>
    <3>1. s = [q EXCEPT !.command = @ \o (IF q.arg = <<>> THEN <<>> ELSE <<q.arg>>) \o z, !.arg = <<>>]
      BY <2>2, Zenon DEF Icon
    <3>2. s = [q EXCEPT !.command = t.command \o <<>> \o z, !.arg = <<>>]
      <4> HIDE DEF q, s, z
      <4> QED BY <1>9, <3>1, Zenon
    <3>3. t.command \o <<>> = t.command
      BY <1>10
    <3>4. words = z
      BY <2>2
    <3> HIDE DEF q, s, z, words
    <3> QED BY <3>2, <3>3, <3>4, Zenon
  <2> QED BY <2>1, <2>2
<1>12. cc \in Texts
  BY <1>10, TextsOps
<1> HIDE DEF q, s, cc
<1>13. /\ s.command = cc /\ s.arg = <<>> /\ ~s.percent /\ ~s.dynamic /\ s.bad = t.bad /\ s.exclusive = t.exclusive
       /\ s.argNum = t.argNum /\ s.location = t.location /\ s.local = t.local /\ s.items = t.items
       /\ s \in Tasks
  BY <1>7, <1>9, <1>11, <1>12, TextOps DEF Tasks
<1> DEFINE u == Argument(t, a, look)
<1>14. u = ArgumentOf(t, s)
  BY IconCodes, <1>1, <1>2, <1>8 DEF ReadsOf
<1>15. u = [s EXCEPT !.percent = FALSE, !.arg = <<>>, !.command = s.command]
  BY <1>13, <1>14, Zenon DEF ArgumentOf
<1> HIDE DEF u
<1>16. /\ u.command = s.command /\ ~u.percent /\ u.bad = s.bad /\ u.exclusive = s.exclusive
       /\ u.argNum = s.argNum /\ u.location = s.location /\ u.local = s.local /\ u.items = s.items
  BY <1>13, <1>15 DEF Tasks
<1>17. Located(u, t) /\ u.bad = t.bad /\ u.exclusive = t.exclusive /\ u.command = cc
  BY <1>13, <1>16, Zenon DEF Located
<1> QED BY <1>16, <1>17 DEF u, cc

(***************************************************************************)
(* One argument of the line, whatever is in it: u is the task after it.    *)
(***************************************************************************)
IconWord == <<"%", "i">>
OneIcon(a) == \A i \in Waits(a) : i < Len(a) /\ a[i + 1] = IconCode => a = IconWord
Ready(line, n, look, value, t) ==
  /\ Given1(line, look, value) /\ n \in DOMAIN line /\ OneIcon(line[n])
  /\ t \in Tasks /\ ~t.percent /\ (~t.bad => (t.exclusive <=> Passed(line, n, 0)))
TextOf(line, n, look, value) == FlattenSeq(Shown(line, n, look, value))
Grown(line, n, look, value, t, u) ==
  /\ ~t.bad /\ ~u.percent /\ (u.exclusive <=> Passed(line, n + 1, 0))
  /\ Opening(line, n, look) =>
       /\ Held(u, t, look, line, HeadOf(line, value), TextOf(line, n, look, value))
       /\ WordsOf(line, n, look, value) = <<TextOf(line, n, look, value)>> \o Tail(Resources(line, value))
  /\ ~Opening(line, n, look) => Located(u, t) /\ u.command = t.command \o WordsOf(line, n, look, value)

IconWords(look) == IF look.icon = <<>> THEN <<>> ELSE <<IconOption, look.icon>>

LEMMA WordsOfIcon ==
  ASSUME NEW line, NEW n, NEW look, NEW value
  PROVE  line[n] = IconWord => WordsOf(line, n, look, value) = IconWords(look)
BY Zenon DEF WordsOf, IconWord, IconWords

LEMMA WordsAre ==
  ASSUME NEW line, NEW n, NEW look, NEW value, Given1(line, look, value)
  PROVE  LET text == TextOf(line, n, look, value)
             words == WordsOf(line, n, look, value)
         IN /\ line[n] # IconWord /\ Opening(line, n, look) => words = <<text>> \o Tail(Resources(line, value))
            /\ line[n] # IconWord /\ ~Opening(line, n, look) =>
                 words = IF text = <<>> /\ Has(line[n], "%") THEN <<>> ELSE <<text>>
  BY DEF Opening, Given1, WordsOf, TextOf, Shown, IconWord

LEMMA IconGrows ==
  ASSUME NEW line, NEW n, NEW look, NEW value, NEW t, Ready(line, n, look, value, t), line[n] = IconWord
  PROVE  LET u == Argument(t, line[n], look)
         IN ~u.bad => Grown(line, n, look, value, t, u)
<1> DEFINE a == line[n]
           u == Argument(t, a, look)
           m == n + 1
<1>1. t \in Tasks /\ ~t.percent /\ LookType(look) /\ line \in Texts /\ n \in DOMAIN line /\ Given1(line, look, value)
      /\ (~t.bad => (t.exclusive <=> Passed(line, n, 0)))
  BY Zenon DEF Ready, Given1
<1>2. a \in Text
  BY <1>1, TextParts
<1>3. a = <<"%", "i">>
  BY Zenon DEF IconWord
<1>4. /\ u.bad = t.bad /\ ~u.percent /\ u.exclusive = t.exclusive /\ Located(u, t)
      /\ u.command = t.command \o (IF look.icon = <<>> THEN <<>> ELSE <<IconOption, look.icon>>)
  BY <1>1, <1>2, <1>3, IconArgument, Zenon
<1>5. \A i \in Nat : ~FieldIn(line[n], i)
  BY <1>2, <1>3, IconCodes, Zenon
<1>6. (FieldPlaces(line) # {} => FirstField(line)[1] # n) /\ (Passed(line, m, 0) <=> Passed(line, n, 0))
  BY <1>1, <1>5, NoPlaces
<1>7. WordsOf(line, n, look, value) = IconWords(look)
  BY WordsOfIcon
<1>8. ~Opening(line, n, look)
  BY <1>6, Zenon DEF Opening
<1>9. u.command = t.command \o WordsOf(line, n, look, value)
  BY <1>4, <1>7 DEF IconWords
<1>10. ~u.bad => ~t.bad /\ (u.exclusive <=> Passed(line, m, 0))
  BY <1>1, <1>4, <1>6
<1>11. ~u.bad => Grown(line, n, look, value, t, u)
  BY <1>4, <1>8, <1>9, <1>10, Zenon DEF Grown
<1> QED BY <1>11 DEF u, a

LEMMA CodesGrow ==
  ASSUME NEW line, NEW n, NEW look, NEW value, NEW t, Ready(line, n, look, value, t), line[n] # IconWord, Has(line[n], "%")
  PROVE  LET u == Argument(t, line[n], look)
         IN ~u.bad => Grown(line, n, look, value, t, u)
<1> DEFINE u == Argument(t, line[n], look)
           text == TextOf(line, n, look, value)
           words == WordsOf(line, n, look, value)
<1>1. Given1(line, look, value)
  BY Zenon DEF Ready
<1>2. Before1(line, n, look, value, t)
  BY DEF Ready, OneIcon, Before1
<1>3. ~u.bad =>
        /\ ~t.bad /\ ~u.percent /\ (u.exclusive <=> Passed(line, n + 1, 0))
        /\ Opening(line, n, look) => Held(u, t, look, line, HeadOf(line, value), text)
        /\ ~Opening(line, n, look) =>
             Located(u, t) /\ u.command = t.command \o (IF text = <<>> THEN <<>> ELSE <<text>>)
  BY <1>2, ArgumentEnds, Zenon DEF TextOf
<1>4. Opening(line, n, look) => words = <<text>> \o Tail(Resources(line, value))
  BY <1>1, WordsAre, Zenon
<1>5. ~Opening(line, n, look) => words = IF text = <<>> THEN <<>> ELSE <<text>>
  BY <1>1, WordsAre, Zenon
<1> HIDE DEF u, text, words
<1>6. ~u.bad /\ ~Opening(line, n, look) => u.command = t.command \o words
  BY <1>3, <1>5, Zenon
<1>7. ~u.bad => Grown(line, n, look, value, t, u)
  BY <1>3, <1>4, <1>6, Zenon DEF Grown, text, words
<1> QED BY <1>7 DEF u

LEMMA PlainGrows ==
  ASSUME NEW line, NEW n, NEW look, NEW value, NEW t, Ready(line, n, look, value, t), line[n] # IconWord, ~Has(line[n], "%")
  PROVE  LET u == Argument(t, line[n], look)
         IN ~u.bad => Grown(line, n, look, value, t, u)
<1> DEFINE a == line[n]
           u == Argument(t, a, look)
           text == TextOf(line, n, look, value)
           words == WordsOf(line, n, look, value)
           m == n + 1
<1>1. t \in Tasks /\ ~t.percent /\ LookType(look) /\ line \in Texts /\ n \in DOMAIN line /\ Given1(line, look, value)
      /\ Here(line, value) /\ (~t.bad => (t.exclusive <=> Passed(line, n, 0)))
  BY Zenon DEF Ready, Given1
<1>2. a \in Text
  BY <1>1, TextParts
<1>3. Waits(a) = {}
  BY <1>2, NoCodes
<1>4. \A i \in Nat : ~FieldIn(line[n], i)
  BY <1>3 DEF FieldIn
<1>5. (FieldPlaces(line) # {} => FirstField(line)[1] # n) /\ (Passed(line, m, 0) <=> Passed(line, n, 0))
  BY <1>1, <1>4, NoPlaces
<1>6. text = a
  BY <1>1, <1>3, PlainText DEF TextOf
<1>7. ~Opening(line, n, look)
  BY <1>5, Zenon DEF Opening
<1>8. words = <<text>>
  BY <1>1, <1>7, WordsAre, Zenon
<1>9. u = [t EXCEPT !.command = Append(@, a)]
  <2>1. PICK read : ReadsOf(t, a, look, read)
    BY <1>1, <1>2, SomeReads, Zenon
  <2> QED BY <2>1, Zenon DEF ReadsOf
<1>10. t.command \in Texts
  BY <1>1 DEF Tasks
<1> HIDE DEF a, u, text, words
<1>11. u.command = Append(t.command, a) /\ u.bad = t.bad /\ ~u.percent /\ u.exclusive = t.exclusive /\ Located(u, t)
  BY <1>1, <1>9 DEF Tasks, Located
<1>12. Append(t.command, a) = t.command \o <<a>>
  BY <1>2, <1>10 DEF Texts
<1>13. u.command = t.command \o words
  BY <1>6, <1>8, <1>11, <1>12, Zenon
<1>14. ~u.bad => ~t.bad /\ (u.exclusive <=> Passed(line, m, 0))
  BY <1>1, <1>5, <1>11
<1>15. ~u.bad => Grown(line, n, look, value, t, u)
  BY <1>7, <1>11, <1>13, <1>14, Zenon DEF Grown, words
<1> QED BY <1>15 DEF u, a

LEMMA ArgumentGrows ==
  ASSUME NEW line, NEW n, NEW look, NEW value, NEW t, Ready(line, n, look, value, t), ~Argument(t, line[n], look).bad
  PROVE  Grown(line, n, look, value, t, Argument(t, line[n], look))
BY IconGrows, CodesGrow, PlainGrows, Zenon

LEMMA NotPercent ==
  ASSUME NEW t \in Tasks, NEW a \in Text, NEW look, LookType(look), ~t.percent
  PROVE  ~Argument(t, a, look).percent
<1> DEFINE u == Argument(t, a, look)
<1>1. PICK read : ReadsOf(t, a, look, read)
  BY SomeReads, Zenon
<1>2. u \in Tasks
  BY ArgumentType, Zenon
<1>3. CASE ~Has(a, "%")
  BY <1>1, <1>3 DEF ReadsOf, Tasks, u
<1>4. CASE Has(a, "%")
  BY <1>1, <1>4, <1>2 DEF ReadsOf, ArgumentOf, Tasks, u
<1> QED BY <1>3, <1>4

(***************************************************************************)
(* The line, argument by argument: what its command becomes with texts.    *)
(***************************************************************************)
WordsIn(line, look, value) == [n \in DOMAIN line |-> WordsOf(line, n, look, value)]
Spread(t, texts) ==
  SubSeq(t.command, 1, t.argNum) \o <<ReplaceCode(t.command[t.argNum + 1], t.location, Head(texts))>> \o Tail(texts)
    \o SubSeq(t.command, t.argNum + 2, Len(t.command))

LEMMA SpreadMore ==
  ASSUME NEW t \in Tasks, NEW u \in Tasks, NEW w \in Texts, NEW texts, Head(texts) \in Text, Tail(texts) \in Texts,
         t.argNum \in 0..(Len(t.command) - 1), u.argNum = t.argNum, u.location = t.location, u.command = t.command \o w
  PROVE  Spread(u, texts) = Spread(t, texts) \o w /\ u.argNum \in 0..(Len(u.command) - 1)
         /\ u.command[u.argNum + 1] = t.command[t.argNum + 1]
<1> DEFINE c == t.command
           a == t.argNum
           d == u.command
           b == a + 1
           i == a + 2
           x == c[b]
           r == ReplaceCode(x, t.location, Head(texts))
           A == SubSeq(c, 1, a)
           Z == SubSeq(c, i, Len(c))
           h == <<r>>
           e == Tail(texts)
<1>1. c \in Seq(Text) /\ w \in Seq(Text) /\ d = c \o w /\ Len(c) \in Nat /\ Len(w) \in Nat /\ t.location \in Int
  BY DEF Tasks, Texts
<1>2. a \in 0..Len(c) /\ i \in 1..(Len(c) + 1) /\ b \in 1..Len(c) /\ a \in Int
  BY <1>1
<1> HIDE DEF c, a, d, b, i
<1>3. x \in Text
  BY <1>1, <1>2
<1>4. d[b] = x /\ Len(d) = Len(c) + Len(w)
  BY <1>1, <1>2, ConcatAt
<1>5. SubSeq(d, 1, a) = A /\ A \in Seq(Text)
  BY <1>1, <1>2, FirstParts
<1>6. SubSeq(d, i, Len(d)) = Z \o w
  BY <1>1, <1>2, LastParts
<1>7. Z \in Seq(Text)
  BY <1>1, <1>2
<1>8. r \in Text
  BY <1>1, <1>3, ReplaceType
<1>9. h \in Seq(Text) /\ e \in Seq(Text)
  BY <1>8 DEF Texts
<1> DEFINE p == A \o h
           q == p \o e
<1> HIDE DEF A, Z, h, e, r, x
<1>10. p \in Seq(Text) /\ q \in Seq(Text)
  BY <1>5, <1>9
<1>11. Spread(u, texts) = q \o (Z \o w)
  <2>1. u.argNum = a /\ u.argNum + 1 = b /\ u.argNum + 2 = i /\ u.location = t.location
    BY DEF a, b, i
  <2> QED BY <1>4, <1>5, <1>6, <2>1, Zenon DEF Spread, d, h, e, r, x
<1>12. Spread(t, texts) = q \o Z
  BY DEF a, b, i, Spread, c, A, Z, h, e, r, x
<1>13. q \o (Z \o w) = (q \o Z) \o w
  <2>1. \A k, l, m \in Seq(Text) : (k \o l) \o m = k \o (l \o m)
    BY ConcatAssoc
  <2>2. (q \o Z) \o w = q \o (Z \o w)
    <3> HIDE DEF q
    <3> QED BY <1>1, <1>7, <1>10, <2>1, Zenon
  <2> QED BY <2>2, Zenon
<1>14. u.argNum \in 0..(Len(d) - 1)
  BY <1>1, <1>2, <1>4 DEF a, b
<1>15. d[u.argNum + 1] = c[t.argNum + 1]
  BY <1>4 DEF a, b, x
<1> QED BY <1>11, <1>12, <1>13, <1>14, <1>15, Zenon DEF c, d

LEMMA SpreadFirst ==
  ASSUME NEW t \in Tasks, NEW u \in Tasks, NEW x \in Text, NEW texts, Head(texts) \in Text, Tail(texts) \in Texts,
         NEW y \in Text, u.command = Append(t.command, x), u.argNum = Len(t.command),
         ReplaceCode(x, u.location, Head(texts)) = y
  PROVE  /\ Spread(u, texts) = t.command \o (<<y>> \o Tail(texts))
         /\ u.argNum \in 0..(Len(u.command) - 1) /\ u.command[u.argNum + 1] = x
<1> DEFINE c == t.command
           a == u.argNum
           d == u.command
           b == a + 1
           i == a + 2
           h == <<y>>
           e == Tail(texts)
           o == <<x>>
<1>1. c \in Seq(Text) /\ Len(c) \in Nat /\ a = Len(c) /\ d = Append(c, x)
  BY DEF Tasks, Texts
<1>2. d = c \o o /\ o \in Seq(Text)
  BY <1>1, AppendIs
<1>3. h \in Seq(Text) /\ e \in Seq(Text)
  BY DEF Texts
<1> HIDE DEF c, a, d, o, h, e
<1>4. Len(d) = a + 1 /\ d[b] = x /\ d \in Seq(Text)
  BY <1>1
<1>5. SubSeq(d, 1, a) = c
  BY <1>1, <1>2, FirstParts
<1>6. SubSeq(d, i, Len(d)) = <<>>
  BY <1>1, <1>4
<1>7. Spread(u, texts) = ((c \o h) \o e) \o <<>>
  BY <1>4, <1>5, <1>6, Zenon DEF Spread, a, d, b, i, h, e
<1> DEFINE p == c \o h
           q == p \o e
<1>8. p \in Seq(Text) /\ q \in Seq(Text)
  BY <1>1, <1>3
<1>9. q \o <<>> = q
  BY <1>8
<1>10. p \o e = c \o (h \o e)
  <2>1. \A k, l, m \in Seq(Text) : (k \o l) \o m = k \o (l \o m)
    BY ConcatAssoc
  <2> QED BY <1>1, <1>3, <2>1, Zenon
<1>11. Spread(u, texts) = c \o (h \o e)
  BY <1>7, <1>9, <1>10, Zenon
<1>12. a \in 0..(Len(d) - 1) /\ d[a + 1] = x
  BY <1>1, <1>4
<1> QED BY <1>11, <1>12, Zenon DEF c, h, e, a, d

LEMMA ResourceTexts ==
  ASSUME NEW line \in Texts, NEW value \in Seq(ResourceType)
  PROVE  /\ Resources(line, value) \in Texts
         /\ value # <<>> => Head(Resources(line, value)) \in Text /\ Tail(Resources(line, value)) \in Texts
<1> DEFINE p == FirstField(line)
           c == line[p[1]][p[2] + 1]
           f == Resources(line, value)
<1>1. \A i \in 1..Len(value) : value[i].path \in Text /\ value[i].url \in Text
  <2>1. \A x \in ResourceType : x.path \in Text /\ x.url \in Text
    BY DEF ResourceType
  <2> HIDE DEF ResourceType
  <2>2. \A i \in 1..Len(value) : value[i] \in ResourceType
    OBVIOUS
  <2> QED BY <2>1, <2>2
<1>2. DOMAIN value = 1..Len(value) /\ Len(value) \in Nat
  OBVIOUS
<1>3. f = [i \in 1..Len(value) |-> IF c \in {"f", "F"} THEN value[i].path ELSE value[i].url]
  BY <1>2 DEF Resources
<1>4. f \in Seq(Text) /\ Len(f) = Len(value)
  BY <1>1, <1>3, <1>2
<1> HIDE DEF f
<1>5. value # <<>> => f # <<>>
  BY <1>2, <1>4
<1>6. f # <<>> => Head(f) \in Text /\ Tail(f) \in Seq(Text)
  BY <1>4
<1> QED BY <1>4, <1>5, <1>6 DEF f, Texts

LEMMA WordsType ==
  ASSUME NEW line \in Texts, NEW look, LookType(look), NEW value \in Seq(ResourceType), Given1(line, look, value),
         NEW n \in DOMAIN line
  PROVE  /\ WordsOf(line, n, look, value) \in Texts /\ TextOf(line, n, look, value) \in Text
         /\ Opening(line, n, look) => value # <<>>
<1> DEFINE a == line[n]
           text == TextOf(line, n, look, value)
           words == WordsOf(line, n, look, value)
           f == Shown(line, n, look, value)
<1>1. f \in [1..Len(a) -> Text] /\ Len(a) \in Nat
  BY ShownType, TextParts DEF Given1
<1>2. text \in Text
  <2> HIDE DEF f, a
  <2>1. f \in [1..Len(a) -> Seq(Atoms)]
    BY <1>1 DEF Text
  <2> DEFINE m == Len(a)
  <2> HIDE DEF m
  <2>2. FlattenSeq(f) = Join(f, m) /\ Join(f, m) \in Seq(Atoms)
    <3>1. m \in Nat /\ m \in 0..m /\ f \in [1..m -> Seq(Atoms)]
      BY <1>1, <2>1 DEF m
    <3> QED BY <3>1, JoinType
  <2> QED BY <2>2 DEF Text, TextOf, f
<1>3. Opening(line, n, look) => value # <<>>
  BY Zenon DEF Opening, Given1
<1>4. words \in Texts
  <2>1. CASE a = IconWord
    <3>1. words = IconWords(look)
      BY <2>1, WordsOfIcon
    <3>2. IconWords(look) \in Texts
      <4>1. IconOption \in Text
        <5>1. <<"-", "-">> \in Text /\ <<"icon">> \in Text
          BY TextOps, Literals
        <5>2. IconOption = <<"-", "-">> \o <<"icon">>
          BY DEF IconOption
        <5> QED BY <5>1, <5>2, TextOps
      <4>2. look.icon \in Text
        BY DEF LookType
      <4> QED BY <4>1, <4>2, TextsOps DEF IconWords
    <3> QED BY <3>1, <3>2
  <2>2. CASE a # IconWord /\ Opening(line, n, look)
    <3>1. words = <<text>> \o Tail(Resources(line, value))
      BY <2>2, WordsAre, Zenon
    <3>2. Tail(Resources(line, value)) \in Texts
      BY <1>3, <2>2, ResourceTexts
    <3> HIDE DEF text, words
    <3>3. <<text>> \in Texts
      BY <1>2 DEF Texts
    <3> QED BY <3>1, <3>2, <3>3, TextsOps
  <2>3. CASE a # IconWord /\ ~Opening(line, n, look)
    <3>1. words = IF text = <<>> /\ Has(line[n], "%") THEN <<>> ELSE <<text>>
      BY <2>3, WordsAre, Zenon
    <3> HIDE DEF text, words
    <3>2. <<text>> \in Texts /\ <<>> \in Texts
      BY <1>2 DEF Texts
    <3> QED BY <3>1, <3>2, Zenon
  <2> QED BY <2>1, <2>2, <2>3
<1> QED BY <1>2, <1>3, <1>4

Reached(line, look, k) == look.fields # <<>> /\ FieldPlaces(line) # {} /\ FirstField(line)[1] <= k
Began(t, line, look, value, k) ==
  /\ t.argNum \in 0..(Len(t.command) - 1) /\ t.local = (FirstCode(line) \in LocalCodes)
  /\ t.items = ItemsFor(FirstCode(line), look.fields)
  /\ Spread(t, Resources(line, value)) = Join(WordsIn(line, look, value), k)
NotBegun(t, line, look, value, k) ==
  t.argNum = -1 /\ t.items = <<>> /\ t.command = Join(WordsIn(line, look, value), k)
LineCore(line, look, value, k, t) ==
  /\ t.exclusive <=> Passed(line, k + 1, 0)
  /\ Reached(line, look, k) => Began(t, line, look, value, k)
  /\ ~Reached(line, look, k) => NotBegun(t, line, look, value, k)
LineInv(line, look, value, k, t) == t \in Tasks /\ ~t.percent /\ (~t.bad => LineCore(line, look, value, k, t))

(* A value that the task of the line may be run with.                      *)
Suits(line, look, value) ==
  Given1(line, look, value) /\ value \in Seq(ResourceType) /\ \A n \in DOMAIN line : OneIcon(line[n])

LEMMA WordsInType ==
  ASSUME NEW line, NEW look, NEW value, Suits(line, look, value)
  PROVE  /\ WordsIn(line, look, value) \in [1..Len(line) -> Seq(Text)] /\ Len(line) \in Nat
         /\ \A k \in 1..Len(line) : WordsIn(line, look, value)[k] = WordsOf(line, k, look, value)
  BY TextParts, WordsType DEF Suits, Given1, WordsIn, Texts

LEMMA LineBegins ==
  ASSUME NEW line, NEW look, NEW value, Suits(line, look, value)
  PROVE  LineInv(line, look, value, 0, NoTask)
<1> DEFINE f == WordsIn(line, look, value)
           p == FirstField(line)
           P == FieldPlaces(line)
           o == 0 + 1
<1>1. line \in Texts
  BY Zenon DEF Suits, Given1
<1>2. NoTask \in Tasks /\ ~NoTask.percent
  BY TextOps, TextsOps DEF Items, Tasks, NoTask
<1>3. ASSUME NEW q \in P PROVE q[1] \in DOMAIN line
  BY <1>1, FieldsAre
<1>4. DOMAIN line = 1..Len(line) /\ Len(line) \in Nat
  BY <1>1, TextParts
<1>5. ~Reached(line, look, 0)
  BY <1>1, <1>3, FirstExists, <1>4 DEF Reached, P, p
<1>6. ~Passed(line, o, 0)
  BY <1>3, <1>1, PassedEnd DEF Passed
<1>7. Join(f, 0) = <<>>
  BY JoinNone
<1>8. NotBegun(NoTask, line, look, value, 0)
  BY <1>7 DEF NotBegun, NoTask
<1>9. NoTask.exclusive <=> Passed(line, o, 0)
  BY <1>6 DEF NoTask
<1> QED BY <1>2, <1>5, <1>8, <1>9, Zenon DEF LineInv, LineCore

LEMMA LineGoesOn ==
  ASSUME NEW line, NEW look, NEW value, Suits(line, look, value), NEW k \in 1..Len(line), NEW s,
         LineInv(line, look, value, k - 1, s)
  PROVE  LineInv(line, look, value, k, Argument(s, line[k], look))
<1> DEFINE u == Argument(s, line[k], look)
           j == k - 1
           f == WordsIn(line, look, value)
           w == WordsOf(line, k, look, value)
           p == FirstField(line)
           P == FieldPlaces(line)
           res == Resources(line, value)
           text == TextOf(line, k, look, value)
<1>1. line \in Texts /\ LookType(look) /\ value \in Seq(ResourceType) /\ Given1(line, look, value)
  BY Zenon DEF Suits, Given1
<1>2. k \in DOMAIN line /\ line[k] \in Text /\ OneIcon(line[k]) /\ k \in Nat /\ j \in Nat /\ j + 1 = k
  BY <1>1, TextParts DEF Suits
<1>3. s \in Tasks /\ ~s.percent
  BY Zenon DEF LineInv
<1>4. ~s.bad => LineCore(line, look, value, j, s)
  BY Zenon DEF LineInv
<1>5. u \in Tasks /\ ~u.percent
  BY <1>1, <1>2, <1>3, ArgumentType, NotPercent, Zenon
<1>6. Ready(line, k, look, value, s)
  BY <1>4, <1>1, <1>2, <1>3 DEF LineCore, Ready
<1>7. ~u.bad => Grown(line, k, look, value, s, u)
  BY <1>6, ArgumentGrows, Zenon
<1>8. f \in [1..Len(line) -> Seq(Text)] /\ Len(line) \in Nat /\ f[k] = w
  BY WordsInType
<1>9. w \in Texts /\ text \in Text /\ (Opening(line, k, look) => value # <<>>)
  BY <1>1, <1>2, WordsType
<1>10. Join(f, k) = Join(f, j) \o w
  <2> DEFINE n == Len(line)
  <2>1. n \in Nat /\ f \in [1..n -> Seq(Text)] /\ k \in 1..n
    BY <1>8
  <2> HIDE DEF f, n
  <2>2. Join(f, k) = Join(f, k - 1) \o f[k]
    BY <2>1, JoinNext
  <2> QED BY <1>8, <2>2
<1>11. /\ Reached(line, look, k) <=> Reached(line, look, j) \/ Opening(line, k, look)
       /\ Reached(line, look, j) => ~Opening(line, k, look)
  BY <1>1, FirstExists, PassedIs, <1>2 DEF Reached, Opening
<1>12. Join(f, k) \in Seq(Text) /\ Join(f, j) \in Seq(Text)
  <2> DEFINE n == Len(line)
  <2>1. n \in Nat /\ f \in [1..n -> Seq(Text)] /\ k \in 0..n /\ j \in 0..n
    BY <1>2, <1>8
  <2> HIDE DEF f, n, j
  <2> QED BY <2>1, JoinType
<1> HIDE DEF j, f, w, res, text, u
<1>13. ASSUME ~u.bad, Reached(line, look, j) PROVE Began(u, line, look, value, k)
  <2>1. Began(s, line, look, value, j) /\ ~Opening(line, k, look)
    BY <1>4, <1>7, <1>11, <1>13, Zenon DEF Grown, LineCore
  <2>2. Located(u, s) /\ u.command = s.command \o w
    BY <1>7, <1>13, <2>1, Zenon DEF Grown, w
  <2>3. u.argNum = s.argNum /\ u.location = s.location /\ u.local = s.local /\ u.items = s.items
    BY <2>2, Zenon DEF Located
  <2>4. s.argNum \in 0..(Len(s.command) - 1) /\ Spread(s, res) = Join(f, j)
    BY <2>1, Zenon DEF Began, f, res
  <2>5. value # <<>>
    BY <1>1, <1>13, Zenon DEF Reached, Given1
  <2>6. Head(res) \in Text /\ Tail(res) \in Texts
    BY <1>1, <2>5, ResourceTexts DEF res
  <2>7. Spread(u, res) = Spread(s, res) \o w /\ u.argNum \in 0..(Len(u.command) - 1)
    BY <1>3, <1>5, <1>9, <2>2, <2>3, <2>4, <2>6, SpreadMore
  <2>8. Spread(u, res) = Join(f, k)
    BY <1>10, <2>4, <2>7, Zenon
  <2>9. u.local = (FirstCode(line) \in LocalCodes) /\ u.items = ItemsFor(FirstCode(line), look.fields)
    BY <2>1, <2>3, Zenon DEF Began
  <2> QED BY <2>7, <2>8, <2>9, Zenon DEF Began, f, res
<1>14. ASSUME ~u.bad, Opening(line, k, look) PROVE Began(u, line, look, value, k)
  <2>1. NotBegun(s, line, look, value, j)
    BY <1>4, <1>7, <1>11, <1>14, Zenon DEF Grown, LineCore
  <2>2. Held(u, s, look, line, Head(res), text) /\ w = <<text>> \o Tail(res)
    BY <1>7, <1>14, Zenon DEF Grown, HeadOf, w, text, res
  <2>3. PICK x \in Text : u.command = Append(s.command, x) /\ Taken(u, s, look, FirstCode(line))
                          /\ ReplaceCode(x, u.location, Head(res)) = text
    BY <2>2, Zenon DEF Held
  <2>4. u.argNum = Len(s.command) /\ u.local = (FirstCode(line) \in LocalCodes) /\ u.items = ItemsFor(FirstCode(line), look.fields)
    BY <2>3, Zenon DEF Taken
  <2>5. s.command = Join(f, j)
    BY <2>1, Zenon DEF NotBegun, f
  <2>6. Head(res) \in Text /\ Tail(res) \in Texts
    BY <1>1, <1>9, <1>14, ResourceTexts DEF res
  <2>7. Spread(u, res) = s.command \o (<<text>> \o Tail(res)) /\ u.argNum \in 0..(Len(u.command) - 1)
    BY <1>3, <1>5, <1>9, <2>3, <2>4, <2>6, SpreadFirst
  <2>8. Spread(u, res) = Join(f, k)
    BY <1>10, <2>2, <2>5, <2>7, Zenon
  <2> QED BY <2>4, <2>7, <2>8, Zenon DEF Began, f, res
<1>15. ASSUME ~u.bad, ~Reached(line, look, k) PROVE NotBegun(u, line, look, value, k)
  <2>1. NotBegun(s, line, look, value, j) /\ ~Opening(line, k, look)
    BY <1>4, <1>7, <1>11, <1>15, Zenon DEF Grown, LineCore
  <2>2. Located(u, s) /\ u.command = s.command \o w
    BY <1>7, <1>15, <2>1, Zenon DEF Grown, w
  <2>3. u.argNum = s.argNum /\ u.items = s.items
    BY <2>2, Zenon DEF Located
  <2>4. s.argNum = -1 /\ s.items = <<>> /\ s.command = Join(f, j)
    BY <2>1, Zenon DEF NotBegun, f
  <2>5. u.command = Join(f, k)
    BY <1>10, <2>2, <2>4, Zenon
  <2> QED BY <2>3, <2>4, <2>5, Zenon DEF NotBegun, f
<1>16. ~u.bad => (u.exclusive <=> Passed(line, k + 1, 0))
  BY <1>7, Zenon DEF Grown
<1>17. ~u.bad => LineCore(line, look, value, k, u)
  BY <1>11, <1>13, <1>14, <1>15, <1>16, Zenon DEF LineCore
<1>18. LineInv(line, look, value, k, u)
  BY <1>5, <1>17, Zenon DEF LineInv
<1> QED BY <1>18 DEF u

TasksOf(line, look, read) ==
  /\ read[0] = NoTask /\ \A i \in 1..Len(line) : read[i] = Argument(read[i-1], line[i], look)
  /\ ProcessExec(line, look) = [read[Len(line)] EXCEPT !.items = IF @ = <<>> THEN << <<>> >> ELSE @]

LEMMA SomeTasks ==
  ASSUME NEW line \in Texts, NEW look, LookType(look)
  PROVE  \E read : TasksOf(line, look, read)
<1> DEFINE n == Len(line)
           g == [i \in 1..n |-> [s \in Tasks |-> Argument(s, line[i], look)]]
           read == CHOOSE f : ReadsLine(line, look, f)
<1>1. n \in Nat /\ \A i \in 1..n : line[i] \in Text
  BY TextParts
<1>2. NoTask \in Tasks
  BY TextOps, TextsOps DEF Items, Tasks, NoTask
<1>3. Keeps(n, Tasks, g)
  BY <1>1, ArgumentType DEF Keeps
<1>4. \A i \in 1..n : \A s \in Tasks : g[i][s] = Argument(s, line[i], look)
  OBVIOUS
<1>5. ProcessExec(line, look) = [read[n] EXCEPT !.items = IF @ = <<>> THEN << <<>> >> ELSE @]
  BY DEF ProcessExec, ReadsLine
<1> HIDE DEF g
<1>6. PICK f : StepsOf(n, Tasks, NoTask, g, f)
  BY <1>1, <1>2, <1>3, Recursion
<1>7. ReadsLine(line, look, f)
  <2>1. ASSUME NEW i \in 0..n PROVE f[i] = IF i = 0 THEN NoTask ELSE Argument(f[i-1], line[i], look)
    <3>1. i # 0 => i \in 1..n
      BY <1>1
    <3> QED BY <1>4, <1>6, <3>1 DEF StepsOf
  <2>2. f = [i \in 0..n |-> f[i]]
    BY <1>6 DEF StepsOf
  <2> QED BY <2>1, <2>2, Zenon DEF ReadsLine
<1>8. ReadsLine(line, look, read)
  BY <1>7
<1> HIDE DEF read
<1>9. read[0] = NoTask
  BY <1>1, <1>8 DEF ReadsLine
<1>10. ASSUME NEW i \in 1..n PROVE read[i] = Argument(read[i-1], line[i], look)
  BY <1>1, <1>8 DEF ReadsLine
<1> QED BY <1>5, <1>9, <1>10, Zenon DEF TasksOf

(* The task of a line, for a value that it may be run with.                *)
TaskIs(line, look, value, task) ==
  IF look.fields # <<>> /\ FieldPlaces(line) # {}
    THEN Began(task, line, look, value, Len(line))
    ELSE task.argNum = -1 /\ task.items = << <<>> >> /\ task.command = Join(WordsIn(line, look, value), Len(line))

LEMMA LineEnds ==
  ASSUME NEW line, NEW look, NEW value, Suits(line, look, value), ~ProcessExec(line, look).bad
  PROVE  TaskIs(line, look, value, ProcessExec(line, look))
<1> DEFINE n == Len(line)
           task == ProcessExec(line, look)
           f == WordsIn(line, look, value)
<1>1. line \in Texts /\ LookType(look)
  BY Zenon DEF Suits, Given1
<1>2. PICK read : TasksOf(line, look, read)
  BY <1>1, SomeTasks, Zenon
<1> DEFINE T == {k \in 0..n : LineInv(line, look, value, k, read[k])}
           r == read[n]
<1>3. n \in Nat /\ n \in 0..n
  BY <1>1, TextParts
<1>4. 0 \in T
  BY <1>3, <1>2, LineBegins DEF TasksOf
<1>5. ASSUME NEW k \in 1..n, k - 1 \in T PROVE k \in T
  BY <1>5, <1>2, LineGoesOn, <1>3 DEF TasksOf
<1>6. n \in T
  <2> HIDE DEF T, n
  <2>1. \A k \in 0..n : k \in T
    BY <1>3, <1>4, <1>5, CountUp
  <2> QED BY <1>3, <2>1
<1>7. LineInv(line, look, value, n, r)
  BY <1>6
<1>8. task = [r EXCEPT !.items = IF @ = <<>> THEN << <<>> >> ELSE @]
  BY <1>2, Zenon DEF TasksOf
<1> HIDE DEF r, task, n, T
<1>9. r \in Tasks
  BY <1>7, Zenon DEF LineInv
<1>10. /\ task.bad = r.bad /\ task.argNum = r.argNum /\ task.local = r.local /\ task.command = r.command
       /\ task.location = r.location /\ task.items = IF r.items = <<>> THEN << <<>> >> ELSE r.items
  BY <1>8, <1>9 DEF Tasks
<1>11. LineCore(line, look, value, n, r)
  BY <1>7, <1>10, Zenon DEF LineInv, task
<1>12. Reached(line, look, n) <=> look.fields # <<>> /\ FieldPlaces(line) # {}
  BY <1>1, FirstExists, FieldsAre, TextParts, <1>3 DEF n, Reached
<1>13. CASE look.fields # <<>> /\ FieldPlaces(line) # {}
  <2>1. Began(r, line, look, value, n)
    BY <1>11, <1>12, <1>13, Zenon DEF LineCore
  <2> DEFINE items == ItemsFor(FirstCode(line), look.fields)
  <2>2. items # <<>>
    <3>1. look.fields \in Seq(ResourceType) /\ look.fields # <<>>
      BY <1>1, <1>13 DEF LookType
    <3>2. DOMAIN look.fields # {}
      <4>1. \A S : \A l \in Seq(S) : l # <<>> => 1 \in DOMAIN l
        OBVIOUS
      <4>2. 1 \in DOMAIN look.fields
        BY <3>1, <4>1, Zenon
      <4> QED BY <4>2, Zenon
    <3> QED BY <3>2 DEF ItemsFor
  <2>3. task.items = items
    BY <2>1, <1>10, <2>2 DEF Began, items
  <2>4. Spread(task, Resources(line, value)) = Spread(r, Resources(line, value))
    BY <1>10, Zenon DEF Spread
  <2>5. Began(task, line, look, value, n)
    BY <1>10, <2>1, <2>3, <2>4, Zenon DEF Began
  <2> QED BY <1>13, <2>5, Zenon DEF TaskIs, task, n
<1>14. CASE ~(look.fields # <<>> /\ FieldPlaces(line) # {})
  BY <1>11, <1>12, <1>14, <1>10 DEF LineCore, TaskIs, NotBegun, task, n
<1> QED BY <1>13, <1>14

(***************************************************************************)
(* What the resources of an item are as words, and what the first k        *)
(* arguments of the command become with them.                              *)
(***************************************************************************)
TextsOf(task, value) == [i \in DOMAIN value |-> IF task.local THEN value[i].path ELSE value[i].url]
ExpandedTo(task, texts, k) ==
  LET c == task.command
      a == task.argNum
  IN IF a \in 0..(k - 1)
       THEN SubSeq(c, 1, a) \o <<ReplaceCode(c[a + 1], task.location, Head(texts))>> \o Tail(texts) \o SubSeq(c, a + 2, k)
       ELSE SubSeq(c, 1, k)

LEMMA TextsAre ==
  ASSUME NEW line, NEW task, NEW value, task.local = (FirstCode(line) \in LocalCodes)
  PROVE  TextsOf(task, value) = Resources(line, value)
<1> DEFINE p == FirstField(line)
           c == line[p[1]][p[2] + 1]
<1>1. task.local <=> c \in {"f", "F"}
  BY Zenon DEF FirstCode, LocalCodes
<1>2. Resources(line, value) = [i \in DOMAIN value |-> IF c \in {"f", "F"} THEN value[i].path ELSE value[i].url]
  BY DEF Resources
<1> HIDE DEF c
<1>3. CASE task.local
  BY <1>1, <1>2, <1>3 DEF TextsOf
<1>4. CASE ~task.local
  BY <1>1, <1>2, <1>4 DEF TextsOf
<1> QED BY <1>3, <1>4

LEMMA ItemIs ==
  ASSUME NEW c, NEW fields \in Seq(ResourceType), fields # <<>>, NEW value \in Range(ItemsFor(c, fields))
  PROVE  value # <<>> /\ value \in Seq(ResourceType)
<1>1. DOMAIN fields = 1..Len(fields) /\ \A i \in DOMAIN fields : fields[i] \in ResourceType
  OBVIOUS
<1>2. CASE c \in ManyCodes
  BY <1>2 DEF ItemsFor, Range
<1>3. CASE c \notin ManyCodes
  <2>1. ItemsFor(c, fields) = [i \in DOMAIN fields |-> <<fields[i]>>]
    BY <1>3, Zenon DEF ItemsFor
  <2>2. PICK i \in DOMAIN fields : value = <<fields[i]>>
    BY <2>1, Zenon DEF Range
  <2>3. fields[i] \in ResourceType
    BY <1>1
  <2> HIDE DEF ResourceType
  <2> QED BY <2>2, <2>3
<1> QED BY <1>2, <1>3

(* The words that are expanded from the command, as the specification has  *)
(* them argument by argument of the line.                                  *)
LEMMA LineExpands ==
  ASSUME NEW line \in Texts, NEW look, LookType(look), \A n \in DOMAIN line : OneIcon(line[n]),
         ~ProcessExec(line, look).bad, NEW value \in Range(ProcessExec(line, look).items)
  PROVE  LET task == ProcessExec(line, look)
         IN /\ ExpandedTo(task, TextsOf(task, value), Len(task.command)) = FlattenSeq(WordsIn(line, look, value))
            /\ task.argNum = -1 \/ value # <<>>
<1> DEFINE task == ProcessExec(line, look)
           fields == look.fields
           c == task.command
           a == task.argNum
           k == Len(c)
           n == Len(line)
           res == Resources(line, value)
           f == WordsIn(line, look, value)
<1>1. fields \in Seq(ResourceType)
  BY DEF LookType
<1>2. task \in Tasks
  BY ProcessExecType
<1>3. c \in Seq(Text) /\ k \in Nat
  BY <1>2 DEF Tasks, Texts
<1> HIDE DEF task, c, k, f
<1>4. ASSUME NEW v \in Seq(ResourceType), FieldPlaces(line) # {} => (v = <<>> <=> fields = <<>>)
      PROVE  Suits(line, look, v) /\ TaskIs(line, look, v, task)
  BY ResourceTexts, <1>4, LineEnds DEF Here, Suits, Given1, task
<1>5. TaskIs(line, look, fields, task)
  BY <1>1, <1>4
<1>6. value \in Range(task.items)
  BY DEF task
<1>7. ASSUME Suits(line, look, value) PROVE FlattenSeq(f) = Join(f, n)
  BY <1>7, WordsInType, JoinType DEF f
<1>8. CASE fields # <<>> /\ FieldPlaces(line) # {}
  <2>1. task.items = ItemsFor(FirstCode(line), fields)
    BY <1>5, <1>8, Zenon DEF TaskIs, Began
  <2>2. value \in Range(ItemsFor(FirstCode(line), fields))
    BY <1>6, <2>1
  <2>3. value # <<>> /\ value \in Seq(ResourceType)
    BY <1>1, <1>8, <2>2, ItemIs
  <2>4. Suits(line, look, value) /\ TaskIs(line, look, value, task)
    BY <1>4, <1>8, <2>3
  <2>5. a \in 0..(k - 1) /\ task.local = (FirstCode(line) \in LocalCodes) /\ Spread(task, res) = Join(f, n)
    BY <1>8, <2>4, Zenon DEF TaskIs, Began, k, c, f
  <2>6. TextsOf(task, value) = res
    BY <2>5, TextsAre
  <2>7. ExpandedTo(task, res, k) = Spread(task, res)
    BY <2>5, Zenon DEF ExpandedTo, Spread, k, c
  <2> QED BY <1>7, <2>3, <2>4, <2>5, <2>6, <2>7, Zenon DEF task, k, c, f
<1>9. CASE ~(fields # <<>> /\ FieldPlaces(line) # {})
  <2>1. task.items = << <<>> >>
    BY <1>5, <1>9, Zenon DEF TaskIs
  <2>2. value = <<>>
    BY <1>6, <2>1 DEF Range
  <2>3. value \in Seq(ResourceType) /\ (FieldPlaces(line) # {} => (value = <<>> <=> fields = <<>>))
    BY <1>9, <2>2
  <2>4. Suits(line, look, value) /\ TaskIs(line, look, value, task)
    BY <1>4, <2>3
  <2>5. a = -1 /\ c = Join(f, n)
    BY <1>9, <2>4, Zenon DEF TaskIs, c, f
  <2>6. a \notin 0..(k - 1) /\ SubSeq(c, 1, k) = c
    BY <1>3, <2>5 DEF k
  <2>7. ExpandedTo(task, TextsOf(task, value), k) = c
    BY <2>6, Zenon DEF ExpandedTo, c
  <2> QED BY <1>7, <2>4, <2>5, <2>7, Zenon DEF task, k, c, f, a
<1> QED BY <1>8, <1>9

LEMMA IconReading ==
  ASSUME NEW a \in Text, \A i \in DOMAIN a : CodeAt(a, i) /\ a[i + 1] = "i" => a = <<"%", "i">>
  PROVE  OneIcon(a)
  BY TextParts, CodeWaits DEF Waits, OneIcon, IconCode, IconWord

(* The launch that is not refused, and the words that its command becomes. *)
Accepted(r) == r.uid # "unknown" /\ HasExec(r) /\ ~Invalid(LineOf(r), TaskOf(r))

LEMMA LineWords ==
  ASSUME NEW r \in Requests, OneReading(r), Accepted(r), NEW value \in Range(TaskOf(r).items)
  PROVE  /\ ExpandedTo(TaskOf(r), TextsOf(TaskOf(r), value), Len(TaskOf(r).command))
               = FlattenSeq([n \in DOMAIN MeantLine(r) |-> WordsOf(MeantLine(r), n, r.look, value)])
         /\ TaskOf(r).argNum = -1 \/ value # <<>>
<1> DEFINE line == MeantLine(r)
           task == TaskOf(r)
<1>1. HasExec(r) /\ LineOf(r) # <<>> /\ ~task.bad
  BY Zenon DEF Accepted, Invalid
<1>2. LineOf(r) = line
  BY <1>1, LineIs
<1>3. task = ProcessExec(line, r.look)
  BY <1>2, Zenon DEF TaskOf
<1>4. line \in Texts /\ LookType(r.look)
  BY MeantEntryType, RequestsAssumption DEF RequestType, LookType
<1>5. \A n \in DOMAIN line : OneIcon(line[n])
  BY <1>4, TextParts, IconReading DEF OneReading
<1> HIDE DEF line, task
<1>6. value \in Range(ProcessExec(line, r.look).items) /\ ~ProcessExec(line, r.look).bad
  BY <1>1, <1>3 DEF task
<1>7. /\ ExpandedTo(task, TextsOf(task, value), Len(task.command)) = FlattenSeq(WordsIn(line, r.look, value))
      /\ task.argNum = -1 \/ value # <<>>
  BY <1>3, <1>4, <1>5, <1>6, LineExpands
<1> QED BY <1>7, Zenon DEF WordsIn, line, task

(***************************************************************************)
(* The hooks: the least directory that has a usable file of the name.      *)
(***************************************************************************)
UsableIn(dirs, n) == {i \in DOMAIN dirs : n \in DOMAIN dirs[i] /\ dirs[i][n] # NoHook}
FirstHook(dirs, n) ==
  CHOOSE h \in {dirs[i][n] : i \in UsableIn(dirs, n)} :
    \E i \in UsableIn(dirs, n) : h = dirs[i][n] /\ UsableIn(dirs, n) \cap 0..(i - 1) = {}
HookOf(dirs, n) == IF UsableIn(dirs, n) = {} THEN <<>> ELSE FirstHook(dirs, n)

LEMMA HookIs ==
  ASSUME NEW dirs, DOMAIN dirs \subseteq Nat, NEW n
  PROVE  HookIn(dirs, n) = HookOf(dirs, n)
<1> DEFINE U == UsableIn(dirs, n)
           least == CHOOSE i \in U : \A j \in U : i <= j
           h == FirstHook(dirs, n)
<1>1. U \subseteq Nat
  BY DEF UsableIn
<1>2. HookIn(dirs, n) = IF U = {} THEN NoHook ELSE dirs[least][n]
  BY Zenon DEF HookIn, UsableIn
<1> HIDE DEF U
<1>3. ASSUME U # {} PROVE dirs[least][n] = h
  <2>1. \E i \in U : \A j \in U : i <= j
    BY <1>1, <1>3, LeastNumber
  <2>2. least \in U /\ \A j \in U : least <= j
    BY <2>1, Zenon
  <2> HIDE DEF least
  <2>3. U \cap 0..(least - 1) = {}
    BY <1>1, <2>2
  <2>4. h \in {dirs[i][n] : i \in U} /\ \E i \in U : h = dirs[i][n] /\ U \cap 0..(i - 1) = {}
    BY <2>2, <2>3, Zenon DEF FirstHook, U
  <2>5. PICK i \in U : h = dirs[i][n] /\ U \cap 0..(i - 1) = {}
    BY <2>4, Zenon
  <2>6. i = least
    BY <1>1, <2>2, <2>5
  <2> QED BY <2>5, <2>6
<1> QED BY <1>2, <1>3, Zenon DEF HookOf, NoHook, U

LEMMA HooksAre ==
  ASSUME NEW r \in Requests
  PROVE  LoadHooks(r.hookDirs) = HooksInOrder(r)
<1> DEFINE dirs == r.hookDirs
           S == 1..Max({0} \cup UNION {DOMAIN dirs[i] : i \in DOMAIN dirs})
           f == [n \in S |-> HookIn(dirs, n)]
           g == [n \in S |-> HookOf(dirs, n)]
<1>1. DOMAIN dirs \subseteq Nat
  BY RequestsAssumption DEF RequestType, HooksType
<1>2. LoadHooks(dirs) = FlattenSeq(f)
  BY Zenon DEF LoadHooks
<1>3. HooksInOrder(r) = FlattenSeq(g)
  BY Zenon DEF HooksInOrder, HookOf, FirstHook, UsableIn
<1> HIDE DEF S, dirs
<1>4. \A n \in S : HookIn(dirs, n) = HookOf(dirs, n)
  BY <1>1, HookIs
<1>5. f = g
  BY <1>4
<1> QED BY <1>2, <1>3, <1>5, Zenon DEF dirs

(***************************************************************************)
(* The order of the options.                                               *)
(***************************************************************************)
LEMMA InsertIn ==
  ASSUME NEW S, NEW a \in Seq(S), NEW b \in Seq(S), NEW k \in S,
         \A i \in 1..Len(a) : ~Before(k, a[i]), \A i \in 1..Len(b) : Before(k, b[i])
  PROVE  Insert(a \o b, k) = a \o (<<k>> \o b)
<1> DEFINE s == a \o b
           m == Len(a)
           stops == {j \in DOMAIN s : ~Before(k, s[j])}
           at == IF s = <<>> \/ Before(k, s[1]) THEN 0 ELSE CHOOSE j \in stops : \A i \in stops : i <= j
           h == <<k>>
<1>1. m \in Nat /\ Len(b) \in Nat /\ Len(s) = m + Len(b) /\ s \in Seq(S) /\ DOMAIN s = 1..Len(s)
      /\ (\A i \in 1..m : s[i] = a[i]) /\ (\A i \in 1..Len(b) : s[m + i] = b[i])
  BY ConcatAt
<1>2. Insert(s, k) = SubSeq(s, 1, at) \o h \o SubSeq(s, at + 1, Len(s))
  BY Zenon DEF Insert
<1> HIDE DEF s, m
<1>3. ASSUME NEW j \in DOMAIN s, j > m PROVE Before(k, s[j])
  <2> DEFINE i == j - m
  <2>1. i \in 1..Len(b) /\ m + i = j
    BY <1>1, <1>3
  <2> HIDE DEF i
  <2>2. s[m + i] = b[i]
    BY <1>1, <2>1
  <2> QED BY <2>1, <2>2
<1>4. ASSUME NEW j \in 1..m PROVE ~Before(k, s[j]) /\ j \in DOMAIN s
  BY <1>1 DEF m
<1>5. at = m
  BY <1>1, <1>3, <1>4 DEF stops
<1>6. SubSeq(s, 1, m) = a
  BY <1>1, FirstParts DEF m, s
<1>7. SubSeq(s, m + 1, Len(s)) = b
  BY <1>1, LastParts DEF m, s
<1> HIDE DEF at, h
<1>8. Insert(s, k) = (a \o h) \o b
  BY <1>2, <1>5, <1>6, <1>7, Zenon
<1>9. (a \o h) \o b = a \o (h \o b)
  BY ConcatAssoc DEF h
<1> QED BY <1>8, <1>9, Zenon DEF s, h

KeyNames == {"_builtIn_searchExec", "_hooks", "env", "path", "uid", "unsetEnv", "--"}
SystemKeys == {"_builtIn_searchExec", "env", "path", "unsetEnv"}
Opt(keys, k) == IF k \in keys THEN <<k>> ELSE <<>>
Sorts(given, read) == read[0] = <<>> /\ \A i \in 1..Len(given) : read[i] = Insert(read[i-1], given[i])
(* The options before y are inserted, into x.                              *)
SortedTo(given, read, x, y) == \E p \in Seq(KeyNames) : given = p \o y /\ read[Len(p)] = x

LEMMA MiddleIs ==
  ASSUME NEW S, NEW p \in Seq(S), NEW k \in S, NEW y \in Seq(S)
  PROVE  LET z == <<k>> \o y
             q == p \o <<k>>
         IN /\ Len(p) \in Nat /\ Len(y) \in Nat /\ Len(p \o z) = Len(p) + 1 + Len(y) /\ (p \o z)[Len(p) + 1] = k
            /\ q \in Seq(S) /\ Len(q) = Len(p) + 1 /\ q \o y = p \o z
<1> DEFINE h == <<k>>
           z == h \o y
           q == p \o h
<1>1. h \in Seq(S) /\ Len(h) = 1 /\ h[1] = k
  OBVIOUS
<1> HIDE DEF h
<1>2. \A a, b \in Seq(S) :
        /\ a \o b \in Seq(S) /\ Len(a \o b) = Len(a) + Len(b) /\ Len(a) \in Nat
        /\ (\A i \in 1..Len(a) : (a \o b)[i] = a[i]) /\ \A i \in 1..Len(b) : (a \o b)[Len(a) + i] = b[i]
  BY ConcatAt
<1>3. z \in Seq(S) /\ Len(z) = 1 + Len(y) /\ z[1] = k /\ Len(y) \in Nat
  <2>1. /\ z \in Seq(S) /\ Len(z) = Len(h) + Len(y) /\ Len(y) \in Nat
        /\ \A i \in 1..Len(h) : z[i] = h[i]
    BY <1>1, <1>2, Zenon
  <2> HIDE DEF z
  <2> QED BY <1>1, <2>1
<1>4. q \o y = p \o z
  BY <1>1, ConcatAssoc
<1>5. q \in Seq(S) /\ Len(q) = Len(p) + Len(h) /\ Len(p) \in Nat
  BY <1>1, <1>2, Zenon
<1> HIDE DEF z, q
<1>6. Len(p \o z) = Len(p) + Len(z) /\ \A i \in 1..Len(z) : (p \o z)[Len(p) + i] = z[i]
  BY <1>2, <1>3, Zenon
<1>7. (p \o z)[Len(p) + 1] = k
  BY <1>3, <1>6
<1>8. Len(p \o z) = Len(p) + 1 + Len(y) /\ Len(q) = Len(p) + 1
  BY <1>1, <1>3, <1>5, <1>6
<1> QED BY <1>3, <1>4, <1>5, <1>7, <1>8 DEF z, q, h

LEMMA SortNext ==
  ASSUME NEW given, NEW read, Sorts(given, read), NEW k \in KeyNames, NEW y \in Seq(KeyNames), NEW x,
         SortedTo(given, read, x, <<k>> \o y)
  PROVE  SortedTo(given, read, Insert(x, k), y)
<1> DEFINE z == <<k>> \o y
<1> HIDE DEF KeyNames
<1>1. PICK p \in Seq(KeyNames) : given = p \o z /\ read[Len(p)] = x
  BY DEF SortedTo
<1> DEFINE q == p \o <<k>>
           m == Len(p)
           j == m + 1
<1>2. /\ m \in Nat /\ Len(y) \in Nat /\ Len(p \o z) = m + 1 + Len(y) /\ (p \o z)[m + 1] = k
      /\ q \in Seq(KeyNames) /\ Len(q) = m + 1 /\ q \o y = p \o z
  BY MiddleIs
<1> HIDE DEF z, q, m
<1>3. j \in 1..Len(given) /\ j - 1 = m /\ given[j] = k
  BY <1>1, <1>2
<1>4. read[j] = Insert(x, k)
  BY <1>3, <1>1 DEF Sorts, m
<1> QED BY <1>1, <1>2, <1>4 DEF SortedTo

LEMMA SortMaybe ==
  ASSUME NEW given, NEW read, Sorts(given, read), NEW k \in KeyNames, NEW y \in Seq(KeyNames), NEW keys,
         NEW A, A \subseteq KeyNames, NEW B, B \subseteq KeyNames, NEW a \in Seq(A), NEW b \in Seq(B),
         \A l \in A : ~Before(k, l), \A l \in B : Before(k, l), SortedTo(given, read, a \o b, Opt(keys, k) \o y)
  PROVE  SortedTo(given, read, a \o (Opt(keys, k) \o b), y)
<1> HIDE DEF KeyNames
<1>1. CASE k \in keys
  <2>1. Opt(keys, k) = <<k>>
    BY <1>1, Zenon DEF Opt
  <2>2. SortedTo(given, read, a \o b, <<k>> \o y)
    BY <2>1, Zenon
  <2>3. SortedTo(given, read, Insert(a \o b, k), y)
    BY <2>2, SortNext
  <2>4. Insert(a \o b, k) = a \o (<<k>> \o b)
    <3>1. a \in Seq(KeyNames) /\ b \in Seq(KeyNames)
      OBVIOUS
    <3>2. (\A i \in 1..Len(a) : ~Before(k, a[i])) /\ (\A i \in 1..Len(b) : Before(k, b[i]))
      OBVIOUS
    <3> QED BY <3>1, <3>2, InsertIn
  <2> QED BY <2>1, <2>3, <2>4, Zenon
<1>2. CASE k \notin keys
  BY <1>2 DEF Opt
<1> QED BY <1>1, <1>2

LEMMA BeforeIs ==
  /\ \A k \in SystemKeys, l \in KeyNames : Before(k, l)
  /\ \A l \in SystemKeys : ~Before("_hooks", l) /\ ~Before("uid", l) /\ ~Before("--", l)
  /\ ~Before("uid", "_hooks") /\ Before("--", "_hooks") /\ Before("--", "uid")
<1>1. \A k \in SystemKeys : Kind(k) = "systemd" /\ Priority(k) = 0
  BY DEF SystemKeys, Kind, Priority
<1>2. /\ Kind("_hooks") = "app" /\ Priority("_hooks") = 1 /\ Kind("uid") = "app" /\ Priority("uid") = 0
      /\ Kind("--") = "split" /\ Priority("--") = 0
  BY DEF Kind, Priority
<1>3. \A l \in KeyNames : l \in SystemKeys \/ l \in {"_hooks", "uid", "--"}
  BY DEF KeyNames, SystemKeys
<1>4. ASSUME NEW k \in SystemKeys, NEW l \in KeyNames PROVE Before(k, l)
  BY <1>1, <1>2, <1>3 DEF Before
<1>5. ASSUME NEW l \in SystemKeys PROVE ~Before("_hooks", l) /\ ~Before("uid", l) /\ ~Before("--", l)
  BY <1>1, <1>2 DEF Before
<1>6. ~Before("uid", "_hooks") /\ Before("--", "_hooks") /\ Before("--", "uid")
  BY <1>2 DEF Before
<1> QED BY <1>4, <1>5, <1>6

LEMMA SomeSorts ==
  ASSUME NEW keys
  PROVE  \E read : Sorts(Given(keys), read) /\ Sorted(keys) = read[Len(Given(keys))]
<1> DEFINE given == Given(keys)
           S == Keys(keys)
           T == Seq(S)
           n == Len(given)
           g == [i \in 1..n |-> [s \in T |-> Insert(s, given[i])]]
           read == CHOOSE f : SortsTo(given, f)
<1>1. n \in Nat /\ \A i \in 1..n : given[i] \in S
  BY GivenType
<1>2. Sorted(keys) = read[n]
  BY Zenon DEF Sorted, Given, SortsTo
<1> HIDE DEF given, S
<1>3. <<>> \in T
  OBVIOUS
<1>4. ASSUME NEW i \in 1..n, NEW s \in T PROVE Insert(s, given[i]) \in T
  BY <1>1, InsertType
<1>5. Keeps(n, T, g)
  BY <1>4, Zenon DEF Keeps
<1>6. \A i \in 1..n : \A s \in T : g[i][s] = Insert(s, given[i])
  BY Zenon
<1> HIDE DEF g, T
<1>7. PICK f : StepsOf(n, T, <<>>, g, f)
  BY <1>1, <1>3, <1>5, Recursion
<1>8. SortsTo(given, f)
  <2>1. ASSUME NEW i \in 0..n PROVE f[i] = IF i = 0 THEN <<>> ELSE Insert(f[i-1], given[i])
    <3>1. i # 0 => i \in 1..n
      BY <1>1
    <3> QED BY <1>6, <1>7, <3>1 DEF StepsOf
  <2>2. f = [i \in 0..n |-> f[i]]
    BY <1>7 DEF StepsOf
  <2> QED BY <2>1, <2>2, Zenon DEF SortsTo
<1>9. SortsTo(given, read)
  BY <1>8
<1> HIDE DEF read
<1>10. ASSUME NEW i \in 1..n PROVE read[i] = Insert(read[i-1], given[i])
  BY <1>1, <1>9 DEF SortsTo
<1>11. read[0] = <<>>
  BY <1>1, <1>9 DEF SortsTo
<1> QED BY <1>2, <1>10, <1>11, Zenon DEF Sorts, given, n

LEMMA OptType ==
  ASSUME NEW keys, NEW k, NEW S, k \in S
  PROVE  Opt(keys, k) \in Seq(S)
  BY DEF Opt

LEMMA GivenIs ==
  ASSUME NEW keys
  PROVE  Given(keys) = Opt(keys, "_builtIn_searchExec") \o (Opt(keys, "_hooks") \o (Opt(keys, "env")
                         \o (Opt(keys, "path") \o (Opt(keys, "uid") \o (Opt(keys, "unsetEnv") \o <<"--">>)))))
<1> DEFINE f == [i \in DOMAIN OptionKeys |-> IF OptionKeys[i] \in keys THEN <<OptionKeys[i]>> ELSE <<>>]
           a == Opt(keys, "_builtIn_searchExec")
           b == Opt(keys, "_hooks")
           c == Opt(keys, "env")
           d == Opt(keys, "path")
           e == Opt(keys, "uid")
           g == Opt(keys, "unsetEnv")
           z == <<"--">>
           S == KeyNames
<1>1. Given(keys) = FlattenSeq(f) \o z
  BY Zenon DEF Given
<1>2. DOMAIN OptionKeys = 1..6 /\ OptionKeys[1] = "_builtIn_searchExec" /\ OptionKeys[2] = "_hooks" /\ OptionKeys[3] = "env"
      /\ OptionKeys[4] = "path" /\ OptionKeys[5] = "uid" /\ OptionKeys[6] = "unsetEnv"
  BY DEF OptionKeys
<1>3. DOMAIN f = 1..6 /\ \A i \in 1..6 : f[i] = Opt(keys, OptionKeys[i])
  BY <1>2, Zenon DEF Opt
<1>4. a \in Seq(S) /\ b \in Seq(S) /\ c \in Seq(S) /\ d \in Seq(S) /\ e \in Seq(S) /\ g \in Seq(S) /\ z \in Seq(S)
  BY OptType DEF KeyNames
<1>5. f[1] = a /\ f[2] = b /\ f[3] = c /\ f[4] = d /\ f[5] = e /\ f[6] = g
  BY <1>2, <1>3
<1>6. f = [i \in 1..6 |-> f[i]]
  BY <1>2, Zenon
<1> HIDE DEF f, a, b, c, d, e, g, z, S
<1>7. f \in [1..6 -> Seq(S)]
  BY <1>4, <1>5, <1>6
<1> DEFINE J(i) == Join(f, i)
<1>8. FlattenSeq(f) = J(6) /\ \A i \in 0..6 : J(i) \in Seq(S)
  BY <1>7, JoinType
<1>9. \A i \in 1..6 : J(i) = J(i - 1) \o f[i]
  BY <1>7, JoinNext
<1>10. J(0) = <<>>
  BY JoinNone
<1> DEFINE j0 == J(0)
           j1 == J(1)
           j2 == J(2)
           j3 == J(3)
           j4 == J(4)
           j5 == J(5)
           j6 == J(6)
<1>18. j6 = FlattenSeq(f) /\ j0 = <<>>
  BY <1>8, <1>10
<1>19. \A i \in 0..6 : J(i) \in Seq(S)
  BY <1>8
<1> HIDE DEF J
<1>11. j1 = j0 \o a /\ j2 = j1 \o b /\ j3 = j2 \o c /\ j4 = j3 \o d /\ j5 = j4 \o e /\ j6 = j5 \o g
  <2>1. 1 - 1 = 0 /\ 2 - 1 = 1 /\ 3 - 1 = 2 /\ 4 - 1 = 3 /\ 5 - 1 = 4 /\ 6 - 1 = 5
        /\ 1 \in 1..6 /\ 2 \in 1..6 /\ 3 \in 1..6 /\ 4 \in 1..6 /\ 5 \in 1..6 /\ 6 \in 1..6
    OBVIOUS
  <2> QED BY <1>5, <1>9, <2>1, Zenon DEF j0, j1, j2, j3, j4, j5, j6
<1>12. j0 \in Seq(S) /\ j1 \in Seq(S) /\ j2 \in Seq(S) /\ j3 \in Seq(S) /\ j4 \in Seq(S) /\ j5 \in Seq(S)
  BY <1>19
<1> HIDE DEF j0, j1, j2, j3, j4, j5, j6
<1> DEFINE y6 == g \o z
           y5 == e \o y6
           y4 == d \o y5
           y3 == c \o y4
           y2 == b \o y3
           y1 == a \o y2
<1>13. \A k, l, m \in Seq(S) : (k \o l) \o m = k \o (l \o m)
  BY ConcatAssoc
<1>14. \A k, l \in Seq(S) : k \o l \in Seq(S)
  OBVIOUS
<1>15. y6 \in Seq(S) /\ y5 \in Seq(S) /\ y4 \in Seq(S) /\ y3 \in Seq(S) /\ y2 \in Seq(S) /\ y1 \in Seq(S)
  BY <1>4, <1>14, Zenon
<1> HIDE DEF y1, y2, y3, y4, y5, y6
<1>16. /\ j6 \o z = j5 \o y6
       /\ j5 \o y6 = j4 \o y5
       /\ j4 \o y5 = j3 \o y4
       /\ j3 \o y4 = j2 \o y3
       /\ j2 \o y3 = j1 \o y2
       /\ j1 \o y2 = j0 \o y1
  <2>1. j6 \o z = j5 \o y6
    <3>0. j5 \in Seq(S) /\ g \in Seq(S) /\ z \in Seq(S)
      BY <1>4, <1>12, <1>15
    <3>1. (j5 \o g) \o z = j5 \o (g \o z)
      BY <3>0, <1>13, Zenon
    <3> QED BY <1>11, <3>1, Zenon DEF y1, y2, y3, y4, y5, y6
  <2>2. j5 \o y6 = j4 \o y5
    <3>0. j4 \in Seq(S) /\ e \in Seq(S) /\ y6 \in Seq(S)
      BY <1>4, <1>12, <1>15
    <3>1. (j4 \o e) \o y6 = j4 \o (e \o y6)
      BY <3>0, <1>13, Zenon
    <3> QED BY <1>11, <3>1, Zenon DEF y1, y2, y3, y4, y5, y6
  <2>3. j4 \o y5 = j3 \o y4
    <3>0. j3 \in Seq(S) /\ d \in Seq(S) /\ y5 \in Seq(S)
      BY <1>4, <1>12, <1>15
    <3>1. (j3 \o d) \o y5 = j3 \o (d \o y5)
      BY <3>0, <1>13, Zenon
    <3> QED BY <1>11, <3>1, Zenon DEF y1, y2, y3, y4, y5, y6
  <2>4. j3 \o y4 = j2 \o y3
    <3>0. j2 \in Seq(S) /\ c \in Seq(S) /\ y4 \in Seq(S)
      BY <1>4, <1>12, <1>15
    <3>1. (j2 \o c) \o y4 = j2 \o (c \o y4)
      BY <3>0, <1>13, Zenon
    <3> QED BY <1>11, <3>1, Zenon DEF y1, y2, y3, y4, y5, y6
  <2>5. j2 \o y3 = j1 \o y2
    <3>0. j1 \in Seq(S) /\ b \in Seq(S) /\ y3 \in Seq(S)
      BY <1>4, <1>12, <1>15
    <3>1. (j1 \o b) \o y3 = j1 \o (b \o y3)
      BY <3>0, <1>13, Zenon
    <3> QED BY <1>11, <3>1, Zenon DEF y1, y2, y3, y4, y5, y6
  <2>6. j1 \o y2 = j0 \o y1
    <3>0. j0 \in Seq(S) /\ a \in Seq(S) /\ y2 \in Seq(S)
      BY <1>4, <1>12, <1>15
    <3>1. (j0 \o a) \o y2 = j0 \o (a \o y2)
      BY <3>0, <1>13, Zenon
    <3> QED BY <1>11, <3>1, Zenon DEF y1, y2, y3, y4, y5, y6
  <2> QED BY <2>1, <2>2, <2>3, <2>4, <2>5, <2>6
<1>17. <<>> \o y1 = y1
  BY <1>15
<1> QED BY <1>1, <1>18, <1>16, <1>17, Zenon DEF y1, y2, y3, y4, y5, y6, a, b, c, d, e, g, z

SystemOrder(keys) ==
  Opt(keys, "unsetEnv") \o (Opt(keys, "path") \o (Opt(keys, "env") \o Opt(keys, "_builtIn_searchExec")))

LEMMA SortFront ==
  ASSUME NEW given, NEW read, Sorts(given, read), NEW k \in KeyNames, NEW y \in Seq(KeyNames), NEW keys,
         NEW B, B \subseteq KeyNames, NEW x \in Seq(B), \A l \in B : Before(k, l), SortedTo(given, read, x, Opt(keys, k) \o y)
  PROVE  SortedTo(given, read, Opt(keys, k) \o x, y)
<1> DEFINE A == {}
           a == <<>>
           o == Opt(keys, k)
<1>1. A \subseteq KeyNames /\ a \in Seq(A) /\ \A l \in A : ~Before(k, l)
  OBVIOUS
<1>2. \A s \in Seq(KeyNames) : a \o s = s
  OBVIOUS
<1>3. x \in Seq(KeyNames) /\ o \in Seq(KeyNames) /\ o \o x \in Seq(KeyNames)
  BY OptType
<1>4. a \o x = x /\ a \o (o \o x) = o \o x
  BY <1>2, <1>3, Zenon
<1> HIDE DEF A, a
<1>5. SortedTo(given, read, a \o x, Opt(keys, k) \o y)
  BY <1>4, Zenon
<1>6. SortedTo(given, read, a \o (Opt(keys, k) \o x), y)
  BY <1>1, <1>5, SortMaybe
<1> QED BY <1>4, <1>6, Zenon

LEMMA SortBack ==
  ASSUME NEW given, NEW read, Sorts(given, read), NEW k \in KeyNames, NEW y \in Seq(KeyNames), NEW keys,
         NEW A, A \subseteq KeyNames, NEW x \in Seq(A), \A l \in A : ~Before(k, l), SortedTo(given, read, x, Opt(keys, k) \o y)
  PROVE  SortedTo(given, read, x \o Opt(keys, k), y)
<1> DEFINE B == {}
           b == <<>>
           o == Opt(keys, k)
<1>1. B \subseteq KeyNames /\ b \in Seq(B) /\ \A l \in B : Before(k, l)
  OBVIOUS
<1>2. \A s \in Seq(KeyNames) : s \o b = s
  OBVIOUS
<1>3. x \in Seq(KeyNames) /\ o \in Seq(KeyNames)
  <2>1. o \in Seq(KeyNames)
    BY OptType
  <2> HIDE DEF o, KeyNames
  <2> QED BY <2>1
<1>4. x \o b = x /\ o \o b = o
  BY <1>2, <1>3, Zenon
<1> HIDE DEF B, b
<1>5. SortedTo(given, read, x \o b, Opt(keys, k) \o y)
  BY <1>4, Zenon
<1>6. SortedTo(given, read, x \o (Opt(keys, k) \o b), y)
  BY <1>1, <1>5, SortMaybe
<1> QED BY <1>4, <1>6, Zenon

LEMMA SortedIs ==
  ASSUME NEW keys
  PROVE  /\ Sorted(keys) = SystemOrder(keys) \o (<<"--">> \o (Opt(keys, "_hooks") \o Opt(keys, "uid")))
         /\ SystemOrder(keys) \in Seq(SystemKeys)
<1> DEFINE given == Given(keys)
           a == Opt(keys, "_builtIn_searchExec")
           b == Opt(keys, "_hooks")
           c == Opt(keys, "env")
           d == Opt(keys, "path")
           e == Opt(keys, "uid")
           g == Opt(keys, "unsetEnv")
           z == <<"--">>
           S == KeyNames
           M == SystemKeys
           H == {"_hooks"}
           U == {"uid"}
           HU == {"_hooks", "uid"}
           MH == SystemKeys \cup {"_hooks"}
           o == <<>>
           s1 == c \o a
           s2 == d \o s1
           s3 == g \o s2
           x1 == a \o b
           x2 == c \o x1
           x3 == d \o x2
           x4 == x3 \o e
           x5 == g \o x4
           y6 == g \o z
           y5 == e \o y6
           y4 == d \o y5
           y3 == c \o y4
           y2 == b \o y3
           y1 == a \o y2
<1>1. PICK read : Sorts(given, read) /\ Sorted(keys) = read[Len(given)]
  BY SomeSorts, Zenon
<1>2. /\ "--" \in S /\ "_builtIn_searchExec" \in S /\ "_hooks" \in S /\ "env" \in S /\ "path" \in S /\ "uid" \in S /\ "unsetEnv" \in S
      /\ "_builtIn_searchExec" \in M /\ "env" \in M /\ "path" \in M /\ "unsetEnv" \in M
  BY DEF KeyNames, SystemKeys
<1>3. M \subseteq S /\ H \subseteq S /\ U \subseteq S /\ HU \subseteq S /\ MH \subseteq S /\ M \subseteq MH /\ H \subseteq MH /\ {} \subseteq S
  BY DEF KeyNames, SystemKeys
<1>4. a \in Seq(M) /\ c \in Seq(M) /\ d \in Seq(M) /\ g \in Seq(M)
  BY OptType, <1>2
<1>5. b \in Seq(H) /\ e \in Seq(U) /\ b \in Seq(HU) /\ e \in Seq(HU) /\ b \in Seq(MH)
  BY OptType
<1>6. z \in Seq(S)
  BY <1>2
<1>7. given = y1
  BY GivenIs, Zenon
<1> HIDE DEF given, a, b, c, d, e, g, z, S, M
<1>8. \A T : \A k, l \in Seq(T) : k \o l \in Seq(T)
  OBVIOUS
<1>9. \A T1, T2 : T1 \subseteq T2 => \A k \in Seq(T1) : k \in Seq(T2)
  OBVIOUS
<1>10. s1 \in Seq(M) /\ s2 \in Seq(M) /\ s3 \in Seq(M)
  BY <1>4, <1>8
<1>11. /\ a \in Seq(MH) /\ c \in Seq(MH) /\ d \in Seq(MH)
       /\ a \in Seq(S) /\ b \in Seq(S) /\ c \in Seq(S) /\ d \in Seq(S) /\ e \in Seq(S) /\ g \in Seq(S)
  BY <1>3, <1>4, <1>5, <1>9
<1>12. x1 \in Seq(MH) /\ x2 \in Seq(MH) /\ x3 \in Seq(MH)
  BY <1>5, <1>8, <1>11
<1>13. y6 \in Seq(S) /\ y5 \in Seq(S) /\ y4 \in Seq(S) /\ y3 \in Seq(S) /\ y2 \in Seq(S)
  BY <1>6, <1>8, <1>11
<1>14. SortedTo(given, read, o, a \o y2)
  <2>1. o \in Seq(S) /\ Len(o) = 0
    OBVIOUS
  <2>2. y1 \in Seq(S)
    BY <1>8, <1>11, <1>13, Zenon
  <2>3. o \o y1 = y1
    BY <2>2
  <2>4. read[0] = <<>>
    BY <1>1, Zenon DEF Sorts
  <2> QED BY <1>7, <2>1, <2>3, <2>4, Zenon DEF SortedTo, S
<1>15. SortedTo(given, read, a, y2)
  <2> DEFINE k == "_builtIn_searchExec"
  <2>1. k \in S /\ a = Opt(keys, k)
    BY <1>2 DEF a
  <2> HIDE DEF k, y2
  <2>2. SortedTo(given, read, o, Opt(keys, k) \o y2)
    BY <1>14, <2>1
  <2> DEFINE N == {}
  <2>3. N \subseteq S /\ o \in Seq(N) /\ \A l \in N : Before(k, l)
    OBVIOUS
  <2> HIDE DEF N, o
  <2>4. SortedTo(given, read, Opt(keys, k) \o o, y2)
    BY <1>1, <1>13, <2>1, <2>2, <2>3, SortFront DEF S
  <2>5. a \o o = a
    BY <1>11 DEF o
  <2> QED BY <2>1, <2>4, <2>5, Zenon
<1>16. /\ \A k \in M, l \in S : Before(k, l)
       /\ \A l \in M : ~Before("_hooks", l) /\ ~Before("uid", l) /\ ~Before("--", l)
       /\ ~Before("uid", "_hooks") /\ Before("--", "_hooks") /\ Before("--", "uid")
  BY BeforeIs DEF M, S
<1>17. SortedTo(given, read, x1, y3)
  <2> DEFINE k == "_hooks"
  <2>1. k \in S /\ b = Opt(keys, k) /\ \A l \in M : ~Before(k, l)
    BY <1>2, <1>16 DEF b
  <2> HIDE DEF k, y3
  <2>2. SortedTo(given, read, a, Opt(keys, k) \o y3)
    BY <1>15, <2>1
  <2>3. SortedTo(given, read, a \o Opt(keys, k), y3)
    BY <1>1, <1>3, <1>4, <1>13, <2>1, <2>2, SortBack DEF S
  <2> QED BY <2>1, <2>3, Zenon
<1>18. SortedTo(given, read, x2, y4)
  <2> DEFINE k == "env"
  <2>1. k \in S /\ c = Opt(keys, k) /\ \A l \in MH : Before(k, l)
    BY <1>2, <1>3, <1>16 DEF c
  <2> HIDE DEF k, y4, x1, MH
  <2>2. SortedTo(given, read, x1, Opt(keys, k) \o y4)
    BY <1>17, <2>1
  <2>3. SortedTo(given, read, Opt(keys, k) \o x1, y4)
    BY <1>1, <1>3, <1>12, <1>13, <2>1, <2>2, SortFront DEF S
  <2> QED BY <2>1, <2>3, Zenon
<1>19. SortedTo(given, read, x3, y5)
  <2> DEFINE k == "path"
  <2>1. k \in S /\ d = Opt(keys, k) /\ \A l \in MH : Before(k, l)
    BY <1>2, <1>3, <1>16 DEF d
  <2> HIDE DEF k, y5, x2, MH
  <2>2. SortedTo(given, read, x2, Opt(keys, k) \o y5)
    BY <1>18, <2>1
  <2>3. SortedTo(given, read, Opt(keys, k) \o x2, y5)
    BY <1>1, <1>3, <1>12, <1>13, <2>1, <2>2, SortFront DEF S
  <2> QED BY <2>1, <2>3, Zenon
<1>20. SortedTo(given, read, x4, y6)
  <2> DEFINE k == "uid"
  <2>1. k \in S /\ e = Opt(keys, k)
    BY <1>2 DEF e
  <2>2. \A l \in MH : ~Before(k, l)
    BY <1>16 DEF M
  <2> HIDE DEF k, y6, x3, MH
  <2>3. SortedTo(given, read, x3, Opt(keys, k) \o y6)
    BY <1>19, <2>1
  <2>4. SortedTo(given, read, x3 \o Opt(keys, k), y6)
    BY <1>1, <1>3, <1>12, <1>13, <2>1, <2>2, <2>3, SortBack DEF S
  <2> QED BY <2>1, <2>4, Zenon
<1>21. x4 \in Seq(S)
  BY <1>3, <1>9, <1>12, <1>8, <1>11
<1>22. SortedTo(given, read, x5, z)
  <2> DEFINE k == "unsetEnv"
  <2>1. k \in S /\ g = Opt(keys, k) /\ \A l \in S : Before(k, l)
    BY <1>2, <1>16 DEF g
  <2>2. S \subseteq S
    OBVIOUS
  <2> HIDE DEF k, x4
  <2>3. SortedTo(given, read, x4, Opt(keys, k) \o z)
    BY <1>20, <2>1
  <2>4. SortedTo(given, read, Opt(keys, k) \o x4, z)
    BY <1>1, <1>6, <1>21, <2>1, <2>2, <2>3, SortFront DEF S
  <2> QED BY <2>1, <2>4, Zenon
<1> DEFINE be == b \o e
<1>23. be \in Seq(HU) /\ be \in Seq(S)
  BY <1>5, <1>8, <1>3, <1>9
<1>24. x5 = s3 \o be
  <2>1. \A k, l, m \in Seq(S) : (k \o l) \o m = k \o (l \o m)
    BY ConcatAssoc
  <2>2. s1 \in Seq(S) /\ s2 \in Seq(S)
    BY <1>3, <1>9, <1>10, Zenon
  <2>3. x1 \in Seq(S) /\ x2 \in Seq(S) /\ x3 \in Seq(S)
    BY <1>3, <1>9, <1>12, Zenon
  <2>4. x2 = s1 \o b
    <3>1. (c \o a) \o b = c \o (a \o b)
      BY <1>11, <2>1, Zenon
    <3> QED BY <3>1, Zenon
  <2>5. x3 = s2 \o b
    <3> HIDE DEF s1, x2
    <3>1. (d \o s1) \o b = d \o (s1 \o b)
      BY <1>11, <2>1, <2>2, Zenon
    <3> QED BY <2>4, <3>1, Zenon
  <2>6. x4 = s2 \o be
    <3> HIDE DEF s2, x3
    <3>0. s2 \in Seq(S) /\ b \in Seq(S) /\ e \in Seq(S)
      BY <1>11, <2>2
    <3>1. (s2 \o b) \o e = s2 \o (b \o e)
      BY <2>1, <3>0, Zenon
    <3> QED BY <2>5, <3>1, Zenon
  <2> HIDE DEF s2, be, x4
  <2>7. (g \o s2) \o be = g \o (s2 \o be)
    BY <1>11, <1>23, <2>1, <2>2, Zenon
  <2> QED BY <2>6, <2>7, Zenon
<1> HIDE DEF s3, x5, be
<1>25. SortedTo(given, read, Insert(x5, "--"), o)
  <2>1. z \o o = z
    BY <1>6
  <2> DEFINE k == "--"
  <2>2. k \in S /\ z = <<k>> /\ o \in Seq(S)
    BY <1>2 DEF z
  <2> HIDE DEF k, o
  <2>3. SortedTo(given, read, x5, <<k>> \o o)
    BY <1>22, <2>1, <2>2, Zenon
  <2>4. SortedTo(given, read, Insert(x5, k), o)
    BY <1>1, <2>2, <2>3, SortNext DEF S
  <2> QED BY <2>4 DEF k
<1>26. Insert(x5, "--") = s3 \o (z \o be)
  <2> DEFINE k == "--"
  <2>1. k \in S /\ z = <<k>>
    BY <1>2 DEF z
  <2>2. (\A l \in M : ~Before(k, l)) /\ \A l \in HU : Before(k, l)
    BY <1>16, Zenon
  <2> HIDE DEF k, HU
  <2>3. (\A i \in 1..Len(s3) : s3[i] \in M) /\ \A i \in 1..Len(be) : be[i] \in HU
    BY <1>10, <1>23
  <2>4. s3 \in Seq(S)
    BY <1>3, <1>9, <1>10, Zenon
  <2>5. (\A i \in 1..Len(s3) : ~Before(k, s3[i])) /\ \A i \in 1..Len(be) : Before(k, be[i])
    BY <2>2, <2>3, Zenon
  <2>6. Insert(s3 \o be, k) = s3 \o (<<k>> \o be)
    BY <1>23, <2>1, <2>4, <2>5, InsertIn
  <2> QED BY <1>24, <2>1, <2>6, Zenon DEF k
<1>27. Sorted(keys) = Insert(x5, "--")
  <2>1. PICK p \in Seq(KeyNames) : given = p \o o /\ read[Len(p)] = Insert(x5, "--")
    BY <1>25, Zenon DEF SortedTo
  <2>2. p \o o = p
    OBVIOUS
  <2> QED BY <1>1, <2>1, <2>2, Zenon
<1>28. Sorted(keys) = s3 \o (z \o be) /\ s3 \in Seq(M)
  BY <1>10, <1>26, <1>27, Zenon
<1> QED BY <1>28, Zenon DEF SystemOrder, s3, z, be, a, b, c, d, e, g, M

(***************************************************************************)
(* The command line of the options, from the list of each.                 *)
(***************************************************************************)
LEMMA EachList ==
  ASSUME NEW S, NEW T, NEW m \in [S -> Seq(T)], NEW a \in Seq(S)
  PROVE  /\ [i \in DOMAIN a |-> m[a[i]]] \in [1..Len(a) -> Seq(T)] /\ Len(a) \in Nat
         /\ Each(m, a) \in Seq(T)
<1> DEFINE n == Len(a)
           f == [i \in DOMAIN a |-> m[a[i]]]
<1>1. n \in Nat /\ DOMAIN a = 1..n /\ \A i \in 1..n : a[i] \in S
  OBVIOUS
<1>2. \A i \in 1..n : m[a[i]] \in Seq(T)
  BY <1>1
<1>3. f \in [1..n -> Seq(T)]
  BY <1>1, <1>2, Zenon
<1>4. Each(m, a) = FlattenSeq(f)
  BY Zenon DEF Each
<1> HIDE DEF n, f
<1>5. FlattenSeq(f) \in Seq(T)
  BY <1>1, <1>3, FlattenParts, Zenon
<1> QED BY <1>1, <1>3, <1>4, <1>5 DEF n, f

LEMMA EachLists ==
  ASSUME NEW S, NEW T, NEW m \in [S -> Seq(T)], NEW a \in Seq(S), NEW b \in Seq(S)
  PROVE  Each(m, a \o b) = Each(m, a) \o Each(m, b)
<1> DEFINE k == Len(a)
           n == Len(b)
           f == [i \in DOMAIN a |-> m[a[i]]]
           g == [i \in DOMAIN b |-> m[b[i]]]
           c == a \o b
           h == [i \in DOMAIN c |-> m[c[i]]]
<1>1. k \in Nat /\ n \in Nat /\ DOMAIN a = 1..k /\ DOMAIN b = 1..n
  OBVIOUS
<1>2. c \in Seq(S) /\ Len(c) = k + n /\ (\A i \in 1..k : c[i] = a[i]) /\ \A i \in 1..n : c[k + i] = b[i]
  BY ConcatAt
<1> HIDE DEF c
<1>3. f \in [1..k -> Seq(T)] /\ g \in [1..n -> Seq(T)] /\ h \in [1..Len(c) -> Seq(T)]
  BY <1>2, EachList
<1>4. DOMAIN c = 1..(k + n) /\ h \in [1..(k + n) -> Seq(T)]
  BY <1>2, <1>3
<1>5. \A i \in 1..k : h[i] = f[i]
  BY <1>1, <1>2, <1>4
<1>6. \A i \in 1..n : h[k + i] = g[i]
  BY <1>1, <1>2, <1>4
<1>7. Each(m, c) = FlattenSeq(h) /\ Each(m, a) = FlattenSeq(f) /\ Each(m, b) = FlattenSeq(g)
  BY Zenon DEF Each
<1> HIDE DEF k, n, f, g, h
<1>8. FlattenSeq(h) = FlattenSeq(f) \o FlattenSeq(g)
  <2>1. TwoLists(T, k, n, f, g, h)
    BY <1>1, <1>3, <1>4, <1>5, <1>6 DEF TwoLists
  <2> QED BY <2>1, FlattenTwo
<1> QED BY <1>7, <1>8, Zenon DEF c

LEMMA EachOpt ==
  ASSUME NEW S, NEW T, NEW m \in [S -> Seq(T)], NEW keys, NEW k, k \in keys => k \in S
  PROVE  /\ k \in keys => Each(m, Opt(keys, k)) = m[k]
         /\ k \notin keys => Each(m, Opt(keys, k)) = <<>>
         /\ Opt(keys, k) \in Seq(S)
<1> DEFINE a == Opt(keys, k)
           f == [i \in DOMAIN a |-> m[a[i]]]
<1>0. Each(m, a) = FlattenSeq(f)
  BY Zenon DEF Each
<1>1. CASE k \in keys
  <2>1. a = <<k>> /\ m[k] \in Seq(T)
    BY <1>1, Zenon DEF Opt
  <2>2. f = <<m[k]>>
    BY <2>1
  <2>3. f \in [1..1 -> Seq(T)] /\ f[1] = m[k]
    BY <2>1, <2>2
  <2> HIDE DEF f
  <2>4. FlattenSeq(f) = Join(f, 1) /\ Join(f, 1) = Join(f, 1 - 1) \o f[1] /\ 1 - 1 = 0
    <3> DEFINE n == 1
    <3>1. n \in Nat /\ n \in 1..n
      OBVIOUS
    <3>2. f \in [1..n -> Seq(T)]
      BY <2>3
    <3> HIDE DEF n
    <3>3. FlattenSeq(f) = Join(f, n) /\ Join(f, n) = Join(f, n - 1) \o f[n]
      BY <3>1, <3>2, JoinType, JoinNext
    <3> QED BY <3>3 DEF n
  <2>5. <<>> \o m[k] = m[k]
    BY <2>1
  <2>6. Join(f, 0) = <<>>
    BY JoinNone
  <2> QED BY <1>0, <1>1, <2>1, <2>3, <2>4, <2>5, <2>6
<1>2. CASE k \notin keys
  <2>1. a = <<>>
    BY <1>2, Zenon DEF Opt
  <2>2. f \in [1..0 -> Seq(T)]
    BY <2>1
  <2> HIDE DEF f
  <2>3. FlattenSeq(f) = Join(f, 0)
    BY <2>2, JoinType
  <2>4. Join(f, 0) = <<>>
    BY JoinNone
  <2> QED BY <1>0, <1>2, <2>1, <2>3, <2>4
<1> QED BY <1>1, <1>2

DashDash == <<"-", "-">>
PathSetting(path) == IF path = <<>> THEN <<>> ELSE <<Setting("WorkingDirectory", path)>>
SettingsOf(r) ==
  Settings("UnsetEnvironment", r.unset) \o (PathSetting(OptionValue(r, "path"))
    \o (Settings("Environment", Environments(r)) \o Settings("ExecSearchPath", r.searchPath)))
RestOf(r) == LoadHooks(r.hookDirs) \o (IF r.uid = "other" THEN RunAs ELSE <<>>)

LEMMA OptionsAre ==
  ASSUME NEW r \in Requests
  PROVE  LET val == OptionsOf(r)
             keys == DOMAIN val
         IN /\ ValuesType(val)
            /\ {"unsetEnv", "path", "env", "_builtIn_searchExec", "--"} \subseteq keys
            /\ "_hooks" \in keys <=> LoadHooks(r.hookDirs) # <<>>
            /\ "uid" \in keys <=> r.uid # "none"
            /\ \A k \in keys : val[k] = OptionValue(r, k)
  BY RequestsAssumption, LoadHooksType, EnvironmentsType DEF RequestType, OptionsOf, OptionKeys,
     Range, OptionValue, ValuesType

LEMMA CommandsAre ==
  ASSUME NEW r \in Requests
  PROVE  /\ Commands(r) = (SettingsOf(r) \o (<<DashDash>> \o RestOf(r))) \o (IF r.terminal THEN Terminal ELSE <<>>)
         /\ SettingsOf(r) \in Texts /\ RestOf(r) \in Texts
<1> DEFINE val == OptionsOf(r)
           D == DOMAIN val
           m == [k \in D |-> OptionArgs(k, val)]
           T == Text
           o == Sorted(D)
           e(k) == Each(m, Opt(D, k))
<1>1. /\ ValuesType(val)
      /\ {"unsetEnv", "path", "env", "_builtIn_searchExec", "--"} \subseteq D
      /\ "_hooks" \in D <=> LoadHooks(r.hookDirs) # <<>>
      /\ "uid" \in D <=> r.uid # "none"
      /\ \A k \in D : val[k] = OptionValue(r, k)
  BY OptionsAre
<1>2. \A k \in D : OptionArgs(k, val) \in Seq(T)
  BY <1>1, OptionArgsType DEF Texts
<1>3. GenerateCommand(val) = FlattenSeq([i \in DOMAIN o |-> OptionArgs(o[i], val)])
  BY Zenon DEF GenerateCommand
<1>4. /\ o = SystemOrder(D) \o (<<"--">> \o (Opt(D, "_hooks") \o Opt(D, "uid")))
  BY SortedIs
<1>5. \A i \in DOMAIN o : o[i] \in D
  <2>1. o \in Seq(Keys(D))
    BY SortedType
  <2>2. Keys(D) \subseteq D
    BY <1>1 DEF Keys
  <2> HIDE DEF o, D
  <2> QED BY <2>1, <2>2
<1> HIDE DEF val, T
<1>6. m \in [D -> Seq(T)]
  BY <1>2
<1>7. \A k \in D : m[k] = OptionArgs(k, val)
  OBVIOUS
<1>8. GenerateCommand(val) = Each(m, o)
  <2> HIDE DEF o, D, m
  <2>1. [i \in DOMAIN o |-> OptionArgs(o[i], val)] = [i \in DOMAIN o |-> m[o[i]]]
    BY <1>5, <1>7
  <2> QED BY <1>3, <2>1, Zenon DEF Each
<1> HIDE DEF o, m, D
<1>9. \A k : (k \in D => e(k) = m[k]) /\ (k \notin D => e(k) = <<>>) /\ Opt(D, k) \in Seq(D)
  BY <1>6, EachOpt
<1> DEFINE a == Opt(D, "unsetEnv")
           b == Opt(D, "path")
           c == Opt(D, "env")
           d == Opt(D, "_builtIn_searchExec")
           z == Opt(D, "--")
           h == Opt(D, "_hooks")
           u == Opt(D, "uid")
<1>10. a \in Seq(D) /\ b \in Seq(D) /\ c \in Seq(D) /\ d \in Seq(D) /\ z \in Seq(D) /\ h \in Seq(D) /\ u \in Seq(D)
  BY <1>9, Zenon
<1>11. o = (a \o (b \o (c \o d))) \o (z \o (h \o u))
  BY <1>1, <1>4 DEF Opt, SystemOrder
<1>12. /\ e("unsetEnv") = Settings("UnsetEnvironment", r.unset)
       /\ e("path") = PathSetting(OptionValue(r, "path"))
       /\ e("env") = Settings("Environment", Environments(r))
       /\ e("_builtIn_searchExec") = Settings("ExecSearchPath", r.searchPath)
       /\ e("--") = <<DashDash>>
  <2> HIDE DEF e
  <2>1. \A k \in {"unsetEnv", "path", "env", "_builtIn_searchExec", "--"} : e(k) = OptionArgs(k, val) /\ val[k] = OptionValue(r, k)
    BY <1>1, <1>7, <1>9, Zenon
  <2>2. e("unsetEnv") = Settings("UnsetEnvironment", r.unset)
    BY <2>1 DEF OptionArgs, OptionValue
  <2>3. e("path") = PathSetting(OptionValue(r, "path"))
    BY <2>1 DEF OptionArgs, PathSetting
  <2>4. e("env") = Settings("Environment", Environments(r))
    BY <2>1 DEF OptionArgs, OptionValue
  <2>5. e("_builtIn_searchExec") = Settings("ExecSearchPath", r.searchPath)
    BY <2>1 DEF OptionArgs, OptionValue
  <2>6. e("--") = <<DashDash>>
    BY <2>1 DEF OptionArgs, DashDash
  <2> QED BY <2>2, <2>3, <2>4, <2>5, <2>6
<1>13. e("_hooks") = LoadHooks(r.hookDirs)
  <2>1. CASE "_hooks" \in D
    <3>1. e("_hooks") = OptionArgs("_hooks", val) /\ val["_hooks"] = OptionValue(r, "_hooks")
      BY <1>1, <1>7, <1>9, <2>1, Zenon
    <3> QED BY <3>1 DEF OptionArgs, OptionValue
  <2>2. CASE "_hooks" \notin D
    BY <1>1, <1>9, <2>2
  <2> QED BY <2>1, <2>2
<1>14. e("uid") = IF r.uid = "other" THEN RunAs ELSE <<>>
  <2>1. CASE "uid" \in D
    <3>1. e("uid") = OptionArgs("uid", val) /\ val["uid"] = OptionValue(r, "uid")
      BY <1>1, <1>7, <1>9, <2>1, Zenon
    <3> QED BY <3>1 DEF OptionArgs, OptionValue
  <2>2. CASE "uid" \notin D
    BY <1>1, <1>9, <2>2
  <2> QED BY <2>1, <2>2
<1>15. \A k, l \in Seq(D) : k \o l \in Seq(D) /\ Each(m, k \o l) = Each(m, k) \o Each(m, l)
  <2> DEFINE P(f, k, l) == Each(f, k \o l) = Each(f, k) \o Each(f, l)
  <2>1. \A k, l \in Seq(D) : k \o l \in Seq(D)
    OBVIOUS
  <2>2. \A S, V : \A f \in [S -> Seq(V)] : \A k, l \in Seq(S) : P(f, k, l)
    BY EachLists
  <2> HIDE DEF P
  <2>3. \A k, l \in Seq(D) : P(m, k, l)
    BY <1>6, <2>2, Zenon
  <2> QED BY <2>1, <2>3 DEF P
<1> DEFINE x1 == c \o d
           x2 == b \o x1
           x3 == a \o x2
           y1 == h \o u
           y2 == z \o y1
<1> HIDE DEF a, b, c, d, z, h, u
<1>16. x1 \in Seq(D) /\ x2 \in Seq(D) /\ x3 \in Seq(D) /\ y1 \in Seq(D) /\ y2 \in Seq(D)
  BY <1>10, <1>15
<1>17. Each(m, x3) = SettingsOf(r)
  <2>1. Each(m, x1) = Each(m, c) \o Each(m, d)
    BY <1>10, <1>15, Zenon
  <2> HIDE DEF x1
  <2>2. Each(m, x2) = Each(m, b) \o Each(m, x1)
    BY <1>10, <1>15, <1>16, Zenon
  <2> HIDE DEF x2
  <2>3. Each(m, x3) = Each(m, a) \o Each(m, x2)
    BY <1>10, <1>15, <1>16, Zenon
  <2> QED BY <1>12, <2>1, <2>2, <2>3, Zenon DEF SettingsOf, a, b, c, d
<1>18. Each(m, y2) = <<DashDash>> \o RestOf(r)
  <2>1. Each(m, y1) = Each(m, h) \o Each(m, u)
    BY <1>10, <1>15, Zenon
  <2> HIDE DEF y1
  <2>2. Each(m, y2) = Each(m, z) \o Each(m, y1)
    BY <1>10, <1>15, <1>16, Zenon
  <2> QED BY <1>12, <1>13, <1>14, <2>1, <2>2, Zenon DEF RestOf, z, h, u
<1>19. Each(m, o) = SettingsOf(r) \o (<<DashDash>> \o RestOf(r))
  <2>1. o = x3 \o y2
    BY <1>11, Zenon
  <2> HIDE DEF x3, y2
  <2>2. Each(m, x3 \o y2) = Each(m, x3) \o Each(m, y2)
    BY <1>15, <1>16, Zenon
  <2> QED BY <1>17, <1>18, <2>1, <2>2, Zenon
<1>20. SettingsOf(r) \in Texts
  <2>1. Each(m, x3) \in Seq(T)
    <3> HIDE DEF x3
    <3> QED BY <1>6, <1>16, EachList
  <2> QED BY <1>17, <2>1 DEF Texts, T
<1>21. RestOf(r) \in Texts
  BY RequestsAssumption, LoadHooksType, RunAsType, TextsOps DEF RequestType, RestOf
<1>22. Commands(r) = GenerateCommand(val) \o (IF r.terminal THEN Terminal ELSE <<>>)
  BY Zenon DEF Commands, val
<1> QED BY <1>8, <1>19, <1>20, <1>21, <1>22, Zenon

(***************************************************************************)
(* What the helper makes of the options.                                   *)
(***************************************************************************)
LEMMA CutAt ==
  ASSUME NEW opts \in Texts, NEW rest \in Texts, \A i \in 1..Len(opts) : opts[i] # DashDash
  PROVE  LET args == opts \o (<<DashDash>> \o rest)
         IN /\ CmdParse(args).command = rest
            /\ CmdParse(args).props = Properties({opts[i] : i \in 1..Len(opts)})
<1> DEFINE z == <<DashDash>> \o rest
           args == opts \o z
           n == Len(opts)
           q == opts \o <<DashDash>>
           c == n + 1
           k == c + 1
<1>1. DashDash \in Text
  BY TextOps, Literals DEF DashDash
<1> HIDE DEF DashDash
<1>2. opts \in Seq(Text) /\ rest \in Seq(Text)
  BY DEF Texts
<1>3. /\ n \in Nat /\ Len(rest) \in Nat /\ Len(args) = n + 1 + Len(rest) /\ args[c] = DashDash
      /\ q \in Seq(Text) /\ Len(q) = c /\ q \o rest = args
  BY <1>1, <1>2, MiddleIs
<1>4. z \in Seq(Text)
  BY <1>1, <1>2
<1>5. \A i \in 1..n : args[i] = opts[i]
  BY <1>2, <1>4, ConcatAt
<1>6. DOMAIN args = 1..Len(args) /\ args \in Seq(Text)
  BY <1>2, <1>4
<1> HIDE DEF z, args, n, q
<1>7. Cut(args) = c
  <2> DEFINE C == Cuts(args)
  <2>1. c \in C /\ \A j \in C : j \in Nat /\ c <= j
    <3>1. \A j \in 1..Len(args) : args[j] = <<"-", "-">> => c <= j
      BY <1>5, <1>3 DEF n, DashDash
    <3>2. c \in 1..Len(args) /\ args[c] = <<"-", "-">>
      BY <1>3 DEF DashDash
    <3> QED BY <1>6, <3>1, <3>2 DEF Cuts
  <2> HIDE DEF C
  <2> DEFINE g == CHOOSE i \in C : \A j \in C : i <= j
  <2>2. g \in C /\ \A j \in C : g <= j
    BY <2>1
  <2>3. Cut(args) = g
    BY <2>1, Zenon DEF Cut, C
  <2> HIDE DEF g
  <2>4. g <= c /\ c <= g /\ g \in Nat
    BY <2>1, <2>2
  <2> QED BY <1>3, <2>3, <2>4
<1>8. CmdParse(args).command = SubSeq(args, k, Len(args)) /\ CmdParse(args).props = Properties({args[i] : i \in 1..(c - 1)})
  BY <1>7, ParseFields, Zenon
<1>9. {args[i] : i \in 1..(c - 1)} = {opts[i] : i \in 1..n}
  BY <1>3, <1>5
<1>10. SubSeq(args, k, Len(args)) = rest
  <2>1. k \in 1..(Len(q) + 1)
    BY <1>3
  <2> DEFINE e == SubSeq(q, k, Len(q))
  <2>2. e = <<>>
    BY <1>3
  <2> HIDE DEF e, k
  <2>3. SubSeq(q \o rest, k, Len(q \o rest)) = e \o rest
    BY <1>2, <1>3, <2>1, LastParts DEF e
  <2>4. <<>> \o rest = rest
    BY <1>2
  <2> QED BY <1>3, <2>2, <2>3, <2>4, Zenon
<1> QED BY <1>8, <1>9, <1>10, Zenon DEF args, z, n

SettingKeys == {"unitName", "SyslogIdentifier", "SourcePath", "ExecSearchPath", "Environment", "UnsetEnvironment", "WorkingDirectory"}
Dropped(p) == p[1] \in {"Type", "unitName"} \/ (p[1] = "ExecSearchPath" /\ ~(p[2] # <<>> /\ p[2][1] = "/"))

LEMMA SettingIs ==
  ASSUME NEW key \in SettingKeys, NEW word \in Text
  PROVE  LET a == Setting(key, word)
         IN HasPair(a) /\ Key(a) = key /\ Value(a) = word /\ (Ignored(a) <=> Dropped(<<key, word>>)) /\ a # DashDash
<1> DEFINE k == <<"-", "-", key, "=">>
           a == k \o word
           n == Len(word)
<1>1. key # "=" /\ key # "-" /\ key \in Atoms
  <2>1. key \in Atoms
    BY Literals DEF SettingKeys
  <2> QED BY <2>1 DEF SettingKeys
<1>2. k \in Text
  <2>1. <<"-", "-">> \in Text /\ <<key, "=">> \in Text
    BY <1>1, TextOps, Literals
  <2>2. k = <<"-", "-">> \o <<key, "=">>
    OBVIOUS
  <2> QED BY <2>1, <2>2, TextOps
<1>3. Len(k) = 4 /\ k[1] = "-" /\ k[2] = "-" /\ k[3] = key /\ k[4] = "="
  OBVIOUS
<1> HIDE DEF k
<1>4. /\ Len(a) = 4 + n /\ n \in Nat /\ a \in Seq(Atoms) /\ (\A i \in 1..4 : a[i] = k[i])
      /\ \A i \in 1..n : a[4 + i] = word[i]
  <2>1. k \in Seq(Atoms) /\ word \in Seq(Atoms)
    BY <1>2 DEF Text
  <2>2. n \in Nat
    BY <2>1
  <2>3. \A x, y \in Seq(Atoms) :
          /\ x \o y \in Seq(Atoms) /\ Len(x \o y) = Len(x) + Len(y)
          /\ (\A i \in 1..Len(x) : (x \o y)[i] = x[i]) /\ \A i \in 1..Len(y) : (x \o y)[Len(x) + i] = y[i]
    BY ConcatAt
  <2>4. /\ a \in Seq(Atoms) /\ Len(a) = Len(k) + n
        /\ (\A i \in 1..Len(k) : a[i] = k[i]) /\ \A i \in 1..n : a[Len(k) + i] = word[i]
    BY <2>1, <2>3, Zenon
  <2>5. Len(k) = 4
    BY <1>3
  <2> QED BY <2>2, <2>4, <2>5, Zenon
<1>5. SubSeq(a, 5, Len(a)) = word
  <2>1. k \in Seq(Atoms) /\ word \in Seq(Atoms) /\ 5 \in 1..(Len(k) + 1)
    BY <1>2, <1>3 DEF Text
  <2> DEFINE i == 5
             e == SubSeq(k, i, Len(k))
  <2>2. e = <<>>
    BY <1>3
  <2>3. i \in 1..(Len(k) + 1)
    BY <2>1
  <2> HIDE DEF e, i
  <2>4. SubSeq(k \o word, i, Len(k \o word)) = e \o word
    BY <2>1, <2>3, LastParts DEF e
  <2>5. <<>> \o word = word
    BY <2>1
  <2> QED BY <2>2, <2>4, <2>5, Zenon DEF i
<1>6. Setting(key, word) = a
  BY Zenon DEF Setting, k
<1> HIDE DEF a, n
<1>7. a[1] = "-" /\ a[2] = "-" /\ a[3] = key /\ a[4] = "=" /\ DOMAIN a = 1..Len(a) /\ 4 \in DOMAIN a
  BY <1>4, <1>3
<1>8. Equals(a) = 4
  BY <1>1, <1>7, <1>4 DEF Equals
<1>9. Key(a) = key
  BY <1>7, <1>8, Zenon DEF Key
<1>10. Value(a) = word
  BY <1>5, <1>8 DEF Value
<1>11. HasPair(a)
  BY <1>1, <1>4, <1>7 DEF HasPair, IsOption, Has
<1>12. Ignored(a) <=> Dropped(<<key, word>>)
  BY <1>9, <1>10 DEF Ignored, Dropped
<1>13. a # DashDash
  <2>1. Len(DashDash) = 2
    BY DEF DashDash
  <2>2. Len(a) # 2
    BY <1>4
  <2> QED BY <2>1, <2>2, Zenon
<1> QED BY <1>6, <1>9, <1>10, <1>11, <1>12, <1>13, Zenon

(***************************************************************************)
(* The settings of the options are those that are wanted.                  *)
(***************************************************************************)
LEMMA RangeJoin ==
  ASSUME NEW S, NEW a \in Seq(S), NEW b \in Seq(S)
  PROVE  Range(a \o b) = Range(a) \cup Range(b)
<1> DEFINE x == a \o b
<1>1. Len(a) \in Nat /\ Len(b) \in Nat /\ Len(x) = Len(a) + Len(b)
      /\ DOMAIN a = 1..Len(a) /\ DOMAIN b = 1..Len(b) /\ DOMAIN x = 1..Len(x)
  OBVIOUS
<1>2. (\A i \in 1..Len(a) : x[i] = a[i]) /\ \A i \in 1..Len(b) : x[Len(a) + i] = b[i]
  BY ConcatAt
<1> HIDE DEF x
<1>3. ASSUME NEW e \in Range(x) PROVE e \in Range(a) \cup Range(b)
  <2>1. PICK i \in 1..Len(x) : e = x[i]
    BY <1>1, <1>3 DEF Range
  <2>2. CASE i <= Len(a)
    BY <1>1, <1>2, <2>1, <2>2 DEF Range
  <2>3. CASE i > Len(a)
    <3> DEFINE j == i - Len(a)
    <3>1. j \in 1..Len(b) /\ i = Len(a) + j
      BY <1>1, <2>3
    <3> HIDE DEF j
    <3>2. e = b[j]
      BY <1>2, <2>1, <3>1
    <3> QED BY <1>1, <3>1, <3>2 DEF Range
  <2> QED BY <1>1, <2>2, <2>3
<1>4. ASSUME NEW e \in Range(a) PROVE e \in Range(x)
  <2>1. PICK i \in 1..Len(a) : e = a[i]
    BY <1>1, <1>4 DEF Range
  <2> QED BY <1>1, <1>2, <2>1 DEF Range
<1>5. ASSUME NEW e \in Range(b) PROVE e \in Range(x)
  <2>1. PICK i \in 1..Len(b) : e = b[i]
    BY <1>1, <1>5 DEF Range
  <2>2. Len(a) + i \in 1..Len(x)
    BY <1>1
  <2> QED BY <1>1, <1>2, <2>1, <2>2 DEF Range
<1> QED BY <1>3, <1>4, <1>5 DEF x

(* What one setting for each of some words comes to.                       *)
Kept(key, words) == {<<key, w>> : w \in {w \in words : ~Dropped(<<key, w>>)}}

LEMMA KeptIs ==
  ASSUME NEW key \in SettingKeys, NEW words \in SUBSET Text
  PROVE  LET all == {Setting(key, w) : w \in words}
         IN Properties(all) = Kept(key, words) /\ \A a \in all : HasPair(a) /\ a # DashDash
<1> DEFINE all == {Setting(key, w) : w \in words}
<1>1. \A w \in words : LET a == Setting(key, w)
                       IN HasPair(a) /\ Key(a) = key /\ Value(a) = w /\ (Ignored(a) <=> Dropped(<<key, w>>)) /\ a # DashDash
  BY SettingIs
<1>2. \A a \in all : HasPair(a) /\ a # DashDash
  BY <1>1
<1>3. ASSUME NEW p \in Properties(all) PROVE p \in Kept(key, words)
  <2>1. PICK a \in all : HasPair(a) /\ ~Ignored(a) /\ p = <<Key(a), Value(a)>>
    BY <1>3, Zenon DEF Properties
  <2>2. PICK w \in words : a = Setting(key, w)
    OBVIOUS
  <2>3. Key(a) = key /\ Value(a) = w /\ (Ignored(a) <=> Dropped(<<key, w>>))
    BY <1>1, <2>2, Zenon
  <2> HIDE DEF all
  <2>4. p = <<key, w>> /\ ~Dropped(<<key, w>>)
    BY <2>1, <2>3, Zenon
  <2> QED BY <2>4, Zenon DEF Kept
<1>4. ASSUME NEW p \in Kept(key, words) PROVE p \in Properties(all)
  <2>1. PICK w \in words : ~Dropped(<<key, w>>) /\ p = <<key, w>>
    BY <1>4, Zenon DEF Kept
  <2> DEFINE a == Setting(key, w)
  <2>2. a \in all /\ HasPair(a) /\ Key(a) = key /\ Value(a) = w /\ (Ignored(a) <=> Dropped(<<key, w>>))
    BY <1>1, Zenon
  <2> HIDE DEF all, a
  <2>3. a \in {b \in all : HasPair(b) /\ ~Ignored(b)}
    BY <2>1, <2>2
  <2>4. p = <<Key(a), Value(a)>>
    BY <2>1, <2>2, Zenon
  <2> QED BY <2>3, <2>4, Zenon DEF Properties
<1> QED BY <1>2, <1>3, <1>4

LEMMA SettingsRange ==
  ASSUME NEW key, NEW words \in Texts
  PROVE  Range(Settings(key, words)) = {Setting(key, w) : w \in Range(words)}
  BY DEF Range, Settings

LEMMA PropertiesJoin ==
  ASSUME NEW A, NEW B
  PROVE  Properties(A \cup B) = Properties(A) \cup Properties(B)
  BY DEF Properties

OwnOf(r) ==
  <<Setting("unitName", UnitName), Setting("SyslogIdentifier", <<"app">>), Setting("SourcePath", r.look.path)>>

LEMMA KeptAll ==
  ASSUME NEW key \in {"SyslogIdentifier", "SourcePath", "Environment", "UnsetEnvironment", "WorkingDirectory"}, NEW words
  PROVE  Kept(key, words) = {<<key, w>> : w \in words}
  BY DEF Dropped, Kept

LEMMA KeptSearch ==
  ASSUME NEW words \in SUBSET Text
  PROVE  /\ Kept("ExecSearchPath", words) = {<<"ExecSearchPath", e>> : e \in {e \in words : e # <<>> /\ e[1] = "/"}}
         /\ Kept("unitName", words) = {}
  BY DEF Dropped, Kept

LEMMA TripleRange ==
  ASSUME NEW a, NEW b, NEW c
  PROVE  Range(<<a, b, c>>) = {a, b, c}
  BY DEF Range

PathSet(path) == IF path = <<>> THEN {} ELSE {path}

(* The options in front of the "--", as a set.                             *)
LEMMA OptionsRange ==
  ASSUME NEW r \in Requests
  PROVE  LET made(key, words) == {Setting(key, w) : w \in words}
             path == OptionValue(r, "path")
             opts == OwnOf(r) \o SettingsOf(r)
         IN /\ opts \in Texts
            /\ Range(opts) = (made("unitName", {UnitName}) \cup made("SyslogIdentifier", {<<"app">>}))
                             \cup (made("SourcePath", {r.look.path}) \cup made("UnsetEnvironment", Range(r.unset)))
                             \cup (made("WorkingDirectory", PathSet(path)) \cup made("Environment", Range(Environments(r))))
                             \cup made("ExecSearchPath", Range(r.searchPath))
            /\ UnitName \in Text /\ <<"app">> \in Text /\ r.look.path \in Text /\ PathSet(path) \subseteq Text
            /\ Range(r.unset) \subseteq Text /\ Range(Environments(r)) \subseteq Text /\ Range(r.searchPath) \subseteq Text
<1> DEFINE made(key, words) == {Setting(key, w) : w \in words}
           path == OptionValue(r, "path")
           a == OwnOf(r)
           b == Settings("UnsetEnvironment", r.unset)
           c == PathSetting(path)
           d == Settings("Environment", Environments(r))
           e == Settings("ExecSearchPath", r.searchPath)
<1>1. r.unset \in Texts /\ r.searchPath \in Texts /\ Environments(r) \in Texts /\ r.look.path \in Text
  BY RequestsAssumption, EnvironmentsType DEF RequestType
<1>2. UnitName \in Text /\ <<"app">> \in Text
  BY TextOps, Literals DEF UnitName
<1>3. path \in Text
  BY RequestsAssumption DEF OptionValue, RequestType
<1>4. {"unitName", "SyslogIdentifier", "SourcePath", "UnsetEnvironment", "Environment", "ExecSearchPath", "WorkingDirectory"} \subseteq Atoms
  BY Literals
<1> HIDE DEF path
<1>5. \A words \in Texts : Range(words) \subseteq Text
  BY TextParts DEF Range
<1>6. a \in Texts /\ Range(a) = made("unitName", {UnitName}) \cup made("SyslogIdentifier", {<<"app">>}) \cup made("SourcePath", {r.look.path})
  BY <1>1, <1>2, <1>4, SettingType, TripleRange DEF OwnOf, Texts
<1>7. b \in Texts /\ Range(b) = made("UnsetEnvironment", Range(r.unset))
  BY <1>1, <1>4, SettingsType, SettingsRange
<1>8. d \in Texts /\ Range(d) = made("Environment", Range(Environments(r)))
  BY <1>1, <1>4, SettingsType, SettingsRange
<1>9. e \in Texts /\ Range(e) = made("ExecSearchPath", Range(r.searchPath))
  BY <1>1, <1>4, SettingsType, SettingsRange
<1>10. c \in Texts /\ Range(c) = made("WorkingDirectory", PathSet(path))
  BY TextsOps, <1>3, <1>4, SettingType DEF PathSetting, PathSet, Range
<1>11. PathSet(path) \subseteq Text
  BY <1>3 DEF PathSet
<1> DEFINE opts == a \o (b \o (c \o (d \o e)))
<1>12. OwnOf(r) \o SettingsOf(r) = opts
  BY Zenon DEF SettingsOf, path
<1>13. opts \in Texts /\ Range(opts) = Range(a) \cup (Range(b) \cup (Range(c) \cup (Range(d) \cup Range(e))))
  <2> DEFINE Ok(x) == x \in Seq(Text)
  <2>1. \A x, y \in Seq(Text) : x \o y \in Seq(Text) /\ Range(x \o y) = Range(x) \cup Range(y)
    BY RangeJoin
  <2>2. a \in Seq(Text) /\ b \in Seq(Text) /\ c \in Seq(Text) /\ d \in Seq(Text) /\ e \in Seq(Text)
    BY <1>6, <1>7, <1>8, <1>9, <1>10 DEF Texts
  <2> HIDE DEF a, b, c, d, e
  <2> DEFINE p == d \o e
  <2>3. p \in Seq(Text) /\ Range(p) = Range(d) \cup Range(e)
    BY <2>1, <2>2, Zenon
  <2> DEFINE q == c \o p
  <2> HIDE DEF p
  <2>4. q \in Seq(Text) /\ Range(q) = Range(c) \cup Range(p)
    BY <2>1, <2>2, <2>3, Zenon
  <2> DEFINE s == b \o q
  <2> HIDE DEF q
  <2>5. s \in Seq(Text) /\ Range(s) = Range(b) \cup Range(q)
    BY <2>1, <2>2, <2>4, Zenon
  <2> DEFINE t == a \o s
  <2> HIDE DEF s
  <2>6. t \in Seq(Text) /\ Range(t) = Range(a) \cup Range(s)
    BY <2>1, <2>2, <2>5, Zenon
  <2>7. opts = t
    BY Zenon DEF t, s, q, p
  <2> HIDE DEF t, opts
  <2> QED BY <2>3, <2>4, <2>5, <2>6, <2>7 DEF Texts
<1> HIDE DEF a, b, c, d, e, opts, made
<1>14. Range(opts) = (made("unitName", {UnitName}) \cup made("SyslogIdentifier", {<<"app">>}))
                             \cup (made("SourcePath", {r.look.path}) \cup made("UnsetEnvironment", Range(r.unset)))
                             \cup (made("WorkingDirectory", PathSet(path)) \cup made("Environment", Range(Environments(r))))
                             \cup made("ExecSearchPath", Range(r.searchPath))
  BY <1>6, <1>7, <1>8, <1>9, <1>10, <1>13
<1>15. Range(r.unset) \subseteq Text /\ Range(Environments(r)) \subseteq Text /\ Range(r.searchPath) \subseteq Text
  BY <1>1, <1>5, Zenon
<1> QED BY <1>1, <1>2, <1>11, <1>12, <1>13, <1>14, <1>15, Zenon DEF made, path

LEMMA WantedAre ==
  ASSUME NEW r \in Requests
  PROVE  LET opts == OwnOf(r) \o SettingsOf(r)
         IN Properties(Range(opts)) = WantedSettings(r) /\ \A a \in Range(opts) : HasPair(a) /\ a # DashDash
<1> DEFINE made(key, words) == {Setting(key, w) : w \in words}
           path == OptionValue(r, "path")
           opts == OwnOf(r) \o SettingsOf(r)
           a == made("unitName", {UnitName})
           b == made("SyslogIdentifier", {<<"app">>})
           c == made("SourcePath", {r.look.path})
           d == made("UnsetEnvironment", Range(r.unset))
           e == made("WorkingDirectory", PathSet(path))
           f == made("Environment", Range(Environments(r)))
           g == made("ExecSearchPath", Range(r.searchPath))
           Good(A) == \A x \in A : HasPair(x) /\ x # DashDash
<1>1. Range(opts) = (a \cup b) \cup (c \cup d) \cup (e \cup f) \cup g
  BY OptionsRange, Zenon
<1>2. /\ {UnitName} \in SUBSET Text /\ {<<"app">>} \in SUBSET Text /\ {r.look.path} \in SUBSET Text /\ PathSet(path) \in SUBSET Text
      /\ Range(r.unset) \in SUBSET Text /\ Range(Environments(r)) \in SUBSET Text /\ Range(r.searchPath) \in SUBSET Text
  BY OptionsRange
<1> HIDE DEF path
<1>3. \A key \in SettingKeys : \A words \in SUBSET Text : Properties(made(key, words)) = Kept(key, words) /\ Good(made(key, words))
  BY KeptIs
<1>4. {"unitName", "SyslogIdentifier", "SourcePath", "UnsetEnvironment", "Environment", "ExecSearchPath", "WorkingDirectory"} \subseteq SettingKeys
  BY DEF SettingKeys
<1> HIDE DEF made, Good, opts
<1>5. /\ Properties(a) = Kept("unitName", {UnitName}) /\ Good(a)
      /\ Properties(b) = Kept("SyslogIdentifier", {<<"app">>}) /\ Good(b)
      /\ Properties(c) = Kept("SourcePath", {r.look.path}) /\ Good(c)
      /\ Properties(d) = Kept("UnsetEnvironment", Range(r.unset)) /\ Good(d)
      /\ Properties(e) = Kept("WorkingDirectory", PathSet(path)) /\ Good(e)
      /\ Properties(f) = Kept("Environment", Range(Environments(r))) /\ Good(f)
      /\ Properties(g) = Kept("ExecSearchPath", Range(r.searchPath)) /\ Good(g)
  BY <1>2, <1>3, <1>4
<1> HIDE DEF a, b, c, d, e, f, g
<1>6. Properties(Range(opts)) = (Properties(a) \cup Properties(b)) \cup (Properties(c) \cup Properties(d))
                                 \cup (Properties(e) \cup Properties(f)) \cup Properties(g)
  <2>1. \A A, B : Properties(A \cup B) = Properties(A) \cup Properties(B)
    BY PropertiesJoin
  <2> DEFINE p == a \cup b
             q == c \cup d
             s == e \cup f
             t == p \cup q
             u == t \cup s
  <2>2. Properties(p) = Properties(a) \cup Properties(b)
    BY <2>1, Zenon
  <2>3. Properties(q) = Properties(c) \cup Properties(d)
    BY <2>1, Zenon
  <2>4. Properties(s) = Properties(e) \cup Properties(f)
    BY <2>1, Zenon
  <2>5. Range(opts) = u \cup g
    BY <1>1, Zenon
  <2> HIDE DEF p, q, s
  <2>6. Properties(t) = Properties(p) \cup Properties(q)
    BY <2>1, Zenon
  <2> HIDE DEF t
  <2>7. Properties(u) = Properties(t) \cup Properties(s)
    BY <2>1, Zenon
  <2> HIDE DEF u
  <2>8. Properties(u \cup g) = Properties(u) \cup Properties(g)
    BY <2>1, Zenon
  <2> QED BY <2>2, <2>3, <2>4, <2>5, <2>6, <2>7, <2>8, Zenon
<1>7. Good(Range(opts))
  BY <1>1, <1>5 DEF Good
<1> DEFINE pairs(key, words) == {<<key, w>> : w \in words}
<1>8. /\ Properties(a) = {}
      /\ Properties(b) = pairs("SyslogIdentifier", {<<"app">>})
      /\ Properties(c) = pairs("SourcePath", {r.look.path})
      /\ Properties(d) = pairs("UnsetEnvironment", Range(r.unset))
      /\ Properties(e) = pairs("WorkingDirectory", PathSet(path))
      /\ Properties(f) = pairs("Environment", Range(Environments(r)))
      /\ Properties(g) = pairs("ExecSearchPath", {w \in Range(r.searchPath) : w # <<>> /\ w[1] = "/"})
  BY <1>2, <1>5, KeptAll, KeptSearch
<1>9. /\ pairs("SyslogIdentifier", {<<"app">>}) = {<<"SyslogIdentifier", <<"app">>>>}
      /\ pairs("SourcePath", {r.look.path}) = {<<"SourcePath", r.look.path>>}
      /\ pairs("WorkingDirectory", PathSet(path)) = (IF path = <<>> THEN {} ELSE {<<"WorkingDirectory", path>>})
  BY DEF PathSet
<1>10. WantedSettings(r) = {<<"SourcePath", r.look.path>>, <<"SyslogIdentifier", <<"app">>>>}
         \cup pairs("Environment", Range(Environments(r)))
         \cup pairs("UnsetEnvironment", Range(r.unset))
         \cup pairs("ExecSearchPath", {w \in Range(r.searchPath) : w # <<>> /\ w[1] = "/"})
         \cup (IF path = <<>> THEN {} ELSE {<<"WorkingDirectory", path>>})
  BY Zenon DEF WantedSettings, path
<1> DEFINE p3 == <<"SourcePath", r.look.path>>
           p2 == <<"SyslogIdentifier", <<"app">>>>
           sd == pairs("UnsetEnvironment", Range(r.unset))
           se == IF path = <<>> THEN {} ELSE {<<"WorkingDirectory", path>>}
           sf == pairs("Environment", Range(Environments(r)))
           sg == pairs("ExecSearchPath", {w \in Range(r.searchPath) : w # <<>> /\ w[1] = "/"})
<1>11. /\ Properties(a) = {} /\ Properties(b) = {p2} /\ Properties(c) = {p3} /\ Properties(d) = sd
       /\ Properties(e) = se /\ Properties(f) = sf /\ Properties(g) = sg
  BY <1>8, <1>9, Zenon
<1>12. WantedSettings(r) = {p3, p2} \cup sf \cup sd \cup sg \cup se
  BY <1>10, Zenon
<1> HIDE DEF p2, p3, sd, se, sf, sg, pairs
<1>13. Properties(Range(opts)) = WantedSettings(r)
  BY <1>6, <1>11, <1>12
<1> QED BY <1>7, <1>13, Zenon DEF Good, opts

Begun(r) == OwnOf(r) \o Commands(r)
TerminalOf(r) == IF r.terminal THEN Terminal ELSE <<>>
LastOf(r) == RestOf(r) \o TerminalOf(r)

LEMMA TerminalType ==
  ASSUME NEW r \in Requests
  PROVE  TerminalOf(r) \in Texts
<1>1. Terminal \in Texts
  <2>1. <<"deepin-terminal">> \in Text /\ <<"-", "e">> \in Text /\ <<"-", "-">> \in Text /\ <<"keep-open">> \in Text
    BY TextOps, Literals
  <2>2. <<"-", "-", "keep-open">> = <<"-", "-">> \o <<"keep-open">>
    OBVIOUS
  <2> DEFINE o == <<"-", "-", "keep-open">>
  <2>3. o \in Text
    BY <2>1, <2>2, TextOps
  <2>4. Terminal = << <<"deepin-terminal">>, o, <<"-", "e">> >>
    BY Zenon DEF Terminal
  <2> HIDE DEF o
  <2> QED BY <2>1, <2>3, <2>4 DEF Texts
<1> QED BY <1>1, TextsOps DEF TerminalOf

(* Five lists in a row, bracketed as generateCommand and the job do and as *)
(* the helper reads them.                                                  *)
AllLists(S, o, s, d, r, t, m) == {o, s, d, r, t, m} \subseteq Seq(S)
BracketsMove(o, s, d, r, t, m) ==
  (o \o ((s \o (d \o r)) \o t)) \o m = (o \o s) \o (d \o ((r \o t) \o m))

LEMMA Assoc ==
  ASSUME NEW S
  PROVE  \A a, b, c \in Seq(S) : (a \o b) \o c = a \o (b \o c)
  BY ConcatAssoc

LEMMA Brackets ==
  ASSUME NEW S, NEW o, NEW s, NEW d, NEW r, NEW t, NEW m, AllLists(S, o, s, d, r, t, m)
  PROVE  BracketsMove(o, s, d, r, t, m)
<1>1. \A a, b, c \in Seq(S) : (a \o b) \o c = a \o (b \o c)
  BY Assoc
<1>2. \A a, b \in Seq(S) : a \o b \in Seq(S)
  OBVIOUS
<1> DEFINE dr == d \o r
           sdr == s \o dr
           sdrt == sdr \o t
           drt == dr \o t
           rt == r \o t
           rtm == rt \o m
           drtm == d \o rtm
<1>3. o \in Seq(S) /\ s \in Seq(S)
  BY DEF AllLists
<1>4. d \in Seq(S) /\ r \in Seq(S)
  BY DEF AllLists
<1>5. t \in Seq(S) /\ m \in Seq(S)
  BY DEF AllLists
<1>6. dr \in Seq(S) /\ rt \in Seq(S)
  BY <1>2, <1>4, <1>5, Zenon
<1>7. rtm \in Seq(S) /\ sdr \in Seq(S) /\ drt \in Seq(S)
  BY <1>2, <1>3, <1>5, <1>6, Zenon
<1>8. sdrt \in Seq(S) /\ drtm \in Seq(S)
  BY <1>2, <1>4, <1>5, <1>7, Zenon
<1>9. (o \o sdrt) \o m = o \o (sdrt \o m)
  <2>0. o \in Seq(S) /\ sdrt \in Seq(S) /\ m \in Seq(S)
    BY <1>3, <1>5, <1>8, Zenon
  <2> HIDE DEF sdrt
  <2> QED BY <1>1, <2>0, Zenon
<1>10. sdrt = s \o drt
  <2>0. s \in Seq(S) /\ dr \in Seq(S) /\ t \in Seq(S)
    BY <1>3, <1>5, <1>6, Zenon
  <2> HIDE DEF dr
  <2>1. (s \o dr) \o t = s \o (dr \o t)
    BY <1>1, <2>0, Zenon
  <2> QED BY <2>1, Zenon
<1>11. (s \o drt) \o m = s \o (drt \o m)
  <2>0. s \in Seq(S) /\ drt \in Seq(S) /\ m \in Seq(S)
    BY <1>3, <1>5, <1>7, Zenon
  <2> HIDE DEF drt
  <2> QED BY <1>1, <2>0, Zenon
<1>12. drt = d \o rt
  <2>0. d \in Seq(S) /\ r \in Seq(S) /\ t \in Seq(S)
    BY <1>4, <1>5, Zenon
  <2>1. (d \o r) \o t = d \o (r \o t)
    BY <1>1, <2>0, Zenon
  <2> QED BY <2>1, Zenon
<1>13. (d \o rt) \o m = drtm
  <2>0. d \in Seq(S) /\ rt \in Seq(S) /\ m \in Seq(S)
    BY <1>4, <1>5, <1>6, Zenon
  <2> HIDE DEF rt
  <2>1. (d \o rt) \o m = d \o (rt \o m)
    BY <1>1, <2>0, Zenon
  <2> QED BY <2>1, Zenon
<1>14. (o \o s) \o drtm = o \o (s \o drtm)
  <2>0. o \in Seq(S) /\ s \in Seq(S) /\ drtm \in Seq(S)
    BY <1>3, <1>8, Zenon
  <2> HIDE DEF drtm
  <2> QED BY <1>1, <2>0, Zenon
<1> HIDE DEF drtm, drt, sdrt
<1>15. sdrt \o m = s \o drtm
  BY <1>10, <1>11, <1>12, <1>13, Zenon
<1>16. (o \o sdrt) \o m = (o \o s) \o drtm
  BY <1>9, <1>14, <1>15, Zenon
<1> QED BY <1>16, Zenon DEF drtm, sdrt, BracketsMove

LEMMA ParsedIs ==
  ASSUME NEW r \in Requests, NEW more \in Texts
  PROVE  LET u == CmdParse(Begun(r) \o more)
         IN u.props = WantedSettings(r) /\ u.command = LastOf(r) \o more
<1> DEFINE opts == OwnOf(r) \o SettingsOf(r)
           rest == LastOf(r) \o more
           d == <<DashDash>>
           o == OwnOf(r)
           s == SettingsOf(r)
           h == RestOf(r)
           t == TerminalOf(r)
           args == Begun(r) \o more
<1>1. opts \in Texts
  BY OptionsRange, Zenon
<1>2. Properties(Range(opts)) = WantedSettings(r) /\ \A a \in Range(opts) : a # DashDash
  BY WantedAre, Zenon
<1>3. Commands(r) = (s \o (d \o h)) \o t
  BY CommandsAre, Zenon DEF TerminalOf
<1>4. s \in Texts /\ h \in Texts /\ t \in Texts
  BY CommandsAre, TerminalType
<1>5. o \in Texts
  <2>1. UnitName \in Text /\ <<"app">> \in Text /\ r.look.path \in Text
    BY OptionsRange
  <2>2. {"unitName", "SyslogIdentifier", "SourcePath"} \subseteq Atoms
    BY Literals
  <2> DEFINE x == Setting("unitName", UnitName)
             y == Setting("SyslogIdentifier", <<"app">>)
             z == Setting("SourcePath", r.look.path)
  <2>3. x \in Text /\ y \in Text /\ z \in Text
    BY <2>1, <2>2, SettingType
  <2>4. o = <<x, y, z>>
    BY Zenon DEF OwnOf
  <2> HIDE DEF x, y, z
  <2> QED BY <2>3, <2>4 DEF Texts
<1>6. d \in Texts
  BY TextOps, TextsOps, Literals DEF DashDash
<1>7. args = opts \o (d \o rest)
  <2> HIDE DEF s, h, t, o, d
  <2>1. o \in Seq(Text) /\ s \in Seq(Text) /\ d \in Seq(Text) /\ h \in Seq(Text) /\ t \in Seq(Text) /\ more \in Seq(Text)
    BY <1>4, <1>5, <1>6 DEF Texts
  <2>2. AllLists(Text, o, s, d, h, t, more)
    BY <2>1 DEF AllLists
  <2>3. BracketsMove(o, s, d, h, t, more)
    BY <2>2, Brackets, Zenon
  <2> QED BY <1>3, <2>3, Zenon DEF o, s, h, t, d, Begun, LastOf, BracketsMove
<1>8. rest \in Texts
  <2> HIDE DEF h, t
  <2>1. (h \o t) \o more \in Texts
    BY <1>4, TextsOps DEF Texts
  <2> QED BY <2>1, Zenon DEF h, t, LastOf
<1> HIDE DEF opts, rest, args, d
<1>9. DOMAIN opts = 1..Len(opts) /\ Range(opts) = {opts[i] : i \in 1..Len(opts)}
  <2>1. DOMAIN opts = 1..Len(opts)
    BY <1>1 DEF Texts
  <2> QED BY <2>1, Zenon DEF Range
<1>10. \A i \in 1..Len(opts) : opts[i] # DashDash
  BY <1>2, <1>9
<1> DEFINE x == opts \o (<<DashDash>> \o rest)
<1>11. CmdParse(x).command = rest /\ CmdParse(x).props = Properties({opts[i] : i \in 1..Len(opts)})
  BY <1>1, <1>8, <1>10, CutAt
<1>12. args = x
  BY <1>7, Zenon DEF d
<1> HIDE DEF x
<1> QED BY <1>2, <1>9, <1>11, <1>12, Zenon DEF args, rest

(***************************************************************************)
(* What the statements of the lambda make of an item.                      *)
(***************************************************************************)
LEMMA FormattedAll ==
  ASSUME NEW value \in Seq(ResourceType), NEW argNum \in Int, AllUsable(value)
  PROVE  Formatted(value, argNum).argNum = argNum /\ Formatted(value, argNum).texts = [i \in DOMAIN value |-> value[i].path]
<1> DEFINE n == Len(value)
           p == [i \in 1..n |-> value[i].path]
<1>1. n \in Nat /\ DOMAIN value = 1..n /\ \A i \in 1..n : value[i].path \in Text /\ Usable(value[i])
  <2>1. n \in Nat /\ DOMAIN value = 1..n /\ \A i \in 1..n : value[i] \in ResourceType
    OBVIOUS
  <2>2. \A x \in ResourceType : x.path \in Text
    BY DEF ResourceType
  <2> QED BY <2>1, <2>2 DEF AllUsable
<1>2. PICK read : Formats(value, argNum, read) /\ \A i \in 0..Len(value) : read[i] \in Formatting
  BY SomeFormats
<1> DEFINE Ok(i) == /\ read[i].argNum = argNum /\ Len(read[i].texts) = i
                    /\ \A j \in 1..i : read[i].texts[j] = value[j].path
           T == {i \in 0..n : Ok(i)}
<1>3. 0 \in T
  BY <1>2, <1>1 DEF Formats
<1>4. ASSUME NEW k \in 1..n, k - 1 \in T PROVE k \in T
  <2> DEFINE i == k - 1
             s == read[i]
             e == value[k].path
  <2>1. i \in 0..n /\ k = i + 1 /\ i \in Nat /\ Ok(i) /\ s \in Formatting
    BY <1>1, <1>2, <1>4
  <2>2. read[k] = [s EXCEPT !.texts = Append(@, e)]
    BY <1>1, <1>2, Zenon DEF Formats, FormatStep
  <2>3. e \in Text
    BY <1>1
  <2>4. s.argNum = argNum /\ Len(s.texts) = i /\ \A j \in 1..i : s.texts[j] = value[j].path
    BY <2>1
  <2> HIDE DEF s, i, e
  <2>5. s.texts \in Seq(Text)
    BY <2>1 DEF Formatting, Texts
  <2>6. read[k].argNum = argNum /\ read[k].texts = Append(s.texts, e)
    BY <2>1, <2>2, <2>4 DEF Formatting
  <2> DEFINE t == Append(s.texts, e)
  <2>7. Len(t) = k /\ t[k] = e /\ \A j \in 1..i : t[j] = s.texts[j]
    BY <2>1, <2>3, <2>4, <2>5
  <2> HIDE DEF t
  <2>8. ASSUME NEW j \in 1..k PROVE t[j] = value[j].path
    BY <2>1, <2>7, <2>4 DEF e
  <2>9. Ok(k)
    BY <2>6, <2>7, <2>8 DEF t
  <2>10. k \in 0..n
    BY <1>1
  <2> QED BY <2>9, <2>10
<1>5. n \in T
  <2> HIDE DEF T, n
  <2>1. \A i \in 0..n : i \in T
    BY <1>1, <1>3, <1>4, CountUp
  <2>2. n \in 0..n
    BY <1>1
  <2> QED BY <2>1, <2>2
<1> DEFINE f == Formatted(value, argNum)
<1>6. f = read[n] /\ f \in Formatting
  BY <1>2, FormattedType, Zenon DEF Formats
<1>7. f.argNum = argNum /\ Len(f.texts) = n /\ \A j \in 1..n : f.texts[j] = value[j].path
  BY <1>5, <1>6
<1>8. f.texts \in Seq(Text)
  BY <1>6 DEF Formatting, Texts
<1> HIDE DEF f, n
<1>9. f.texts = [i \in 1..n |-> value[i].path]
  BY <1>7, <1>8
<1> QED BY <1>1, <1>7, <1>9, Zenon DEF f

LEMMA ExpandStart ==
  ASSUME NEW task, NEW texts, task.command \in Texts
  PROVE  ExpandedTo(task, texts, 0) = <<>>
  BY DEF Texts, ExpandedTo

(* The words of the next argument of the command.                          *)
NextWords(task, texts, k) ==
  LET arg == task.command[k + 1]
  IN IF k # task.argNum THEN <<arg>> ELSE <<ReplaceCode(arg, task.location, Head(texts))>> \o Tail(texts)

LEMMA PartNext ==
  ASSUME NEW S, NEW s \in Seq(S), NEW i \in Nat \ {0}, NEW j \in Nat, i <= j, j <= Len(s)
  PROVE  SubSeq(s, i, j) = SubSeq(s, i, j - 1) \o <<s[j]>>
<1> DEFINE x == SubSeq(s, i, j)
           y == SubSeq(s, i, j - 1)
           e == <<s[j]>>
           n == j - i
<1>1. n \in Nat /\ j \in 1..Len(s) /\ i + n = j /\ Len(s) \in Nat
  OBVIOUS
<1>2. x \in Seq(S) /\ y \in Seq(S) /\ e \in Seq(S) /\ Len(e) = 1 /\ e[1] = s[j]
  BY <1>1
<1>3. Len(x) = n + 1 /\ \A k \in 1..(n + 1) : x[k] = s[i + k - 1]
  BY <1>1
<1>4. Len(y) = n /\ \A k \in 1..n : y[k] = s[i + k - 1]
  BY <1>1
<1> HIDE DEF x, y, e, n
<1>5. /\ y \o e \in Seq(S) /\ Len(y \o e) = Len(y) + Len(e)
      /\ (\A k \in 1..Len(y) : (y \o e)[k] = y[k]) /\ \A k \in 1..Len(e) : (y \o e)[Len(y) + k] = e[k]
  <2>1. \A p, q \in Seq(S) :
          /\ p \o q \in Seq(S) /\ Len(p \o q) = Len(p) + Len(q)
          /\ (\A k \in 1..Len(p) : (p \o q)[k] = p[k]) /\ \A k \in 1..Len(q) : (p \o q)[Len(p) + k] = q[k]
    BY ConcatAt
  <2>2. y \in Seq(S) /\ e \in Seq(S)
    BY <1>2
  <2> QED BY <2>1, <2>2, Zenon
<1> DEFINE z == y \o e
<1>6. z \in Seq(S) /\ Len(z) = n + 1 /\ (\A k \in 1..n : z[k] = s[i + k - 1]) /\ z[n + 1] = s[j]
  BY <1>1, <1>2, <1>4, <1>5
<1> HIDE DEF z
<1>7. \A k \in 1..(n + 1) : x[k] = z[k]
  BY <1>1, <1>3, <1>6
<1>8. x = z
  BY <1>2, <1>3, <1>6, <1>7
<1> QED BY <1>8 DEF x, z, y, e

LEMMA ExpandedCases ==
  ASSUME NEW task, NEW texts, NEW k, NEW j, j = k - 1
  PROVE  LET c == task.command
             a == task.argNum
         IN /\ a \notin 0..j => ExpandedTo(task, texts, k) = SubSeq(c, 1, k)
            /\ a \in 0..j => ExpandedTo(task, texts, k) =
                 SubSeq(c, 1, a) \o <<ReplaceCode(c[a + 1], task.location, Head(texts))>> \o Tail(texts) \o SubSeq(c, a + 2, k)
  BY Zenon DEF ExpandedTo

LEMMA ExpandNext ==
  ASSUME NEW task \in Tasks, NEW texts \in Texts, task.argNum = -1 \/ texts # <<>>, NEW k \in 0..(Len(task.command) - 1)
  PROVE  ExpandedTo(task, texts, k + 1) = ExpandedTo(task, texts, k) \o NextWords(task, texts, k)
<1> DEFINE c == task.command
           a == task.argNum
           l == k + 1
           h == c[l]
           hh == <<h>>
           j == k - 1
<1>1. c \in Seq(Text) /\ a \in Int /\ task.location \in Int /\ Len(c) \in Nat
  BY DEF Tasks, Texts
<1>2. k \in Nat /\ l \in 1..Len(c) /\ k \in 0..Len(c) /\ k = l - 1 /\ j = k - 1
  BY <1>1
<1>3. h \in Text /\ hh \in Seq(Text)
  BY <1>1, <1>2
<1>4. NextWords(task, texts, k) =
        IF k # a THEN <<h>> ELSE <<ReplaceCode(h, task.location, Head(texts))>> \o Tail(texts)
  BY Zenon DEF NextWords
<1> HIDE DEF c, a, h, j, l
<1> DEFINE e == ReplaceCode(c[a + 1], task.location, Head(texts))
           q == SubSeq(c, 1, a) \o <<e>> \o Tail(texts)
<1>5. /\ a \notin 0..j => ExpandedTo(task, texts, k) = SubSeq(c, 1, k)
      /\ a \in 0..j => ExpandedTo(task, texts, k) = q \o SubSeq(c, a + 2, k)
  BY <1>2, ExpandedCases, Zenon DEF c, a
<1>6. /\ a \notin 0..k => ExpandedTo(task, texts, l) = SubSeq(c, 1, l)
      /\ a \in 0..k => ExpandedTo(task, texts, l) = q \o SubSeq(c, a + 2, l)
  BY <1>2, ExpandedCases, Zenon DEF c, a
<1>7. SubSeq(c, 1, l) = SubSeq(c, 1, k) \o hh
  BY <1>1, <1>2, PartNext DEF h
<1>8. texts # <<>> => Head(texts) \in Text /\ Tail(texts) \in Seq(Text)
  BY DEF Texts
<1>9. a # -1 => texts # <<>>
  BY DEF a
<1>10. CASE a \notin 0..k
  BY <1>1, <1>2, <1>10, <1>4, <1>5, <1>6, <1>7 DEF l, hh
<1>11. CASE a = k
  <2> DEFINE t == Tail(texts)
             p == SubSeq(c, 1, k)
             f == ReplaceCode(h, task.location, Head(texts))
             ff == <<f>>
  <2>1. a \notin 0..j /\ a \in 0..k /\ a # -1
    BY <1>1, <1>2, <1>11
  <2>2. f \in Text /\ t \in Seq(Text)
    BY <1>1, <1>3, <1>8, <1>9, <2>1, ReplaceType
  <2>3. e = f
    BY <1>11 DEF l, h
  <2>4. SubSeq(c, a + 2, l) = <<>>
    BY <1>1, <1>2, <1>11
  <2>5. p \in Seq(Text) /\ ff \in Seq(Text)
    BY <1>1, <1>2, <2>2
  <2>6. q = (p \o ff) \o t
    BY <1>11, <2>3, Zenon
  <2>7. NextWords(task, texts, k) = ff \o t
    BY <1>4, <1>11, Zenon
  <2> HIDE DEF p, ff, t, q
  <2>8. (p \o ff) \o t = p \o (ff \o t)
    BY Assoc, <2>2, <2>5
  <2>9. q \o <<>> = q
    BY <2>2, <2>5, <2>6
  <2>10. ExpandedTo(task, texts, l) = p \o (ff \o t)
    BY <1>6, <2>1, <2>4, <2>6, <2>8, <2>9, Zenon
  <2>11. ExpandedTo(task, texts, k) = p
    BY <1>5, <2>1, Zenon DEF p
  <2> QED BY <2>7, <2>10, <2>11, Zenon DEF l
<1>12. CASE a \in 0..j
  <2> DEFINE i == a + 2
             y == SubSeq(c, i, k)
  <2>1. a \in 0..k /\ k # a /\ a # -1 /\ a + 1 \in 1..Len(c) /\ a \in Nat /\ a <= Len(c) /\ i \in Nat \ {0} /\ i <= l
    BY <1>1, <1>2, <1>12
  <2>2. q \in Seq(Text)
    BY <1>1, <2>1, <1>8, <1>9, ReplaceType
  <2> HIDE DEF q, i
  <2>3. SubSeq(c, i, l) = y \o hh
    BY <1>1, <1>2, <2>1, PartNext DEF h
  <2>4. y \in Seq(Text)
    BY <1>1, <1>2, <2>1
  <2> HIDE DEF y, hh
  <2>5. (q \o y) \o hh = q \o (y \o hh)
    BY Assoc, <1>3, <2>2, <2>4 DEF hh
  <2>6. ExpandedTo(task, texts, l) = q \o (y \o hh)
    BY <1>6, <2>1, <2>3, Zenon DEF i
  <2>7. ExpandedTo(task, texts, k) = q \o y
    BY <1>5, <1>12, Zenon DEF i, y
  <2>8. NextWords(task, texts, k) = hh
    BY <1>4, <2>1, Zenon DEF hh
  <2> QED BY <2>5, <2>6, <2>7, <2>8, Zenon DEF l
<1>13. a \notin 0..k \/ a = k \/ a \in 0..j
  BY <1>1, <1>2
<1> QED BY <1>10, <1>11, <1>12, <1>13

(***************************************************************************)
(* The invariant.  The captures are as Launch left them until an item has  *)
(* begun and takes the options; as long as no other begins, what it has    *)
(* and what is left in the captures make up its command.                   *)
(***************************************************************************)
Captured(r) == [cmds |-> Commands(r), command |-> TaskOf(r).command, argNum |-> TaskOf(r).argNum, extra |-> r.extra]
Fits(r, value) == TaskOf(r).local => AllUsable(value)
BeginsWith(r, args) == \E more \in Texts : args = Begun(r) \o more

(* How far the item v of request r is, with what is left in the captures.  *)
AtResources(r, v, s) ==
  v.args = Begun(r) /\ s.command = TaskOf(r).command /\ s.argNum = TaskOf(r).argNum /\ s.extra = r.extra
Remaining(task, texts, k) == IF task.argNum \in 0..(k - 1) THEN <<>> ELSE texts
AtArgument(r, v, s, k) ==
  LET task == TaskOf(r)
      texts == TextsOf(task, v.value)
  IN /\ v.index = k /\ v.args = Begun(r) \o ExpandedTo(task, texts, k)
     /\ v.resources = Remaining(task, texts, k)
     /\ s.command = SubSeq(task.command, k + 1, Len(task.command)) /\ s.argNum = task.argNum /\ s.extra = r.extra
AtHelper(r, v) ==
  LET task == TaskOf(r)
  IN v.args = (Begun(r) \o ExpandedTo(task, TextsOf(task, v.value), Len(task.command))) \o r.extra
Stage(r, v, s) ==
  /\ v.at = "resources" => AtResources(r, v, s)
  /\ v.at = "command" => \E k \in 0..Len(TaskOf(r).command) : AtArgument(r, v, s, k)
  /\ v.at = "helper" => AtHelper(r, v)
ItemIntact(r, v, s) == BeginsWith(r, v.args) /\ (OneReading(r) /\ Fits(r, v.value) => Stage(r, v, s))

ItemOf(r, v) ==
  /\ v.at # "rest" => v.value \in Range(TaskOf(r).items)
  /\ v.at \in {"options", "resources"} => v.index = 0

Past(v) == v.at \in {"resources", "command", "helper"}
ItemHas(r, v, s) == (v.at = "options" => s = Captured(r)) /\ (Past(v) => ItemIntact(r, v, s))

JobIs ==
  job.state = "running" =>
    /\ Accepted(job.request)
    /\ job.local = TaskOf(job.request).local /\ job.location = TaskOf(job.request).location
    /\ Range(job.items) \subseteq Range(TaskOf(job.request).items)
    /\ \A w \in Threads : ItemOf(job.request, worker[w])

AloneIs ==
  /\ job.state = "idle" => overlap = "none"
  /\ job.state = "running" /\ overlap = "none" => Busy = {} /\ shared = Captured(job.request) /\ units = <<>>
  /\ job.state = "running" /\ overlap = "alone" =>
       (\A v, w \in Busy : v = w) /\ \A w \in Threads : ItemHas(job.request, worker[w], shared)

UnitInv == OneInv /\ JobIs /\ AloneIs /\ UnitIntact

UnitGood(r, unit) ==
  LET wanted == WantedCommand(r, unit.value)
  IN /\ unit.props = WantedSettings(r)
     /\ Fits(r, unit.value) /\ OneReading(r) /\ <<"\\", ";">> \notin Range(wanted) => DecodedCommand(unit) = wanted

LEMMA UnitsGood ==
  /\ UnitIntact <=> (overlap = "alone" => \A i \in DOMAIN units : UnitGood(job.request, units[i]))
  /\ UnitIntact' <=> (overlap' = "alone" => \A i \in DOMAIN units' : UnitGood(job'.request, units'[i]))
<1>1. UnitIntact <=> (overlap = "alone" => \A i \in DOMAIN units : UnitGood(job.request, units[i]))
  BY DEF UnitIntact, CommandIntact, SettingsIntact, UnitGood, Fits
<1>2. UnitIntact' <=> (overlap' = "alone" => \A i \in DOMAIN units' : UnitGood(job'.request, units'[i]))
  BY DEF UnitIntact, CommandIntact, SettingsIntact, UnitGood, Fits
<1> QED BY <1>1, <1>2

(* No unit, or the units of the same job.                                  *)
LEMMA UnitsKept ==
  ASSUME UnitIntact,
         \/ units' = <<>> \/ overlap' # "alone"
         \/ units' = units /\ job'.request = job.request /\ overlap' = overlap
  PROVE  UnitIntact'
  BY UnitsGood

(* A step of one item leaves the others as they are.                       *)
LEMMA JobStep ==
  ASSUME JobIs, NEW w \in Threads, job.state = "running",
         job'.request = job.request, job'.local = job.local, job'.location = job.location,
         Range(job'.items) \subseteq Range(job.items),
         \A v \in Threads : v # w => worker'[v] = worker[v],
         ItemOf(job.request, worker'[w])
  PROVE  JobIs'
  BY DEF JobIs

LEMMA AloneStep ==
  ASSUME AloneIs, NEW w \in Threads, job.state = "running", job'.state = "running", job'.request = job.request,
         overlap' # "none", overlap' = "alone" => \A v \in Busy : v = w,
         \A v \in Threads : v # w => worker'[v] = worker[v],
         overlap' = "alone" => ItemHas(job.request, worker'[w], shared')
  PROVE  AloneIs'
<1>1. ASSUME overlap' = "alone", NEW v \in Threads, v # w PROVE worker'[v].at = "rest"
  BY <1>1 DEF Busy
<1>2. ASSUME overlap' = "alone", NEW v \in Threads PROVE ItemHas(job.request, worker'[v], shared')
  BY <1>1, <1>2 DEF ItemHas, Past
<1> QED BY <1>1, <1>2 DEF AloneIs, Busy

LEMMA UnitInit == Init => UnitInv
  BY OneInit, RestTypes, UnitsGood DEF Init, UnitInv, JobIs, AloneIs

LEMMA UnitLaunch ==
  ASSUME UnitInv, NEW r \in Requests, Launch(r)
  PROVE  UnitInv'
<1> DEFINE task == TaskOf(r)
<1>1. OneInv' /\ OneInv
  BY OneLaunch DEF UnitInv
<1>2. /\ job.state = "idle" /\ units = <<>> /\ (\A w \in Threads : worker[w].at = "rest")
      /\ worker' = worker /\ units' = units /\ overlap' = overlap /\ overlap = "none"
  BY <1>1 DEF Launch, OneInv, UnitInv, AloneIs
<1>3. UnitIntact'
  BY <1>2, UnitsKept DEF UnitInv
<1>4. job'.state = "running" =>
        /\ Accepted(r) /\ shared' = Captured(r)
        /\ job' = [state |-> "running", request |-> r, items |-> task.items, local |-> task.local, location |-> task.location,
                    adding |-> TRUE]
  <2>1. CASE ~HasExec(r)
    BY <1>2, <2>1, Zenon DEF Launch
  <2>2. CASE HasExec(r) /\ r.uid = "unknown"
    <3>1. job' = [NoJob EXCEPT !.state = "crashed"]
      BY <2>2, Zenon DEF Launch
    <3> QED BY <3>1, RestTypes
  <2>3. CASE HasExec(r) /\ r.uid # "unknown" /\ Invalid(LineOf(r), task)
    BY <2>3, <1>2 DEF Launch
  <2>4. CASE HasExec(r) /\ r.uid # "unknown" /\ ~Invalid(LineOf(r), task)
    BY <2>4 DEF Accepted, Launch, Captured
  <2> QED BY <2>1, <2>2, <2>3, <2>4
<1> HIDE DEF task
<1>5. ASSUME job'.state = "running" PROVE JobIs' /\ AloneIs'
  BY <1>4, <1>5, <1>2 DEF ItemOf, JobIs, task, Busy, AloneIs
<1> QED BY <1>1, <1>2, <1>3, <1>5 DEF UnitInv, JobIs, AloneIs

LEMMA UnitBegin ==
  ASSUME UnitInv, NEW w \in Threads, BeginItem(w)
  PROVE  UnitInv'
<1> DEFINE x == [Resting EXCEPT !.at = "options", !.value = Head(job.items)]
<1>1. OneInv' /\ TInv /\ JobIs /\ AloneIs /\ UnitIntact
  BY OneBegin DEF UnitInv, OneInv
<1>2. worker \in [Threads -> Workers] /\ job \in Jobs
  BY <1>1, TypeParts DEF TInv
<1>3. /\ job.state = "running" /\ job.items # <<>> /\ shared' = shared /\ units' = units
      /\ worker' = [worker EXCEPT ![w] = x] /\ job' = [job EXCEPT !.items = Tail(@)]
      /\ overlap' = CASE overlap = "none" -> "alone" [] overlap = "alone" -> "more" [] OTHER -> overlap
  BY Zenon DEF BeginItem, At
<1>4. /\ job'.request = job.request /\ job'.local = job.local /\ job'.location = job.location
      /\ job'.items = Tail(job.items)
  BY <1>2, <1>3 DEF Jobs
<1>5. Head(job.items) \in Range(job.items) /\ Range(Tail(job.items)) \subseteq Range(job.items)
  BY <1>2, <1>3 DEF Jobs, Items, Range
<1>6. x.at = "options" /\ x.value = Head(job.items) /\ x.index = 0
  BY DEF Resting
<1> HIDE DEF x
<1>7. worker'[w] = x /\ \A v \in Threads : v # w => worker'[v] = worker[v]
  BY <1>2, <1>3
<1>8. UnitIntact'
  BY <1>1, <1>3, UnitsKept DEF AloneIs
<1>9. JobIs'
  BY <1>1, <1>3, <1>5, <1>6, <1>7, <1>4, JobStep DEF JobIs, ItemOf
<1>10. AloneIs'
  <2>1. job'.state = "running" /\ overlap' # "none" /\ (overlap' = "alone" => overlap = "none")
    BY <1>2, <1>3 DEF Jobs
  <2>2. overlap' = "alone" => ItemHas(job.request, x, shared')
    BY <1>1, <1>3, <1>6, <2>1 DEF AloneIs, ItemHas, Past
  <2> QED BY <1>1, <1>3, <1>4, <1>7, <2>1, <2>2, AloneStep DEF AloneIs
<1> QED BY <1>1, <1>8, <1>9, <1>10 DEF UnitInv

LEMMA UnitReturn ==
  ASSUME UnitInv, AddJobReturns
  PROVE  UnitInv'
<1>1. OneInv' /\ job \in Jobs
  BY OneAdded, TypeParts DEF UnitInv, OneInv, TInv
<1>2. /\ job' = [job EXCEPT !.adding = FALSE] /\ shared' = shared /\ worker' = worker
      /\ units' = units /\ overlap' = overlap /\ job.state = "running"
  BY Zenon DEF AddJobReturns
<1>3. /\ job'.request = job.request /\ job'.local = job.local /\ job'.location = job.location
      /\ job'.items = job.items /\ job'.state = job.state
  BY <1>1, <1>2 DEF Jobs
<1>4. JobIs' /\ AloneIs'
  BY <1>2, <1>3 DEF UnitInv, JobIs, AloneIs, Busy
<1>5. UnitIntact'
  BY <1>2, <1>3, UnitsKept DEF UnitInv
<1> QED BY <1>1, <1>4, <1>5 DEF UnitInv

(* A step of two items at once is a race, after which only JobIs says      *)
(* something; a crash and the end of a job leave nothing to say.           *)
LEMMA UnitEnd ==
  ASSUME UnitInv, DataRace \/ EndJob \/ Restart
  PROVE  UnitInv'
<1>1. OneInv' /\ job'.state # "running"
  BY OneEnd, RestTypes DEF UnitInv, DataRace, EndJob, Restart
<1>2. JobIs' /\ AloneIs'
  BY <1>1, RestTypes DEF JobIs, AloneIs, DataRace, EndJob, Restart
<1>3. CASE DataRace
  <2>1. PICK v \in Busy, w \in Busy : v # w
    BY <1>3 DEF DataRace
  <2>2. job.state = "running" /\ overlap' = overlap
    BY <1>3 DEF DataRace
  <2>3. overlap # "alone"
    BY <2>1, <2>2 DEF UnitInv, AloneIs
  <2> QED BY <1>1, <1>2, <2>2, <2>3, UnitsKept DEF UnitInv
<1>4. CASE EndJob \/ Restart
  BY <1>4, <1>1, <1>2, UnitsKept DEF EndJob, Restart, UnitInv
<1> QED BY <1>3, <1>4

(* What a statement of the lambda makes of an item, for some items at once.*)
LEMMA JobAdvance ==
  ASSUME OneInv, JobIs, NEW W \in SUBSET Threads, W # {}, TakeOptions(W) \/ TakeArgument(W) \/ AppendExtraArgs(W)
  PROVE  JobIs' /\ job.state = "running" /\ job' = job /\ units' = units
<1>1. worker \in [Threads -> Workers] /\ TInv
  BY TypeParts DEF OneInv, TInv
<1>2. job' = job /\ units' = units /\ job.state = "running"
  BY DEF TakeOptions, TakeArgument, AppendExtraArgs, At
<1>3. \A w \in Threads : ItemOf(job.request, worker[w])
  BY <1>2 DEF JobIs
<1>4. ASSUME NEW w \in Threads PROVE ItemOf(job.request, worker'[w])
  <2> DEFINE v == worker[w]
  <2>1. v \in Workers /\ ItemOf(job.request, v)
    BY <1>1, <1>3
  <2>2. CASE w \notin W
    <3>1. worker'[w] = v
      BY <2>2 DEF TakeOptions, TakeArgument, AppendExtraArgs, Advance
    <3> QED BY <2>1, <3>1
  <2>3. CASE w \in W /\ TakeOptions(W)
    <3>1. worker'[w] = [v EXCEPT !.at = "resources", !.args = OwnSettings \o shared.cmds, !.late = ~job.adding]
          /\ v.at = "options"
      BY <2>3 DEF TakeOptions, Advance, At
    <3> HIDE DEF v
    <3>2. worker'[w].at = "resources" /\ worker'[w].value = v.value /\ worker'[w].index = v.index
      BY <2>1, <3>1 DEF Workers
    <3> QED BY <2>1, <3>1, <3>2 DEF ItemOf
  <2>4. CASE w \in W /\ TakeArgument(W)
    <3>1. worker'[w] = [v EXCEPT !.args = @ \o Expanded(w, Head(shared.command)),
                                 !.resources = IF v.index # shared.argNum THEN @ ELSE <<>>, !.index = @ + 1]
          /\ v.at = "command"
      BY <2>4 DEF TakeArgument, Advance, At
    <3> HIDE DEF v
    <3>2. worker'[w].at = "command" /\ worker'[w].value = v.value
      BY <2>1, <3>1 DEF Workers
    <3> QED BY <2>1, <3>1, <3>2 DEF ItemOf
  <2>5. CASE w \in W /\ AppendExtraArgs(W)
    <3>1. worker'[w] = [v EXCEPT !.at = "helper", !.args = @ \o shared.extra] /\ v.at = "command"
      BY <2>5 DEF AppendExtraArgs, Advance, At
    <3> HIDE DEF v
    <3>2. worker'[w].at = "helper" /\ worker'[w].value = v.value
      BY <2>1, <3>1 DEF Workers
    <3> QED BY <2>1, <3>1, <3>2 DEF ItemOf
  <2> QED BY <2>2, <2>3, <2>4, <2>5
<1>5. JobIs'
  BY <1>2, <1>4 DEF JobIs
<1> QED BY <1>2, <1>5

LEMMA UnitRace ==
  ASSUME UnitInv, NEW v \in Threads, NEW w \in Threads, Race(v, w)
  PROVE  UnitInv'
<1>1. {v, w} \in SUBSET Threads /\ {v, w} # {}
  OBVIOUS
<1>2. OneInv' /\ OneInv /\ JobIs /\ UnitIntact
  BY OneRace DEF UnitInv
<1>3. JobIs' /\ job' = job /\ units' = units
  BY <1>1, <1>2, JobAdvance DEF Race
<1>4. overlap' = "raced"
  BY Overlaps DEF Race, TakeOptions, TakeArgument, AppendExtraArgs
<1>5. UnitIntact' /\ AloneIs'
  BY <1>2, <1>3, <1>4, <1>1, JobAdvance, UnitsKept DEF AloneIs, Race
<1> QED BY <1>2, <1>3, <1>5 DEF UnitInv

(* The items at a statement when nothing else runs.                        *)
LEMMA OnlyItem ==
  ASSUME AloneIs, job.state = "running", NEW w \in Threads, worker[w].at # "rest"
  PROVE  /\ overlap # "none"
         /\ overlap = "alone" => (\A v \in Busy : v = w) /\ ItemHas(job.request, worker[w], shared)
  BY DEF AloneIs, Busy

LEMMA UnitOptions ==
  ASSUME UnitInv, NEW w \in Threads, TakeOptions({w})
  PROVE  UnitInv'
<1> DEFINE r == job.request
           v == worker[w]
           x == worker'[w]
<1>1. {w} \in SUBSET Threads /\ {w} # {}
  OBVIOUS
<1>2. OneInv' /\ OneInv /\ JobIs /\ AloneIs /\ UnitIntact
  BY OneOptions DEF UnitInv
<1>3. /\ worker \in [Threads -> Workers] /\ shared \in Captures /\ TInv
      /\ worker' \in [Threads -> Workers] /\ shared' \in Captures
  BY <1>2, TypeParts, NextTypeParts DEF OneInv, TInv
<1>4. JobIs' /\ job.state = "running" /\ job' = job /\ units' = units /\ overlap' = overlap
  BY <1>1, <1>2, JobAdvance, Overlaps DEF TakeOptions
<1>5. UnitIntact'
  BY <1>2, <1>4, UnitsKept
<1>6. v.at = "options" /\ v \in Workers /\ r \in Requests
  BY <1>3, <1>4 DEF TakeOptions, At, TInv
<1>7. /\ x = [v EXCEPT !.at = "resources", !.args = OwnSettings \o shared.cmds, !.late = ~job.adding]
      /\ \A u \in Threads : u # w => worker'[u] = worker[u]
  BY <1>3 DEF TakeOptions, Advance
<1>8. shared' = [shared EXCEPT !.cmds = LeftBy(@)]
  BY Zenon DEF TakeOptions
<1>9. OwnSettings \o shared.cmds = OwnOf(r) \o shared.cmds
  BY Zenon DEF OwnSettings, OwnOf
<1> HIDE DEF v
<1>10. x.at = "resources" /\ x.args = OwnOf(r) \o shared.cmds /\ x.index = v.index /\ x.value = v.value
  BY <1>6, <1>7, <1>9 DEF Workers
<1> HIDE DEF x
<1>11. ASSUME overlap = "alone" PROVE (\A u \in Busy : u = w) /\ ItemHas(r, x, shared')
  <2>1. (\A u \in Busy : u = w) /\ shared = Captured(r)
    BY <1>2, <1>4, <1>6, <1>11, OnlyItem DEF v, ItemHas
  <2>2. /\ shared'.command = shared.command /\ shared'.argNum = shared.argNum /\ shared'.extra = shared.extra
    BY <1>3, <1>8 DEF Captures
  <2>3. /\ shared.cmds = Commands(r) /\ shared.command = TaskOf(r).command
        /\ shared.argNum = TaskOf(r).argNum /\ shared.extra = r.extra
    BY <2>1 DEF Captured
  <2>4. x.args = Begun(r)
    BY <1>10, <2>3, Zenon DEF Begun
  <2>5. BeginsWith(r, x.args)
    <3>1. x.args \in Seq(Text)
      BY <1>3 DEF Workers, Texts, x
    <3>2. x.args \o <<>> = x.args
      BY <3>1
    <3>3. x.args = Begun(r) \o <<>>
      BY <2>4, <3>2, Zenon
    <3> QED BY <3>3, TextsOps DEF BeginsWith
  <2>6. AtResources(r, x, shared')
    BY <2>2, <2>3, <2>4 DEF AtResources
  <2>7. ItemIntact(r, x, shared')
    BY <1>10, <2>5, <2>6 DEF ItemIntact, Stage
  <2> QED BY <1>10, <2>1, <2>7 DEF ItemHas
<1>12. overlap # "none"
  BY <1>2, <1>4, <1>6, OnlyItem DEF v
<1>13. AloneIs'
  BY <1>2, <1>4, <1>7, <1>11, <1>12, AloneStep DEF x
<1> QED BY <1>2, <1>4, <1>5, <1>13 DEF UnitInv

LEMMA TextsOfType ==
  ASSUME NEW task, NEW value \in Seq(ResourceType)
  PROVE  TextsOf(task, value) \in Texts
<1> DEFINE n == Len(value)
           f == [i \in 1..n |-> IF task.local THEN value[i].path ELSE value[i].url]
<1>1. n \in Nat /\ DOMAIN value = 1..n /\ \A i \in 1..n : value[i] \in ResourceType
  OBVIOUS
<1>2. \A x \in ResourceType : x.path \in Text /\ x.url \in Text
  BY DEF ResourceType
<1>3. TextsOf(task, value) = f
  BY <1>1, Zenon DEF TextsOf
<1>4. f \in [1..n -> Text]
  BY <1>1, <1>2
<1> HIDE DEF n, f
<1> QED BY <1>1, <1>3, <1>4 DEF Texts

(* What the resources of an item become, when none of them is skipped.     *)
LEMMA TextsFormed ==
  ASSUME NEW r \in Requests, NEW value \in Seq(ResourceType), NEW argNum \in Int, Fits(r, value)
  PROVE  LET task == TaskOf(r)
             f == Formatted(value, argNum)
             texts == TextsOf(task, value)
         IN /\ task.local => f.texts = texts /\ f.argNum = argNum
            /\ ~task.local => [i \in DOMAIN value |-> value[i].url] = texts
  BY FormattedAll DEF TextsOf, Fits

LEMMA BegunType ==
  ASSUME NEW r \in Requests
  PROVE  Begun(r) \in Texts
<1>1. OwnOf(r) \in Texts
  <2>1. UnitName \in Text /\ <<"app">> \in Text /\ r.look.path \in Text
    BY OptionsRange
  <2>2. {"unitName", "SyslogIdentifier", "SourcePath"} \subseteq Atoms
    BY Literals
  <2> DEFINE x == Setting("unitName", UnitName)
             y == Setting("SyslogIdentifier", <<"app">>)
             z == Setting("SourcePath", r.look.path)
  <2>3. x \in Text /\ y \in Text /\ z \in Text
    BY <2>1, <2>2, SettingType
  <2>4. OwnOf(r) = <<x, y, z>>
    BY Zenon DEF OwnOf
  <2> HIDE DEF x, y, z
  <2> QED BY <2>3, <2>4 DEF Texts
<1>2. Commands(r) \in Texts
  BY CommandsType
<1> QED BY <1>1, <1>2, TextsOps DEF Begun

LEMMA UnitFormat ==
  ASSUME UnitInv, NEW w \in Threads, FormatResources(w)
  PROVE  UnitInv'
<1> DEFINE r == job.request
           task == TaskOf(r)
           v == worker[w]
           x == worker'[w]
           texts == TextsOf(task, v.value)
           f == Formatted(v.value, shared.argNum)
           urls == [i \in DOMAIN v.value |-> v.value[i].url]
<1>1. OneInv' /\ OneInv /\ JobIs /\ AloneIs /\ UnitIntact
  BY OneFormat DEF UnitInv
<1>2. worker \in [Threads -> Workers] /\ shared \in Captures /\ TInv
  BY <1>1, TypeParts DEF OneInv, TInv
<1>3. /\ job.state = "running" /\ v.at = "resources" /\ job' = job /\ units' = units /\ overlap' = overlap
      /\ v \in Workers /\ r \in Requests
  BY <1>2 DEF FormatResources, At, TInv
<1>4. \A u \in Threads : u # w => worker'[u] = worker[u]
  BY <1>2 DEF FormatResources
<1>5. x.at = "command" /\ x.args = v.args /\ x.index = v.index /\ x.value = v.value
      /\ x.resources = IF job.local THEN f.texts ELSE urls
  <2> HIDE DEF f, urls
  <2>1. worker' = IF job.local THEN [worker EXCEPT ![w].at = "command", ![w].resources = f.texts]
                  ELSE [worker EXCEPT ![w].at = "command", ![w].resources = urls]
    BY Zenon DEF FormatResources, f, urls
  <2>2. x = IF job.local THEN [v EXCEPT !.at = "command", !.resources = f.texts]
            ELSE [v EXCEPT !.at = "command", !.resources = urls]
    BY <1>2, <2>1
  <2> HIDE DEF v, x
  <2> QED BY <1>3, <2>2 DEF Workers
<1>6. /\ shared'.cmds = shared.cmds /\ shared'.command = shared.command /\ shared'.extra = shared.extra
      /\ shared'.argNum = IF job.local THEN f.argNum ELSE shared.argNum
  BY <1>2 DEF FormatResources, f, Captures
<1>7. UnitIntact'
  BY <1>1, <1>3, UnitsKept
<1>8. Accepted(r) /\ job.local = task.local /\ v.value \in Range(task.items) /\ v.index = 0
  BY <1>1, <1>3 DEF JobIs, ItemOf
<1>9. JobIs'
  BY <1>5, <1>8, <1>3, <1>1, <1>4, JobStep DEF ItemOf
<1> HIDE DEF v, x, f, urls, task, texts
<1>10. ASSUME overlap = "alone" PROVE (\A u \in Busy : u = w) /\ ItemHas(r, x, shared')
  <2>1. (\A u \in Busy : u = w) /\ ItemIntact(r, v, shared)
    BY <1>1, <1>3, <1>10, OnlyItem DEF v, ItemHas, Past
  <2>2. BeginsWith(r, x.args)
    BY <1>5, <2>1 DEF ItemIntact
  <2>3. ASSUME OneReading(r), Fits(r, x.value) PROVE AtArgument(r, x, shared', 0)
    <3>1. AtResources(r, v, shared)
      BY <1>3, <1>5, <2>1, <2>3 DEF ItemIntact, Stage
    <3>2. /\ v.args = Begun(r) /\ shared.command = task.command /\ shared.argNum = task.argNum /\ shared.extra = r.extra
      BY <3>1 DEF AtResources, task
    <3>3. v.value \in Seq(ResourceType) /\ shared.argNum \in Int
      BY <1>2, <1>3 DEF Workers, Captures
    <3>4. /\ task.local => f.texts = texts /\ f.argNum = shared.argNum
          /\ ~task.local => urls = texts
      BY <1>5, <2>3, <1>3, <3>3, TextsFormed DEF task, f, texts, urls
    <3>5. x.resources = texts /\ shared'.argNum = task.argNum /\ shared'.command = task.command /\ shared'.extra = r.extra
      BY <1>5, <1>6, <1>8, <3>2, <3>4
    <3>6. task.command \in Texts
      BY <1>3, TaskType DEF Tasks, task
    <3>7. x.args = Begun(r) \o ExpandedTo(task, texts, 0)
      BY <3>6, ExpandStart, <1>3, BegunType, <1>5, <3>2 DEF Texts
    <3>8. task.argNum \notin 0..(0 - 1) /\ SubSeq(task.command, 0 + 1, Len(task.command)) = task.command
      BY <3>6 DEF Texts
    <3>9. texts = TextsOf(task, x.value)
      BY <1>5, Zenon DEF texts
    <3> QED BY <1>5, <1>8, <3>5, <3>7, <3>8, <3>9, Zenon DEF AtArgument, Remaining, task
  <2>4. 0 \in 0..Len(TaskOf(r).command)
    BY <1>3, TaskType DEF Tasks, Texts
  <2>5. OneReading(r) /\ Fits(r, x.value) => Stage(r, x, shared')
    BY <1>5, <2>3, <2>4 DEF Stage
  <2>6. ItemIntact(r, x, shared')
    BY <2>2, <2>5, Zenon DEF ItemIntact
  <2> QED BY <1>5, <2>1, <2>6 DEF ItemHas
<1>11. overlap # "none"
  BY <1>1, <1>3, OnlyItem DEF v
<1>12. AloneIs'
  BY <1>1, <1>3, <1>4, <1>10, <1>11, AloneStep DEF x
<1> QED BY <1>1, <1>7, <1>9, <1>12 DEF UnitInv

(* The rest of the command after its first k arguments.                    *)
LEMMA RestParts ==
  ASSUME NEW c \in Texts, NEW k \in 0..Len(c)
  PROVE  LET rest == SubSeq(c, k + 1, Len(c))
         IN /\ rest = <<>> <=> k = Len(c)
            /\ k < Len(c) => /\ k \in 0..(Len(c) - 1) /\ k + 1 \in 0..Len(c) /\ c[k + 1] \in Text
                             /\ Head(rest) = c[k + 1] /\ Tail(rest) = SubSeq(c, k + 1 + 1, Len(c))
<1> DEFINE rest == SubSeq(c, k + 1, Len(c))
           n == Len(c)
<1>1. c \in Seq(Text) /\ n \in Nat /\ k \in Nat /\ k <= n
  BY DEF Texts
<1>2. rest \in Seq(Text) /\ Len(rest) = n - k /\ \A i \in 1..(n - k) : rest[i] = c[k + i]
  BY <1>1
<1>3. rest = <<>> <=> k = n
  <2> HIDE DEF rest
  <2>1. rest = <<>> <=> Len(rest) = 0
    BY <1>2
  <2> HIDE DEF n
  <2> QED BY <1>1, <1>2, <2>1
<1>4. ASSUME k < n PROVE k \in 0..(n - 1) /\ k + 1 \in 0..n /\ c[k + 1] \in Text /\ Head(rest) = c[k + 1]
  <2>1. k + 1 \in 1..n /\ 1 \in 1..(n - k)
    BY <1>1, <1>4
  <2> HIDE DEF rest
  <2> QED BY <1>1, <1>2, <1>4, <2>1
<1>5. ASSUME k < n PROVE Tail(rest) = SubSeq(c, k + 1 + 1, n)
  <2> DEFINE y == SubSeq(c, k + 1 + 1, n)
             t == Tail(rest)
  <2>1. y \in Seq(Text) /\ Len(y) = n - k - 1 /\ \A i \in 1..(n - k - 1) : y[i] = c[k + 1 + i]
    BY <1>1, <1>5
  <2>2. t \in Seq(Text) /\ Len(t) = n - k - 1 /\ \A i \in 1..(n - k - 1) : t[i] = rest[i + 1]
    <3> HIDE DEF rest
    <3> QED BY <1>1, <1>2, <1>5
  <2>3. \A i \in 1..(n - k - 1) : t[i] = y[i]
    <3> HIDE DEF t, y, rest
    <3> TAKE i \in 1..(n - k - 1)
    <3> DEFINE j == i + 1
    <3>1. j \in 1..(n - k) /\ k + j = k + 1 + i
      BY <1>1
    <3>2. t[i] = rest[j]
      BY <2>2
    <3> HIDE DEF j
    <3> QED BY <1>2, <2>1, <3>1, <3>2
  <2> HIDE DEF t, y
  <2> QED BY <2>1, <2>2, <2>3 DEF t, y
<1> QED BY <1>3, <1>4, <1>5

LEMMA TextsEmpty ==
  ASSUME NEW task, NEW value \in Seq(ResourceType), TextsOf(task, value) = <<>>
  PROVE  value = <<>>
<1>1. DOMAIN TextsOf(task, value) = DOMAIN value
  BY DEF TextsOf
<1>2. DOMAIN value = {}
  BY <1>1
<1> HIDE DEF ResourceType
<1> QED BY <1>2

LEMMA ExpandedToType ==
  ASSUME NEW task \in Tasks, NEW texts \in Texts, task.argNum = -1 \/ texts # <<>>, NEW k \in 0..Len(task.command)
  PROVE  ExpandedTo(task, texts, k) \in Seq(Text)
<1> DEFINE c == task.command
           a == task.argNum
           j == k - 1
           e == ReplaceCode(c[a + 1], task.location, Head(texts))
           y == SubSeq(c, a + 2, k)
           p == SubSeq(c, 1, a)
<1>1. c \in Seq(Text) /\ a \in Int /\ task.location \in Int /\ Len(c) \in Nat
  BY DEF Tasks, Texts
<1>2. a # -1 => Head(texts) \in Text /\ Tail(texts) \in Seq(Text)
  BY DEF Texts
<1> HIDE DEF c, a, j
<1>3. /\ a \notin 0..j => ExpandedTo(task, texts, k) = SubSeq(c, 1, k)
      /\ a \in 0..j => ExpandedTo(task, texts, k) = p \o <<e>> \o Tail(texts) \o y
  BY ExpandedCases, Zenon DEF c, a, j
<1>4. k \in Nat /\ k <= Len(c)
  BY <1>1 DEF c
<1>5. CASE a \notin 0..j
  <2>1. SubSeq(c, 1, k) \in Seq(Text)
    BY <1>1, <1>4
  <2> QED BY <1>3, <1>5, <2>1
<1>6. CASE a \in 0..j
  <2>1. a # -1 /\ a \in Nat /\ a + 1 \in 1..Len(c) /\ a <= Len(c)
    BY <1>1, <1>4, <1>6 DEF j
  <2>2. e \in Text
    <3>1. c[a + 1] \in Text
      BY <1>1, <2>1
    <3> QED BY <1>1, <1>2, <2>1, <3>1, ReplaceType
  <2>3. y \in Seq(Text)
    BY <1>1, <1>4, <2>1
  <2>4. p \in Seq(Text)
    BY <1>1, <1>4, <2>1
  <2> HIDE DEF e, y, p
  <2> DEFINE t == Tail(texts)
  <2>5. t \in Seq(Text)
    BY <1>2, <2>1
  <2> HIDE DEF t
  <2>6. p \o <<e>> \o t \o y \in Seq(Text)
    BY <2>2, <2>3, <2>4, <2>5
  <2> QED BY <1>3, <1>6, <2>6, Zenon DEF t
<1> QED BY <1>5, <1>6

(* An argument of the command that an item takes.                          *)
Unused(v, s) == IF v.index # s.argNum THEN v.resources ELSE <<>>
LEMMA ArgumentTaken ==
  ASSUME NEW r \in Requests, NEW v \in Workers, NEW s \in Captures, NEW k \in 0..Len(TaskOf(r).command),
         OneReading(r), Accepted(r), v.value \in Range(TaskOf(r).items), AtArgument(r, v, s, k), s.command # <<>>
  PROVE  LET arg == Head(s.command)
             texts == v.resources
             task == TaskOf(r)
             e == IF v.index # s.argNum THEN <<arg>>
                  ELSE IF texts = <<>> THEN <<ReplaceCode(arg, task.location, <<>>)>>
                  ELSE <<ReplaceCode(arg, task.location, Head(texts))>> \o Tail(texts)
             all == TextsOf(task, v.value)
         IN /\ k + 1 \in 0..Len(task.command)
            /\ ExpandedTo(task, all, k + 1) = ExpandedTo(task, all, k) \o e
            /\ Unused(v, s) = Remaining(task, all, k + 1)
            /\ Tail(s.command) = SubSeq(task.command, k + 1 + 1, Len(task.command))
<1> DEFINE arg == Head(s.command)
           texts == v.resources
           task == TaskOf(r)
           e == IF v.index # s.argNum THEN <<arg>>
                ELSE IF texts = <<>> THEN <<ReplaceCode(arg, task.location, <<>>)>>
                ELSE <<ReplaceCode(arg, task.location, Head(texts))>> \o Tail(texts)
           all == TextsOf(task, v.value)
           c == task.command
<1>1. /\ v.index = k /\ v.args = Begun(r) \o ExpandedTo(task, all, k)
      /\ texts = Remaining(task, all, k)
      /\ s.command = SubSeq(c, k + 1, Len(c)) /\ s.argNum = task.argNum /\ s.extra = r.extra
  BY Zenon DEF AtArgument
<1>2. task \in Tasks
  BY TaskType
<1>3. task.argNum = -1 \/ v.value # <<>>
  BY LineWords
<1>4. v.value \in Seq(ResourceType)
  BY DEF Workers
<1>5. all \in Texts /\ (task.argNum = -1 \/ all # <<>>)
  <2>1. all \in Texts
    BY <1>4, TextsOfType
  <2>2. all = <<>> => v.value = <<>>
    BY <1>4, TextsEmpty
  <2> QED BY <1>3, <2>1, <2>2
<1> HIDE DEF task, all, e, arg, texts
<1>6. c \in Texts /\ k \in 0..Len(c) /\ k \in Nat /\ task.argNum \in Int
  <2>1. Len(c) \in Nat /\ c \in Texts
    BY <1>2 DEF Tasks, Texts
  <2> QED BY <1>2, <2>1 DEF Tasks, task
<1>7. /\ k < Len(c) /\ k \in 0..(Len(c) - 1) /\ k + 1 \in 0..Len(c)
      /\ arg = c[k + 1] /\ Tail(s.command) = SubSeq(c, k + 1 + 1, Len(c))
  <2>1. k < Len(c)
    <3>1. k # Len(c)
      BY <1>1, <1>6, RestParts
    <3>2. Len(c) \in Nat
      BY <1>6 DEF Texts
    <3> DEFINE n == Len(c)
    <3>3. n \in Nat /\ k \in 0..n /\ k # n
      BY <1>6, <3>1, <3>2
    <3> HIDE DEF n
    <3>4. k < n
      BY <3>3
    <3> QED BY <3>4 DEF n
  <2> DEFINE rest == SubSeq(c, k + 1, Len(c))
  <2>2. /\ k \in 0..(Len(c) - 1) /\ k + 1 \in 0..Len(c)
        /\ Head(rest) = c[k + 1] /\ Tail(rest) = SubSeq(c, k + 1 + 1, Len(c))
    BY <1>6, <2>1, RestParts
  <2> HIDE DEF rest
  <2> QED BY <1>1, <2>1, <2>2, Zenon DEF arg, rest
<1>8. ExpandedTo(task, all, k + 1) = ExpandedTo(task, all, k) \o NextWords(task, all, k)
  BY <1>2, <1>5, <1>7, ExpandNext
<1>9. e = NextWords(task, all, k)
  <2>1. CASE k # task.argNum
    <3>1. e = <<arg>>
      BY <1>1, <2>1, Zenon DEF e
    <3>2. NextWords(task, all, k) = <<c[k + 1]>>
      BY <2>1, Zenon DEF NextWords
    <3> QED BY <1>7, <3>1, <3>2, Zenon
  <2>2. CASE k = task.argNum
    <3>1. task.argNum \notin 0..(k - 1) /\ task.argNum # -1
      BY <1>6, <2>2
    <3>2. texts = all /\ all # <<>>
      BY <1>1, <1>5, <3>1 DEF Remaining
    <3>3. e = <<ReplaceCode(arg, task.location, Head(all))>> \o Tail(all)
      BY <1>1, <2>2, <3>2, Zenon DEF e
    <3>4. NextWords(task, all, k) = <<ReplaceCode(c[k + 1], task.location, Head(all))>> \o Tail(all)
      BY <2>2, Zenon DEF NextWords
    <3> QED BY <1>7, <3>3, <3>4, Zenon
  <2> QED BY <2>1, <2>2
<1>10. Unused(v, s) = Remaining(task, all, k + 1)
  <2>1. k # task.argNum => (task.argNum \in 0..(k + 1 - 1) <=> task.argNum \in 0..(k - 1))
    BY <1>6
  <2>2. k = task.argNum => task.argNum \in 0..(k + 1 - 1)
    BY <1>6
  <2> QED BY <1>1, <2>1, <2>2 DEF Unused, Remaining, texts
<1> QED BY <1>7, <1>8, <1>9, <1>10, Zenon DEF task, all, e, arg, texts

LEMMA LongerBegins ==
  ASSUME NEW r \in Requests, NEW args \in Texts, NEW e \in Texts, BeginsWith(r, args)
  PROVE  BeginsWith(r, args \o e)
<1>1. PICK more \in Texts : args = Begun(r) \o more
  BY DEF BeginsWith
<1> DEFINE b == Begun(r)
           l == more \o e
<1>2. b \in Seq(Text) /\ more \in Seq(Text) /\ e \in Seq(Text)
  BY <1>1, BegunType DEF Texts
<1> HIDE DEF b
<1>3. (b \o more) \o e = b \o (more \o e)
  BY Assoc, <1>2
<1>4. l \in Texts
  BY <1>2 DEF Texts
<1>5. args \o e = b \o l
  BY <1>1, <1>3, Zenon DEF b
<1> HIDE DEF l
<1> QED BY <1>4, <1>5, Zenon DEF BeginsWith, b

LEMMA UnitArgument ==
  ASSUME UnitInv, NEW w \in Threads, TakeArgument({w})
  PROVE  UnitInv'
<1> DEFINE r == job.request
           task == TaskOf(r)
           v == worker[w]
           x == worker'[w]
           all == TextsOf(task, v.value)
           e == Expanded(w, Head(shared.command))
           left == Unused(v, shared)
<1>1. {w} \in SUBSET Threads /\ {w} # {}
  OBVIOUS
<1>2. OneInv' /\ OneInv /\ JobIs /\ AloneIs /\ UnitIntact
  BY OneArgument DEF UnitInv
<1>3. worker \in [Threads -> Workers] /\ shared \in Captures /\ TInv
  BY <1>2, TypeParts DEF OneInv, TInv
<1>4. JobIs' /\ job.state = "running" /\ job' = job /\ units' = units /\ overlap' = overlap
  BY <1>1, <1>2, JobAdvance, Overlaps DEF TakeArgument
<1>5. UnitIntact'
  BY <1>2, <1>4, UnitsKept
<1>6. v.at = "command" /\ v \in Workers /\ r \in Requests /\ shared.command # <<>>
  BY <1>3, <1>4 DEF TakeArgument, At, TInv
<1>7. \A u \in Threads : u # w => worker'[u] = worker[u]
  BY <1>3 DEF TakeArgument, Advance
<1>8. x = [v EXCEPT !.args = @ \o e, !.resources = left, !.index = @ + 1]
  BY <1>3 DEF TakeArgument, Advance, Unused
<1>9. /\ shared'.cmds = shared.cmds /\ shared'.command = Tail(shared.command)
      /\ shared'.argNum = shared.argNum /\ shared'.extra = shared.extra
  BY <1>3 DEF TakeArgument, Captures
<1>10. Accepted(r) /\ job.location = task.location /\ v.value \in Range(task.items)
  BY <1>2, <1>4, <1>6 DEF JobIs, ItemOf
<1>11. e = IF v.index # shared.argNum THEN <<Head(shared.command)>>
           ELSE IF v.resources = <<>> THEN <<ReplaceCode(Head(shared.command), task.location, <<>>)>>
           ELSE <<ReplaceCode(Head(shared.command), task.location, Head(v.resources))>> \o Tail(v.resources)
  BY <1>10, Zenon DEF Expanded
<1>12. e \in Texts /\ v.args \in Texts
  BY <1>3, <1>6, ExpandedType DEF Captures, Texts, Workers
<1> HIDE DEF v, e, left
<1>13. x.at = "command" /\ x.args = v.args \o e /\ x.resources = left /\ x.index = v.index + 1 /\ x.value = v.value
  BY <1>6, <1>8 DEF Workers
<1> HIDE DEF x, task, all
<1>14. ASSUME overlap = "alone" PROVE (\A u \in Busy : u = w) /\ ItemHas(r, x, shared')
  <2>1. (\A u \in Busy : u = w) /\ ItemIntact(r, v, shared)
    BY <1>2, <1>4, <1>6, <1>14, OnlyItem DEF v, ItemHas, Past
  <2>2. BeginsWith(r, x.args)
    BY <1>6, <1>12, <1>13, <2>1, LongerBegins DEF ItemIntact
  <2>3. ASSUME OneReading(r), Fits(r, x.value) PROVE \E k \in 0..Len(task.command) : AtArgument(r, x, shared', k)
    <3>1. PICK k \in 0..Len(task.command) : AtArgument(r, v, shared, k)
      BY <1>6, <1>13, <2>1, <2>3 DEF ItemIntact, Stage, task
    <3> DEFINE l == k + 1
    <3>2. /\ l \in 0..Len(task.command)
          /\ ExpandedTo(task, all, l) = ExpandedTo(task, all, k) \o e
          /\ left = Remaining(task, all, l)
          /\ Tail(shared.command) = SubSeq(task.command, l + 1, Len(task.command))
      <4> DEFINE f == IF v.index # shared.argNum THEN <<Head(shared.command)>>
                      ELSE IF v.resources = <<>> THEN <<ReplaceCode(Head(shared.command), task.location, <<>>)>>
                      ELSE <<ReplaceCode(Head(shared.command), task.location, Head(v.resources))>> \o Tail(v.resources)
      <4>1. /\ k + 1 \in 0..Len(task.command)
            /\ ExpandedTo(task, all, k + 1) = ExpandedTo(task, all, k) \o f
            /\ Unused(v, shared) = Remaining(task, all, k + 1)
            /\ Tail(shared.command) = SubSeq(task.command, k + 1 + 1, Len(task.command))
        <5>1. k \in 0..Len(TaskOf(r).command) /\ v.value \in Range(TaskOf(r).items)
          BY <1>10, Zenon DEF task
        <5>2. v \in Workers /\ shared \in Captures /\ r \in Requests /\ shared.command # <<>> /\ OneReading(r) /\ Accepted(r)
          BY <1>3, <1>6, <1>10, <2>3, Zenon
        <5> HIDE DEF r
        <5> QED BY <3>1, <5>1, <5>2, ArgumentTaken, Zenon DEF task, all
      <4>2. e = f
        BY <1>11, Zenon
      <4> HIDE DEF f
      <4>3. ExpandedTo(task, all, l) = ExpandedTo(task, all, k) \o e
        BY <4>1, <4>2, Zenon
      <4>4. left = Remaining(task, all, l)
        BY <4>1, Zenon DEF left
      <4> QED BY <4>1, <4>3, <4>4, Zenon
    <3>3. v.index = k /\ v.args = Begun(r) \o ExpandedTo(task, all, k) /\ shared.argNum = task.argNum /\ shared.extra = r.extra
      BY <3>1, Zenon DEF AtArgument, task, all
    <3>4. x.index = l
      BY <1>13, <3>3
    <3>5. x.args = Begun(r) \o ExpandedTo(task, all, l)
      <4> DEFINE b == Begun(r)
                 y == ExpandedTo(task, all, k)
      <4>1. b \in Seq(Text) /\ e \in Seq(Text)
        BY <1>6, <1>12, BegunType DEF Texts
      <4>2. y \in Seq(Text)
        <5>1. task \in Tasks /\ all \in Texts /\ (task.argNum = -1 \/ all # <<>>)
          <6>1. v.value \in Seq(ResourceType)
            BY <1>6 DEF Workers
          <6>2. task.argNum = -1 \/ v.value # <<>>
            BY <1>6, <1>10, <2>3, LineWords DEF task
          <6>3. all = <<>> => v.value = <<>>
            BY <6>1, TextsEmpty DEF all
          <6> QED BY <1>6, <6>1, <6>2, <6>3, TextsOfType, TaskType DEF task, all
        <5> QED BY <5>1, ExpandedToType DEF Texts
      <4> HIDE DEF b, y
      <4>3. (b \o y) \o e = b \o (y \o e)
        BY Assoc, <4>1, <4>2
      <4> QED BY <1>13, <3>2, <3>3, <4>3, Zenon DEF b, y
    <3> HIDE DEF l
    <3>6. AtArgument(r, x, shared', l)
      BY <1>13, <1>9, <3>2, <3>3, <3>4, <3>5 DEF all, AtArgument, task
    <3> QED BY <3>2, <3>6
  <2>4. OneReading(r) /\ Fits(r, x.value) => Stage(r, x, shared')
    BY <1>13, <2>3 DEF Stage, task
  <2>6. ItemIntact(r, x, shared')
    BY <2>2, <2>4, Zenon DEF ItemIntact
  <2> QED BY <1>13, <2>1, <2>6 DEF ItemHas
<1>15. overlap # "none"
  BY <1>2, <1>4, <1>6, OnlyItem DEF v
<1>16. AloneIs'
  BY <1>2, <1>4, <1>7, <1>14, <1>15, AloneStep DEF x
<1> QED BY <1>2, <1>4, <1>5, <1>16 DEF UnitInv

LEMMA UnitExtraArgs ==
  ASSUME UnitInv, NEW w \in Threads, AppendExtraArgs({w})
  PROVE  UnitInv'
<1> DEFINE r == job.request
           task == TaskOf(r)
           v == worker[w]
           x == worker'[w]
           extra == shared.extra
<1>1. {w} \in SUBSET Threads /\ {w} # {}
  OBVIOUS
<1>2. OneInv' /\ OneInv /\ JobIs /\ AloneIs /\ UnitIntact
  BY OneExtraArgs DEF UnitInv
<1>3. worker \in [Threads -> Workers] /\ shared \in Captures /\ TInv
  BY <1>2, TypeParts DEF OneInv, TInv
<1>4. JobIs' /\ job.state = "running" /\ job' = job /\ units' = units /\ overlap' = overlap
  BY <1>1, <1>2, JobAdvance, Overlaps DEF AppendExtraArgs
<1>5. UnitIntact'
  BY <1>2, <1>4, UnitsKept
<1>6. v.at = "command" /\ v \in Workers /\ r \in Requests /\ shared.command = <<>>
  BY <1>3, <1>4 DEF AppendExtraArgs, At, TInv
<1>7. \A u \in Threads : u # w => worker'[u] = worker[u]
  BY <1>3 DEF AppendExtraArgs, Advance
<1>8. x = [v EXCEPT !.at = "helper", !.args = @ \o extra]
  BY <1>3 DEF AppendExtraArgs, Advance
<1>10. extra \in Texts /\ v.args \in Texts
  BY <1>3, <1>6 DEF Captures, Workers
<1> HIDE DEF v, extra
<1>11. x.at = "helper" /\ x.args = v.args \o extra /\ x.value = v.value
  BY <1>6, <1>8 DEF Workers
<1> HIDE DEF x, task
<1>12. ASSUME overlap = "alone" PROVE (\A u \in Busy : u = w) /\ ItemHas(r, x, shared')
  <2>1. (\A u \in Busy : u = w) /\ ItemIntact(r, v, shared)
    BY <1>2, <1>4, <1>6, <1>12, OnlyItem DEF v, ItemHas, Past
  <2>2. BeginsWith(r, x.args)
    BY <1>6, <1>10, <1>11, <2>1, LongerBegins DEF ItemIntact
  <2>3. ASSUME OneReading(r), Fits(r, x.value) PROVE AtHelper(r, x)
    <3>1. PICK k \in 0..Len(task.command) : AtArgument(r, v, shared, k)
      BY <1>6, <1>11, <2>1, <2>3 DEF ItemIntact, Stage, task
    <3>2. /\ v.args = Begun(r) \o ExpandedTo(task, TextsOf(task, v.value), k) /\ shared.extra = r.extra
          /\ shared.command = SubSeq(task.command, k + 1, Len(task.command))
      BY <3>1, Zenon DEF AtArgument, task
    <3>3. k = Len(task.command)
      BY <1>6, TaskType, <3>2, RestParts DEF Tasks, task
    <3> QED BY <1>11, <3>2, <3>3, Zenon DEF AtHelper, task, extra
  <2>4. OneReading(r) /\ Fits(r, x.value) => Stage(r, x, shared')
    BY <1>11, <2>3 DEF Stage
  <2>5. ItemIntact(r, x, shared')
    BY <2>2, <2>4, Zenon DEF ItemIntact
  <2> QED BY <1>11, <2>1, <2>5 DEF ItemHas
<1>13. overlap # "none"
  BY <1>2, <1>4, <1>6, OnlyItem DEF v
<1>14. AloneIs'
  BY <1>2, <1>4, <1>7, <1>12, <1>13, AloneStep DEF x
<1> QED BY <1>2, <1>4, <1>5, <1>14 DEF UnitInv

(* What the helper finds behind the "--" is what is wanted.                *)
LEMMA WantedIs ==
  ASSUME NEW r \in Requests, OneReading(r), Accepted(r), NEW value \in Seq(ResourceType), value \in Range(TaskOf(r).items)
  PROVE  LET words == ExpandedTo(TaskOf(r), TextsOf(TaskOf(r), value), Len(TaskOf(r).command))
         IN /\ LastOf(r) \o (words \o r.extra) = WantedCommand(r, value)
            /\ words \in Texts /\ LastOf(r) \o (words \o r.extra) \in Texts
<1> DEFINE task == TaskOf(r)
           words == ExpandedTo(task, TextsOf(task, value), Len(task.command))
           meant == FlattenSeq([n \in DOMAIN MeantLine(r) |-> WordsOf(MeantLine(r), n, r.look, value)])
           l == LastOf(r)
           e == r.extra
<1>1. words = meant /\ (task.argNum = -1 \/ value # <<>>)
  BY LineWords
<1>2. words \in Seq(Text)
  BY <1>1, TextsOfType, TextsEmpty, TaskType, ExpandedToType DEF Tasks, Texts
<1>3. l \in Seq(Text)
  <2>1. RestOf(r) \in Texts /\ TerminalOf(r) \in Texts
    BY CommandsAre, TerminalType
  <2> QED BY <2>1 DEF LastOf, Texts
<1>4. e \in Seq(Text)
  BY RequestsAssumption DEF RequestType, Texts
<1>5. l = (HooksInOrder(r) \o (IF r.uid = "other" THEN RunAs ELSE <<>>)) \o (IF r.terminal THEN Terminal ELSE <<>>)
  BY HooksAre, Zenon DEF LastOf, RestOf, TerminalOf
<1>6. WantedCommand(r, value) = (l \o meant) \o e
  BY <1>5, Zenon DEF WantedCommand
<1> HIDE DEF words, meant, l, e
<1>7. (l \o words) \o e = l \o (words \o e)
  BY Assoc, <1>2, <1>3, <1>4
<1>8. l \o (words \o e) = WantedCommand(r, value)
  BY <1>1, <1>6, <1>7, Zenon
<1>9. words \in Texts /\ l \o (words \o e) \in Texts
  BY <1>2, <1>3, <1>4 DEF Texts
<1> QED BY <1>8, <1>9, Zenon DEF words, l, e, task

LEMMA AsList ==
  ASSUME NEW S, NEW l \in Seq(S)
  PROVE  l = [i \in 1..Len(l) |-> l[i]]
  OBVIOUS

LEMMA DecodedIs ==
  ASSUME NEW unit, NEW command \in Texts, unit.command = ExecStart(command), <<"\\", ";">> \notin Range(command)
  PROVE  DecodedCommand(unit) = command
<1> DEFINE sep == <<"\\", ";">>
           n == Len(command)
           c == ExecStart(command)
<1>1. n \in Nat /\ DOMAIN command = 1..n /\ (\A i \in 1..n : command[i] \in Text) /\ command \in Seq(Text)
  BY TextParts DEF Texts
<1>2. DOMAIN c = 1..n /\ \A i \in 1..n : c[i] = Encode(command[i])
  BY <1>1 DEF ExecStart
<1> HIDE DEF sep, c, n
<1>3. \A i \in 1..n : command[i] # sep
  BY <1>1 DEF Range, sep
<1>4. ASSUME NEW i \in 1..n PROVE Decode(c[i]) = command[i]
  <2> DEFINE word == command[i]
  <2>1. word \in Text /\ word # <<"\\", ";">> /\ c[i] = Encode(word)
    BY <1>1, <1>2, <1>3 DEF sep
  <2> HIDE DEF word
  <2> QED BY <2>1, DecodedBack DEF word
<1>5. DecodedCommand(unit) = [i \in 1..n |-> Decode(c[i])]
  BY <1>2, Zenon DEF DecodedCommand, c
<1>6. [i \in 1..n |-> Decode(c[i])] = [i \in 1..n |-> command[i]]
  BY <1>4
<1>7. command = [i \in 1..n |-> command[i]]
  BY <1>1, AsList, Zenon DEF n
<1> QED BY <1>5, <1>6, <1>7, Zenon

LEMMA HelperUnit ==
  ASSUME NEW r \in Requests, NEW v \in Workers, NEW s, Accepted(r), v.value \in Range(TaskOf(r).items), v.at = "helper",
         ItemIntact(r, v, s), NEW unit,
         unit.value = v.value, unit.props = CmdParse(v.args).props, unit.command = ExecStart(CmdParse(v.args).command)
  PROVE  UnitGood(r, unit)
<1> DEFINE wanted == WantedCommand(r, v.value)
           words == ExpandedTo(TaskOf(r), TextsOf(TaskOf(r), v.value), Len(TaskOf(r).command))
           e == r.extra
           u == CmdParse(v.args)
           p == WantedSettings(r)
<1>1. u.props = p
  <2>1. PICK more \in Texts : v.args = Begun(r) \o more
    BY DEF ItemIntact, BeginsWith
  <2>2. CmdParse(Begun(r) \o more).props = p
    BY ParsedIs, Zenon
  <2> QED BY <2>1, <2>2, Zenon
<1>2. ASSUME Fits(r, v.value), OneReading(r) PROVE u.command = wanted /\ wanted \in Texts
  <2>1. v.args = (Begun(r) \o words) \o e
    BY <1>2 DEF ItemIntact, Stage, AtHelper
  <2>2. v.value \in Seq(ResourceType)
    BY DEF Workers
  <2>3. LastOf(r) \o (words \o e) = wanted /\ words \in Texts /\ LastOf(r) \o (words \o e) \in Texts
    BY <1>2, <2>2, WantedIs, Zenon
  <2> DEFINE b == Begun(r)
             l == words \o e
  <2>4. b \in Seq(Text) /\ e \in Texts
    BY BegunType, RequestsAssumption DEF RequestType, Texts
  <2> HIDE DEF words, e, b
  <2>5. (b \o words) \o e = b \o l
    <3>1. \A x, y, z \in Seq(Text) : (x \o y) \o z = x \o (y \o z)
      BY Assoc
    <3>2. words \in Seq(Text) /\ e \in Seq(Text)
      BY <2>3, <2>4 DEF Texts
    <3> QED BY <2>4, <3>1, <3>2, Zenon
  <2>6. l \in Texts
    BY <2>3, <2>4 DEF Texts
  <2> HIDE DEF l
  <2>7. CmdParse(Begun(r) \o l).command = LastOf(r) \o l
    BY <2>6, ParsedIs, Zenon
  <2>8. v.args = Begun(r) \o l
    BY <2>1, <2>5, Zenon DEF b
  <2>9. u.command = LastOf(r) \o l
    BY <2>7, <2>8, Zenon
  <2> QED BY <2>3, <2>9, Zenon DEF l
<1> HIDE DEF u, wanted, p, words
<1>3. ASSUME Fits(r, v.value), OneReading(r), <<"\\", ";">> \notin Range(wanted) PROVE DecodedCommand(unit) = wanted
  <2>1. u.command = wanted /\ wanted \in Texts
    BY <1>2, <1>3
  <2>2. unit.command = ExecStart(wanted)
    BY <2>1, Zenon DEF u
  <2> QED BY <1>3, <2>1, <2>2, DecodedIs
<1>4. unit.props = p
  BY <1>1, Zenon DEF u
<1>5. Fits(r, unit.value) => Fits(r, v.value)
  OBVIOUS
<1>6. WantedCommand(r, unit.value) = wanted
  BY Zenon DEF wanted
<1> QED BY <1>3, <1>4, <1>5, <1>6, Zenon DEF UnitGood, p

LEMMA UnitHelper ==
  ASSUME UnitInv, NEW w \in Threads, RunHelper(w)
  PROVE  UnitInv'
<1> DEFINE r == job.request
           v == worker[w]
           u == CmdParse(v.args)
           unit == [name |-> u.name, props |-> u.props, value |-> v.value, command |-> ExecStart(u.command), late |-> v.late]
<1>1. OneInv' /\ OneInv /\ JobIs /\ AloneIs /\ UnitIntact
  BY OneHelper DEF UnitInv
<1>2. worker \in [Threads -> Workers] /\ units \in Seq(Units) /\ TInv
  BY <1>1, TypeParts DEF OneInv, TInv
<1>3. /\ job' = job /\ shared' = shared /\ overlap' = overlap /\ job.state = "running" /\ v.at = "helper"
      /\ v \in Workers /\ r \in Requests
  BY <1>2 DEF RunHelper, At, TInv
<1>4. units' = IF Startable(u) THEN Append(units, unit) ELSE units
  BY Zenon DEF RunHelper
<1>5. worker'[w] = Resting /\ \A x \in Threads : x # w => worker'[x] = worker[x]
  BY <1>2 DEF RunHelper
<1>7. unit.value = v.value /\ unit.props = u.props /\ unit.command = ExecStart(u.command)
  OBVIOUS
<1>8. Accepted(r) /\ v.value \in Range(TaskOf(r).items)
  BY <1>1, <1>3 DEF JobIs, ItemOf
<1> HIDE DEF unit
<1>9. overlap = "alone" /\ Startable(u) => UnitGood(r, unit)
  <2>1. overlap = "alone" => ItemIntact(r, v, shared)
    BY <1>1, <1>3, OnlyItem DEF ItemHas, Past
  <2> QED BY <1>3, <1>7, <1>8, <2>1, HelperUnit
<1> HIDE DEF u, v
<1>10. UnitIntact'
  BY <1>1, UnitsGood, <1>4, <1>3, UnitsKept, <1>2, <1>9
<1>11. JobIs'
  BY <1>5, RestTypes, <1>3, <1>1, JobStep DEF ItemOf
<1>12. overlap # "none" /\ (overlap = "alone" => \A x \in Busy : x = w)
  BY <1>1, <1>3, OnlyItem DEF v
<1>13. AloneIs'
  BY <1>5, <1>12, RestTypes, <1>1, <1>3, AloneStep DEF ItemHas, Past
<1> QED BY <1>1, <1>10, <1>11, <1>13 DEF UnitInv

(* What a unit runs, as systemd reads it, and the properties that it has   *)
(* are those of the launch request: the entry's words with the field codes *)
(* replaced by the resources of the item, behind the hooks and the         *)
(* terminal, and the settings of the options, for the first item of a job  *)
(* as long as no other has begun, and provided that the request has one    *)
(* reading (processExec, the lambda of ApplicationService::Launch,         *)
(* generateCommand, app-launch-helper's cmdParse and encodeArgument).      *)
THEOREM UnitsIntact == Spec => []UnitIntact
<1>1. Init => UnitInv
  BY UnitInit
<1>2. UnitInv /\ [Next]_vars => UnitInv'
  <2> SUFFICES ASSUME UnitInv, [Next]_vars PROVE UnitInv'
    OBVIOUS
  <2>1. CASE UNCHANGED vars
    BY OneNext, <2>1, UnitsKept DEF UnitInv, vars, JobIs, AloneIs, Busy
  <2>2. ASSUME NEW r \in Requests, Launch(r) PROVE UnitInv'
    BY <2>2, UnitLaunch
  <2>3. ASSUME NEW w \in Threads, Item(w) PROVE UnitInv'
    BY <2>3, UnitBegin, UnitOptions, UnitFormat, UnitArgument, UnitExtraArgs, UnitHelper DEF Item
  <2>4. ASSUME NEW v \in Threads, NEW w \in Threads, Race(v, w) PROVE UnitInv'
    BY <2>4, UnitRace
  <2>5. CASE DataRace \/ EndJob \/ Restart
    BY <2>5, UnitEnd
  <2>6. CASE AddJobReturns
    BY <2>6, UnitReturn
  <2> QED BY <2>1, <2>2, <2>3, <2>4, <2>5, <2>6 DEF Next
<1>3. UnitInv => UnitIntact
  BY DEF UnitInv
<1> QED BY <1>1, <1>2, <1>3, PTL DEF Spec
==============================================================================
