--------------------------- MODULE Identify_proofs ---------------------------
(***************************************************************************)
(* Proofs about Identify, for any processes and units: AM takes apart what *)
(* belongs to the process it was asked about; names of units and what is   *)
(* read out of them agree, whatever the ids of applications consist of; so *)
(* an answer is true, and who stays in a unit AM launched is identified.   *)
(***************************************************************************)
EXTENDS Identify, FiniteSetTheorems, TLAPS

-----------------------------------------------------------------------------
(***************************************************************************)
(* Numbers and FlattenSeq.                                                 *)
(***************************************************************************)
LEMMA LeastNumber ==
  ASSUME NEW T, T \subseteq Nat, T # {}
  PROVE  \E x \in T : \A y \in T : x <= y
<1> DEFINE R == {p \in Nat \X Nat : p[1] < p[2]}
<1>1. OpToRel(<, Nat) = R
  BY Zenon DEF OpToRel
<1>2. IsWellFoundedOn(OpToRel(<, Nat), Nat)
  BY NatLessThanWellFounded, Zenon
<1>3. IsWellFoundedOn(R, Nat)
  <2> HIDE DEF R
  <2> QED
    BY <1>1, <1>2, Zenon
<1>4. \A x, y \in Nat : y < x => <<y, x>> \in R
  OBVIOUS
<1> HIDE DEF R
<1>5. PICK x \in T : \A y \in T : ~(<<y, x>> \in R)
  BY <1>3, WFMin
<1>6. ASSUME NEW y \in T PROVE x <= y
  <2>1. x \in Nat /\ y \in Nat
    OBVIOUS
  <2>2. ~(y < x)
    BY <2>1, <1>4, <1>5, Zenon
  <2> QED
    BY <2>1, <2>2
<1> QED
  BY <1>6

(* What holds at 0 and from each number to the next holds all along.       *)
LEMMA AllAlong ==
  ASSUME NEW n \in Nat, NEW G, 0 \in G, \A i \in 1..n : i - 1 \in G => i \in G
  PROVE  n \in G
<1> DEFINE B == {i \in 0..n : i \notin G}
<1>1. SUFFICES ASSUME B # {} PROVE FALSE
  <2>1. n \in 0..n
    OBVIOUS
  <2> QED
    BY <2>1
<1>2. PICK m \in B : \A k \in B : m <= k
  <2>1. B \subseteq Nat
    OBVIOUS
  <2> HIDE DEF B
  <2> QED
    BY <1>1, <2>1, LeastNumber
<1>3. m \in 0..n /\ m \notin G /\ m # 0
  OBVIOUS
<1>4. m - 1 \in 0..n /\ m \in 1..n /\ m - 1 \notin B
  BY <1>2, <1>3
<1> QED
  BY <1>3, <1>4

(* The recursive function of FlattenSeq exists ...                         *)
FlattensTo(ss, m, f) == f = [i \in 1..m |-> IF i = 1 THEN ss[i] ELSE f[i-1] \o ss[i]]

LEMMA FlattenNext ==
  ASSUME NEW ss, NEW m \in Nat, m > 1, NEW f, FlattensTo(ss, m - 1, f)
  PROVE  \E g : FlattensTo(ss, m, g)
<1> DEFINE g == [i \in 1..m |-> IF i = m THEN f[m-1] \o ss[m] ELSE f[i]]
<1>1. \A i \in 1..(m-1) : f[i] = IF i = 1 THEN ss[i] ELSE f[i-1] \o ss[i]
  BY DEF FlattensTo
<1>2. /\ g = [i \in 1..m |-> g[i]]
      /\ g[m] = f[m-1] \o ss[m]
      /\ \A i \in 1..(m-1) : g[i] = f[i]
  <2>1. g = [i \in 1..m |-> g[i]]
    BY Zenon
  <2>2. g[m] = f[m-1] \o ss[m]
    <3>1. m \in 1..m
      OBVIOUS
    <3> QED
      BY <3>1, Zenon
  <2>3. ASSUME NEW i \in 1..(m-1) PROVE g[i] = f[i]
    <3>1. i \in 1..m /\ i # m
      OBVIOUS
    <3> QED
      BY <3>1, Zenon
  <2> QED
    BY <2>1, <2>2, <2>3, Zenon
<1> HIDE DEF g
<1>3. ASSUME NEW i \in 1..m PROVE g[i] = IF i = 1 THEN ss[i] ELSE g[i-1] \o ss[i]
  <2>1. CASE i = m
    <3>1. m - 1 \in 1..(m-1) /\ m # 1
      OBVIOUS
    <3>2. g[m-1] = f[m-1]
      BY <1>2, <3>1, Zenon
    <3> QED
      BY <1>2, <2>1, <3>1, <3>2, Zenon
  <2>2. CASE i # m
    <3>1. i \in 1..(m-1) /\ (i # 1 => i - 1 \in 1..(m-1))
      BY <2>2
    <3> QED
      BY <3>1, <1>1, <1>2
  <2> QED
    BY <2>1, <2>2
<1>4. g = [i \in 1..m |-> IF i = 1 THEN ss[i] ELSE g[i-1] \o ss[i]]
  BY <1>2, <1>3
<1> QED
  BY <1>4 DEF FlattensTo

LEMMA FlattenExists ==
  ASSUME NEW ss, Len(ss) \in Nat \ {0}
  PROVE  \E f : FlattensTo(ss, Len(ss), f)
<1> DEFINE Flattens(m) == \E f : FlattensTo(ss, m, f)
           T == {m \in 1..Len(ss) : ~Flattens(m)}
<1>1. Flattens(1)
  <2> DEFINE f == [i \in 1..1 |-> ss[1]]
  <2>1. FlattensTo(ss, 1, f)
    BY DEF FlattensTo
  <2> QED
    BY <2>1
<1>2. \A m \in Nat : m > 1 /\ Flattens(m - 1) => Flattens(m)
  BY FlattenNext
<1> HIDE DEF Flattens
<1>3. ASSUME T # {} PROVE FALSE
  <2>1. T \subseteq Nat
    OBVIOUS
  <2>2. PICK m \in T : \A k \in T : m <= k
    <3> HIDE DEF T
    <3> QED
      BY <1>3, <2>1, LeastNumber
  <2>3. m \in 1..Len(ss) /\ ~Flattens(m) /\ m # 1
    BY <1>1
  <2>4. m - 1 \in 1..Len(ss) /\ m - 1 \notin T
    BY <2>2, <2>3
  <2> QED
    BY <2>3, <2>4, <1>2
<1>4. Flattens(Len(ss))
  BY <1>3
<1> QED
  BY <1>4 DEF Flattens

(* ... it is determined by the parts it has joined so far ...              *)
Joins(ss, m, f) == \A i \in 1..m : f[i] = IF i = 1 THEN ss[i] ELSE f[i-1] \o ss[i]

LEMMA FlattenUnique ==
  ASSUME NEW m \in Nat, NEW ss, NEW f, Joins(ss, m, f), NEW g, Joins(ss, m, g)
  PROVE  \A i \in 1..m : f[i] = g[i]
<1> DEFINE B == {i \in 1..m : f[i] # g[i]}
<1>1. SUFFICES ASSUME B # {} PROVE FALSE
  OBVIOUS
<1>2. PICK j \in B : \A i \in B : j <= i
  <2>1. B \subseteq Nat
    OBVIOUS
  <2> HIDE DEF B
  <2> QED
    BY <1>1, <2>1, LeastNumber
<1>3. j \in 1..m /\ f[j] # g[j]
  OBVIOUS
<1>4. j # 1
  BY <1>3 DEF Joins
<1>5. j - 1 \in 1..m /\ j - 1 \notin B
  BY <1>2, <1>3, <1>4
<1>6. f[j-1] = g[j-1]
  BY <1>5
<1> QED
  BY <1>3, <1>4, <1>6 DEF Joins

(* ... and joins parts from the left.                                      *)
LEMMA FlattenEmpty ==
  ASSUME NEW T, NEW f \in [1..0 -> T]
  PROVE  FlattenSeq(f) = <<>>
<1>1. f = <<>> /\ Len(f) = 0
  OBVIOUS
<1> QED
  BY <1>1 DEF FlattenSeq

LEMMA FlattenLast ==
  ASSUME NEW ss, Len(ss) \in Nat \ {0}
  PROVE  \E f : FlattensTo(ss, Len(ss), f) /\ FlattenSeq(ss) = f[Len(ss)]
<1> DEFINE f == CHOOSE f : FlattensTo(ss, Len(ss), f)
<1>1. FlattensTo(ss, Len(ss), f)
  BY FlattenExists
<1>2. FlattenSeq(ss) = f[Len(ss)]
  BY DEF FlattenSeq, FlattensTo
<1> QED
  BY <1>1, <1>2

LEMMA FlattenAppend ==
  ASSUME NEW T, NEW n \in Nat, NEW f \in [1..(n+1) -> Seq(T)],
         NEW g \in [1..n -> Seq(T)], \A i \in 1..n : g[i] = f[i], FlattenSeq(g) \in Seq(T)
  PROVE  /\ FlattenSeq(f) = FlattenSeq(g) \o f[n+1]
         /\ FlattenSeq(f) \in Seq(T)
<1>1. Len(f) = n + 1 /\ Len(g) = n /\ n + 1 \in Nat \ {0} /\ n + 1 \in 1..(n+1) /\ f[n+1] \in Seq(T)
  OBVIOUS
<1>2. PICK F : FlattensTo(f, n + 1, F) /\ FlattenSeq(f) = F[n+1]
  BY <1>1, FlattenLast
<1>3. \A i \in 1..(n+1) : F[i] = IF i = 1 THEN f[i] ELSE F[i-1] \o f[i]
  BY <1>2 DEF FlattensTo
<1>4. FlattenSeq(f) = IF n = 0 THEN f[n+1] ELSE F[n] \o f[n+1]
  BY <1>1, <1>2, <1>3
<1>5. CASE n = 0
  <2>1. FlattenSeq(g) = <<>>
    BY <1>5, FlattenEmpty
  <2> QED
    BY <1>1, <1>4, <1>5, <2>1
<1>6. CASE n # 0
  <2>1. PICK H : FlattensTo(g, n, H) /\ FlattenSeq(g) = H[n]
    BY <1>1, <1>6, FlattenLast
  <2>2. n \in 1..n /\ n + 1 \in Nat /\ n <= n + 1
    BY <1>6
  <2>3. \A i \in 1..n : H[i] = F[i]
    <3>1. Joins(f, n, H)
      BY <2>1 DEF FlattensTo, Joins
    <3>2. Joins(f, n, F)
      BY <1>3 DEF Joins
    <3> QED
      BY <3>1, <3>2, FlattenUnique
  <2>4. H[n] = F[n]
    BY <2>2, <2>3
  <2>5. FlattenSeq(f) = FlattenSeq(g) \o f[n+1]
    BY <1>4, <1>6, <2>1, <2>4
  <2> QED
    BY <1>1, <2>5
<1> QED
  BY <1>5, <1>6

-----------------------------------------------------------------------------
(***************************************************************************)
(* escapeApplicationId, one atom of the id after the other, and            *)
(* unescapeApplicationId, which undoes it.                                 *)
(***************************************************************************)
Digits == {"2d", "40", "5c", "20", "2e"}
Alphabet(id) == {id[i] : i \in DOMAIN id} \cup {"-", "@", "\\", " ", ".", "x"} \cup Digits

EscapedPart(id, i) ==
  CASE id[i] = "/" -> <<"-">>
    [] id[i] \in Escapable \/ (i = 1 /\ id[i] = ".") -> Escape(id[i])
    [] OTHER -> <<id[i]>>

UnescapedPart(text, i) ==
  CASE EscapeAt(text, i) -> <<Byte[text[i + 2]]>>
    [] EscapeAt(text, i - 1) \/ EscapeAt(text, i - 2) -> <<>>
    [] OTHER -> <<text[i]>>

LEMMA PartsOf ==
  ASSUME NEW text
  PROVE  /\ escapeApplicationId(text) = FlattenSeq([i \in DOMAIN text |-> EscapedPart(text, i)])
         /\ unescapeApplicationId(text) = FlattenSeq([i \in DOMAIN text |-> UnescapedPart(text, i)])
  BY Zenon DEF escapeApplicationId, unescapeApplicationId, EscapedPart, UnescapedPart

LEMMA ByteValues ==
  /\ DOMAIN Byte = Digits
  /\ \A h \in Digits : Byte[h] \in {"-", "@", "\\", " ", "."}
  /\ \A c \in Escapable \cup {"."} : \E h \in Digits : Byte[h] = c
<1>1. DOMAIN Byte = Digits
  BY DEF Byte, Digits
<1>2. Byte["2d"] = "-" /\ Byte["40"] = "@" /\ Byte["5c"] = "\\" /\ Byte["20"] = " " /\ Byte["2e"] = "."
  BY DEF Byte
<1> QED
  BY <1>1, <1>2 DEF Digits, Escapable

LEMMA EscapeIs ==
  ASSUME NEW c \in Escapable \cup {"."}
  PROVE  \E h \in Digits : Byte[h] = c /\ Escape(c) = <<"\\", "x", h>>
<1> DEFINE h == CHOOSE h \in DOMAIN Byte : Byte[h] = c
<1>1. h \in Digits /\ Byte[h] = c
  BY ByteValues
<1>2. Escape(c) = <<"\\", "x", h>>
  BY DEF Escape
<1> QED
  BY <1>1, <1>2

(* What becomes of an atom of an id.                                       *)
LEMMA EscapedPartIs ==
  ASSUME NEW id, NEW i \in DOMAIN id
  PROVE  \/ id[i] = "/" /\ EscapedPart(id, i) = <<"-">>
         \/ id[i] # "/" /\ \E h \in Digits : Byte[h] = id[i] /\ EscapedPart(id, i) = <<"\\", "x", h>>
         \/ id[i] \notin {"/", "-", "@", "\\"} /\ EscapedPart(id, i) = <<id[i]>>
<1>1. CASE id[i] = "/"
  BY <1>1 DEF EscapedPart, Escapable
<1>2. CASE id[i] # "/" /\ (id[i] \in Escapable \/ (i = 1 /\ id[i] = "."))
  <2>1. EscapedPart(id, i) = Escape(id[i])
    BY <1>2 DEF EscapedPart
  <2>2. id[i] \in Escapable \cup {"."}
    BY <1>2
  <2> QED
    BY <1>2, <2>1, <2>2, EscapeIs
<1>3. CASE id[i] # "/" /\ ~(id[i] \in Escapable \/ (i = 1 /\ id[i] = "."))
  BY <1>3 DEF EscapedPart, Escapable
<1> QED
  BY <1>1, <1>2, <1>3

LEMMA EscapedPartType ==
  ASSUME NEW id, NEW i \in DOMAIN id
  PROVE  EscapedPart(id, i) \in Seq(Alphabet(id))
<1>1. id[i] \in Alphabet(id) /\ "-" \in Alphabet(id) /\ "\\" \in Alphabet(id) /\ "x" \in Alphabet(id)
      /\ \A h \in Digits : h \in Alphabet(id)
  BY DEF Alphabet
<1> DEFINE T == Alphabet(id)
<1> HIDE DEF T
<1>2. CASE EscapedPart(id, i) = <<"-">>
  BY <1>1, <1>2 DEF T
<1>3. ASSUME NEW h \in Digits, EscapedPart(id, i) = <<"\\", "x", h>> PROVE EscapedPart(id, i) \in Seq(T)
  BY <1>1, <1>3 DEF T
<1>4. CASE EscapedPart(id, i) = <<id[i]>>
  BY <1>1, <1>4 DEF T
<1> QED
  BY <1>2, <1>3, <1>4, EscapedPartIs DEF T

IsText(id) == id \in Seq({id[i] : i \in DOMAIN id})

LEMMA TextIs ==
  ASSUME NEW id, IsText(id)
  PROVE  Len(id) \in Nat /\ DOMAIN id = 1..Len(id) /\ id \in Seq(Alphabet(id))
<1>1. Len(id) \in Nat /\ DOMAIN id = 1..Len(id)
  BY DEF IsText
<1>2. \A i \in 1..Len(id) : id[i] \in Alphabet(id)
  BY <1>1 DEF Alphabet
<1> QED
  BY <1>1, <1>2 DEF IsText

(* The first k atoms of an id, escaped.                                    *)
EscapedUpTo(id, k) == FlattenSeq([i \in 1..k |-> EscapedPart(id, i)])

LEMMA EscapedNext ==
  ASSUME NEW id, IsText(id), NEW T, \A i \in 1..Len(id) : EscapedPart(id, i) \in Seq(T)
  PROVE  /\ EscapedUpTo(id, 0) = <<>>
         /\ \A k \in 1..Len(id) :
              EscapedUpTo(id, k - 1) \in Seq(T) =>
                /\ EscapedUpTo(id, k) = EscapedUpTo(id, k - 1) \o EscapedPart(id, k)
                /\ EscapedUpTo(id, k) \in Seq(T)
         /\ EscapedUpTo(id, Len(id)) = escapeApplicationId(id)
<1>1. Len(id) \in Nat /\ DOMAIN id = 1..Len(id)
  BY TextIs
<1>2. EscapedUpTo(id, 0) = <<>>
  <2>1. [i \in 1..0 |-> EscapedPart(id, i)] \in [1..0 -> {}]
    OBVIOUS
  <2> QED
    BY <2>1, FlattenEmpty DEF EscapedUpTo
<1>3. ASSUME NEW k \in 1..Len(id), EscapedUpTo(id, k - 1) \in Seq(T)
      PROVE  /\ EscapedUpTo(id, k) = EscapedUpTo(id, k - 1) \o EscapedPart(id, k)
             /\ EscapedUpTo(id, k) \in Seq(T)
  <2> DEFINE n == k - 1
             f == [i \in 1..(n+1) |-> EscapedPart(id, i)]
             g == [i \in 1..n |-> EscapedPart(id, i)]
  <2>1. n \in Nat /\ n + 1 = k
    OBVIOUS
  <2>2. \A i \in 1..(n+1) : EscapedPart(id, i) \in Seq(T)
    BY <1>1, <2>1
  <2>3. f \in [1..(n+1) -> Seq(T)] /\ g \in [1..n -> Seq(T)] /\ f[n+1] = EscapedPart(id, n + 1)
        /\ \A i \in 1..n : g[i] = f[i]
    BY <2>1, <2>2
  <2>4. FlattenSeq(g) \in Seq(T)
    BY <1>3 DEF EscapedUpTo
  <2> HIDE DEF f, g, n
  <2>5. FlattenSeq(f) = FlattenSeq(g) \o f[n+1] /\ FlattenSeq(f) \in Seq(T)
    BY <2>1, <2>3, <2>4, FlattenAppend
  <2> QED
    BY <2>1, <2>3, <2>5, Zenon DEF EscapedUpTo, f, g, n
<1>4. EscapedUpTo(id, Len(id)) = escapeApplicationId(id)
  BY <1>1, PartsOf DEF EscapedUpTo
<1> QED
  BY <1>2, <1>3, <1>4

(* All of an escaped id is made of what its atoms become.                  *)
LEMMA EscapedType ==
  ASSUME NEW id, IsText(id), NEW T, \A i \in 1..Len(id) : EscapedPart(id, i) \in Seq(T)
  PROVE  \A k \in 0..Len(id) : EscapedUpTo(id, k) \in Seq(T)
<1> DEFINE G == {k \in 0..Len(id) : EscapedUpTo(id, k) \in Seq(T)}
<1>1. Len(id) \in Nat
  BY TextIs
<1>2. 0 \in G
  <2>1. EscapedUpTo(id, 0) = <<>>
    BY EscapedNext
  <2>2. 0 \in 0..Len(id) /\ <<>> \in Seq(T)
    BY <1>1
  <2> QED
    BY <2>1, <2>2, Zenon
<1>3. \A i \in 1..Len(id) : i - 1 \in G => i \in G
  <2>1. \A k \in 1..Len(id) : EscapedUpTo(id, k - 1) \in Seq(T) => EscapedUpTo(id, k) \in Seq(T)
    BY EscapedNext
  <2> QED
    BY <1>1, <2>1
<1>4. ASSUME NEW k \in 0..Len(id) PROVE k \in G
  <2> HIDE DEF G
  <2>1. k \in Nat /\ \A i \in 1..k : i \in 1..Len(id)
    BY <1>1
  <2>2. \A i \in 1..k : i - 1 \in G => i \in G
    BY <1>3, <2>1
  <2> QED
    BY <1>2, <2>1, <2>2, AllAlong
<1> QED
  BY <1>4

(* The text that the first k atoms of an escaped text stand for.           *)
UnescapedUpTo(text, k) == FlattenSeq([i \in 1..k |-> UnescapedPart(text, i)])

ByteAtoms == {"-", "@", "\\", " ", "."}

(* Escaped bytes do not overlap. *)
LEMMA EscapesApart ==
  ASSUME NEW text, NEW i \in Int, EscapeAt(text, i)
  PROVE  ~EscapeAt(text, i - 1) /\ ~EscapeAt(text, i - 2)
<1>1. text[i] = "\\"
  BY DEF EscapeAt
<1>2. (i - 1) + 1 = i /\ (i - 2) + 2 = i
  OBVIOUS
<1>3. EscapeAt(text, i - 1) => text[i] = "x"
  BY <1>2 DEF EscapeAt
<1>4. EscapeAt(text, i - 2) => text[i] \in Digits
  BY <1>2, ByteValues DEF EscapeAt
<1> QED
  BY <1>1, <1>3, <1>4 DEF Digits

LEMMA UnescapedPartType ==
  ASSUME NEW T, ByteAtoms \subseteq T, NEW text \in Seq(T), NEW i \in 1..Len(text)
  PROVE  UnescapedPart(text, i) \in Seq(T)
<1>1. CASE EscapeAt(text, i)
  <2>1. text[i + 2] \in Digits
    BY <1>1, ByteValues DEF EscapeAt
  <2>2. Byte[text[i + 2]] \in T
    BY <2>1, ByteValues DEF ByteAtoms
  <2>3. UnescapedPart(text, i) = <<Byte[text[i + 2]]>>
    BY <1>1, EscapesApart DEF UnescapedPart
  <2> QED
    BY <2>2, <2>3
<1>2. CASE ~EscapeAt(text, i)
  <2>1. UnescapedPart(text, i) = <<>> \/ UnescapedPart(text, i) = <<text[i]>>
    BY <1>2 DEF UnescapedPart
  <2>2. <<text[i]>> \in Seq(T) /\ <<>> \in Seq(T)
    OBVIOUS
  <2> QED
    BY <2>1, <2>2, Zenon
<1> QED
  BY <1>1, <1>2

LEMMA UnescapedNext ==
  ASSUME NEW T, ByteAtoms \subseteq T, NEW text \in Seq(T)
  PROVE  /\ UnescapedUpTo(text, 0) = <<>>
         /\ \A k \in 1..Len(text) :
              UnescapedUpTo(text, k - 1) \in Seq(T) =>
                /\ UnescapedUpTo(text, k) = UnescapedUpTo(text, k - 1) \o UnescapedPart(text, k)
                /\ UnescapedUpTo(text, k) \in Seq(T)
         /\ UnescapedUpTo(text, Len(text)) = unescapeApplicationId(text)
<1>1. Len(text) \in Nat /\ DOMAIN text = 1..Len(text)
  OBVIOUS
<1>2. UnescapedUpTo(text, 0) = <<>>
  <2>1. [i \in 1..0 |-> UnescapedPart(text, i)] \in [1..0 -> {}]
    OBVIOUS
  <2> QED
    BY <2>1, FlattenEmpty DEF UnescapedUpTo
<1>3. ASSUME NEW k \in 1..Len(text), UnescapedUpTo(text, k - 1) \in Seq(T)
      PROVE  /\ UnescapedUpTo(text, k) = UnescapedUpTo(text, k - 1) \o UnescapedPart(text, k)
             /\ UnescapedUpTo(text, k) \in Seq(T)
  <2> DEFINE n == k - 1
             f == [i \in 1..(n+1) |-> UnescapedPart(text, i)]
             g == [i \in 1..n |-> UnescapedPart(text, i)]
  <2>1. n \in Nat /\ n + 1 = k
    OBVIOUS
  <2>2. \A i \in 1..(n+1) : UnescapedPart(text, i) \in Seq(T)
    <3>1. \A i \in 1..Len(text) : UnescapedPart(text, i) \in Seq(T)
      BY UnescapedPartType
    <3> QED
      BY <1>1, <2>1, <3>1
  <2>3. f \in [1..(n+1) -> Seq(T)] /\ g \in [1..n -> Seq(T)] /\ f[n+1] = UnescapedPart(text, n + 1)
        /\ \A i \in 1..n : g[i] = f[i]
    BY <2>1, <2>2
  <2>4. FlattenSeq(g) \in Seq(T)
    BY <1>3 DEF UnescapedUpTo
  <2> HIDE DEF f, g, n
  <2>5. FlattenSeq(f) = FlattenSeq(g) \o f[n+1] /\ FlattenSeq(f) \in Seq(T)
    BY <2>1, <2>3, <2>4, FlattenAppend
  <2> QED
    BY <2>1, <2>3, <2>5, Zenon DEF UnescapedUpTo, f, g, n
<1>4. UnescapedUpTo(text, Len(text)) = unescapeApplicationId(text)
  BY <1>1, PartsOf DEF UnescapedUpTo
<1> QED
  BY <1>2, <1>3, <1>4

LEMMA UnescapedStep ==
  ASSUME NEW T, ByteAtoms \subseteq T, NEW text \in Seq(T), NEW m \in 1..Len(text), NEW k \in Nat, m = k + 1,
         UnescapedUpTo(text, k) \in Seq(T)
  PROVE  UnescapedUpTo(text, m) = UnescapedUpTo(text, k) \o UnescapedPart(text, m)
<1>1. m - 1 = k
  OBVIOUS
<1>2. UnescapedUpTo(text, m - 1) \in Seq(T)
  BY <1>1, Zenon
<1>3. UnescapedUpTo(text, m) = UnescapedUpTo(text, m - 1) \o UnescapedPart(text, m)
  <2>1. \A i \in 1..Len(text) : UnescapedUpTo(text, i - 1) \in Seq(T) =>
          UnescapedUpTo(text, i) = UnescapedUpTo(text, i - 1) \o UnescapedPart(text, i)
    BY UnescapedNext
  <2> QED
    BY <1>2, <2>1, Zenon
<1> QED
  BY <1>1, <1>3, Zenon

(* A text stands for another and ends with no part of an escaped byte.     *)
Closed(text) == \A j \in 1..Len(text) : text[j] = "\\" => j + 2 <= Len(text)
Encodes(text, plain, T) ==
  /\ text \in Seq(T) /\ plain \in Seq(T)
  /\ Closed(text)
  /\ unescapeApplicationId(text) = plain

LEMMA EncodesNothing ==
  ASSUME NEW T
  PROVE  Encodes(<<>>, <<>>, T)
<1>1. unescapeApplicationId(<<>>) = <<>>
  <2>1. [i \in DOMAIN <<>> |-> UnescapedPart(<<>>, i)] \in [1..0 -> {}]
    OBVIOUS
  <2> QED
    BY <2>1, FlattenEmpty, PartsOf
<1> QED
  BY <1>1 DEF Encodes, Closed

(* What comes after it changes nothing in it. *)
LEMMA ClosedStart ==
  ASSUME NEW T, ByteAtoms \subseteq T, NEW text \in Seq(T), Closed(text), NEW more \in Seq(T)
  PROVE  /\ UnescapedUpTo(text \o more, Len(text)) = unescapeApplicationId(text)
         /\ \A i \in Int : i <= Len(text) => (EscapeAt(text \o more, i) <=> EscapeAt(text, i))
         /\ ~EscapeAt(text, Len(text)) /\ ~EscapeAt(text, Len(text) - 1)
<1> DEFINE all == text \o more
           n == Len(text)
<1>1. /\ all \in Seq(T) /\ Len(all) = n + Len(more) /\ n \in Nat /\ Len(more) \in Nat
      /\ \A i \in 1..n : all[i] = text[i]
      /\ DOMAIN text = 1..n
  OBVIOUS
<1> HIDE DEF all
<1>2. ASSUME NEW i \in Int, i <= n PROVE EscapeAt(all, i) <=> EscapeAt(text, i)
  <2>1. CASE i < 1
    BY <2>1, <1>1 DEF EscapeAt
  <2>2. CASE i >= 1 /\ all[i] = "\\"
    <3>1. i \in 1..n /\ text[i] = "\\" /\ i + 2 <= n
      BY <1>1, <1>2, <2>2 DEF Closed
    <3>2. i + 1 \in 1..n /\ i + 2 \in 1..n /\ i \in 1..(n - 2) /\ i \in 1..(Len(all) - 2)
      BY <1>1, <3>1
    <3> QED
      BY <1>1, <3>1, <3>2 DEF EscapeAt
  <2>3. CASE i >= 1 /\ all[i] # "\\"
    BY <1>1, <1>2, <2>3 DEF EscapeAt
  <2> QED
    BY <2>1, <2>2, <2>3
<1>3. \A i \in 1..n : UnescapedPart(all, i) = UnescapedPart(text, i)
  <2> TAKE i \in 1..n
  <2>1. /\ EscapeAt(all, i) <=> EscapeAt(text, i)
        /\ EscapeAt(all, i - 1) <=> EscapeAt(text, i - 1)
        /\ EscapeAt(all, i - 2) <=> EscapeAt(text, i - 2)
    BY <1>1, <1>2
  <2>2. EscapeAt(text, i) => i + 2 \in 1..n
    BY <1>1 DEF EscapeAt
  <2>3. all[i] = text[i] /\ (EscapeAt(text, i) => all[i + 2] = text[i + 2])
    BY <1>1, <2>2
  <2>4. CASE EscapeAt(text, i)
    <3>1. ~EscapeAt(text, i - 1) /\ ~EscapeAt(text, i - 2)
      BY <2>4, EscapesApart
    <3> QED
      BY <2>1, <2>3, <2>4, <3>1 DEF UnescapedPart
  <2>5. CASE ~EscapeAt(text, i)
    BY <2>1, <2>3, <2>5 DEF UnescapedPart
  <2> QED
    BY <2>4, <2>5
<1>4. [i \in 1..n |-> UnescapedPart(all, i)] = [i \in 1..n |-> UnescapedPart(text, i)]
  BY <1>3
<1>5. UnescapedUpTo(all, n) = unescapeApplicationId(text)
  BY <1>1, <1>4, PartsOf, Zenon DEF UnescapedUpTo
<1> QED
  BY <1>1, <1>2, <1>5 DEF EscapeAt, all

LEMMA EncodesPlain ==
  ASSUME NEW T, ByteAtoms \subseteq T, NEW text, NEW plain, Encodes(text, plain, T), NEW c \in T, c # "\\"
  PROVE  Encodes(text \o <<c>>, plain \o <<c>>, T)
<1> DEFINE all == text \o <<c>>
           n == Len(text)
<1>1. text \in Seq(T) /\ plain \in Seq(T) /\ Closed(text) /\ unescapeApplicationId(text) = plain
  BY DEF Encodes
<1>2. /\ all \in Seq(T) /\ n \in Nat /\ Len(all) = n + 1 /\ all[n + 1] = c
      /\ \A i \in 1..n : all[i] = text[i]
      /\ <<c>> \in Seq(T)
  BY <1>1
<1>3. /\ UnescapedUpTo(all, n) = plain
      /\ \A i \in Int : i <= n => (EscapeAt(all, i) <=> EscapeAt(text, i))
      /\ ~EscapeAt(text, n) /\ ~EscapeAt(text, n - 1)
  BY <1>1, <1>2, ClosedStart
<1> HIDE DEF all, n
<1>4. UnescapedPart(all, n + 1) = <<c>>
  <2>1. ~EscapeAt(all, n) /\ ~EscapeAt(all, n - 1)
    BY <1>2, <1>3
  <2>2. ~EscapeAt(all, n + 1)
    BY <1>2 DEF EscapeAt
  <2>3. (n + 1) - 1 = n /\ (n + 1) - 2 = n - 1
    BY <1>2
  <2> QED
    BY <1>2, <2>1, <2>2, <2>3 DEF UnescapedPart
<1>5. unescapeApplicationId(all) = plain \o <<c>>
  <2> DEFINE m == n + 1
  <2>1. m \in 1..Len(all) /\ m = n + 1 /\ m = Len(all)
    BY <1>2
  <2> HIDE DEF m
  <2>2. UnescapedUpTo(all, m) = plain \o UnescapedPart(all, m)
    BY <1>1, <1>2, <1>3, <2>1, UnescapedStep
  <2>3. UnescapedUpTo(all, m) = unescapeApplicationId(all)
    BY <1>2, <2>1, UnescapedNext
  <2> QED
    BY <1>4, <2>1, <2>2, <2>3
<1>6. Closed(all)
  BY <1>1, <1>2 DEF Closed, n
<1> QED
  BY <1>1, <1>2, <1>5, <1>6 DEF Encodes, all, n

LEMMA EncodesByte ==
  ASSUME NEW T, ByteAtoms \subseteq T, Digits \cup {"x"} \subseteq T,
         NEW text, NEW plain, Encodes(text, plain, T), NEW h \in Digits
  PROVE  Encodes(text \o <<"\\", "x", h>>, plain \o <<Byte[h]>>, T)
<1> DEFINE more == <<"\\", "x", h>>
           all == text \o more
           n == Len(text)
<1>1. text \in Seq(T) /\ plain \in Seq(T) /\ Closed(text) /\ unescapeApplicationId(text) = plain
  BY DEF Encodes
<1>2. "\\" \in T /\ "x" \in T /\ h \in T /\ Byte[h] \in T /\ h \in DOMAIN Byte /\ h # "\\"
  BY ByteValues DEF ByteAtoms, Digits
<1>3. /\ more \in Seq(T) /\ all \in Seq(T) /\ n \in Nat /\ Len(all) = n + 3
      /\ all[n + 1] = "\\" /\ all[n + 2] = "x" /\ all[n + 3] = h
      /\ \A i \in 1..n : all[i] = text[i]
  BY <1>1, <1>2
<1>4. /\ UnescapedUpTo(all, n) = plain
      /\ \A i \in Int : i <= n => (EscapeAt(all, i) <=> EscapeAt(text, i))
      /\ ~EscapeAt(text, n) /\ ~EscapeAt(text, n - 1)
  <2> HIDE DEF more
  <2> QED
    BY <1>1, <1>3, ClosedStart
<1> HIDE DEF all, more, n
<1>5. EscapeAt(all, n + 1) /\ ~EscapeAt(all, n) /\ ~EscapeAt(all, n - 1)
  <2>1. n + 1 \in 1..(Len(all) - 2) /\ (n + 1) + 1 = n + 2 /\ (n + 1) + 2 = n + 3
    BY <1>3
  <2> QED
    BY <1>2, <1>3, <1>4, <2>1 DEF EscapeAt
<1>6. ~EscapeAt(all, n + 2) /\ ~EscapeAt(all, n + 3)
  BY <1>3 DEF EscapeAt
<1>7. UnescapedPart(all, n + 1) = <<Byte[h]>>
  <2>1. (n + 1) - 1 = n /\ (n + 1) - 2 = n - 1 /\ (n + 1) + 2 = n + 3
    BY <1>3
  <2> QED
    BY <1>3, <1>5, <2>1 DEF UnescapedPart
<1>8. UnescapedPart(all, n + 2) = <<>> /\ UnescapedPart(all, n + 3) = <<>>
  <2>1. (n + 2) - 1 = n + 1 /\ (n + 3) - 2 = n + 1
    BY <1>3
  <2> QED
    BY <1>5, <1>6, <2>1 DEF UnescapedPart
<1> DEFINE value == plain \o <<Byte[h]>>
<1>9. value \in Seq(T) /\ value \o <<>> = value
  BY <1>1, <1>2
<1> HIDE DEF value
<1>10. ASSUME NEW k \in Nat, NEW m \in 1..Len(all), m = k + 1, UnescapedUpTo(all, k) \in Seq(T)
       PROVE  UnescapedUpTo(all, m) = UnescapedUpTo(all, k) \o UnescapedPart(all, m)
  BY <1>3, <1>10, UnescapedStep
<1>11. UnescapedUpTo(all, n + 1) = value
  <2>1. n + 1 \in 1..Len(all) /\ n \in Nat
    BY <1>3
  <2> QED
    BY <1>1, <1>4, <1>7, <2>1, <1>10, Zenon DEF value
<1>12. UnescapedUpTo(all, n + 2) = value
  <2>1. n + 2 \in 1..Len(all) /\ n + 1 \in Nat /\ n + 2 = (n + 1) + 1
    BY <1>3
  <2> QED
    BY <1>8, <1>9, <1>10, <1>11, <2>1, Zenon
<1>13. UnescapedUpTo(all, n + 3) = value
  <2>1. n + 3 \in 1..Len(all) /\ n + 2 \in Nat /\ n + 3 = (n + 2) + 1
    BY <1>3
  <2> QED
    BY <1>8, <1>9, <1>10, <1>12, <2>1, Zenon
<1>14. unescapeApplicationId(all) = value
  BY <1>3, <1>13, UnescapedNext
<1>15. Closed(all)
  <2>1. ASSUME NEW j \in 1..Len(all), all[j] = "\\" PROVE j + 2 <= Len(all)
    <3>1. CASE j \in 1..n
      BY <1>1, <1>3, <2>1, <3>1 DEF Closed, n
    <3>2. CASE j = n + 1
      BY <1>3, <3>2
    <3>3. CASE j = n + 2 \/ j = n + 3
      BY <1>2, <1>3, <2>1, <3>3
    <3> QED
      BY <1>3, <3>1, <3>2, <3>3
  <2> QED
    BY <2>1 DEF Closed
<1> QED
  BY <1>1, <1>3, <1>9, <1>14, <1>15 DEF Encodes, all, more, n, value

(* What an escaped id is made of, if the id has no "/".                    *)
Kept(id) == {id[i] : i \in DOMAIN id} \ {"-", "@", "/"}
Safe(id) == Kept(id) \cup {"\\", "x"} \cup Digits

LEMMA SafeParts ==
  ASSUME NEW id, IsText(id), Places(id, "/") = {}
  PROVE  \A i \in 1..Len(id) : EscapedPart(id, i) \in Seq(Safe(id))
<1> TAKE i \in 1..Len(id)
<1>1. i \in DOMAIN id /\ id[i] # "/"
  BY TextIs DEF Places
<1>2. "\\" \in Safe(id) /\ "x" \in Safe(id) /\ \A h \in Digits : h \in Safe(id)
  BY DEF Safe
<1> DEFINE T == Safe(id)
<1>3. id[i] \notin {"/", "-", "@", "\\"} => id[i] \in T
  BY <1>1 DEF Safe, Kept
<1> HIDE DEF T
<1>4. ASSUME NEW h \in Digits, EscapedPart(id, i) = <<"\\", "x", h>> PROVE EscapedPart(id, i) \in Seq(T)
  BY <1>2, <1>4 DEF T
<1>5. CASE EscapedPart(id, i) = <<id[i]>> /\ id[i] \in T
  <2>1. \A c \in T : <<c>> \in Seq(T)
    OBVIOUS
  <2> QED
    BY <1>5, <2>1, Zenon DEF T
<1> QED
  BY <1>1, <1>3, <1>4, <1>5, EscapedPartIs DEF T

LEMMA AnyParts ==
  ASSUME NEW id, IsText(id)
  PROVE  \A i \in 1..Len(id) : EscapedPart(id, i) \in Seq(Alphabet(id))
<1> TAKE i \in 1..Len(id)
<1>1. i \in DOMAIN id
  BY TextIs
<1> QED
  BY <1>1, EscapedPartType

LEMMA EscapedIsText ==
  ASSUME NEW id, IsText(id)
  PROVE  /\ escapeApplicationId(id) \in Seq(Alphabet(id))
         /\ Places(id, "/") = {} => escapeApplicationId(id) \in Seq(Safe(id))
<1>1. Len(id) \in Nat /\ Len(id) \in 0..Len(id)
  BY TextIs
<1>2. EscapedUpTo(id, Len(id)) = escapeApplicationId(id)
  BY AnyParts, EscapedNext
<1>3. EscapedUpTo(id, Len(id)) \in Seq(Alphabet(id))
  BY <1>1, AnyParts, EscapedType, Zenon
<1>4. ASSUME Places(id, "/") = {} PROVE EscapedUpTo(id, Len(id)) \in Seq(Safe(id))
  BY <1>1, <1>4, SafeParts, EscapedType, Zenon
<1> QED
  BY <1>2, <1>3, <1>4

LEMMA NextPrefix ==
  ASSUME NEW T, NEW text \in Seq(T), NEW k \in 1..Len(text)
  PROVE  SubSeq(text, 1, k) = SubSeq(text, 1, k - 1) \o <<text[k]>>
  OBVIOUS

(* unescapeApplicationId undoes escapeApplicationId for every id without a *)
(* "/", which is the one character that is not escaped but replaced.       *)
THEOREM UnescapeUndoes ==
  ASSUME NEW id, IsText(id), Places(id, "/") = {}
  PROVE  unescapeApplicationId(escapeApplicationId(id)) = id
<1> DEFINE T == Alphabet(id)
           n == Len(id)
           G == {k \in 0..n : Encodes(EscapedUpTo(id, k), SubSeq(id, 1, k), T)}
<1>1. n \in Nat /\ DOMAIN id = 1..n /\ id \in Seq(T)
  BY TextIs
<1>2. ByteAtoms \subseteq T /\ Digits \cup {"x"} \subseteq T
  BY DEF Alphabet, ByteAtoms
<1> HIDE DEF T
<1>3. 0 \in G
  <2>1. EscapedUpTo(id, 0) = <<>>
    BY AnyParts, EscapedNext
  <2>2. SubSeq(id, 1, 0) = <<>> /\ 0 \in 0..n
    BY <1>1
  <2> QED
    BY <2>1, <2>2, EncodesNothing, Zenon
<1>4. ASSUME NEW k \in 1..n, Encodes(EscapedUpTo(id, k - 1), SubSeq(id, 1, k - 1), T)
      PROVE  Encodes(EscapedUpTo(id, k), SubSeq(id, 1, k), T)
  <2> DEFINE e == EscapedUpTo(id, k - 1)
             p == SubSeq(id, 1, k - 1)
  <2>1. Encodes(e, p, T) /\ e \in Seq(T)
    BY <1>4 DEF Encodes
  <2>2. EscapedUpTo(id, k) = e \o EscapedPart(id, k)
    <3>1. \A i \in 1..n : EscapedPart(id, i) \in Seq(T)
      BY AnyParts DEF T
    <3>2. \A i \in 1..n : EscapedUpTo(id, i - 1) \in Seq(T) =>
            EscapedUpTo(id, i) = EscapedUpTo(id, i - 1) \o EscapedPart(id, i)
      BY <3>1, EscapedNext
    <3> QED
      BY <2>1, <3>2, Zenon
  <2>3. SubSeq(id, 1, k) = p \o <<id[k]>>
    BY <1>1, NextPrefix, Zenon
  <2>4. id[k] \in T /\ id[k] # "/" /\ k \in DOMAIN id
    BY <1>1 DEF Places
  <2> HIDE DEF e, p
  <2>5. ASSUME NEW h \in Digits, Byte[h] = id[k], EscapedPart(id, k) = <<"\\", "x", h>>
        PROVE  Encodes(EscapedUpTo(id, k), SubSeq(id, 1, k), T)
    <3>1. Encodes(e \o <<"\\", "x", h>>, p \o <<Byte[h]>>, T)
      BY <1>2, <2>1, EncodesByte
    <3> QED
      BY <2>2, <2>3, <2>5, <3>1, Zenon
  <2>6. CASE id[k] # "\\" /\ EscapedPart(id, k) = <<id[k]>>
    <3>1. Encodes(e \o <<id[k]>>, p \o <<id[k]>>, T)
      BY <1>2, <2>1, <2>4, <2>6, EncodesPlain
    <3> QED
      BY <2>2, <2>3, <2>6, <3>1, Zenon
  <2> QED
    BY <2>4, <2>5, <2>6, EscapedPartIs
<1>5. n \in G
  <2>1. \A k \in 1..n : k - 1 \in G => k \in G
    BY <1>1, <1>4
  <2> HIDE DEF G, n
  <2> QED
    BY <1>1, <1>3, <2>1, AllAlong
<1>6. EscapedUpTo(id, n) = escapeApplicationId(id)
  BY AnyParts, EscapedNext
<1>7. SubSeq(id, 1, n) = id
  BY <1>1
<1> QED
  BY <1>5, <1>6, <1>7 DEF Encodes

(* A text without a "\" stands for itself.                                 *)
LEMMA PlainKept ==
  ASSUME NEW id, IsText(id), Places(id, "\\") = {}
  PROVE  unescapeApplicationId(id) = id
<1> DEFINE T == Alphabet(id)
           n == Len(id)
           G == {k \in 0..n : Encodes(SubSeq(id, 1, k), SubSeq(id, 1, k), T)}
<1>1. n \in Nat /\ DOMAIN id = 1..n /\ id \in Seq(T)
  BY TextIs
<1>2. ByteAtoms \subseteq T
  BY DEF Alphabet, ByteAtoms
<1> HIDE DEF T
<1>3. 0 \in G
  <2>1. SubSeq(id, 1, 0) = <<>> /\ 0 \in 0..n
    BY <1>1
  <2> QED
    BY <2>1, EncodesNothing, Zenon
<1>4. ASSUME NEW k \in 1..n, Encodes(SubSeq(id, 1, k - 1), SubSeq(id, 1, k - 1), T)
      PROVE  Encodes(SubSeq(id, 1, k), SubSeq(id, 1, k), T)
  <2>1. id[k] \in T /\ id[k] # "\\"
    BY <1>1 DEF Places
  <2> DEFINE p == SubSeq(id, 1, k - 1)
  <2>2. SubSeq(id, 1, k) = p \o <<id[k]>>
    BY <1>1, NextPrefix, Zenon
  <2>3. Encodes(p, p, T)
    BY <1>4
  <2> HIDE DEF p
  <2>4. Encodes(p \o <<id[k]>>, p \o <<id[k]>>, T)
    BY <1>2, <2>1, <2>3, EncodesPlain
  <2> QED
    BY <2>2, <2>4, Zenon
<1>5. n \in G
  <2>1. \A k \in 1..n : k - 1 \in G => k \in G
    BY <1>1, <1>4
  <2> HIDE DEF G, n
  <2> QED
    BY <1>1, <1>3, <2>1, AllAlong
<1>6. SubSeq(id, 1, n) = id
  BY <1>1
<1> QED
  BY <1>5, <1>6 DEF Encodes

(* A ":" of an escaped id follows no suffix of a unit, if it follows none  *)
(* in the id.                                                              *)
UnitSuffixes == {"service", "scope"}
ColonsApart(text) == \A j \in 2..Len(text) : text[j] = ":" => text[j - 1] \notin UnitSuffixes

LEMMA ColonsStayApart ==
  ASSUME NEW id, IsText(id), \A i \in Places(id, ":") : i # 1 => id[i - 1] \notin UnitSuffixes
  PROVE  ColonsApart(escapeApplicationId(id))
<1> DEFINE T == Alphabet(id)
           n == Len(id)
           Ends(e, k) == Len(e) >= 1 /\ e[Len(e)] \in UnitSuffixes => k >= 1 /\ id[k] \in UnitSuffixes
           G == {k \in 0..n : ColonsApart(EscapedUpTo(id, k)) /\ Ends(EscapedUpTo(id, k), k)}
<1>1. n \in Nat /\ DOMAIN id = 1..n /\ id \in Seq(T)
  BY TextIs
<1> HIDE DEF T
<1>2. 0 \in G
  <2>1. EscapedUpTo(id, 0) = <<>>
    BY AnyParts, EscapedNext
  <2>2. 0 \in 0..n /\ ColonsApart(<<>>) /\ Ends(<<>>, 0)
    BY <1>1 DEF ColonsApart
  <2> HIDE DEF Ends
  <2> QED
    BY <2>1, <2>2, Zenon
<1>3. ASSUME NEW k \in 1..n, ColonsApart(EscapedUpTo(id, k - 1)), Ends(EscapedUpTo(id, k - 1), k - 1)
      PROVE  ColonsApart(EscapedUpTo(id, k)) /\ Ends(EscapedUpTo(id, k), k)
  <2> DEFINE e == EscapedUpTo(id, k - 1)
             part == EscapedPart(id, k)
             all == EscapedUpTo(id, k)
  <2>1. e \in Seq(T) /\ part \in Seq(T)
    <3>1. \A i \in 0..n : EscapedUpTo(id, i) \in Seq(T)
      BY AnyParts, EscapedType DEF T
    <3>2. k - 1 \in 0..n
      BY <1>1
    <3> QED
      BY <3>1, <3>2, AnyParts, Zenon DEF T
  <2>2. all = e \o part
    <3>1. \A i \in 1..n : EscapedPart(id, i) \in Seq(T)
      BY AnyParts DEF T
    <3>2. \A i \in 1..n : EscapedUpTo(id, i - 1) \in Seq(T) =>
            EscapedUpTo(id, i) = EscapedUpTo(id, i - 1) \o EscapedPart(id, i)
      BY <3>1, EscapedNext
    <3> QED
      BY <2>1, <3>2, Zenon
  <2>3. ColonsApart(e) /\ Ends(e, k - 1)
    BY <1>3
  <2>4. k \in DOMAIN id /\ (id[k] = ":" => k = 1 \/ id[k - 1] \notin UnitSuffixes)
    BY <1>1 DEF Places
  <2>5. Len(e) \in Nat /\ Len(all) = Len(e) + Len(part) /\ \A i \in 1..Len(e) : all[i] = e[i]
    <3> HIDE DEF e, part, all
    <3> QED
      BY <2>1, <2>2
  <2>6. \/ part = <<"-">>
        \/ \E h \in Digits : part = <<"\\", "x", h>>
        \/ part = <<id[k]>>
    BY <2>4, EscapedPartIs
  <2>7. ASSUME NEW j \in 2..Len(all), all[j] = ":" PROVE all[j - 1] \notin UnitSuffixes
    <3>1. CASE j <= Len(e)
      <4>1. j - 1 \in 1..Len(e) /\ j \in 2..Len(e) /\ j \in 1..Len(e)
        BY <2>5, <3>1
      <4> QED
        BY <2>3, <2>5, <2>7, <4>1 DEF ColonsApart
    <3>2. CASE j > Len(e)
      <4> HIDE DEF e, part, all
      <4>1. CASE part = <<"-">>
        <5>1. Len(part) = 1 /\ j = Len(e) + 1 /\ all[j] = "-"
          BY <2>1, <2>2, <2>5, <3>2, <4>1
        <5> QED
          BY <2>7, <5>1
      <4>2. ASSUME NEW h \in Digits, part = <<"\\", "x", h>> PROVE FALSE
        <5>1. Len(part) = 3 /\ j \in Len(e) + 1 .. Len(e) + 3
          BY <2>5, <3>2, <4>2
        <5>2. all[Len(e) + 1] = "\\" /\ all[Len(e) + 2] = "x" /\ all[Len(e) + 3] = h
          BY <2>1, <2>2, <4>2
        <5>3. j = Len(e) + 1 \/ j = Len(e) + 2 \/ j = Len(e) + 3
          BY <2>5, <5>1
        <5> QED
          BY <2>7, <5>2, <5>3 DEF Digits
      <4>3. CASE part = <<id[k]>>
        <5>1. Len(part) = 1 /\ j = Len(e) + 1 /\ all[j] = id[k]
          BY <2>1, <2>2, <2>5, <3>2, <4>3
        <5>2. Len(e) \in 1..Len(e) /\ all[j - 1] = e[Len(e)]
          BY <2>5, <5>1
        <5>3. k # 1 => id[k - 1] \notin UnitSuffixes
          BY <2>4, <2>7, <5>1
        <5> QED
          BY <2>3, <2>5, <5>2, <5>3
      <4> QED
        BY <2>6, <4>1, <4>2, <4>3
    <3> QED
      BY <2>5, <3>1, <3>2
  <2>8. Ends(all, k)
    <3> HIDE DEF e, part, all
    <3>1. CASE part = <<"-">>
      <4>1. Len(all) = Len(e) + 1 /\ all[Len(e) + 1] = "-"
        BY <2>1, <2>2, <2>5, <3>1
      <4> QED
        BY <4>1 DEF UnitSuffixes
    <3>2. ASSUME NEW h \in Digits, part = <<"\\", "x", h>> PROVE Ends(all, k)
      <4>1. Len(all) = Len(e) + 3 /\ all[Len(e) + 3] = h
        BY <2>1, <2>2, <2>5, <3>2
      <4> QED
        BY <4>1 DEF UnitSuffixes, Digits
    <3>3. CASE part = <<id[k]>>
      <4>1. Len(all) = Len(e) + 1 /\ all[Len(e) + 1] = id[k]
        BY <2>1, <2>2, <2>5, <3>3
      <4> QED
        BY <4>1
    <3> QED
      BY <2>6, <3>1, <3>2, <3>3
  <2> QED
    BY <2>7, <2>8 DEF ColonsApart
<1>4. n \in G
  <2>1. \A k \in 1..n : k - 1 \in G => k \in G
    <3> HIDE DEF Ends
    <3> QED
      BY <1>1, <1>3
  <2> HIDE DEF G, n
  <2> QED
    BY <1>1, <1>2, <2>1, AllAlong
<1>5. EscapedUpTo(id, n) = escapeApplicationId(id)
  BY AnyParts, EscapedNext
<1> QED
  BY <1>4, <1>5

-----------------------------------------------------------------------------
(***************************************************************************)
(* processUnitName, on names that end with an instance.                    *)
(***************************************************************************)
LEMMA PartIs ==
  ASSUME NEW T, NEW text \in Seq(T), NEW i \in 1..(Len(text) + 1), NEW j \in 0..Len(text), i <= j + 1
  PROVE  /\ SubSeq(text, i, j) \in Seq(T)
         /\ Len(SubSeq(text, i, j)) = j - i + 1
         /\ \A k \in 1..(j - i + 1) : SubSeq(text, i, j)[k] = text[i + k - 1]
  OBVIOUS

LEMMA SameText ==
  ASSUME NEW T, NEW s \in Seq(T), NEW t \in Seq(T), Len(s) = Len(t), \A i \in 1..Len(s) : s[i] = t[i]
  PROVE  s = t
  OBVIOUS

LEMMA LastPlaceIs ==
  ASSUME NEW T, NEW text \in Seq(T), NEW c, NEW i \in 1..Len(text), text[i] = c,
         \A j \in (i + 1)..Len(text) : text[j] # c
  PROVE  Places(text, c) # {} /\ LastPlace(text, c) = i
<1>1. DOMAIN text = 1..Len(text) /\ Len(text) \in Nat
  OBVIOUS
<1>2. i \in Places(text, c) /\ \A j \in Places(text, c) : j <= i
  BY <1>1 DEF Places
<1>3. \A k \in Places(text, c) : (\A j \in Places(text, c) : j <= k) => k = i
  <2>1. \A k \in Places(text, c) : k \in Nat
    BY <1>1 DEF Places
  <2> QED
    BY <1>2, <2>1
<1>4. LastPlace(text, c) \in Places(text, c) /\ \A j \in Places(text, c) : j <= LastPlace(text, c)
  BY <1>2 DEF LastPlace
<1> QED
  BY <1>2, <1>3, <1>4

LEMMA PopAt ==
  ASSUME NEW T, NEW text \in Seq(T), NEW c, NEW i \in 1..Len(text), text[i] = c,
         \A j \in (i + 1)..Len(text) : text[j] # c
  PROVE  /\ PopSuffix(text, c).suffix = SubSeq(text, i + 1, Len(text))
         /\ PopSuffix(text, c).rest = SubSeq(text, 1, i - 1)
<1>1. Places(text, c) # {} /\ LastPlace(text, c) = i
  BY LastPlaceIs
<1>2. PopSuffix(text, c) = [suffix |-> SubSeq(text, i + 1, Len(text)), rest |-> SubSeq(text, 1, i - 1)]
  BY <1>1 DEF PopSuffix, From, UpTo
<1> QED
  BY <1>2

(* <launcher and id><separator><instance>.<suffix>                          *)
NamedAfter(info, text, n) ==
  /\ info.found
  /\ info.instanceID = <<text[n - 2]>>
  /\ info.applicationID = unescapeApplicationId(PopSuffix(SubSeq(text, 3, n - 4), "-").suffix)

LEMMA FromSuffixesIs ==
  ASSUME NEW T, NEW text \in Seq(T), NEW n \in Nat, n = Len(text), n >= 6, NEW separator,
         text[n - 3] = separator, text[n - 2] # separator, text[n - 1] = ".", text[n] # "."
  PROVE  NamedAfter(FromSuffixes(SubSeq(text, 3, n), separator), text, n)
<1> DEFINE unit == SubSeq(text, 3, n)
<1>1. unit \in Seq(T) /\ Len(unit) = n - 2 /\ \A k \in 1..(n - 2) : unit[k] = text[k + 2]
  <2>1. 3 \in 1..(Len(text) + 1) /\ n \in 0..Len(text) /\ 3 <= n + 1 /\ n - 3 + 1 = n - 2
        /\ \A k \in Int : 3 + k - 1 = k + 2
    OBVIOUS
  <2> QED
    BY <2>1, PartIs
<1> HIDE DEF unit
<1>2. LastPlace(unit, ".") = n - 3
  <2>1. n - 3 \in 1..Len(unit) /\ unit[n - 3] = "." /\ unit[n - 2] # "."
    <3>1. n - 3 \in 1..(n - 2) /\ n - 2 \in 1..(n - 2) /\ (n - 3) + 2 = n - 1 /\ (n - 2) + 2 = n
      OBVIOUS
    <3> QED
      BY <1>1, <3>1
  <2>2. \A j \in ((n - 3) + 1)..Len(unit) : j = n - 2
    BY <1>1
  <2> QED
    BY <1>1, <2>1, <2>2, LastPlaceIs
<1> DEFINE name == SubSeq(unit, 1, n - 4)
<1>3. name \in Seq(T) /\ Len(name) = n - 4 /\ \A k \in 1..(n - 4) : name[k] = text[k + 2]
  <2>1. 1 \in 1..(Len(unit) + 1) /\ n - 4 \in 0..Len(unit) /\ 1 <= (n - 4) + 1 /\ (n - 4) - 1 + 1 = n - 4
    BY <1>1
  <2>2. name \in Seq(T) /\ Len(name) = n - 4 /\ \A k \in 1..(n - 4) : name[k] = unit[1 + k - 1]
    BY <1>1, <2>1, PartIs
  <2>3. \A k \in 1..(n - 4) : 1 + k - 1 = k /\ k \in 1..(n - 2)
    OBVIOUS
  <2> QED
    BY <1>1, <2>2, <2>3
<1> HIDE DEF name
<1>4. name[n - 5] = separator /\ name[n - 4] = text[n - 2]
  <2>1. n - 5 \in 1..(n - 4) /\ n - 4 \in 1..(n - 4) /\ (n - 5) + 2 = n - 3 /\ (n - 4) + 2 = n - 2
    OBVIOUS
  <2> QED
    BY <1>3, <2>1
<1>5. /\ PopSuffix(name, separator).suffix = SubSeq(name, n - 4, n - 4)
      /\ PopSuffix(name, separator).rest = SubSeq(name, 1, n - 6)
  <2>1. n - 5 \in 1..Len(name) /\ (n - 5) + 1 = n - 4 /\ (n - 5) - 1 = n - 6
        /\ \A j \in ((n - 5) + 1)..Len(name) : j = n - 4
    BY <1>3
  <2>2. /\ PopSuffix(name, separator).suffix = SubSeq(name, (n - 5) + 1, Len(name))
        /\ PopSuffix(name, separator).rest = SubSeq(name, 1, (n - 5) - 1)
    <3> DEFINE i == n - 5
    <3>1. i \in 1..Len(name) /\ name[i] = separator /\ \A j \in (i + 1)..Len(name) : name[j] # separator
      BY <1>4, <2>1
    <3> HIDE DEF i
    <3>2. /\ PopSuffix(name, separator).suffix = SubSeq(name, i + 1, Len(name))
          /\ PopSuffix(name, separator).rest = SubSeq(name, 1, i - 1)
      BY <1>3, <3>1, PopAt
    <3> QED
      BY <3>2, Zenon DEF i
  <2> QED
    BY <1>3, <2>1, <2>2, Zenon
<1>6. SubSeq(name, n - 4, n - 4) = <<text[n - 2]>>
  <2>1. n - 4 \in 1..(Len(name) + 1) /\ n - 4 \in 0..Len(name) /\ n - 4 <= (n - 4) + 1 /\ (n - 4) - (n - 4) + 1 = 1
        /\ (n - 4) + 1 - 1 = n - 4
    BY <1>3
  <2> DEFINE s == SubSeq(name, n - 4, n - 4)
  <2>2. s \in Seq(T) /\ Len(s) = 1 /\ s[1] = name[n - 4]
    BY <1>3, <2>1, PartIs
  <2> HIDE DEF s
  <2>3. s = <<text[n - 2]>>
    BY <1>4, <2>2
  <2> QED
    BY <2>3 DEF s
<1>7. SubSeq(name, 1, n - 6) = SubSeq(text, 3, n - 4)
  <2> DEFINE a == SubSeq(name, 1, n - 6)
             b == SubSeq(text, 3, n - 4)
  <2>1. a \in Seq(T) /\ Len(a) = n - 6 /\ \A k \in 1..(n - 6) : a[k] = name[1 + k - 1]
    <3>1. 1 \in 1..(Len(name) + 1) /\ n - 6 \in 0..Len(name) /\ 1 <= (n - 6) + 1 /\ (n - 6) - 1 + 1 = n - 6
      BY <1>3
    <3> QED
      BY <1>3, <3>1, PartIs
  <2>2. b \in Seq(T) /\ Len(b) = n - 6 /\ \A k \in 1..(n - 6) : b[k] = text[3 + k - 1]
    <3>1. 3 \in 1..(Len(text) + 1) /\ n - 4 \in 0..Len(text) /\ 3 <= (n - 4) + 1 /\ (n - 4) - 3 + 1 = n - 6
      OBVIOUS
    <3> QED
      BY <3>1, PartIs
  <2>3. \A k \in 1..(n - 6) : 1 + k - 1 = k /\ 3 + k - 1 = k + 2 /\ k \in 1..(n - 4)
    OBVIOUS
  <2> HIDE DEF a, b
  <2>4. \A k \in 1..(n - 6) : a[k] = b[k]
    BY <1>3, <2>1, <2>2, <2>3
  <2>5. a = b
    BY <2>1, <2>2, <2>4, SameText
  <2> QED
    BY <2>5 DEF a, b
<1>8. FromSuffixes(unit, separator) =
        UnitInfo(PopSuffix(PopSuffix(name, separator).rest, "-").suffix,
                 PopSuffix(PopSuffix(name, separator).rest, "-").rest,
                 PopSuffix(name, separator).suffix)
  <2>1. (n - 3) - 1 = n - 4
    OBVIOUS
  <2>2. UpTo(unit, LastPlace(unit, ".") - 1) = name
    BY <1>2, <2>1, Zenon DEF UpTo, name
  <2> QED
    BY <2>2, Zenon DEF FromSuffixes
<1>9. FromSuffixes(unit, separator) =
        UnitInfo(PopSuffix(SubSeq(text, 3, n - 4), "-").suffix, PopSuffix(SubSeq(text, 3, n - 4), "-").rest,
                 <<text[n - 2]>>)
  BY <1>5, <1>6, <1>7, <1>8, Zenon
<1>10. \A l : NamedAfter(UnitInfo(PopSuffix(SubSeq(text, 3, n - 4), "-").suffix, l, <<text[n - 2]>>), text, n)
  BY DEF NamedAfter, UnitInfo
<1> QED
  BY <1>9, <1>10, Zenon DEF unit

LEMMA StartsWithApp ==
  ASSUME NEW T, NEW text \in Seq(T), Len(text) >= 2
  PROVE  StartsWith(text, AppPrefix) <=> text[1] = "app" /\ text[2] = "-"
<1>1. /\ SubSeq(text, 1, 2) \in Seq(T) /\ Len(SubSeq(text, 1, 2)) = 2
      /\ SubSeq(text, 1, 2)[1] = text[1] /\ SubSeq(text, 1, 2)[2] = text[2]
  OBVIOUS
<1>2. Len(AppPrefix) = 2 /\ AppPrefix = <<"app", "-">>
  BY DEF AppPrefix
<1>3. SubSeq(text, 1, 2) = <<"app", "-">> <=> text[1] = "app" /\ text[2] = "-"
  <2> DEFINE start == SubSeq(text, 1, 2)
  <2>1. start \in Seq(T) /\ Len(start) = 2 /\ start[1] = text[1] /\ start[2] = text[2]
    BY <1>1
  <2> HIDE DEF start
  <2>2. start = <<"app", "-">> <=> text[1] = "app" /\ text[2] = "-"
    BY <2>1
  <2> QED
    BY <2>2 DEF start
<1> QED
  BY <1>2, <1>3 DEF StartsWith, UpTo

LEMMA EndsWithPair ==
  ASSUME NEW T, NEW text \in Seq(T), NEW n \in Nat, n = Len(text), n >= 4, NEW a, NEW b
  PROVE  EndsWith(SubSeq(text, 3, n), <<a, b>>) <=> text[n - 1] = a /\ text[n] = b
<1> DEFINE unit == SubSeq(text, 3, n)
<1>1. unit \in Seq(T) /\ Len(unit) = n - 2 /\ \A k \in 1..(n - 2) : unit[k] = text[k + 2]
  <2>1. 3 \in 1..(Len(text) + 1) /\ n \in 0..Len(text) /\ 3 <= n + 1 /\ n - 3 + 1 = n - 2
        /\ \A k \in Int : 3 + k - 1 = k + 2
    OBVIOUS
  <2> QED
    BY <2>1, PartIs
<1> HIDE DEF unit
<1> DEFINE end == SubSeq(unit, n - 3, n - 2)
<1>2. end \in Seq(T) /\ Len(end) = 2 /\ end[1] = unit[n - 3] /\ end[2] = unit[n - 2]
  <2>1. n - 3 \in 1..(Len(unit) + 1) /\ n - 2 \in 0..Len(unit) /\ n - 3 <= (n - 2) + 1 /\ (n - 2) - (n - 3) + 1 = 2
        /\ (n - 3) + 1 - 1 = n - 3 /\ (n - 3) + 2 - 1 = n - 2
    BY <1>1
  <2> QED
    BY <1>1, <2>1, PartIs
<1>3. unit[n - 3] = text[n - 1] /\ unit[n - 2] = text[n]
  <2>1. n - 3 \in 1..(n - 2) /\ n - 2 \in 1..(n - 2) /\ (n - 3) + 2 = n - 1 /\ (n - 2) + 2 = n
    OBVIOUS
  <2> QED
    BY <1>1, <2>1
<1> HIDE DEF end
<1>4. end = <<a, b>> <=> text[n - 1] = a /\ text[n] = b
  BY <1>2, <1>3
<1>5. Len(<<a, b>>) = 2 /\ Len(unit) >= 2 /\ Len(unit) - 2 + 1 = n - 3
  BY <1>1
<1>6. EndsWith(unit, <<a, b>>) <=> end = <<a, b>>
  BY <1>1, <1>5 DEF EndsWith, From, end
<1> QED
  BY <1>4, <1>6 DEF unit

(* A service is an instance after "@", a scope after "-".                   *)
LEMMA NamedUnit ==
  ASSUME NEW T, NEW text \in Seq(T), NEW n \in Nat, n = Len(text), n >= 6,
         text[1] = "app", text[2] = "-", text[n - 1] = ".",
         \/ text[n] = "service" /\ text[n - 3] = "@" /\ text[n - 2] # "@"
         \/ text[n] = "scope" /\ text[n - 3] = "-" /\ text[n - 2] # "-"
  PROVE  NamedAfter(processUnitName(text), text, n)
<1> DEFINE unit == SubSeq(text, 3, n)
<1>1. StartsWith(text, AppPrefix)
  BY StartsWithApp
<1>2. From(text, Len(AppPrefix) + 1) = unit
  BY DEF From, AppPrefix
<1>3. /\ EndsWith(unit, <<".", "service">>) <=> text[n] = "service"
      /\ EndsWith(unit, <<".", "scope">>) <=> text[n] = "scope"
  BY EndsWithPair
<1>4. CASE text[n] = "service" /\ text[n - 3] = "@" /\ text[n - 2] # "@"
  <2>1. processUnitName(text) = FromSuffixes(unit, "@")
    <3> HIDE DEF unit
    <3> QED
      BY <1>1, <1>2, <1>3, <1>4 DEF processUnitName
  <2>2. NamedAfter(FromSuffixes(unit, "@"), text, n)
    BY <1>4, FromSuffixesIs
  <2> QED
    BY <2>1, <2>2, Zenon
<1>5. CASE text[n] = "scope" /\ text[n - 3] = "-" /\ text[n - 2] # "-"
  <2>1. processUnitName(text) = FromSuffixes(unit, "-")
    <3> HIDE DEF unit
    <3> QED
      BY <1>1, <1>2, <1>3, <1>5 DEF processUnitName
  <2>2. NamedAfter(FromSuffixes(unit, "-"), text, n)
    BY <1>5, FromSuffixesIs
  <2> QED
    BY <2>1, <2>2, Zenon
<1> QED
  BY <1>4, <1>5

EndsUnit(separator, instance, suffix) ==
  /\ instance # separator
  /\ \/ separator = "@" /\ suffix = "service"
     \/ separator = "-" /\ suffix = "scope"

NameSays(name, instance) ==
  processUnitName(name).found /\ processUnitName(name).instanceID = <<instance>>

(* A prefix that begins with "app-", an escaped id, and an instance.       *)
LEMMA InstanceName ==
  ASSUME NEW T, NEW q \in Seq(T), Len(q) >= 2, q[1] = "app", q[2] = "-", NEW e \in Seq(T),
         NEW separator \in T, NEW instance \in T, NEW suffix \in T, "." \in T,
         EndsUnit(separator, instance, suffix)
  PROVE  /\ NameSays((q \o e) \o <<separator, instance, ".", suffix>>, instance)
         /\ q[Len(q)] = "-" /\ (\A k \in 1..Len(e) : e[k] # "-") =>
              processUnitName((q \o e) \o <<separator, instance, ".", suffix>>).applicationID
                = unescapeApplicationId(e)
<1> DEFINE tail == <<separator, instance, ".", suffix>>
           head == q \o e
           text == head \o tail
           n == Len(text)
           m == Len(q)
           part == SubSeq(text, 3, n - 4)
<1>1. /\ tail \in Seq(T) /\ Len(tail) = 4
      /\ tail[1] = separator /\ tail[2] = instance /\ tail[3] = "." /\ tail[4] = suffix
  OBVIOUS
<1> HIDE DEF tail
<1>2. /\ head \in Seq(T) /\ Len(head) = m + Len(e) /\ m \in Nat /\ Len(e) \in Nat
      /\ (\A k \in 1..m : head[k] = q[k]) /\ (\A k \in 1..Len(e) : head[m + k] = e[k])
  OBVIOUS
<1> HIDE DEF head
<1>3. /\ text \in Seq(T) /\ n = Len(head) + 4 /\ n \in Nat
      /\ (\A k \in 1..Len(head) : text[k] = head[k]) /\ (\A k \in 1..4 : text[Len(head) + k] = tail[k])
  <2>1. head \in Seq(T) /\ tail \in Seq(T)
    BY <1>1, <1>2
  <2>2. /\ text \in Seq(T) /\ n = Len(head) + Len(tail) /\ n \in Nat
        /\ (\A k \in 1..Len(head) : text[k] = head[k]) /\ (\A k \in 1..Len(tail) : text[Len(head) + k] = tail[k])
    BY <2>1
  <2> HIDE DEF text, n
  <2> QED
    BY <1>1, <2>2
<1> HIDE DEF text
<1>4. n >= 6 /\ n = Len(text) /\ n = m + Len(e) + 4 /\ m >= 2
  BY <1>2, <1>3
<1> HIDE DEF n, m
<1>5. text[1] = "app" /\ text[2] = "-"
  <2>1. 1 \in 1..m /\ 2 \in 1..m /\ 1 \in 1..Len(head) /\ 2 \in 1..Len(head)
    BY <1>2, <1>4
  <2> QED
    BY <1>2, <1>3, <2>1
<1>6. text[n - 3] = separator /\ text[n - 2] = instance /\ text[n - 1] = "." /\ text[n] = suffix
  <2>1. n - 3 = Len(head) + 1 /\ n - 2 = Len(head) + 2 /\ n - 1 = Len(head) + 3 /\ n = Len(head) + 4
    BY <1>2, <1>3
  <2> QED
    BY <1>1, <1>3, <2>1
<1>7. NamedAfter(processUnitName(text), text, n)
  BY <1>3, <1>4, <1>5, <1>6, NamedUnit DEF EndsUnit
<1>8. part \in Seq(T) /\ Len(part) = n - 6 /\ \A k \in 1..(n - 6) : part[k] = head[k + 2]
  <2>1. 3 \in 1..(Len(text) + 1) /\ n - 4 \in 0..Len(text) /\ 3 <= (n - 4) + 1 /\ (n - 4) - 3 + 1 = n - 6
    BY <1>4
  <2>2. part \in Seq(T) /\ Len(part) = n - 6 /\ \A k \in 1..(n - 6) : part[k] = text[3 + k - 1]
    <3> DEFINE j == n - 4
    <3>1. j \in 0..Len(text) /\ 3 <= j + 1 /\ j - 3 + 1 = n - 6 /\ 3 \in 1..(Len(text) + 1)
      BY <2>1
    <3> HIDE DEF j
    <3>2. /\ SubSeq(text, 3, j) \in Seq(T)
          /\ Len(SubSeq(text, 3, j)) = j - 3 + 1
          /\ \A k \in 1..(j - 3 + 1) : SubSeq(text, 3, j)[k] = text[3 + k - 1]
      BY <1>3, <3>1, PartIs
    <3> QED
      BY <3>1, <3>2, Zenon DEF j
  <2>3. \A k \in 1..(n - 6) : 3 + k - 1 = k + 2 /\ k + 2 \in 1..Len(head)
    BY <1>2, <1>3
  <2> QED
    BY <1>3, <2>2, <2>3
<1> HIDE DEF part
<1>9. \A k \in 1..Len(e) : m - 2 + k \in 1..(n - 6) /\ part[m - 2 + k] = e[k]
  <2> TAKE k \in 1..Len(e)
  <2>1. m - 2 + k \in 1..(n - 6) /\ (m - 2 + k) + 2 = m + k
    BY <1>2, <1>4
  <2> QED
    BY <1>2, <1>8, <2>1
<1>10. ASSUME q[m] = "-", \A k \in 1..Len(e) : e[k] # "-"
       PROVE  PopSuffix(part, "-").suffix = e
  <2>1. CASE m = 2
    <3>1. Len(part) = Len(e) /\ \A k \in 1..Len(e) : m - 2 + k = k
      BY <1>2, <1>4, <1>8, <2>1
    <3>2. \A k \in 1..Len(part) : part[k] = e[k]
      BY <1>9, <3>1
    <3>3. part = e
      BY <1>8, <3>1, <3>2, SameText
    <3>4. Places(part, "-") = {}
      BY <1>10, <3>3 DEF Places
    <3>5. PopSuffix(part, "-") = [suffix |-> part, rest |-> <<>>]
      BY <3>4 DEF PopSuffix
    <3> QED
      BY <3>3, <3>5
  <2>2. CASE m # 2
    <3> DEFINE i == m - 2
    <3>1. i \in 1..Len(part) /\ i + 2 = m /\ m \in 1..m /\ i \in 1..(n - 6) /\ Len(part) = i + Len(e)
      BY <1>2, <1>4, <1>8, <2>2
    <3>2. part[i] = "-"
      BY <1>2, <1>8, <1>10, <3>1
    <3>3. \A j \in (i + 1)..Len(part) : part[j] # "-"
      <4> TAKE j \in (i + 1)..Len(part)
      <4>1. j - i \in 1..Len(e) /\ m - 2 + (j - i) = j
        BY <1>2, <1>4, <3>1
      <4> QED
        BY <1>9, <1>10, <4>1
    <3>4. \A k \in 1..Len(e) : part[i + k] = e[k]
      BY <1>9
    <3> HIDE DEF i
    <3>5. PopSuffix(part, "-").suffix = SubSeq(part, i + 1, Len(part))
      BY <1>8, <3>1, <3>2, <3>3, PopAt
    <3> DEFINE b == SubSeq(part, i + 1, Len(part))
    <3>6. b \in Seq(T) /\ Len(b) = Len(e) /\ \A k \in 1..Len(e) : b[k] = part[(i + 1) + k - 1]
      <4>1. i + 1 \in 1..(Len(part) + 1) /\ Len(part) \in 0..Len(part) /\ i + 1 <= Len(part) + 1
            /\ Len(part) - (i + 1) + 1 = Len(e)
        BY <1>2, <1>8, <3>1
      <4> QED
        BY <1>8, <4>1, PartIs
    <3> HIDE DEF b
    <3>7. \A k \in 1..Len(e) : (i + 1) + k - 1 = i + k
      BY <3>1
    <3>8. b = e
      BY <3>4, <3>6, <3>7, SameText
    <3> QED
      BY <3>5, <3>8 DEF b
  <2> QED
    BY <2>1, <2>2
<1> QED
  BY <1>6, <1>7, <1>10 DEF NamedAfter, NameSays, m, text, head, tail, part

-----------------------------------------------------------------------------
(***************************************************************************)
(* What the names of units of each kind say.                               *)
(***************************************************************************)
LEMMA ServiceName ==
  ASSUME NEW T, "@" \in T, "." \in T, "service" \in T,
         NEW q \in Seq(T), Len(q) >= 2, q[1] = "app", q[2] = "-", NEW e \in Seq(T),
         NEW instance \in T, instance # "@"
  PROVE  LET name == (q \o e) \o <<"@", instance, ".", "service">>
         IN /\ NameSays(name, instance)
            /\ q[Len(q)] = "-" /\ (\A k \in 1..Len(e) : e[k] # "-") =>
                 processUnitName(name).applicationID = unescapeApplicationId(e)
<1> DEFINE separator == "@"
           suffix == "service"
           name == (q \o e) \o <<separator, instance, ".", suffix>>
<1>1. separator \in T /\ suffix \in T /\ EndsUnit(separator, instance, suffix)
  <2>1. EndsUnit(separator, instance, suffix)
    BY Zenon DEF EndsUnit
  <2> QED
    BY <2>1, Zenon
<1> HIDE DEF separator, suffix
<1>2. /\ NameSays(name, instance)
      /\ q[Len(q)] = "-" /\ (\A k \in 1..Len(e) : e[k] # "-") =>
           processUnitName(name).applicationID = unescapeApplicationId(e)
  BY <1>1, InstanceName
<1> QED
  BY <1>2 DEF separator, suffix

LEMMA ScopeName ==
  ASSUME NEW T, "-" \in T, "." \in T, "scope" \in T,
         NEW q \in Seq(T), Len(q) >= 2, q[1] = "app", q[2] = "-", NEW e \in Seq(T),
         NEW instance \in T, instance # "-"
  PROVE  LET name == (q \o e) \o <<"-", instance, ".", "scope">>
         IN /\ NameSays(name, instance)
            /\ q[Len(q)] = "-" /\ (\A k \in 1..Len(e) : e[k] # "-") =>
                 processUnitName(name).applicationID = unescapeApplicationId(e)
<1> DEFINE separator == "-"
           suffix == "scope"
           name == (q \o e) \o <<separator, instance, ".", suffix>>
<1>1. separator \in T /\ suffix \in T /\ EndsUnit(separator, instance, suffix)
  <2>1. EndsUnit(separator, instance, suffix)
    BY Zenon DEF EndsUnit
  <2> QED
    BY <2>1, Zenon
<1> HIDE DEF separator, suffix
<1>2. /\ NameSays(name, instance)
      /\ q[Len(q)] = "-" /\ (\A k \in 1..Len(e) : e[k] # "-") =>
           processUnitName(name).applicationID = unescapeApplicationId(e)
  BY <1>1, InstanceName
<1> QED
  BY <1>2 DEF separator, suffix

NameAtoms(u) ==
  Alphabet(u.id) \cup {u.instance, "app", "DDE", "gnome", "service", "scope", "tmp", "script", "session", "2"}

LEMMA UnitIs ==
  ASSUME NEW u \in Units
  PROVE  /\ u.kind \in OfInstance \cup {"command", "bus", "session"}
         /\ u.owner \in {"me", "other", "system"} /\ u.nested \in BOOLEAN
         /\ IsText(u.id)
         /\ u.instance \notin {"-", "@", ".", ":"}
  BY UnitsAssumption DEF IsText

(* The names of units of an instance say which one, of which application.  *)
LEMMA InstanceInfo ==
  ASSUME NEW u \in Units, u.kind \in OfInstance
  PROVE  LET info == processUnitName(UnitName(u))
         IN info.found /\ info.instanceID = <<u.instance>> /\ info.applicationID = u.id
<1>0. SUFFICES NameSays(UnitName(u), u.instance) /\ processUnitName(UnitName(u)).applicationID = u.id
  BY DEF NameSays
<1> DEFINE e == escapeApplicationId(u.id)
           T == NameAtoms(u)
<1>1. IsText(u.id) /\ Places(u.id, "/") = {} /\ u.instance \notin {"-", "@"}
  BY UnitIs, NamesAssumption
<1>2. /\ "-" \in T /\ "@" \in T /\ "." \in T /\ "app" \in T /\ "DDE" \in T /\ "gnome" \in T
      /\ "service" \in T /\ "scope" \in T /\ u.instance \in T
  BY DEF NameAtoms, Alphabet
<1>3. e \in Seq(T)
  <2>1. Alphabet(u.id) \subseteq T
    BY DEF NameAtoms
  <2>2. e \in Seq(Alphabet(u.id))
    BY <1>1, EscapedIsText
  <2> HIDE DEF e, T
  <2> QED
    BY <2>1, <2>2
<1>4. \A k \in 1..Len(e) : e[k] # "-"
  <2>1. e \in Seq(Safe(u.id))
    BY <1>1, EscapedIsText
  <2>2. "-" \notin Safe(u.id)
    BY DEF Safe, Kept, Digits
  <2> HIDE DEF e
  <2> QED
    BY <2>1, <2>2
<1>5. unescapeApplicationId(e) = u.id
  BY <1>1, UnescapeUndoes
<1> HIDE DEF e, T
<1>6. CASE u.kind = "launch"
  <2> DEFINE q == <<"app", "-", "DDE", "-">>
  <2>1. q \in Seq(T) /\ Len(q) = 4 /\ q[1] = "app" /\ q[2] = "-" /\ q[Len(q)] = "-"
    BY <1>2
  <2>2. UnitName(u) = (q \o e) \o <<"@", u.instance, ".", "service">>
    BY <1>6 DEF UnitName, LaunchName, e
  <2> DEFINE name == (q \o e) \o <<"@", u.instance, ".", "service">>
  <2>3. Len(q) >= 2
    BY <2>1
  <2> HIDE DEF q
  <2>4. NameSays(name, u.instance) /\ processUnitName(name).applicationID = unescapeApplicationId(e)
    BY <1>1, <1>2, <1>3, <1>4, <2>1, <2>3, ServiceName
  <2> QED
    BY <1>5, <2>2, <2>4, Zenon
<1>7. CASE u.kind = "scope"
  <2> DEFINE q == <<"app", "-", "gnome", "-">>
  <2>1. q \in Seq(T) /\ Len(q) = 4 /\ q[1] = "app" /\ q[2] = "-" /\ q[Len(q)] = "-"
    BY <1>2
  <2>2. UnitName(u) = (q \o e) \o <<"-", u.instance, ".", "scope">>
    BY <1>7 DEF UnitName, ForeignName, e
  <2> DEFINE name == (q \o e) \o <<"-", u.instance, ".", "scope">>
  <2>3. Len(q) >= 2
    BY <2>1
  <2> HIDE DEF q
  <2>4. NameSays(name, u.instance) /\ processUnitName(name).applicationID = unescapeApplicationId(e)
    BY <1>1, <1>2, <1>3, <1>4, <2>1, <2>3, ScopeName
  <2> QED
    BY <1>5, <2>2, <2>4, Zenon
<1>8. CASE u.kind = "autostart"
  <2> DEFINE q == <<"app", "-">>
  <2>1. q \in Seq(T) /\ Len(q) = 2 /\ q[1] = "app" /\ q[2] = "-" /\ q[Len(q)] = "-"
    BY <1>2
  <2>2. UnitName(u) = (q \o e) \o <<"@", u.instance, ".", "service">>
    BY <1>8 DEF UnitName, ForeignName, e
  <2> DEFINE name == (q \o e) \o <<"@", u.instance, ".", "service">>
  <2>3. Len(q) >= 2
    BY <2>1
  <2> HIDE DEF q
  <2>4. NameSays(name, u.instance) /\ processUnitName(name).applicationID = unescapeApplicationId(e)
    BY <1>1, <1>2, <1>3, <1>4, <2>1, <2>3, ServiceName
  <2> QED
    BY <1>5, <2>2, <2>4, Zenon
<1> QED
  BY <1>6, <1>7, <1>8 DEF OfInstance

(* A command's unit says which instance, too.                              *)
LEMMA CommandInfo ==
  ASSUME NEW u \in Units, u.kind = "command"
  PROVE  NameSays(UnitName(u), u.instance)
<1> DEFINE e == escapeApplicationId(u.id)
           T == NameAtoms(u)
           q == <<"app", "-", "DDE", "-", "tmp", ".", "script", ".">>
<1>1. IsText(u.id) /\ u.instance \notin {"-", "@"}
  BY UnitIs
<1>2. /\ "-" \in T /\ "@" \in T /\ "." \in T /\ "app" \in T /\ "DDE" \in T /\ "tmp" \in T
      /\ "script" \in T /\ "service" \in T /\ u.instance \in T
  BY DEF NameAtoms, Alphabet
<1>3. e \in Seq(T)
  <2>1. Alphabet(u.id) \subseteq T
    BY DEF NameAtoms
  <2>2. e \in Seq(Alphabet(u.id))
    BY <1>1, EscapedIsText
  <2> HIDE DEF e, T
  <2> QED
    BY <2>1, <2>2
<1> HIDE DEF e, T
<1>4. q \in Seq(T) /\ Len(q) = 8 /\ q[1] = "app" /\ q[2] = "-"
  BY <1>2
<1>5. UnitName(u) = (q \o e) \o <<"@", u.instance, ".", "service">>
  BY DEF UnitName, CommandName, e
<1> DEFINE name == (q \o e) \o <<"@", u.instance, ".", "service">>
<1>6. Len(q) >= 2
  BY <1>4
<1> HIDE DEF q
<1>7. NameSays(name, u.instance)
  BY <1>1, <1>2, <1>3, <1>4, <1>6, ServiceName
<1> QED
  BY <1>5, <1>7, Zenon

(* Any other name is an application's and says nothing of instances.       *)
LEMMA PlainName ==
  ASSUME NEW T, NEW id \in Seq(T), "." \in T, NEW suffix \in T, suffix # ".", ~StartsWith(id \o <<".", suffix>>, AppPrefix)
  PROVE  processUnitName(id \o <<".", suffix>>) = UnitInfo(id, <<>>, <<>>)
<1> DEFINE text == id \o <<".", suffix>>
           n == Len(id)
<1>1. /\ text \in Seq(T) /\ Len(text) = n + 2 /\ n \in Nat
      /\ text[n + 1] = "." /\ text[n + 2] = suffix /\ \A k \in 1..n : text[k] = id[k]
  OBVIOUS
<1> HIDE DEF text, n
<1>2. Places(text, ".") # {} /\ LastPlace(text, ".") = n + 1
  <2>1. n + 1 \in 1..Len(text) /\ \A j \in ((n + 1) + 1)..Len(text) : j = n + 2
    BY <1>1
  <2> QED
    BY <1>1, <2>1, LastPlaceIs
<1>3. UpTo(text, LastPlace(text, ".") - 1) = id
  <2> DEFINE start == SubSeq(text, 1, n)
  <2>1. start \in Seq(T) /\ Len(start) = n /\ \A k \in 1..n : start[k] = text[1 + k - 1]
    <3>1. 1 \in 1..(Len(text) + 1) /\ n \in 0..Len(text) /\ 1 <= n + 1 /\ n - 1 + 1 = n
      BY <1>1
    <3> QED
      BY <1>1, <3>1, PartIs
  <2>2. \A k \in 1..n : 1 + k - 1 = k
    OBVIOUS
  <2> HIDE DEF start
  <2>3. start = id
    BY <1>1, <2>1, <2>2, SameText DEF n
  <2>4. (n + 1) - 1 = n
    BY <1>1
  <2> QED
    BY <1>2, <2>3, <2>4, Zenon DEF UpTo, start
<1>4. ~StartsWith(text, AppPrefix)
  BY DEF text
<1>5. processUnitName(text) = UnitInfo(id, <<>>, <<>>)
  BY <1>2, <1>3, <1>4 DEF processUnitName
<1> QED
  BY <1>5 DEF text

LEMMA BusInfo ==
  ASSUME NEW u \in Units, u.kind = "bus"
  PROVE  LET info == processUnitName(UnitName(u))
         IN info.found /\ info.instanceID = <<>> /\ info.applicationID = u.id
<1> DEFINE T == NameAtoms(u)
           id == u.id
<1>1. IsText(id) /\ Places(id, "\\") = {} /\ ~StartsWith(id, AppPrefix)
  BY UnitIs, NamesAssumption
<1>2. id \in Seq(T) /\ "." \in T /\ "service" \in T
  <2>1. Alphabet(id) \subseteq T /\ "." \in T /\ "service" \in T
    BY DEF NameAtoms, Alphabet
  <2>2. id \in Seq(Alphabet(id))
    BY <1>1, TextIs
  <2> HIDE DEF T, id
  <2> QED
    BY <2>1, <2>2
<1>3. UnitName(u) = id \o <<".", "service">>
  BY DEF UnitName, ForeignName
<1> HIDE DEF T, id
<1>4. ~StartsWith(id \o <<".", "service">>, AppPrefix)
  <2> DEFINE text == id \o <<".", "service">>
             n == Len(id)
  <2>1. /\ text \in Seq(T) /\ Len(text) = n + 2 /\ n \in Nat
        /\ text[n + 1] = "." /\ \A k \in 1..n : text[k] = id[k]
    BY <1>2
  <2> HIDE DEF text, n
  <2>2. ASSUME text[1] = "app", text[2] = "-" PROVE FALSE
    <3>1. CASE n = 0
      BY <2>1, <2>2, <3>1
    <3>2. CASE n = 1
      BY <2>1, <2>2, <3>2
    <3>3. CASE n >= 2
      <4>1. id[1] = "app" /\ id[2] = "-"
        BY <2>1, <2>2, <3>3
      <4> QED
        BY <1>1, <1>2, <3>3, <4>1, StartsWithApp DEF n
    <3> QED
      BY <2>1, <3>1, <3>2, <3>3
  <2>3. Len(text) >= 2
    BY <2>1
  <2>4. ~StartsWith(text, AppPrefix)
    BY <2>1, <2>2, <2>3, StartsWithApp
  <2> QED
    BY <2>4 DEF text
<1>5. processUnitName(UnitName(u)) = UnitInfo(id, <<>>, <<>>)
  BY <1>2, <1>3, <1>4, PlainName
<1>6. unescapeApplicationId(id) = id
  BY <1>1, PlainKept
<1> QED
  BY <1>5, <1>6 DEF UnitInfo, id

SessionName == <<"session", "-", "2">>

LEMMA SessionInfo ==
  ASSUME NEW u \in Units, u.kind = "session"
  PROVE  LET info == processUnitName(UnitName(u))
         IN info.found /\ info.instanceID = <<>> /\ info.applicationID = SessionName
<1> DEFINE T == {"session", "-", "2", ".", "scope"}
<1>1. UnitName(u) = <<"session", "-", "2", ".", "scope">>
  BY DEF UnitName, ForeignName, OfInstance
<1>2. SessionName \in Seq(T) /\ "." \in T /\ "scope" \in T
  BY DEF SessionName
<1>3. UnitName(u) = SessionName \o <<".", "scope">>
  BY <1>1 DEF SessionName
<1>4. ~StartsWith(SessionName \o <<".", "scope">>, AppPrefix)
  <2>1. UnitName(u) \in Seq(T) /\ Len(UnitName(u)) = 5 /\ UnitName(u)[1] = "session"
    BY <1>1
  <2>2. ~StartsWith(UnitName(u), AppPrefix)
    <3> DEFINE name == UnitName(u)
    <3>1. name \in Seq(T) /\ Len(name) >= 2 /\ name[1] # "app"
      BY <2>1
    <3> HIDE DEF name, T
    <3>2. ~StartsWith(name, AppPrefix)
      BY <3>1, StartsWithApp
    <3> QED
      BY <3>2 DEF name
  <2> QED
    BY <1>3, <2>2, Zenon
<1>5. processUnitName(UnitName(u)) = UnitInfo(SessionName, <<>>, <<>>)
  BY <1>2, <1>3, <1>4, PlainName
<1>6. IsText(SessionName) /\ Places(SessionName, "\\") = {}
  <2> DEFINE D == {SessionName[i] : i \in DOMAIN SessionName}
  <2>1. /\ DOMAIN SessionName = 1..3
        /\ SessionName[1] = "session" /\ SessionName[2] = "-" /\ SessionName[3] = "2"
    BY DEF SessionName
  <2>2. "session" \in D /\ "-" \in D /\ "2" \in D
    <3>1. SessionName[1] \in D /\ SessionName[2] \in D /\ SessionName[3] \in D
      BY <2>1
    <3> QED
      BY <2>1, <3>1
  <2>3. SessionName \in Seq(D)
    <3> HIDE DEF D
    <3> QED
      BY <2>2 DEF SessionName
  <2>4. \A i \in DOMAIN SessionName : SessionName[i] # "\\"
    <3>1. \A i \in 1..3 : i = 1 \/ i = 2 \/ i = 3
      OBVIOUS
    <3> QED
      BY <2>1, <3>1
  <2> QED
    BY <2>3, <2>4 DEF IsText, Places
<1>7. unescapeApplicationId(SessionName) = SessionName
  BY <1>6, PlainKept
<1> QED
  BY <1>5, <1>7 DEF UnitInfo

-----------------------------------------------------------------------------
(***************************************************************************)
(* The paths of control groups, which AM cuts at the first ":".            *)
(***************************************************************************)
LEMMA FirstOf ==
  ASSUME NEW n \in Nat, NEW P, P \subseteq 1..n, P # {}
  PROVE  LET first == CHOOSE i \in P : \A j \in P : i <= j
         IN first \in P /\ \A j \in P : first <= j
<1>1. P \subseteq Nat
  OBVIOUS
<1>2. PICK i \in P : \A j \in P : i <= j
  BY <1>1, LeastNumber
<1> QED
  BY <1>2

Colons(text) == Places(text, ":")
FirstColon(text) == CHOOSE i \in Colons(text) : \A j \in Colons(text) : i <= j

LEMMA FirstColonIs ==
  ASSUME NEW T, NEW text \in Seq(T), Colons(text) # {}
  PROVE  /\ FirstColon(text) \in 1..Len(text) /\ text[FirstColon(text)] = ":"
         /\ \A j \in 1..Len(text) : text[j] = ":" => FirstColon(text) <= j
<1>1. Colons(text) \subseteq 1..Len(text) /\ Len(text) \in Nat
  BY DEF Colons, Places
<1>2. FirstColon(text) \in Colons(text) /\ \A j \in Colons(text) : FirstColon(text) <= j
  BY <1>1, FirstOf DEF FirstColon
<1> QED
  BY <1>2 DEF Colons, Places

LEMMA NotCut ==
  ASSUME NEW path, \A i \in DOMAIN path : Colons(path[i]) = {}
  PROVE  CutAtColon(path) = path
<1>1. {i \in DOMAIN path : Places(path[i], ":") # {}} = {}
  BY DEF Colons
<1> QED
  BY <1>1 DEF CutAtColon

LEMMA CutAt ==
  ASSUME NEW T, NEW path \in Seq(Seq(T)), NEW k \in 1..Len(path), Colons(path[k]) # {},
         \A j \in 1..(k - 1) : Colons(path[j]) = {}
  PROVE  CutAtColon(path) = SubSeq(path, 1, k - 1) \o
           (IF FirstColon(path[k]) = 1 THEN <<>> ELSE <<SubSeq(path[k], 1, FirstColon(path[k]) - 1)>>)
<1> DEFINE cuts == {i \in DOMAIN path : Places(path[i], ":") # {}}
           cut == CHOOSE i \in cuts : \A j \in cuts : i <= j
<1>1. DOMAIN path = 1..Len(path) /\ Len(path) \in Nat
  OBVIOUS
<1>2. cuts \subseteq 1..Len(path) /\ k \in cuts /\ \A j \in cuts : k <= j
  <2>1. \A j \in cuts : j \in 1..Len(path) /\ Colons(path[j]) # {}
    BY <1>1 DEF Colons
  <2>2. \A j \in cuts : ~(j \in 1..(k - 1))
    BY <2>1
  <2>3. k \in cuts
    BY <1>1 DEF Colons
  <2> HIDE DEF cuts
  <2> QED
    BY <1>1, <2>1, <2>2, <2>3
<1>3. cut = k
  <2> HIDE DEF cuts
  <2>1. cut \in cuts /\ \A j \in cuts : cut <= j
    BY <1>1, <1>2, FirstOf
  <2> HIDE DEF cut
  <2> QED
    BY <1>1, <1>2, <2>1
<1>4. cuts # {}
  BY <1>2
<1>5. CutAtColon(path) = UpTo(path, cut - 1) \o
        (IF FirstColon(path[cut]) = 1 THEN <<>> ELSE <<UpTo(path[cut], FirstColon(path[cut]) - 1)>>)
  BY <1>4, Zenon DEF CutAtColon, FirstColon, Colons
<1> HIDE DEF cut
<1> QED
  BY <1>3, <1>5, Zenon DEF UpTo

(* What stands before the first ":" stays. *)
LEMMA CutKeeps ==
  ASSUME NEW T, NEW path \in Seq(Seq(T)), NEW m \in 0..Len(path), \A j \in 1..m : Colons(path[j]) = {}
  PROVE  /\ CutAtColon(path) \in Seq(Seq(T))
         /\ \A i \in 1..m : CutAtColon(path)[i] = path[i]
<1>1. CASE \A i \in DOMAIN path : Colons(path[i]) = {}
  BY <1>1, NotCut
<1>2. CASE \E i \in DOMAIN path : Colons(path[i]) # {}
  <2> DEFINE cuts == {i \in DOMAIN path : Colons(path[i]) # {}}
  <2>0. DOMAIN path = 1..Len(path) /\ Len(path) \in Nat
    OBVIOUS
  <2>1. cuts # {} /\ cuts \subseteq Nat
    <3>1. \A i \in 1..Len(path) : i \in Nat
      OBVIOUS
    <3> QED
      BY <1>2, <2>0, <3>1
  <2>2. PICK k \in cuts : \A j \in cuts : k <= j
    <3> HIDE DEF cuts
    <3> QED
      BY <2>1, LeastNumber
  <2>3. k \in 1..Len(path) /\ Colons(path[k]) # {}
    BY <2>0, <2>2
  <2>4. \A j \in 1..(k - 1) : Colons(path[j]) = {}
    <3> TAKE j \in 1..(k - 1)
    <3>1. j \in 1..Len(path) /\ ~(k <= j)
      BY <2>0, <2>3
    <3>2. j \notin cuts
      BY <2>2, <3>1
    <3> QED
      BY <2>0, <3>1, <3>2
  <2> DEFINE at == FirstColon(path[k])
             rest == IF at = 1 THEN <<>> ELSE <<SubSeq(path[k], 1, at - 1)>>
             start == SubSeq(path, 1, k - 1)
  <2>5. CutAtColon(path) = start \o rest
    BY <2>3, <2>4, CutAt
  <2>6. rest \in Seq(Seq(T))
    <3>1. path[k] \in Seq(T)
      BY <2>3
    <3>2. at \in 1..Len(path[k])
      BY <2>3, <3>1, FirstColonIs
    <3>3. SubSeq(path[k], 1, at - 1) \in Seq(T)
      <4> HIDE DEF at
      <4> QED
        BY <3>1, <3>2
    <3> QED
      BY <3>3
  <2>7. start \in Seq(Seq(T)) /\ Len(start) = k - 1 /\ \A i \in 1..(k - 1) : start[i] = path[i]
    BY <2>3
  <2>8. m <= k - 1
    <3>1. ~(k \in 1..m)
      BY <2>3
    <3> QED
      BY <2>3, <3>1
  <2> HIDE DEF start, rest
  <2> QED
    BY <2>3, <2>5, <2>6, <2>7, <2>8
<1> QED
  BY <1>1, <1>2

LEMMA TargetIs ==
  ASSUME NEW u
  PROVE  TargetPath(CgroupFile(u)) = CutAtColon(GroupPath(u))
<1>1. CASE hierarchy = "unified"
  <2> DEFINE lines == <<[controllers |-> "", path |-> GroupPath(u)]>>
  <2>1. CgroupFile(u) = lines
    BY <1>1 DEF CgroupFile
  <2> DEFINE line == [controllers |-> "", path |-> GroupPath(u)]
  <2>2. DOMAIN lines = {1} /\ lines[1].controllers = "" /\ lines[1].path = GroupPath(u)
    <3>1. line.controllers = "" /\ line.path = GroupPath(u)
      OBVIOUS
    <3>2. DOMAIN <<line>> = {1} /\ <<line>>[1] = line
      <4> HIDE DEF line
      <4> QED
        OBVIOUS
    <3> QED
      BY <3>1, <3>2, Zenon
  <2> HIDE DEF lines
  <2>3. {i \in DOMAIN lines : lines[i].controllers = ""} = {1}
    BY <2>2
  <2>4. (CHOOSE i \in {1} : \A j \in {1} : i <= j) = 1
    OBVIOUS
  <2>5. TargetPath(lines) = CutAtColon(lines[1].path)
    BY <2>3, <2>4 DEF TargetPath
  <2> QED
    BY <2>1, <2>2, <2>5
<1>2. CASE hierarchy # "unified"
  <2> DEFINE lines == <<[controllers |-> "cpu", path |-> <<>>], [controllers |-> "name=systemd", path |-> GroupPath(u)]>>
  <2>1. CgroupFile(u) = lines
    BY <1>2 DEF CgroupFile
  <2>2. /\ DOMAIN lines = {1, 2} /\ lines[1].controllers = "cpu" /\ lines[2].controllers = "name=systemd"
        /\ lines[2].path = GroupPath(u)
    OBVIOUS
  <2> HIDE DEF lines
  <2>3. /\ {i \in DOMAIN lines : lines[i].controllers = ""} = {}
        /\ {i \in DOMAIN lines : lines[i].controllers = "name=systemd"} = {2}
    BY <2>2
  <2>4. (CHOOSE i \in {2} : \A j \in {2} : j <= i) = 2
    OBVIOUS
  <2>5. TargetPath(lines) = CutAtColon(lines[2].path)
    BY <2>3, <2>4 DEF TargetPath
  <2> QED
    BY <2>1, <2>2, <2>5
<1> QED
  BY <1>1, <1>2

(* The path of a unit's group: slices without a ":", and its name.         *)
Slice(owner) == IF owner = "system" THEN <<"system", ".", "slice">> ELSE <<"user", ".", "slice">>
Manager(uid) == <<"user", "@", uid, ".", "service">>
PathAtoms == {"system", "user", "slice", "service", ".", "-", "@", "1000", "1001", "sub"}

LEMMA SliceNames ==
  ASSUME NEW T, PathAtoms \subseteq T, NEW uid \in {"1000", "1001"}, NEW owner
  PROVE  /\ Slice(owner) \in Seq(T) /\ UserSlice(uid) \in Seq(T) /\ Manager(uid) \in Seq(T) /\ <<"sub">> \in Seq(T)
         /\ Colons(Slice(owner)) = {} /\ Colons(UserSlice(uid)) = {} /\ Colons(Manager(uid)) = {}
         /\ Colons(<<"sub">>) = {}
<1>1. /\ "system" \in T /\ "user" \in T /\ "slice" \in T /\ "service" \in T /\ "." \in T /\ "-" \in T
      /\ "@" \in T /\ uid \in T /\ "sub" \in T /\ uid # ":"
  BY DEF PathAtoms
<1>2. Slice(owner) \in Seq(T) /\ Colons(Slice(owner)) = {}
  BY <1>1 DEF Slice, Colons, Places
<1>3. UserSlice(uid) \in Seq(T) /\ Colons(UserSlice(uid)) = {}
  BY <1>1 DEF UserSlice, Colons, Places
<1>4. Manager(uid) \in Seq(T) /\ Colons(Manager(uid)) = {}
  BY <1>1 DEF Manager, Colons, Places
<1>5. <<"sub">> \in Seq(T) /\ Colons(<<"sub">>) = {}
  BY <1>1 DEF Colons, Places
<1> QED
  BY <1>2, <1>3, <1>4, <1>5

LEMMA Appended ==
  ASSUME NEW S, NEW s \in Seq(S), NEW e \in S
  PROVE  /\ s \o <<e>> \in Seq(S) /\ Len(s \o <<e>>) = Len(s) + 1 /\ (s \o <<e>>)[Len(s) + 1] = e
         /\ \A i \in 1..Len(s) : (s \o <<e>>)[i] = s[i]
  OBVIOUS

LEMMA PathEnd ==
  ASSUME NEW T, NEW a \in Seq(T), NEW b \in Seq(T), NEW c \in Seq(T), NEW d \in Seq(T), NEW e \in Seq(T)
  PROVE  LET four == <<a, b, c>> \o <<d>>
             five == four \o <<e>>
         IN /\ four \in Seq(Seq(T)) /\ Len(four) = 4
            /\ four[1] = a /\ four[2] = b /\ four[3] = c /\ four[4] = d
            /\ five \in Seq(Seq(T)) /\ Len(five) = 5
            /\ five[1] = a /\ five[2] = b /\ five[3] = c /\ five[4] = d /\ five[5] = e
<1> DEFINE S == Seq(T)
<1>1. a \in S /\ b \in S /\ c \in S /\ d \in S /\ e \in S
  OBVIOUS
<1> HIDE DEF S
<1> DEFINE four == <<a, b, c>> \o <<d>>
           five == four \o <<e>>
<1>2. four \in Seq(S) /\ Len(four) = 4 /\ four[1] = a /\ four[2] = b /\ four[3] = c /\ four[4] = d
  BY <1>1
<1>6. four \in Seq(S)
  BY <1>2
<1> HIDE DEF four
<1>3. /\ five \in Seq(S) /\ Len(five) = Len(four) + 1 /\ five[Len(four) + 1] = e
      /\ \A i \in 1..Len(four) : five[i] = four[i]
  BY <1>1, <1>6, Appended
<1> HIDE DEF five
<1>4. Len(five) = 5 /\ five[1] = a /\ five[2] = b /\ five[3] = c /\ five[4] = d /\ five[5] = e
  BY <1>2, <1>3
<1> QED
  BY <1>2, <1>3, <1>4, Zenon DEF S, four, five

LEMMA UserPath ==
  ASSUME NEW u \in Units, u.owner # "system", NEW T, PathAtoms \subseteq T, UnitName(u) \in Seq(T)
  PROVE  LET path == GroupPath(u)
         IN /\ path \in Seq(Seq(T))
            /\ Len(path) = IF u.nested THEN 5 ELSE 4
            /\ path[1] = Slice(u.owner) /\ path[2] = UserSlice(Uid(u.owner)) /\ path[4] = UnitName(u)
            /\ u.nested => path[5] = <<"sub">>
            /\ \A i \in 1..3 : Colons(path[i]) = {}
            /\ u.nested => Colons(path[5]) = {}
<1> DEFINE a == Slice(u.owner)
           b == UserSlice(Uid(u.owner))
           c == Manager(Uid(u.owner))
           d == UnitName(u)
           s == <<"sub">>
<1>1. Uid(u.owner) \in {"1000", "1001"} /\ u.nested \in BOOLEAN
  BY UnitIs DEF Uid, MyUid
<1>2. /\ a \in Seq(T) /\ b \in Seq(T) /\ c \in Seq(T) /\ d \in Seq(T) /\ s \in Seq(T)
      /\ Colons(a) = {} /\ Colons(b) = {} /\ Colons(c) = {} /\ Colons(s) = {}
  BY <1>1, SliceNames
<1>3. GroupPath(u) = (<<a, b, c>> \o <<d>>) \o (IF u.nested THEN <<s>> ELSE <<>>)
  BY DEF GroupPath, Slice, Manager
<1> HIDE DEF a, b, c, d, s
<1> DEFINE four == <<a, b, c>> \o <<d>>
<1>4. /\ four \in Seq(Seq(T)) /\ Len(four) = 4
      /\ four[1] = a /\ four[2] = b /\ four[3] = c /\ four[4] = d
  BY <1>2
<1> HIDE DEF four
<1> DEFINE path == four \o (IF u.nested THEN <<s>> ELSE <<>>)
<1>5. CASE u.nested
  <2>1. /\ path \in Seq(Seq(T)) /\ Len(path) = 5
        /\ path[1] = a /\ path[2] = b /\ path[3] = c /\ path[4] = d /\ path[5] = s
    <3> DEFINE five == four \o <<s>>
    <3>1. /\ five \in Seq(Seq(T)) /\ Len(five) = 5
          /\ five[1] = a /\ five[2] = b /\ five[3] = c /\ five[4] = d /\ five[5] = s
      <4>1. /\ five \in Seq(Seq(T)) /\ Len(five) = 5
            /\ five[1] = a /\ five[2] = b /\ five[3] = c /\ five[4] = d /\ five[5] = s
        BY <1>2, PathEnd DEF four
      <4> QED
        BY <4>1
    <3>2. path = five
      BY <1>5
    <3> HIDE DEF path, five
    <3> QED
      BY <3>1, <3>2
  <2> HIDE DEF path
  <2>2. \A i \in 1..3 : i = 1 \/ i = 2 \/ i = 3
    OBVIOUS
  <2>3. path = GroupPath(u)
    BY <1>3, Zenon DEF path, four
  <2> QED
    BY <1>2, <1>5, <2>1, <2>2, <2>3 DEF a, b, d, s
<1>6. CASE ~u.nested
  <2>1. /\ path \in Seq(Seq(T)) /\ Len(path) = 4
        /\ path[1] = a /\ path[2] = b /\ path[3] = c /\ path[4] = d
    <3>1. path = four \o <<>>
      BY <1>6
    <3> DEFINE same == four \o <<>>
    <3>2. /\ same \in Seq(Seq(T)) /\ Len(same) = 4
          /\ same[1] = a /\ same[2] = b /\ same[3] = c /\ same[4] = d
      BY <1>4
    <3>3. path = same
      BY <3>1
    <3> HIDE DEF path, same
    <3> QED
      BY <3>2, <3>3
  <2> HIDE DEF path
  <2>2. \A i \in 1..3 : i = 1 \/ i = 2 \/ i = 3
    OBVIOUS
  <2>3. path = GroupPath(u)
    BY <1>3, Zenon DEF path, four
  <2> QED
    BY <1>2, <1>6, <2>1, <2>2, <2>3 DEF a, b, d
<1> QED
  BY <1>5, <1>6

LEMMA SystemPath ==
  ASSUME NEW u \in Units, u.owner = "system", NEW T, PathAtoms \subseteq T, UnitName(u) \in Seq(T)
  PROVE  LET path == GroupPath(u)
         IN path \in Seq(Seq(T)) /\ Len(path) >= 1 /\ path[1] = Slice(u.owner) /\ Colons(path[1]) = {}
<1> DEFINE a == Slice(u.owner)
           d == UnitName(u)
           s == <<"sub">>
<1>1. a \in Seq(T) /\ d \in Seq(T) /\ s \in Seq(T) /\ Colons(a) = {}
  <2>1. "1000" \in {"1000", "1001"}
    OBVIOUS
  <2> QED
    BY <2>1, SliceNames
<1>2. GroupPath(u) = (<<a>> \o <<d>>) \o (IF u.nested THEN <<s>> ELSE <<>>)
  BY DEF GroupPath, Slice
<1> HIDE DEF a, d, s
<1> DEFINE path == (<<a>> \o <<d>>) \o (IF u.nested THEN <<s>> ELSE <<>>)
<1>3. path \in Seq(Seq(T)) /\ Len(path) >= 1 /\ path[1] = a
  BY <1>1
<1> HIDE DEF path
<1>4. path = GroupPath(u)
  BY <1>2, Zenon DEF path
<1> QED
  BY <1>1, <1>3, <1>4 DEF a

-----------------------------------------------------------------------------
(***************************************************************************)
(* What CGroupsIdentifier reads of a process in a unit.                    *)
(***************************************************************************)
NameRead(u) == parseCGroupsPath(CgroupFile(u), MyUid)

LEMMA NameReadIs ==
  ASSUME NEW u
  PROVE  LET path == CutAtColon(GroupPath(u))
         IN NameRead(u) = IF Len(path) >= 2 /\ path[1] = <<"user", ".", "slice">> /\ path[2] = UserSlice(MyUid)
                            THEN Last(path) ELSE <<>>
  BY TargetIs DEF NameRead, parseCGroupsPath

(* Of others' units nothing is read.                                       *)
LEMMA OnlyMine ==
  ASSUME NEW u \in Units, NEW T, PathAtoms \subseteq T, UnitName(u) \in Seq(T), NameRead(u) # <<>>
  PROVE  u.owner = "me"
<1> DEFINE path == GroupPath(u)
           cut == CutAtColon(path)
<1>1. cut[1] = <<"user", ".", "slice">> /\ cut[2] = UserSlice(MyUid)
  BY NameReadIs
<1>2. CASE u.owner = "system"
  <2>1. path \in Seq(Seq(T)) /\ Len(path) >= 1 /\ path[1] = Slice(u.owner) /\ Colons(path[1]) = {}
    BY <1>2, SystemPath
  <2> HIDE DEF path
  <2>2. 1 \in 0..Len(path) /\ 1 \in 1..1 /\ \A j \in 1..1 : Colons(path[j]) = {}
    BY <2>1
  <2>3. cut[1] = path[1]
    BY <2>1, <2>2, CutKeeps
  <2>4. Slice(u.owner) = <<"system", ".", "slice">>
    BY <1>2 DEF Slice
  <2> HIDE DEF cut
  <2>5. <<"system", ".", "slice">>[1] = "system" /\ <<"user", ".", "slice">>[1] = "user"
    OBVIOUS
  <2> QED
    BY <1>1, <2>1, <2>3, <2>4, <2>5
<1>3. CASE u.owner = "other"
  <2>1. /\ path \in Seq(Seq(T)) /\ Len(path) >= 4
        /\ path[2] = UserSlice(Uid(u.owner)) /\ \A i \in 1..3 : Colons(path[i]) = {}
    <3>1. u.owner # "system" /\ u.nested \in BOOLEAN
      BY <1>3, UnitIs
    <3>2. /\ path \in Seq(Seq(T)) /\ Len(path) = IF u.nested THEN 5 ELSE 4
          /\ path[2] = UserSlice(Uid(u.owner)) /\ \A i \in 1..3 : Colons(path[i]) = {}
      BY <3>1, UserPath
    <3> HIDE DEF path
    <3> QED
      BY <3>1, <3>2
  <2> HIDE DEF path
  <2>2. 3 \in 0..Len(path) /\ 2 \in 1..3
    BY <2>1
  <2>3. cut[2] = path[2]
    BY <2>1, <2>2, CutKeeps
  <2>4. Uid(u.owner) = "1001" /\ MyUid = "1000"
    BY <1>3 DEF Uid, MyUid
  <2> HIDE DEF cut
  <2>5. UserSlice("1001")[3] = "1001" /\ UserSlice("1000")[3] = "1000"
    BY DEF UserSlice
  <2> QED
    BY <1>1, <2>1, <2>3, <2>4, <2>5
<1> QED
  BY <1>2, <1>3, UnitIs

LEMMA LastIs ==
  ASSUME NEW S, NEW s \in Seq(S), NEW n \in Nat, n = Len(s)
  PROVE  Last(s) = s[n]
  BY DEF Last

(* Of this user's, the name of the unit, what of it is before a ":", or    *)
(* the group below it.                                                     *)
LEMMA MineIsRead ==
  ASSUME NEW u \in Units, u.owner = "me", NEW T, PathAtoms \subseteq T, UnitName(u) \in Seq(T)
  PROVE  /\ Colons(UnitName(u)) = {} => NameRead(u) = IF u.nested THEN <<"sub">> ELSE UnitName(u)
         /\ Colons(UnitName(u)) # {} /\ FirstColon(UnitName(u)) # 1 =>
              NameRead(u) = SubSeq(UnitName(u), 1, FirstColon(UnitName(u)) - 1)
<1> DEFINE path == GroupPath(u)
           cut == CutAtColon(path)
           name == UnitName(u)
<1>1. /\ path \in Seq(Seq(T))
      /\ Len(path) = IF u.nested THEN 5 ELSE 4
      /\ path[1] = Slice(u.owner) /\ path[2] = UserSlice(Uid(u.owner)) /\ path[4] = name
      /\ u.nested => path[5] = <<"sub">>
      /\ \A i \in 1..3 : Colons(path[i]) = {}
      /\ u.nested => Colons(path[5]) = {}
  BY UserPath
<1>2. Slice(u.owner) = <<"user", ".", "slice">> /\ Uid(u.owner) = MyUid
  BY DEF Slice, Uid
<1> HIDE DEF path
<1>3. 3 \in 0..Len(path)
  BY <1>1
<1>4. cut \in Seq(Seq(T)) /\ cut[1] = <<"user", ".", "slice">> /\ cut[2] = UserSlice(MyUid)
  <2>1. cut \in Seq(Seq(T)) /\ \A i \in 1..3 : cut[i] = path[i]
    BY <1>1, <1>3, CutKeeps
  <2>2. cut[1] = path[1] /\ cut[2] = path[2]
    BY <2>1
  <2> QED
    BY <1>1, <1>2, <2>1, <2>2
<1>5. ASSUME Len(cut) >= 2 PROVE NameRead(u) = cut[Len(cut)]
  <2>1. NameRead(u) = Last(cut)
    BY <1>4, <1>5, NameReadIs DEF path
  <2> QED
    BY <1>4, <2>1, LastIs
<1>6. ASSUME Colons(name) = {} PROVE NameRead(u) = IF u.nested THEN <<"sub">> ELSE name
  <2>1. \A i \in DOMAIN path : Colons(path[i]) = {}
    <3>1. \A i \in DOMAIN path : i \in 1..3 \/ i = 4 \/ (u.nested /\ i = 5)
      BY <1>1
    <3> QED
      BY <1>1, <1>6, <3>1
  <2>2. cut = path
    BY <2>1, NotCut
  <2>3. NameRead(u) = path[Len(path)]
    <3>1. Len(cut) >= 2
      BY <1>1, <2>2
    <3>2. NameRead(u) = cut[Len(cut)]
      BY <1>5, <3>1
    <3> HIDE DEF cut
    <3> QED
      BY <2>2, <3>2
  <2> QED
    BY <1>1, <2>3
<1>7. ASSUME Colons(name) # {}, FirstColon(name) # 1 PROVE NameRead(u) = SubSeq(name, 1, FirstColon(name) - 1)
  <2> DEFINE rest == SubSeq(name, 1, FirstColon(name) - 1)
             start == SubSeq(path, 1, 3)
  <2>1. 4 \in 1..Len(path) /\ Colons(path[4]) # {} /\ (\A j \in 1..(4 - 1) : Colons(path[j]) = {}) /\ 4 - 1 = 3
    BY <1>1, <1>7
  <2>2. cut = SubSeq(path, 1, 4 - 1) \o
          (IF FirstColon(path[4]) = 1 THEN <<>> ELSE <<SubSeq(path[4], 1, FirstColon(path[4]) - 1)>>)
    BY <1>1, <2>1, CutAt
  <2>3. cut = start \o <<rest>>
    BY <1>1, <1>7, <2>1, <2>2
  <2>4. start \in Seq(Seq(T)) /\ Len(start) = 3
    BY <1>1, <2>1
  <2>9. rest \in Seq(T)
    <3>1. FirstColon(name) \in 1..Len(name)
      BY <1>7, FirstColonIs
    <3> QED
      BY <3>1
  <2> HIDE DEF start, rest
  <2>5. Len(start \o <<rest>>) = 4 /\ (start \o <<rest>>)[4] = rest
    <3>1. Len(start \o <<rest>>) = Len(start) + 1 /\ (start \o <<rest>>)[Len(start) + 1] = rest
      BY <2>4, <2>9, Appended
    <3> QED
      BY <2>4, <3>1
  <2>6. Len(cut) = 4 /\ cut[4] = rest
    BY <2>3, <2>5
  <2>7. NameRead(u) = cut[4]
    BY <1>5, <2>6
  <2> QED
    BY <2>6, <2>7 DEF rest
<1> QED
  BY <1>6, <1>7

-----------------------------------------------------------------------------
(***************************************************************************)
(* What is left of a name at its first ":" names no unit.                  *)
(***************************************************************************)
LEMMA NoSuffixNoUnit ==
  ASSUME NEW T, NEW text \in Seq(T), Len(text) >= 2, text[1] = "app", text[2] = "-",
         text[Len(text)] \notin UnitSuffixes
  PROVE  ~processUnitName(text).found
<1> DEFINE n == Len(text)
           unit == SubSeq(text, 3, n)
<1>1. n \in Nat /\ n >= 2 /\ text[n] # "service" /\ text[n] # "scope"
  BY DEF UnitSuffixes
<1>2. StartsWith(text, AppPrefix)
  BY StartsWithApp
<1>3. From(text, Len(AppPrefix) + 1) = unit
  BY DEF From, AppPrefix
<1>4. \A suffix \in {"service", "scope"} : ~EndsWith(unit, <<".", suffix>>)
  <2> TAKE suffix \in {"service", "scope"}
  <2>1. CASE n >= 4
    <3> HIDE DEF n
    <3>1. EndsWith(SubSeq(text, 3, n), <<".", suffix>>) <=> text[n - 1] = "." /\ text[n] = suffix
      BY <1>1, <2>1, EndsWithPair DEF n
    <3> QED
      BY <1>1, <3>1
  <2>2. CASE n < 4
    <3>1. Len(unit) < 2
      <4>1. 3 \in 1..(n + 1) /\ n \in 0..n /\ 3 <= n + 1 /\ n - 3 + 1 < 2 /\ n = Len(text)
        BY <1>1, <2>2
      <4>2. Len(unit) = n - 3 + 1
        BY <4>1, PartIs
      <4> QED
        BY <4>1, <4>2
    <3>2. Len(<<".", suffix>>) = 2 /\ Len(unit) \in Nat
      OBVIOUS
    <3> QED
      BY <3>1, <3>2 DEF EndsWith
  <2> QED
    BY <1>1, <2>1, <2>2
<1> HIDE DEF unit
<1>5. ~EndsWith(unit, <<".", "service">>) /\ ~EndsWith(unit, <<".", "scope">>)
  BY <1>4
<1>6. processUnitName(text) = NoUnit
  BY <1>2, <1>3, <1>5 DEF processUnitName
<1> QED
  BY <1>6 DEF NoUnit

LEMMA SubNoUnit == ~processUnitName(<<"sub">>).found
<1>1. ~StartsWith(<<"sub">>, AppPrefix)
  BY DEF StartsWith, AppPrefix
<1>2. Places(<<"sub">>, ".") = {}
  BY DEF Places
<1>3. processUnitName(<<"sub">>) = NoUnit
  BY <1>1, <1>2 DEF processUnitName
<1> QED
  BY <1>3 DEF NoUnit

-----------------------------------------------------------------------------
(***************************************************************************)
(* The names of units: texts, and where their ":" can be.                  *)
(***************************************************************************)
(* <prefix><escaped id><instance and suffix>; a ":" is the id's.           *)
Shaped(name, q, e, T) ==
  \E tail \in Seq(T) :
    /\ name = (q \o e) \o tail
    /\ q \in Seq(T) /\ Len(q) >= 2 /\ q[1] = "app" /\ q[2] = "-" /\ q[Len(q)] \notin UnitSuffixes
    /\ e \in Seq(T)
    /\ Colons(q) = {} /\ Colons(tail) = {}

LEMMA TailIs ==
  ASSUME NEW T, NEW separator \in T, NEW instance \in T, NEW suffix \in T, "." \in T,
         separator # ":", instance # ":", suffix # ":"
  PROVE  <<separator, instance, ".", suffix>> \in Seq(T) /\ Colons(<<separator, instance, ".", suffix>>) = {}
  BY DEF Colons, Places

LEMMA ShapeIs ==
  ASSUME NEW u \in Units, u.kind \in OfInstance \cup {"command"}
  PROVE  \E q : Shaped(UnitName(u), q, escapeApplicationId(u.id), NameAtoms(u))
<1> DEFINE e == escapeApplicationId(u.id)
           T == NameAtoms(u)
<1>1. IsText(u.id) /\ u.instance # ":"
  BY UnitIs
<1>2. /\ "-" \in T /\ "@" \in T /\ "." \in T /\ "app" \in T /\ "DDE" \in T /\ "gnome" \in T
      /\ "tmp" \in T /\ "script" \in T /\ "service" \in T /\ "scope" \in T /\ u.instance \in T
  BY DEF NameAtoms, Alphabet
<1>3. e \in Seq(T)
  <2>1. Alphabet(u.id) \subseteq T
    BY DEF NameAtoms
  <2>2. e \in Seq(Alphabet(u.id))
    BY <1>1, EscapedIsText
  <2> HIDE DEF e, T
  <2> QED
    BY <2>1, <2>2
<1> DEFINE service == <<"@", u.instance, ".", "service">>
           scope == <<"-", u.instance, ".", "scope">>
<1> HIDE DEF T
<1>4. service \in Seq(T) /\ Colons(service) = {} /\ scope \in Seq(T) /\ Colons(scope) = {}
  BY <1>1, <1>2, TailIs
<1> HIDE DEF e
<1>5. CASE u.kind = "launch"
  <2> DEFINE q == <<"app", "-", "DDE", "-">>
  <2>1. q \in Seq(T) /\ Len(q) >= 2 /\ q[1] = "app" /\ q[2] = "-" /\ q[Len(q)] \notin UnitSuffixes /\ Colons(q) = {}
    BY <1>2 DEF UnitSuffixes, Colons, Places
  <2>2. UnitName(u) = (q \o e) \o service
    BY <1>5 DEF UnitName, LaunchName, e
  <2> HIDE DEF q, service
  <2>3. Shaped(UnitName(u), q, e, T)
    BY <1>3, <1>4, <2>1, <2>2, Zenon DEF Shaped
  <2> QED
    BY <2>3 DEF e, T
<1>6. CASE u.kind = "scope"
  <2> DEFINE q == <<"app", "-", "gnome", "-">>
  <2>1. q \in Seq(T) /\ Len(q) >= 2 /\ q[1] = "app" /\ q[2] = "-" /\ q[Len(q)] \notin UnitSuffixes /\ Colons(q) = {}
    BY <1>2 DEF UnitSuffixes, Colons, Places
  <2>2. UnitName(u) = (q \o e) \o scope
    BY <1>6 DEF UnitName, ForeignName, e
  <2> HIDE DEF q, scope
  <2>3. Shaped(UnitName(u), q, e, T)
    BY <1>3, <1>4, <2>1, <2>2, Zenon DEF Shaped
  <2> QED
    BY <2>3 DEF e, T
<1>7. CASE u.kind = "autostart"
  <2> DEFINE q == <<"app", "-">>
  <2>1. q \in Seq(T) /\ Len(q) >= 2 /\ q[1] = "app" /\ q[2] = "-" /\ q[Len(q)] \notin UnitSuffixes /\ Colons(q) = {}
    BY <1>2 DEF UnitSuffixes, Colons, Places
  <2>2. UnitName(u) = (q \o e) \o service
    BY <1>7 DEF UnitName, ForeignName, e
  <2> HIDE DEF q, service
  <2>3. Shaped(UnitName(u), q, e, T)
    BY <1>3, <1>4, <2>1, <2>2, Zenon DEF Shaped
  <2> QED
    BY <2>3 DEF e, T
<1>8. CASE u.kind = "command"
  <2> DEFINE q == <<"app", "-", "DDE", "-", "tmp", ".", "script", ".">>
  <2>1. q \in Seq(T) /\ Len(q) >= 2 /\ q[1] = "app" /\ q[2] = "-" /\ q[Len(q)] \notin UnitSuffixes /\ Colons(q) = {}
    BY <1>2 DEF UnitSuffixes, Colons, Places
  <2>2. UnitName(u) = (q \o e) \o service
    BY <1>8 DEF UnitName, CommandName, e
  <2> HIDE DEF q, service
  <2>3. Shaped(UnitName(u), q, e, T)
    BY <1>3, <1>4, <2>1, <2>2, Zenon DEF Shaped
  <2> QED
    BY <2>3 DEF e, T
<1> QED
  BY <1>5, <1>6, <1>7, <1>8 DEF OfInstance

LEMMA ShapedIs ==
  ASSUME NEW T, NEW name, NEW q, NEW e, Shaped(name, q, e, T)
  PROVE  /\ name \in Seq(T) /\ Len(name) \in Nat /\ Len(q) \in Nat /\ Len(e) \in Nat
         /\ Len(q) + Len(e) <= Len(name)
         /\ \A k \in 1..Len(q) : name[k] = q[k] /\ q[k] # ":"
         /\ \A k \in 1..Len(e) : name[Len(q) + k] = e[k]
         /\ \A k \in (Len(q) + Len(e) + 1)..Len(name) : name[k] # ":"
<1>1. PICK tail \in Seq(T) : name = (q \o e) \o tail /\ q \in Seq(T) /\ e \in Seq(T) /\ Colons(q) = {} /\ Colons(tail) = {}
  BY DEF Shaped
<1> DEFINE head == q \o e
           m == Len(head)
<1>2. /\ head \in Seq(T) /\ m = Len(q) + Len(e) /\ Len(q) \in Nat /\ Len(e) \in Nat
      /\ \A k \in 1..Len(q) : head[k] = q[k]
      /\ \A k \in 1..Len(e) : head[Len(q) + k] = e[k]
  BY <1>1
<1> HIDE DEF head
<1>3. /\ name \in Seq(T) /\ Len(name) = m + Len(tail) /\ Len(tail) \in Nat /\ m \in Nat
      /\ \A k \in 1..m : name[k] = head[k]
      /\ \A k \in 1..Len(tail) : name[m + k] = tail[k]
  BY <1>1, <1>2 DEF head
<1>4. \A k \in 1..Len(q) : q[k] # ":"
  <2>1. DOMAIN q = 1..Len(q)
    BY <1>1
  <2> QED
    BY <1>1, <2>1 DEF Colons, Places
<1>5. \A k \in 1..Len(tail) : tail[k] # ":"
  <2>1. DOMAIN tail = 1..Len(tail)
    BY <1>1
  <2> QED
    BY <1>1, <2>1 DEF Colons, Places
<1> HIDE DEF m
<1>6. \A k \in 1..Len(e) : name[Len(q) + k] = e[k]
  <2> TAKE k \in 1..Len(e)
  <2>1. Len(q) + k \in 1..m
    BY <1>2
  <2> QED
    BY <1>2, <1>3, <2>1
<1>7. \A k \in (m + 1)..Len(name) : name[k] # ":"
  <2> TAKE k \in (m + 1)..Len(name)
  <2>1. k - m \in 1..Len(tail) /\ m + (k - m) = k
    BY <1>3
  <2> QED
    BY <1>3, <1>5, <2>1
<1>8. \A k \in 1..Len(q) : k \in 1..m
  BY <1>2
<1> QED
  BY <1>2, <1>3, <1>4, <1>6, <1>7, <1>8

LEMMA ShapedWhole ==
  ASSUME NEW T, NEW name, NEW q, NEW e, Shaped(name, q, e, T), \A k \in 1..Len(e) : e[k] # ":"
  PROVE  Colons(name) = {}
<1>1. \A k \in 1..Len(name) : \/ k \in 1..Len(q) \/ k \in (Len(q) + Len(e) + 1)..Len(name)
                              \/ k - Len(q) \in 1..Len(e) /\ Len(q) + (k - Len(q)) = k
  BY ShapedIs
<1>2. \A k \in 1..Len(name) : name[k] # ":"
  <2> TAKE k \in 1..Len(name)
  <2>1. CASE k \in 1..Len(q)
    BY <2>1, ShapedIs
  <2>2. CASE k \in (Len(q) + Len(e) + 1)..Len(name)
    BY <2>2, ShapedIs
  <2>3. CASE k - Len(q) \in 1..Len(e) /\ Len(q) + (k - Len(q)) = k
    <3> DEFINE i == k - Len(q)
    <3>1. i \in 1..Len(e) /\ name[Len(q) + i] = e[i] /\ Len(q) + i = k
      BY <2>3, ShapedIs
    <3> HIDE DEF i
    <3> QED
      BY <3>1
  <2> QED
    BY <1>1, <2>1, <2>2, <2>3
<1>3. DOMAIN name = 1..Len(name)
  BY ShapedIs
<1> QED
  BY <1>2, <1>3 DEF Colons, Places

LEMMA ShapedCut ==
  ASSUME NEW T, NEW name, NEW q, NEW e, Shaped(name, q, e, T), Colons(name) # {}, ColonsApart(e)
  PROVE  /\ FirstColon(name) # 1
         /\ ~processUnitName(SubSeq(name, 1, FirstColon(name) - 1)).found
<1> DEFINE m == Len(q)
           f == FirstColon(name)
           g == f - 1
           i == f - m
<1>1. /\ name \in Seq(T) /\ Len(name) \in Nat /\ m \in Nat /\ Len(e) \in Nat
      /\ m + Len(e) <= Len(name)
      /\ \A k \in 1..m : name[k] = q[k] /\ q[k] # ":"
      /\ \A k \in 1..Len(e) : name[m + k] = e[k]
      /\ \A k \in (m + Len(e) + 1)..Len(name) : name[k] # ":"
  BY ShapedIs
<1>2. m >= 2 /\ q[1] = "app" /\ q[2] = "-" /\ q[m] \notin UnitSuffixes
  BY DEF Shaped
<1>3. f \in 1..Len(name) /\ name[f] = ":"
  BY <1>1, FirstColonIs
<1> HIDE DEF f, m
<1>4. i \in 1..Len(e) /\ m + i = f /\ e[i] = ":" /\ g = m + (i - 1)
  <2>1. ~(f \in 1..m) /\ ~(f \in (m + Len(e) + 1)..Len(name))
    BY <1>1, <1>3
  <2>2. i \in 1..Len(e) /\ m + i = f /\ g = m + (i - 1)
    BY <1>1, <1>3, <2>1
  <2> HIDE DEF i
  <2> QED
    BY <1>1, <1>3, <2>2
<1> HIDE DEF g, i
<1>5. g \in 2..Len(name) /\ name[g] \notin UnitSuffixes
  <2>1. g \in 2..Len(name)
    BY <1>1, <1>2, <1>4
  <2>2. CASE i = 1
    <3>1. g = m /\ m \in 1..m
      BY <1>1, <1>2, <1>4, <2>2
    <3> QED
      BY <1>1, <1>2, <2>1, <3>1
  <2>3. CASE i # 1
    <3>1. i \in 2..Len(e) /\ i - 1 \in 1..Len(e)
      BY <1>1, <1>4, <2>3
    <3>2. e[i - 1] \notin UnitSuffixes
      BY <1>4, <3>1 DEF ColonsApart
    <3>3. name[m + (i - 1)] = e[i - 1]
      BY <1>1, <3>1
    <3> QED
      BY <1>4, <2>1, <3>2, <3>3
  <2> QED
    BY <2>2, <2>3
<1> DEFINE cut == SubSeq(name, 1, g)
<1>6. cut \in Seq(T) /\ Len(cut) = g /\ \A k \in 1..g : cut[k] = name[k]
  <2>1. 1 \in 1..(Len(name) + 1) /\ g \in 0..Len(name) /\ 1 <= g + 1 /\ g - 1 + 1 = g /\ g \in Nat
    BY <1>1, <1>5
  <2>2. cut \in Seq(T) /\ Len(cut) = g /\ \A k \in 1..g : cut[k] = name[1 + k - 1]
    BY <1>1, <2>1, PartIs
  <2>3. \A k \in 1..g : 1 + k - 1 = k
    BY <2>1
  <2> QED
    BY <2>2, <2>3
<1> HIDE DEF cut
<1>7. Len(cut) >= 2 /\ cut[1] = "app" /\ cut[2] = "-" /\ cut[Len(cut)] \notin UnitSuffixes
  <2>1. 1 \in 1..g /\ 2 \in 1..g /\ g \in 1..g /\ 1 \in 1..m /\ 2 \in 1..m /\ g >= 2
    BY <1>1, <1>2, <1>5
  <2> QED
    BY <1>1, <1>2, <1>5, <1>6, <2>1
<1>8. ~processUnitName(cut).found
  BY <1>6, <1>7, NoSuffixNoUnit
<1>9. f # 1
  BY <1>1, <1>2, <1>4
<1> QED
  BY <1>8, <1>9 DEF cut, g, f

-----------------------------------------------------------------------------
(* The names of all kinds of units are texts.                              *)
AllAtoms(u) == NameAtoms(u) \cup PathAtoms

LEMMA MoreAtoms ==
  ASSUME NEW S, NEW T, S \subseteq T, NEW s \in Seq(S)
  PROVE  s \in Seq(T)
  OBVIOUS

LEMMA UnitNameType ==
  ASSUME NEW u \in Units
  PROVE  UnitName(u) \in Seq(AllAtoms(u)) /\ PathAtoms \subseteq AllAtoms(u)
<1> DEFINE S == NameAtoms(u)
           T == AllAtoms(u)
<1>1. S \subseteq T /\ PathAtoms \subseteq T
  BY DEF AllAtoms
<1>2. "." \in S /\ "service" \in S /\ "session" \in S /\ "-" \in S /\ "2" \in S /\ "scope" \in S /\ Alphabet(u.id) \subseteq S
  BY DEF NameAtoms, Alphabet
<1> HIDE DEF S, T
<1>3. CASE u.kind \in OfInstance \cup {"command"}
  <2>1. UnitName(u) \in Seq(S)
    BY <1>3, ShapeIs, ShapedIs DEF S
  <2> QED
    BY <1>1, <2>1, MoreAtoms DEF T
<1>4. CASE u.kind = "bus"
  <2>1. UnitName(u) = u.id \o <<".", "service">>
    BY <1>4 DEF UnitName, ForeignName
  <2>2. u.id \in Seq(Alphabet(u.id))
    BY UnitIs, TextIs
  <2>3. u.id \in Seq(S)
    BY <1>2, <2>2, MoreAtoms
  <2>4. UnitName(u) \in Seq(S)
    BY <1>2, <2>1, <2>3
  <2> QED
    BY <1>1, <2>4, MoreAtoms DEF T
<1>5. CASE u.kind = "session"
  <2>1. UnitName(u) = <<"session", "-", "2", ".", "scope">>
    BY <1>5 DEF UnitName, ForeignName
  <2>2. UnitName(u) \in Seq(S)
    BY <1>2, <2>1
  <2> QED
    BY <1>1, <2>2, MoreAtoms DEF T
<1> QED
  BY <1>1, <1>3, <1>4, <1>5, UnitIs DEF T

LEMMA NoColon ==
  ASSUME NEW u \in Units, u.kind \in {"bus", "session"} \/ (u.kind \in OfInstance /\ Places(u.id, ":") = {})
  PROVE  Colons(UnitName(u)) = {}
<1>1. CASE u.kind \in OfInstance /\ Places(u.id, ":") = {}
  <2> DEFINE e == escapeApplicationId(u.id)
             S == Safe(u.id)
             T == NameAtoms(u)
  <2>1. e \in Seq(S)
    BY <1>1, UnitIs, NamesAssumption, EscapedIsText
  <2>2. ":" \notin S
    BY <1>1 DEF Safe, Kept, Digits, Places
  <2> HIDE DEF e, S
  <2>3. \A k \in 1..Len(e) : e[k] # ":"
    BY <2>1, <2>2
  <2>4. PICK q : Shaped(UnitName(u), q, e, T)
    BY <1>1, ShapeIs DEF e
  <2> HIDE DEF T
  <2> QED
    BY <2>3, <2>4, ShapedWhole
<1>2. CASE u.kind = "bus"
  <2> DEFINE id == u.id
             T == NameAtoms(u)
  <2>1. UnitName(u) = id \o <<".", "service">>
    BY <1>2 DEF UnitName, ForeignName
  <2>2. Places(id, ":") = {}
    BY <1>2, NamesAssumption
  <2>3. id \in Seq(Alphabet(id)) /\ DOMAIN id = 1..Len(id)
    BY UnitIs, TextIs
  <2> HIDE DEF id
  <2>4. \A k \in 1..Len(id) : id[k] # ":"
    BY <2>2, <2>3 DEF Places
  <2> DEFINE name == id \o <<".", "service">>
             A == Alphabet(id) \cup {".", "service"}
  <2>5. id \in Seq(A) /\ <<".", "service">> \in Seq(A)
    <3>1. Alphabet(id) \subseteq A /\ "." \in A /\ "service" \in A
      OBVIOUS
    <3> HIDE DEF A
    <3> QED
      BY <2>3, <3>1, MoreAtoms
  <2> HIDE DEF A
  <2>6. /\ name \in Seq(A) /\ Len(name) = Len(id) + 2
        /\ \A k \in 1..Len(id) : name[k] = id[k]
        /\ name[Len(id) + 1] = "." /\ name[Len(id) + 2] = "service"
    BY <2>5
  <2> HIDE DEF name
  <2>7. \A k \in 1..Len(name) : k \in 1..Len(id) \/ k = Len(id) + 1 \/ k = Len(id) + 2
    BY <2>3, <2>6
  <2>8. DOMAIN name = 1..Len(name)
    BY <2>6
  <2>9. \A k \in DOMAIN name : name[k] # ":"
    BY <2>4, <2>6, <2>7, <2>8
  <2> QED
    BY <2>1, <2>9 DEF Colons, Places, name
<1>3. CASE u.kind = "session"
  <2>1. UnitName(u) = <<"session", "-", "2", ".", "scope">>
    BY <1>3 DEF UnitName, ForeignName
  <2>2. Colons(<<"session", "-", "2", ".", "scope">>) = {}
    BY DEF Colons, Places
  <2> QED
    BY <2>1, <2>2
<1> QED
  BY <1>1, <1>2, <1>3

(* What AM reads of a process and can take apart is the whole name of a    *)
(* unit of this user.                                                      *)
LEMMA ReadIsName ==
  ASSUME NEW u \in Units, NameRead(u) # <<>>, processUnitName(NameRead(u)).found
  PROVE  u.owner = "me" /\ (u.kind # "command" => NameRead(u) = UnitName(u))
<1> DEFINE T == AllAtoms(u)
           name == UnitName(u)
<1>1. name \in Seq(T) /\ PathAtoms \subseteq T
  BY UnitNameType
<1> HIDE DEF T
<1>2. u.owner = "me"
  BY <1>1, OnlyMine
<1>3. /\ Colons(name) = {} => NameRead(u) = IF u.nested THEN <<"sub">> ELSE name
      /\ Colons(name) # {} /\ FirstColon(name) # 1 => NameRead(u) = SubSeq(name, 1, FirstColon(name) - 1)
  BY <1>1, <1>2, MineIsRead
<1>4. ASSUME u.kind # "command" PROVE NameRead(u) = name
  <2>1. CASE Colons(name) = {}
    <3>1. ~u.nested
      BY <1>3, <2>1, SubNoUnit
    <3> QED
      BY <1>3, <2>1, <3>1
  <2>2. CASE Colons(name) # {}
    <3>1. u.kind \in OfInstance
      BY <1>4, <2>2, NoColon, UnitIs
    <3> DEFINE e == escapeApplicationId(u.id)
    <3>2. PICK q : Shaped(name, q, e, NameAtoms(u))
      BY <3>1, ShapeIs
    <3>3. ColonsApart(e)
      <4>1. IsText(u.id) /\ \A i \in Places(u.id, ":") : i # 1 => u.id[i - 1] \notin UnitSuffixes
        BY <3>1, UnitIs, NamesAssumption DEF UnitSuffixes
      <4> QED
        BY <4>1, ColonsStayApart
    <3> HIDE DEF e, name
    <3>4. FirstColon(name) # 1 /\ ~processUnitName(SubSeq(name, 1, FirstColon(name) - 1)).found
      BY <2>2, <3>2, <3>3, ShapedCut
    <3> QED
      BY <1>3, <2>2, <3>4
  <2> QED
    BY <2>1, <2>2
<1> QED
  BY <1>2, <1>4

LEMMA LaunchedRead ==
  ASSUME NEW u \in Units, u.kind = "launch", u.owner = "me", ~u.nested, Places(u.id, ":") = {}
  PROVE  NameRead(u) = UnitName(u) /\ UnitName(u) # <<>>
<1>1. Colons(UnitName(u)) = {}
  BY NoColon DEF OfInstance
<1>2. NameRead(u) = UnitName(u)
  BY <1>1, UnitNameType, MineIsRead
<1>3. UnitName(u) # <<>>
  <2>1. PICK q : Shaped(UnitName(u), q, escapeApplicationId(u.id), NameAtoms(u))
    BY ShapeIs DEF OfInstance
  <2>2. Len(UnitName(u)) >= 2
    BY <2>1, ShapedIs DEF Shaped
  <2> QED
    BY <2>2
<1> QED
  BY <1>2, <1>3
-----------------------------------------------------------------------------
(***************************************************************************)
(* The inductive invariant.                                                *)
(***************************************************************************)
IsCall(c) ==
  c \in [at : {c.at}, target : {c.target}, fd : {c.fd}, pid : {c.pid}, name : {c.name},
         seen : {c.seen}, steady : {c.steady}, app : {c.app}, instance : {c.instance}]

(* A serial number is given once: it tells one process.                    *)
SerialsUnique ==
  /\ \A p, q \in Running : process[p].serial = process[q].serial => p = q
  /\ \A p \in Running : process[p].serial <= born

(* While the process of a call lives it has the id of the pidfd, and it is *)
(* in a unit the call has seen.                                            *)
TargetKnown ==
  Calling =>
    /\ call.target <= born /\ call.fd \in Pids
    /\ Alive(call.target) =>
         /\ call.fd \in Running /\ process[call.fd].serial = call.target
         /\ process[call.fd].unit \in call.seen

(* After the id is read it is the pidfd's, and what was read of it is the  *)
(* living process's; once it was found alive, it was read from its units.  *)
ReadOfTarget ==
  /\ call.at \in {"cgroup", "alive", "lookup", "answered"} => call.pid = call.fd
  /\ call.at = "alive" /\ Alive(call.target) =>
       \E u \in call.seen : call.name = parseCGroupsPath(CgroupFile(u), MyUid)

IInv ==
  /\ TypeOK
  /\ IsCall(call)
  /\ SerialsUnique
  /\ TargetKnown
  /\ ReadOfTarget
  /\ NameIsTargets

USE IdentifyAssumption

-----------------------------------------------------------------------------
LEMMA NoCallFields ==
  /\ NoCall.at = "idle" /\ NoCall.target = 0 /\ NoCall.seen = {} /\ NoCall.steady = FALSE
  /\ NoCall.steady \in BOOLEAN /\ IsCall(NoCall)
<1>1. /\ NoCall.at = "idle" /\ NoCall.target = 0 /\ NoCall.fd = NoProcess /\ NoCall.pid = NoProcess
      /\ NoCall.name = <<>> /\ NoCall.seen = {} /\ NoCall.steady = FALSE
      /\ NoCall.app = <<>> /\ NoCall.instance = NoInstance
  BY DEF NoCall
<1>2. NoCall \in [at : {"idle"}, target : {0}, fd : {NoProcess}, pid : {NoProcess}, name : {<<>>},
                  seen : {{}}, steady : {FALSE}, app : {<<>>}, instance : {NoInstance}]
  BY DEF NoCall
<1> QED BY <1>1, <1>2 DEF IsCall

LEMMA InitIInv == Init => IInv
<1> SUFFICES ASSUME Init PROVE IInv
  OBVIOUS
<1>1. /\ call.at = "idle" /\ call.target = 0 /\ call.seen = {} /\ call.steady \in BOOLEAN
      /\ IsCall(call)
  BY NoCallFields DEF Init
<1>2. Running = {} BY DEF Init, Running
<1>3. TypeOK BY <1>1 DEF Init, TypeOK
<1> QED BY <1>1, <1>2, <1>3 DEF IInv, SerialsUnique, TargetKnown, ReadOfTarget, NameIsTargets, Calling

(* What a step of the call itself leaves alone. *)
LEMMA ProcessesKept ==
  ASSUME UNCHANGED process
  PROVE  /\ Running' = Running
         /\ \A n : Alive(n)' <=> Alive(n)
BY DEF Running, Alive

(* The groups of a unit do not change. *)
LEMMA GroupsKept ==
  ASSUME UNCHANGED hierarchy, NEW u
  PROVE  parseCGroupsPath(CgroupFile(u), MyUid)' = parseCGroupsPath(CgroupFile(u), MyUid)
BY DEF CgroupFile

-----------------------------------------------------------------------------
(***************************************************************************)
(* Processes.                                                              *)
(***************************************************************************)
LEMMA StartProcessInv ==
  ASSUME IInv, NEW p \in Pids, NEW u \in Units, StartProcess(p, u)
  PROVE  IInv'
<1> USE DEF IInv
<1>1. /\ process' = [process EXCEPT ![p] = [serial |-> born + 1, unit |-> u]]
      /\ born' = born + 1 /\ born' \in 1..MaxProcesses /\ born \in Nat
      /\ UNCHANGED <<listed, hierarchy, call>>
      /\ p \notin Running
  BY DEF StartProcess, TypeOK, Running
<1>2. TypeOK'
  <2>1. [serial |-> born + 1, unit |-> u] \in ProcessType BY <1>1 DEF ProcessType
  <2>2. process' \in [Pids -> ProcessType \cup {NoProcess}] BY <1>1, <2>1 DEF TypeOK
  <2> QED BY <1>1, <2>2 DEF TypeOK
<1>3. /\ \A q \in Pids \ {p} : process'[q] = process[q]
      /\ process'[p] = [serial |-> born + 1, unit |-> u]
  BY <1>1 DEF TypeOK
<1>4. /\ Running' \subseteq Running \cup {p}
      /\ Running \subseteq Running'
  BY <1>1, <1>3 DEF Running
<1>5. \A q \in Running : process[q].serial \in 1..MaxProcesses
  BY DEF TypeOK, ProcessType, Running
<1>6. SerialsUnique'
  BY <1>1, <1>3, <1>4, <1>5 DEF SerialsUnique, Running
<1>7. ASSUME Calling PROVE Alive(call.target)' => Alive(call.target)
  BY <1>1, <1>3, <1>4, <1>7 DEF Alive, TargetKnown, TypeOK, Running
<1>8. Calling' <=> Calling BY <1>1 DEF Calling
<1>9. TargetKnown'
  BY <1>1, <1>3, <1>4, <1>7, <1>8 DEF TargetKnown, TypeOK, Running
<1>10. ReadOfTarget'
  BY <1>1, <1>7, GroupsKept DEF ReadOfTarget, Calling
<1>11. NameIsTargets'
  BY <1>1, GroupsKept DEF NameIsTargets
<1> QED BY <1>1, <1>2, <1>6, <1>9, <1>10, <1>11 DEF IsCall

LEMMA EndProcessInv ==
  ASSUME IInv, NEW p \in Pids, EndProcess(p)
  PROVE  IInv'
<1> USE DEF IInv
<1>1. /\ process' = [process EXCEPT ![p] = NoProcess]
      /\ UNCHANGED <<born, listed, hierarchy>>
      /\ call' = call \/ call' = [call EXCEPT !.steady = FALSE]
  BY DEF EndProcess
<1>2. /\ IsCall(call')
      /\ call'.at = call.at /\ call'.target = call.target /\ call'.fd = call.fd /\ call'.pid = call.pid
      /\ call'.name = call.name /\ call'.seen = call.seen
      /\ call'.steady \in BOOLEAN
  BY <1>1 DEF IsCall, TypeOK
<1>3. TypeOK' BY <1>1, <1>2 DEF TypeOK
<1>4. /\ Running' = Running \ {p}
      /\ \A q \in Running' : process'[q] = process[q]
  BY <1>1 DEF Running, TypeOK
<1>5. SerialsUnique' BY <1>1, <1>4 DEF SerialsUnique
<1>6. \A n : Alive(n)' => Alive(n) BY <1>4 DEF Alive
<1>7. Calling' <=> Calling BY <1>2 DEF Calling
<1>8. TargetKnown'
  BY <1>1, <1>2, <1>4, <1>6, <1>7 DEF TargetKnown, SerialsUnique, Alive
<1>9. ReadOfTarget' BY <1>1, <1>2, <1>6, GroupsKept DEF ReadOfTarget
<1>10. NameIsTargets' BY <1>1, <1>2, GroupsKept DEF NameIsTargets
<1> QED BY <1>2, <1>3, <1>5, <1>8, <1>9, <1>10 DEF IsCall

LEMMA MoveProcessInv ==
  ASSUME IInv, NEW p \in Pids, NEW u \in Units, MoveProcess(p, u)
  PROVE  IInv'
<1> USE DEF IInv
<1>1. /\ process' = [process EXCEPT ![p].unit = u] /\ p \in Running
      /\ UNCHANGED <<born, listed, hierarchy>>
  BY DEF MoveProcess
<1>2. /\ IsCall(call')
      /\ call'.at = call.at /\ call'.target = call.target /\ call'.fd = call.fd /\ call'.pid = call.pid
      /\ call'.name = call.name /\ call.seen \subseteq call'.seen /\ call'.seen \subseteq call.seen \cup {u}
      /\ call'.steady \in BOOLEAN
  BY DEF IsCall, TypeOK, MoveProcess
<1>3. Calling /\ process[p].serial = call.target => u \in call'.seen
  BY DEF MoveProcess, IsCall
<1>4. process[p] \in ProcessType BY <1>1 DEF TypeOK, Running
<1>5. [process[p] EXCEPT !.unit = u] \in ProcessType BY <1>4 DEF ProcessType
<1>6. process' \in [Pids -> ProcessType \cup {NoProcess}] BY <1>1, <1>5 DEF TypeOK
<1>7. TypeOK' BY <1>1, <1>2, <1>6 DEF TypeOK
<1>8. /\ process'[p].serial = process[p].serial /\ process'[p].unit = u
  <2>1. process'[p] = [process[p] EXCEPT !.unit = u] BY <1>1 DEF TypeOK
  <2>2. process'[p].serial = process[p].serial /\ process'[p].unit = u BY <1>4, <2>1 DEF ProcessType
  <2> QED BY <2>2
<1>9. /\ Running' \subseteq Running
      /\ \A q \in Pids \ {p} : process'[q] = process[q]
  BY <1>1, <1>8 DEF Running, TypeOK
<1>10. \A q \in Running : process'[q].serial = process[q].serial
  BY <1>8, <1>9 DEF Running
<1>11. SerialsUnique' BY <1>1, <1>9, <1>10 DEF SerialsUnique
<1>12. \A n : Alive(n)' => Alive(n) BY <1>9, <1>10 DEF Alive
<1>13. Calling' <=> Calling BY <1>2 DEF Calling
<1>14. TargetKnown'
  BY <1>1, <1>2, <1>3, <1>8, <1>9, <1>10, <1>12, <1>13 DEF TargetKnown, SerialsUnique, Running, Alive
<1>15. ReadOfTarget' BY <1>1, <1>2, <1>12, GroupsKept DEF ReadOfTarget
<1>16. NameIsTargets' BY <1>1, <1>2, GroupsKept DEF NameIsTargets
<1> QED BY <1>2, <1>7, <1>11, <1>14, <1>15, <1>16 DEF IsCall

(* AM's list, between calls. *)
LEMMA SignalInv ==
  ASSUME IInv, NEW u \in Units, OnUnitNew(u) \/ OnUnitRemoved(u)
  PROVE  IInv'
<1> USE DEF IInv
<1>1. UNCHANGED <<process, born, hierarchy, call>> BY DEF OnUnitNew, OnUnitRemoved
<1>2. \A i \in listed' : i.unit \in Units /\ i.app \in Apps
  BY DEF OnUnitNew, OnUnitRemoved, TypeOK
<1>3. TypeOK' BY <1>1, <1>2 DEF TypeOK
<1>4. SerialsUnique' /\ TargetKnown'
  BY <1>1, ProcessesKept DEF SerialsUnique, TargetKnown, Calling
<1>5. ReadOfTarget' /\ NameIsTargets'
  BY <1>1, ProcessesKept, GroupsKept DEF ReadOfTarget, NameIsTargets
<1> QED BY <1>1, <1>3, <1>4, <1>5 DEF IsCall

-----------------------------------------------------------------------------
(***************************************************************************)
(* The call.                                                               *)
(***************************************************************************)
LEMMA BeginCallInv ==
  ASSUME IInv, NEW p \in Pids, BeginCall(p)
  PROVE  IInv'
<1> USE DEF IInv
<1>1. UNCHANGED <<process, born, listed, hierarchy>> /\ p \in Running BY DEF BeginCall
<1>2. process[p].serial \in 1..MaxProcesses /\ process[p].unit \in Units
  BY <1>1 DEF TypeOK, Running, ProcessType
<1>3. /\ IsCall(call')
      /\ call'.at = "pid" /\ call'.target = process[p].serial /\ call'.fd = p
      /\ call'.seen = {process[p].unit} /\ call'.steady \in BOOLEAN
  <2> DEFINE n == NoCall
  <2>1. IsCall(n) BY NoCallFields
  <2>2. call' = [n EXCEPT !.at = "pid", !.target = process[p].serial, !.fd = p,
                          !.seen = {process[p].unit}, !.steady = TRUE]
    BY DEF BeginCall
  <2> HIDE DEF n
  <2> QED BY <2>1, <2>2 DEF IsCall
<1>4. TypeOK' BY <1>1, <1>2, <1>3 DEF TypeOK
<1>5. SerialsUnique' BY <1>1, ProcessesKept DEF SerialsUnique
<1>6. TargetKnown' BY <1>1, <1>3, ProcessesKept DEF TargetKnown, SerialsUnique
<1>7. ReadOfTarget' /\ NameIsTargets' BY <1>3 DEF ReadOfTarget, NameIsTargets
<1> QED BY <1>3, <1>4, <1>5, <1>6, <1>7 DEF IsCall

(* A step of the call keeps what the call is about. *)
SameCall ==
  /\ UNCHANGED <<process, born, listed, hierarchy>>
  /\ IsCall(call')
  /\ call'.target = call.target /\ call'.fd = call.fd /\ call'.seen = call.seen /\ call'.steady = call.steady

LEMMA SameCallInv ==
  ASSUME IInv, SameCall, Calling,
         call'.at \in {"cgroup", "alive", "lookup", "answered", "failed"},
         call'.at # "failed" => call'.pid = call.fd,
         ReadOfTarget', NameIsTargets'
  PROVE  IInv'
<1> USE DEF IInv
<1>1. UNCHANGED <<process, born, listed, hierarchy>> BY DEF SameCall
<1>2. call.fd \in Pids BY DEF TargetKnown
<1>3. TypeOK' BY <1>1, <1>2 DEF TypeOK, SameCall
<1>4. SerialsUnique' /\ TargetKnown'
  BY <1>1, ProcessesKept DEF SerialsUnique, TargetKnown, SameCall
<1> QED BY <1>3, <1>4 DEF SameCall, IsCall

LEMMA FailedStep ==
  ASSUME IInv, Calling, call' = Failed, UNCHANGED <<process, born, listed, hierarchy>>
  PROVE  IInv'
<1>1. SameCall /\ call'.at = "failed" BY DEF IInv, IsCall, Failed, SameCall
<1> QED BY <1>1, SameCallInv DEF ReadOfTarget, NameIsTargets

LEMMA GetPidInv ==
  ASSUME IInv, GetPid
  PROVE  IInv'
<1>1. CASE call' = Failed BY <1>1, FailedStep DEF GetPid, Calling
<1>2. CASE call' = [call EXCEPT !.at = "cgroup", !.pid = call.fd]
  <2>1. SameCall /\ Calling /\ call'.at = "cgroup" /\ call'.pid = call.fd
    BY <1>2 DEF IInv, IsCall, SameCall, GetPid, Calling
  <2> QED BY <2>1, SameCallInv DEF ReadOfTarget, NameIsTargets, SameCall
<1> QED BY <1>1, <1>2 DEF GetPid, getPidFromPidFd

LEMMA ReadCgroupInv ==
  ASSUME IInv, ReadCgroup
  PROVE  IInv'
<1> DEFINE read == parseCGroupsPath(CgroupFile(process[call.pid].unit), MyUid)
<1>1. CASE call' = Failed BY <1>1, FailedStep DEF ReadCgroup, Calling
<1>2. CASE call' # Failed
  <2>1. /\ call.pid \in Running
        /\ call' = [call EXCEPT !.at = "alive", !.name = read]
        /\ call.at = "cgroup"
        /\ UNCHANGED <<process, born, listed, hierarchy>>
    BY <1>2 DEF ReadCgroup
  <2>2. SameCall /\ Calling /\ call'.at = "alive" /\ call'.pid = call.fd /\ call'.name = read
    <3> HIDE DEF read
    <3> QED BY <2>1 DEF IInv, IsCall, SameCall, Calling, ReadOfTarget
  <2>3. call.pid = call.fd BY <2>1 DEF IInv, ReadOfTarget
  <2>4. Alive(call.target) => process[call.pid].unit \in call.seen
    BY <2>2, <2>3 DEF IInv, TargetKnown
  <2>5. ReadOfTarget'
    BY <2>2, <2>3, <2>4, ProcessesKept, GroupsKept DEF ReadOfTarget, SameCall
  <2>6. NameIsTargets' BY <2>2 DEF NameIsTargets
  <2> QED BY <2>2, <2>5, <2>6, SameCallInv
<1> QED BY <1>1, <1>2

LEMMA CheckAliveInv ==
  ASSUME IInv, CheckAlive
  PROVE  IInv'
<1>1. CASE call' = Failed BY <1>1, FailedStep DEF CheckAlive, Calling
<1>2. CASE Alive(call.target) /\ call' = [call EXCEPT !.at = "lookup"]
  <2>1. /\ SameCall /\ Calling /\ call.at = "alive" /\ call'.at = "lookup"
        /\ call'.pid = call.fd /\ call'.name = call.name
    BY <1>2 DEF IInv, IsCall, SameCall, CheckAlive, Calling, ReadOfTarget
  <2>2. ReadOfTarget' BY <2>1 DEF ReadOfTarget, SameCall
  <2>3. NameIsTargets' BY <1>2, <2>1, GroupsKept DEF IInv, ReadOfTarget, NameIsTargets, SameCall
  <2> QED BY <2>1, <2>2, <2>3, SameCallInv
<1> QED BY <1>1, <1>2 DEF CheckAlive, SignalsTarget

LEMMA LookupInv ==
  ASSUME IInv, Lookup
  PROVE  IInv'
<1>1. CASE call' = Failed BY <1>1, FailedStep DEF Lookup, Calling
<1>2. ASSUME NEW a, NEW i, call' = [call EXCEPT !.at = "answered", !.app = a, !.instance = i]
      PROVE  IInv'
  <2>1. /\ SameCall /\ Calling /\ call.at = "lookup" /\ call'.at = "answered"
        /\ call'.pid = call.fd /\ call'.name = call.name
    BY <1>2 DEF IInv, IsCall, SameCall, Lookup, Calling, ReadOfTarget
  <2>2. ReadOfTarget' BY <2>1 DEF ReadOfTarget, SameCall
  <2>3. NameIsTargets' BY <2>1, GroupsKept DEF IInv, NameIsTargets, SameCall
  <2> QED BY <2>1, <2>2, <2>3, SameCallInv
<1> QED BY <1>1, <1>2 DEF Lookup

-----------------------------------------------------------------------------
LEMMA NextIInv == IInv /\ [Next]_vars => IInv'
<1> SUFFICES ASSUME IInv, [Next]_vars PROVE IInv'
  OBVIOUS
<1>1. CASE UNCHANGED vars
  <2>1. UNCHANGED <<process, born, listed, hierarchy, call>> BY <1>1 DEF vars
  <2>2. TypeOK' /\ IsCall(call)' BY <2>1 DEF IInv, TypeOK, IsCall
  <2>3. SerialsUnique' /\ TargetKnown' BY <2>1, ProcessesKept DEF IInv, SerialsUnique, TargetKnown, Calling
  <2>4. ReadOfTarget' /\ NameIsTargets'
    BY <2>1, ProcessesKept, GroupsKept DEF IInv, ReadOfTarget, NameIsTargets
  <2> QED BY <2>2, <2>3, <2>4 DEF IInv
<1> QED
  BY <1>1, StartProcessInv, EndProcessInv, MoveProcessInv, SignalInv, BeginCallInv,
     GetPidInv, ReadCgroupInv, CheckAliveInv, LookupInv
  DEF Next

(* The processes, the list and the call keep their types, and a process id *)
(* is known before its control groups are read.                            *)
THEOREM TypeCorrect == Spec => []TypeOK
<1>1. IInv => TypeOK BY DEF IInv
<1> QED BY <1>1, InitIInv, NextIInv, PTL DEF Spec

(* CGroupsIdentifier::Identify never takes apart the groups of a process   *)
(* that took the id over: for any number of processes, ids and units, and  *)
(* however names are formed.                                               *)
THEOREM NameOfTarget == Spec => []NameIsTargets
<1>1. IInv => NameIsTargets BY DEF IInv
<1> QED BY <1>1, InitIInv, NextIInv, PTL DEF Spec

-----------------------------------------------------------------------------
(***************************************************************************)
(* Who is found: the invariant, with what AM's list says of units and what *)
(* an undisturbed call has seen.                                           *)
(***************************************************************************)
(* An instance says what the name of its unit says. *)
ListedAs ==
  \A i \in listed :
    LET info == processUnitName(UnitName(i.unit))
    IN /\ info.found /\ i.app = info.applicationID
       /\ i.instanceId = IF info.instanceID = <<>> THEN <<"uuid", i.unit.kind>> ELSE info.instanceID

(* A call looks up a name it could take apart. *)
NameFound == call.at \in {"alive", "lookup", "answered"} => call.name # <<>> /\ processUnitName(call.name).found

(* As long as nothing happens to the process of a call, it lives in the    *)
(* one unit the call has seen.                                             *)
SteadySeen == Calling /\ call.steady => Alive(call.target) /\ call.seen = {process[call.fd].unit}

AInv ==
  /\ IInv
  /\ ListedAs
  /\ NameFound
  /\ SteadySeen
  /\ AnswerIsTrue

-----------------------------------------------------------------------------
(* What is known of a call from what did not change of it. *)
LEMMA CallKept ==
  ASSUME AInv, call'.at = call.at, call'.name = call.name, ~Calling => call' = call
  PROVE  NameFound' /\ AnswerIsTrue'
<1>1. NameFound'
  BY DEF AInv, NameFound
<1>2. call.at = "answered" => call' = call
  BY DEF Calling
<1>3. AnswerIsTrue'
  BY <1>2 DEF AInv, AnswerIsTrue
<1> QED
  BY <1>1, <1>3

LEMMA StartProcessAnswers ==
  ASSUME AInv, NEW p \in Pids, NEW u \in Units, StartProcess(p, u)
  PROVE  AInv'
<1>1. /\ process[p] = NoProcess /\ UNCHANGED <<listed, call>>
      /\ process' = [process EXCEPT ![p] = [serial |-> born + 1, unit |-> u]]
  BY DEF StartProcess
<1>2. IInv' /\ NameFound' /\ AnswerIsTrue' /\ ListedAs'
  BY <1>1, StartProcessInv, CallKept DEF AInv, ListedAs
<1>3. \A q \in Running : q # p /\ q \in Running' /\ process'[q] = process[q]
  BY <1>1 DEF AInv, IInv, TypeOK, Running
<1>4. SteadySeen'
  <2> SUFFICES ASSUME Calling, call.steady PROVE Alive(call.target)' /\ call.seen = {process'[call.fd].unit}
    BY <1>1 DEF SteadySeen, Calling
  <2>1. Alive(call.target) /\ call.seen = {process[call.fd].unit} /\ call.fd \in Running
    BY DEF AInv, SteadySeen, IInv, TargetKnown
  <2> QED
    BY <1>1, <1>3, <2>1 DEF Alive
<1> QED
  BY <1>2, <1>4 DEF AInv

LEMMA EndProcessAnswers ==
  ASSUME AInv, NEW p \in Pids, EndProcess(p)
  PROVE  AInv'
<1>1. /\ process' = [process EXCEPT ![p] = NoProcess] /\ UNCHANGED listed
      /\ call' = IF Calling /\ process[p].serial = call.target THEN [call EXCEPT !.steady = FALSE] ELSE call
  BY DEF EndProcess
<1>2. /\ call'.at = call.at /\ call'.name = call.name
      /\ ~Calling => call' = call
      /\ Calling /\ call'.steady => call' = call /\ process[p].serial # call.target
  BY <1>1 DEF AInv, IInv, IsCall
<1>3. IInv' /\ NameFound' /\ AnswerIsTrue' /\ ListedAs'
  BY <1>1, <1>2, EndProcessInv, CallKept DEF AInv, ListedAs
<1>4. SteadySeen'
  <2> SUFFICES ASSUME Calling, call'.steady PROVE Alive(call.target)' /\ call'.seen = {process'[call'.fd].unit}
    BY <1>2 DEF SteadySeen, Calling
  <2>1. call' = call /\ process[p].serial # call.target
    BY <1>2
  <2>2. /\ Alive(call.target) /\ call.seen = {process[call.fd].unit}
        /\ call.fd \in Running /\ process[call.fd].serial = call.target /\ call.fd \in Pids
    BY <2>1 DEF AInv, SteadySeen, IInv, TargetKnown
  <2>3. call.fd # p /\ process'[call.fd] = process[call.fd]
    BY <1>1, <2>1, <2>2 DEF AInv, IInv, TypeOK
  <2>4. call.fd \in Running'
    BY <2>2, <2>3 DEF Running
  <2> QED
    BY <2>1, <2>2, <2>3, <2>4 DEF Alive
<1> QED
  BY <1>3, <1>4 DEF AInv

LEMMA MoveProcessAnswers ==
  ASSUME AInv, NEW p \in Pids, NEW u \in Units, MoveProcess(p, u)
  PROVE  AInv'
<1>1. /\ process' = [process EXCEPT ![p].unit = u] /\ UNCHANGED listed
      /\ call' = IF Calling /\ process[p].serial = call.target
                   THEN [call EXCEPT !.seen = @ \cup {u}, !.steady = FALSE] ELSE call
  BY DEF MoveProcess
<1>2. /\ call'.at = call.at /\ call'.name = call.name
      /\ ~Calling => call' = call
      /\ Calling /\ call'.steady => call' = call /\ process[p].serial # call.target
  BY <1>1 DEF AInv, IInv, IsCall
<1>3. IInv' /\ NameFound' /\ AnswerIsTrue' /\ ListedAs'
  BY <1>1, <1>2, MoveProcessInv, CallKept DEF AInv, ListedAs
<1>4. SteadySeen'
  <2> SUFFICES ASSUME Calling, call'.steady PROVE Alive(call.target)' /\ call'.seen = {process'[call'.fd].unit}
    BY <1>2 DEF SteadySeen, Calling
  <2>1. call' = call /\ process[p].serial # call.target
    BY <1>2
  <2>2. /\ Alive(call.target) /\ call.seen = {process[call.fd].unit}
        /\ call.fd \in Running /\ process[call.fd].serial = call.target /\ call.fd \in Pids
    BY <2>1 DEF AInv, SteadySeen, IInv, TargetKnown
  <2>3. call.fd # p /\ process'[call.fd] = process[call.fd]
    BY <1>1, <2>1, <2>2 DEF AInv, IInv, TypeOK
  <2>4. call.fd \in Running'
    BY <2>2, <2>3 DEF Running
  <2> QED
    BY <2>1, <2>2, <2>3, <2>4 DEF Alive
<1> QED
  BY <1>3, <1>4 DEF AInv

LEMMA SignalAnswers ==
  ASSUME AInv, NEW u \in Units, OnUnitNew(u) \/ OnUnitRemoved(u)
  PROVE  AInv'
<1>1. UNCHANGED <<process, call>> /\ ~Calling
  BY DEF OnUnitNew, OnUnitRemoved
<1>2. IInv' /\ NameFound' /\ AnswerIsTrue' /\ SteadySeen'
  BY <1>1, SignalInv, CallKept DEF AInv, SteadySeen, Calling
<1>3. CASE OnUnitNew(u)
  <2> DEFINE info == processUnitName(UnitName(u))
             new == [app |-> info.applicationID, unit |-> u,
                     instanceId |-> IF info.instanceID = <<>> THEN <<"uuid", u.kind>> ELSE info.instanceID]
  <2>1. info.found /\ listed' = listed \cup {new}
    BY <1>3 DEF OnUnitNew
  <2>2. /\ new.unit = u /\ new.app = info.applicationID
        /\ new.instanceId = IF info.instanceID = <<>> THEN <<"uuid", u.kind>> ELSE info.instanceID
    OBVIOUS
  <2> HIDE DEF new
  <2>3. ListedAs'
    BY <2>1, <2>2 DEF AInv, ListedAs
  <2> QED
    BY <1>2, <2>3 DEF AInv
<1>4. CASE OnUnitRemoved(u)
  <2>1. ListedAs'
    BY <1>4 DEF AInv, ListedAs, OnUnitRemoved
  <2> QED
    BY <1>2, <2>1 DEF AInv
<1> QED
  BY <1>3, <1>4

LEMMA BeginCallAnswers ==
  ASSUME AInv, NEW p \in Pids, BeginCall(p)
  PROVE  AInv'
<1>1. UNCHANGED <<process, listed>> /\ p \in Running
  BY DEF BeginCall
<1>2. call'.at = "pid" /\ call'.target = process[p].serial /\ call'.fd = p /\ call'.seen = {process[p].unit}
  <2> DEFINE n == NoCall
  <2>1. IsCall(n)
    BY NoCallFields
  <2>2. call' = [n EXCEPT !.at = "pid", !.target = process[p].serial, !.fd = p,
                          !.seen = {process[p].unit}, !.steady = TRUE]
    BY DEF BeginCall
  <2> HIDE DEF n
  <2> QED
    BY <2>1, <2>2 DEF IsCall
<1>3. IInv' /\ ListedAs'
  BY <1>1, BeginCallInv DEF AInv, ListedAs
<1>4. NameFound' /\ AnswerIsTrue'
  BY <1>2 DEF NameFound, AnswerIsTrue
<1>5. SteadySeen'
  BY <1>1, <1>2 DEF SteadySeen, Alive, Running
<1> QED
  BY <1>3, <1>4, <1>5 DEF AInv

-----------------------------------------------------------------------------
(***************************************************************************)
(* The call.                                                               *)
(***************************************************************************)
LEMMA SameCallAnswers ==
  ASSUME AInv, SameCall, Calling, IInv', NameFound', AnswerIsTrue'
  PROVE  AInv'
<1>1. UNCHANGED <<process, listed>> /\ call'.target = call.target /\ call'.fd = call.fd
      /\ call'.seen = call.seen /\ call'.steady = call.steady
  BY DEF SameCall
<1>2. ListedAs'
  BY <1>1 DEF AInv, ListedAs
<1>3. SteadySeen'
  BY <1>1, ProcessesKept DEF AInv, SteadySeen
<1> QED
  BY <1>2, <1>3 DEF AInv

LEMMA FailedAnswers ==
  ASSUME AInv, Calling, call' = Failed, UNCHANGED <<process, born, listed, hierarchy>>
  PROVE  AInv'
<1>1. SameCall /\ call'.at = "failed"
  BY DEF AInv, IInv, IsCall, Failed, SameCall
<1>2. IInv'
  BY FailedStep DEF AInv
<1> QED
  BY <1>1, <1>2, SameCallAnswers DEF NameFound, AnswerIsTrue

LEMMA GetPidAnswers ==
  ASSUME AInv, GetPid
  PROVE  AInv'
<1>1. CASE call' = Failed
  BY <1>1, FailedAnswers DEF GetPid, Calling
<1>2. CASE call' = [call EXCEPT !.at = "cgroup", !.pid = call.fd]
  <2>1. SameCall /\ Calling /\ call'.at = "cgroup"
    BY <1>2 DEF AInv, IInv, IsCall, SameCall, GetPid, Calling
  <2>2. IInv'
    BY GetPidInv DEF AInv
  <2> QED
    BY <2>1, <2>2, SameCallAnswers DEF NameFound, AnswerIsTrue
<1> QED
  BY <1>1, <1>2 DEF GetPid, getPidFromPidFd

LEMMA ReadCgroupAnswers ==
  ASSUME AInv, ReadCgroup
  PROVE  AInv'
<1> DEFINE name == IF call.pid \in Running THEN parseCGroupsPath(CgroupFile(process[call.pid].unit), MyUid) ELSE <<>>
<1>1. CASE call' = Failed
  BY <1>1, FailedAnswers DEF ReadCgroup, Calling
<1>2. CASE call' # Failed
  <2>1. /\ name # <<>> /\ processUnitName(name).found
        /\ call' = [call EXCEPT !.at = "alive", !.name = name]
        /\ call.at = "cgroup"
        /\ UNCHANGED <<process, born, listed, hierarchy>>
    BY <1>2 DEF ReadCgroup
  <2> HIDE DEF name
  <2>2. SameCall /\ Calling /\ call'.at = "alive" /\ call'.name = name
    BY <2>1 DEF AInv, IInv, IsCall, SameCall, Calling
  <2>3. IInv'
    BY ReadCgroupInv DEF AInv
  <2>4. NameFound' /\ AnswerIsTrue'
    BY <2>1, <2>2 DEF NameFound, AnswerIsTrue
  <2> QED
    BY <2>2, <2>3, <2>4, SameCallAnswers
<1> QED
  BY <1>1, <1>2

LEMMA CheckAliveAnswers ==
  ASSUME AInv, CheckAlive
  PROVE  AInv'
<1>1. CASE call' = Failed
  BY <1>1, FailedAnswers DEF CheckAlive, Calling
<1>2. CASE call' = [call EXCEPT !.at = "lookup"]
  <2>1. SameCall /\ Calling /\ call.at = "alive" /\ call'.at = "lookup" /\ call'.name = call.name
    BY <1>2 DEF AInv, IInv, IsCall, SameCall, CheckAlive, Calling
  <2>2. IInv'
    BY CheckAliveInv DEF AInv
  <2>3. NameFound' /\ AnswerIsTrue'
    BY <2>1 DEF AInv, NameFound, AnswerIsTrue
  <2> QED
    BY <2>1, <2>2, <2>3, SameCallAnswers
<1> QED
  BY <1>1, <1>2 DEF CheckAlive

(* An instance of the list with the application and the instance of a unit *)
(* that tells its instances apart is that unit's.                          *)
LEMMA InstanceIsUnits ==
  ASSUME AInv, NEW u \in Units, u.kind \in OfInstance, NEW i \in listed,
         i.app = u.id, i.instanceId = <<u.instance>>
  PROVE  i.unit = u
<1> DEFINE v == i.unit
           info == processUnitName(UnitName(v))
<1>1. v \in Units
  BY DEF AInv, IInv, TypeOK
<1>2. /\ i.app = info.applicationID
      /\ i.instanceId = IF info.instanceID = <<>> THEN <<"uuid", v.kind>> ELSE info.instanceID
  BY DEF AInv, ListedAs
<1>3. CASE v.kind \in {"bus", "session"}
  <2>1. info.instanceID = <<>>
    BY <1>1, <1>3, BusInfo, SessionInfo
  <2>2. <<u.instance>> = <<"uuid", v.kind>>
    BY <1>2, <2>1
  <2> QED
    BY <2>2
<1>4. CASE v.kind \in OfInstance \cup {"command"}
  <2>1. info.instanceID = <<v.instance>>
    BY <1>1, <1>4, InstanceInfo, CommandInfo DEF NameSays
  <2>2. <<u.instance>> = <<v.instance>>
    <3>1. <<v.instance>> # <<>>
      OBVIOUS
    <3> QED
      BY <1>2, <2>1, <3>1
  <2>3. u.instance = v.instance
    BY <2>2
  <2>4. v.kind \in OfInstance => v.id = u.id
    BY <1>1, <1>2, InstanceInfo
  <2> HIDE DEF v, info
  <2>5. v = u
    BY <1>1, <1>4, <2>3, <2>4, NamesAssumption
  <2> QED
    BY <2>5 DEF v
<1> QED
  BY <1>1, <1>3, <1>4, UnitIs

LEMMA LookupAnswers ==
  ASSUME AInv, Lookup
  PROVE  AInv'
<1> DEFINE info == processUnitName(call.name)
<1>1. CASE call' = Failed
  BY <1>1, FailedAnswers DEF Lookup, Calling
<1>2. CASE call' # Failed
  <2>1. PICK i \in Found(info) :
          /\ call' = [call EXCEPT !.at = "answered", !.app = info.applicationID, !.instance = i]
          /\ info.applicationID \in Apps
    BY <1>2 DEF Lookup
  <2> HIDE DEF info
  <2>2. /\ SameCall /\ Calling /\ call.at = "lookup" /\ call'.at = "answered"
        /\ call'.name = call.name /\ call'.app = info.applicationID /\ call'.instance = i /\ call'.seen = call.seen
    BY <2>1 DEF AInv, IInv, IsCall, SameCall, Lookup, Calling
  <2>3. IInv'
    BY LookupInv DEF AInv
  <2>4. NameFound'
    BY <2>2 DEF AInv, NameFound
  <2>5. PICK u \in call.seen : call.name = NameRead(u)
    BY <2>2 DEF AInv, IInv, NameIsTargets, NameRead
  <2>6. u \in Units /\ NameRead(u) # <<>> /\ processUnitName(NameRead(u)).found
    BY <2>2, <2>5 DEF AInv, IInv, TypeOK, NameFound
  <2>7. u.owner = "me" /\ (u.kind # "command" => info = processUnitName(UnitName(u)))
    BY <2>5, <2>6, ReadIsName DEF info
  <2>8. ASSUME u.kind # "command"
        PROVE  info.applicationID = u.id /\ (u.kind \in OfInstance => i.unit = u)
    <3>1. CASE u.kind \in OfInstance
      <4>1. info.applicationID = u.id /\ info.instanceID = <<u.instance>>
        BY <2>6, <2>7, <2>8, <3>1, InstanceInfo
      <4>2. info.instanceID # <<>>
        BY <4>1
      <4>3. i \in listed /\ i.app = u.id /\ i.instanceId = <<u.instance>>
        BY <4>1, <4>2 DEF Found, InstancesOf
      <4> QED
        BY <2>6, <3>1, <4>1, <4>3, InstanceIsUnits
    <3>2. CASE u.kind = "bus"
      <4>1. info.applicationID = u.id
        BY <2>6, <2>7, <2>8, <3>2, BusInfo
      <4> QED
        BY <3>2, <4>1 DEF OfInstance
    <3>3. CASE u.kind = "session"
      <4>1. info.applicationID = SessionName
        BY <2>6, <2>7, <2>8, <3>3, SessionInfo
      <4> QED
        BY <2>1, <4>1, NamesAssumption DEF SessionName
    <3> QED
      BY <2>6, <2>8, <3>1, <3>2, <3>3, UnitIs
  <2>9. AnswerIsTrue'
    BY <2>2, <2>5, <2>7, <2>8 DEF AnswerIsTrue, OfInstance
  <2> QED
    BY <2>2, <2>3, <2>4, <2>9, SameCallAnswers
<1> QED
  BY <1>1, <1>2

LEMMA InitAInv == Init => AInv
<1> SUFFICES ASSUME Init PROVE AInv
  OBVIOUS
<1>1. IInv
  BY InitIInv
<1>2. listed = {} /\ call.at = "idle"
  BY NoCallFields DEF Init
<1> QED
  BY <1>1, <1>2 DEF AInv, ListedAs, NameFound, SteadySeen, Calling, AnswerIsTrue

LEMMA NextAInv == AInv /\ [Next]_vars => AInv'
<1> SUFFICES ASSUME AInv, [Next]_vars PROVE AInv'
  OBVIOUS
<1>1. CASE UNCHANGED vars
  <2>1. UNCHANGED <<process, listed, call>>
    BY <1>1 DEF vars
  <2>2. IInv'
    BY NextIInv DEF AInv
  <2>3. ListedAs' /\ NameFound' /\ AnswerIsTrue'
    BY <2>1, CallKept DEF AInv, ListedAs
  <2>4. SteadySeen'
    BY <2>1, ProcessesKept DEF AInv, SteadySeen, Calling
  <2> QED
    BY <2>2, <2>3, <2>4 DEF AInv
<1> QED
  BY <1>1, StartProcessAnswers, EndProcessAnswers, MoveProcessAnswers, SignalAnswers, BeginCallAnswers,
     GetPidAnswers, ReadCgroupAnswers, CheckAliveAnswers, LookupAnswers
  DEF Next

(* An answer of Identify names the application of a unit of this user that *)
(* the process was in, and that unit's own instance: for any processes and *)
(* applications, and units with any ids that NamesAssumption tells apart.  *)
THEOREM AnswersTrue == Spec => []AnswerIsTrue
<1>1. AInv => AnswerIsTrue
  BY DEF AInv
<1> QED
  BY <1>1, InitAInv, NextAInv, PTL DEF Spec

-----------------------------------------------------------------------------
(***************************************************************************)
(* No step of a call fails for a process that stays in a unit that AM      *)
(* launched and lists.                                                     *)
(***************************************************************************)
FoundUnit(u) == u \in Units /\ u.kind = "launch" /\ u.owner = "me" /\ ~u.nested /\ Of(u) # {} /\ Places(u.id, ":") = {}

LEMMA ReadSucceeds ==
  ASSUME AInv, ReadCgroup, call.steady, NEW u \in call.seen, FoundUnit(u)
  PROVE  call'.at # "failed"
<1> DEFINE name == IF call.pid \in Running THEN parseCGroupsPath(CgroupFile(process[call.pid].unit), MyUid) ELSE <<>>
<1>1. Calling /\ call.at = "cgroup"
  BY DEF ReadCgroup, Calling
<1>2. call.pid \in Running /\ process[call.pid].unit = u
  BY <1>1 DEF AInv, SteadySeen, IInv, TargetKnown, ReadOfTarget
<1>3. name = NameRead(u)
  BY <1>2 DEF NameRead
<1>4. NameRead(u) = UnitName(u) /\ UnitName(u) # <<>> /\ processUnitName(UnitName(u)).found
  BY LaunchedRead, InstanceInfo DEF FoundUnit, OfInstance
<1>5. call' = [call EXCEPT !.at = "alive", !.name = name]
  BY <1>3, <1>4 DEF ReadCgroup
<1> HIDE DEF name
<1> QED
  BY <1>5 DEF AInv, IInv, IsCall

LEMMA LookupSucceeds ==
  ASSUME AInv, Lookup, call.steady, NEW u \in call.seen, FoundUnit(u)
  PROVE  call'.at # "failed"
<1> DEFINE info == processUnitName(call.name)
<1>1. Calling /\ call.at = "lookup"
  BY DEF Lookup, Calling
<1>2. call.seen = {u}
  BY <1>1 DEF AInv, SteadySeen
<1>3. call.name = NameRead(u)
  BY <1>1, <1>2 DEF AInv, IInv, NameIsTargets, NameRead
<1>4. info.applicationID = u.id /\ info.instanceID = <<u.instance>>
  BY <1>3, LaunchedRead, InstanceInfo DEF FoundUnit, OfInstance
<1>5. PICK i \in listed : i.unit = u
  BY DEF FoundUnit, Of
<1>6. info.instanceID # <<>>
  BY <1>4
<1>7. processUnitName(UnitName(u)) = info
  BY <1>3, LaunchedRead DEF FoundUnit
<1>8. i.app = info.applicationID /\ i.instanceId = info.instanceID /\ i.app \in Apps
  BY <1>5, <1>6, <1>7 DEF AInv, ListedAs, IInv, TypeOK
<1> HIDE DEF info
<1>9. i \in Found(info) /\ info.applicationID \in Apps
  BY <1>6, <1>8 DEF Found, InstancesOf
<1>10. PICK j \in Found(info) : call' = [call EXCEPT !.at = "answered", !.app = info.applicationID, !.instance = j]
  BY <1>9 DEF Lookup, info
<1> QED
  BY <1>10 DEF AInv, IInv, IsCall

LEMMA NextFinds ==
  ASSUME AInv, Next, Calling, call'.at = "failed", call.steady, NEW u \in call.seen, FoundUnit(u)
  PROVE  FALSE
<1>1. call.at # "failed" /\ Alive(call.target)
  BY DEF AInv, SteadySeen, Calling
<1>2. ASSUME NEW p \in Pids, NEW v \in Units, StartProcess(p, v) \/ MoveProcess(p, v)
      PROVE  call'.at = call.at
  BY <1>2 DEF StartProcess, MoveProcess, AInv, IInv, IsCall
<1>3. ASSUME NEW p \in Pids, EndProcess(p)
      PROVE  call'.at = call.at
  BY <1>3 DEF EndProcess, AInv, IInv, IsCall
<1>4. ASSUME NEW p \in Pids, BeginCall(p)
      PROVE  FALSE
  BY <1>4 DEF BeginCall
<1>5. ASSUME NEW v \in Units, OnUnitNew(v) \/ OnUnitRemoved(v)
      PROVE  FALSE
  BY <1>5 DEF OnUnitNew, OnUnitRemoved
<1>6. ASSUME GetPid PROVE call'.at # "failed"
  <2>1. call' = [call EXCEPT !.at = "cgroup", !.pid = call.fd]
    BY <1>1, <1>6 DEF GetPid, getPidFromPidFd
  <2> QED
    BY <2>1 DEF AInv, IInv, IsCall
<1>7. ASSUME CheckAlive PROVE call'.at # "failed"
  <2>1. call' = [call EXCEPT !.at = "lookup"]
    BY <1>1, <1>7 DEF CheckAlive, SignalsTarget
  <2> QED
    BY <2>1 DEF AInv, IInv, IsCall
<1> QED
  BY <1>1, <1>2, <1>3, <1>4, <1>5, <1>6, <1>7, ReadSucceeds, LookupSucceeds DEF Next

(* A process that stays in a unit AM launched and lists is identified,     *)
(* whatever the id of its application is made of, but for a ":": for any   *)
(* processes and applications, and units as in NamesAssumption.            *)
THEOREM LaunchedFound == Spec => LaunchedIsIdentified
<1> DEFINE Found1 ==
      Calling /\ call'.at = "failed" /\ call.steady =>
        \A u \in call.seen :
          ~(/\ u.kind = "launch" /\ u.owner = "me" /\ ~u.nested /\ Of(u) # {}
            /\ Places(u.id, ":") = {})
<1>1. AInv /\ [Next]_vars => [Found1]_vars
  <2> SUFFICES ASSUME AInv, [Next]_vars, vars' # vars,
                      Calling, call'.at = "failed", call.steady, NEW u \in call.seen,
                      u.kind = "launch", u.owner = "me", ~u.nested, Of(u) # {}, Places(u.id, ":") = {}
               PROVE  FALSE
    OBVIOUS
  <2>1. FoundUnit(u)
    BY DEF FoundUnit, AInv, IInv, TypeOK
  <2> QED
    BY <2>1, NextFinds
<1>2. Spec => [][Found1]_vars
  BY <1>1, InitAInv, NextAInv, PTL DEF Spec
<1> QED
  BY <1>2 DEF LaunchedIsIdentified
=============================================================================
