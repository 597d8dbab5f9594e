---------------------------- MODULE EncodingProofs ---------------------------
(* What the encodings of ModbusPdu and their parsers do, for every body and  *)
(* every buffer: what is parsed has its type; what is encoded parses when it *)
(* is whole and, with the exceptions ParsesEarly names, not before; and what *)
(* is read of it is what was asked for, within the limits Means names.       *)
(* ByteStreamProofs rests on it.                                             *)
EXTENDS ByteStream, SequenceTheorems, WellFoundedInduction, TLAPS

-----------------------------------------------------------------------------
(* Numbers and sequences.                                                    *)

\* Every set of natural numbers has a least element: what the inductions over
\* data below rest on.
LEMMA LeastNumber ==
  ASSUME NEW T \in SUBSET Nat, T # {}
  PROVE  \E n \in T : \A k \in T : n <= k
<1>1. IsWellFoundedOn(OpToRel(<, Nat), Nat) BY NatLessThanWellFounded
<1>2. PICK n \in T : \A k \in T : ~(<<k, n>> \in OpToRel(<, Nat)) BY <1>1, WFMin
<1>3. \A k \in T : ~(k < n) BY <1>2 DEF OpToRel
<1> QED BY <1>3

\* The smaller of two numbers.
LEMMA MinOfTwo ==
  ASSUME NEW a \in Int, NEW b \in Int
  PROVE  Min({a, b}) = IF a <= b THEN a ELSE b
<1> DEFINE m == CHOOSE x \in {a, b} : \A y \in {a, b} : x <= y
<1>1. \E x \in {a, b} : \A y \in {a, b} : x <= y OBVIOUS
<1>2. m \in {a, b} /\ \A y \in {a, b} : m <= y BY <1>1, Zenon
<1>3. m <= a /\ m <= b /\ (m = a \/ m = b) BY <1>2
<1> HIDE DEF m
<1>4. m = IF a <= b THEN a ELSE b BY <1>3
<1> QED BY <1>4 DEF m, Min

\* A function on the first numbers is a sequence.
LEMMA FunctionIsSeq ==
  ASSUME NEW S, NEW n \in Nat, NEW f \in [1..n -> S]
  PROVE  f \in Seq(S) /\ Len(f) = n
<1>1. f \in Seq(S)
  <2>1. f \in UNION {[1..m -> S] : m \in Nat} OBVIOUS
  <2> QED BY <2>1, SeqDef, Zenon
<1>2. DOMAIN f = 1..n OBVIOUS
<1>3. Len(f) \in Nat /\ DOMAIN f = 1..Len(f) BY <1>1, LenProperties
<1> QED BY <1>1, <1>2, <1>3

\* A part of a sequence, which may reach beyond its end.
LEMMA PartType ==
  ASSUME NEW S, NEW b \in Seq(S), NEW from \in Nat \ {0}, NEW n \in Int
  PROVE  /\ Part(b, from, n) \in Seq(S) /\ Len(Part(b, from, n)) \in Nat
         /\ Len(Part(b, from, n)) =
              IF n <= 0 \/ from > Len(b) THEN 0
              ELSE IF from + n - 1 <= Len(b) THEN n ELSE Len(b) - from + 1
         /\ \A i \in 1..Len(Part(b, from, n)) :
              /\ from + i - 1 \in 1..Len(b)
              /\ Part(b, from, n)[i] = b[from + i - 1]
<1>1. Len(b) \in Nat BY LenProperties
<1> DEFINE to == Min({from + n - 1, Len(b)})
           p == SubSeq(b, from, to)
<1>2. to = IF from + n - 1 <= Len(b) THEN from + n - 1 ELSE Len(b)
  BY <1>1, MinOfTwo
<1> HIDE DEF to
<1>3. to \in Int /\ to <= Len(b) BY <1>1, <1>2
<1>4. \A i \in from..to : b[i] \in S BY <1>1, <1>3, ElementOfSeq
<1>5. /\ p \in Seq(S) /\ Len(p) = IF from <= to THEN to - from + 1 ELSE 0
      /\ \A i \in 1..(to - from + 1) : p[i] = b[from + i - 1]
  BY <1>3, <1>4, SubSeqProperties
<1> HIDE DEF p
<1>6. Len(p) \in Nat BY <1>3, <1>5
<1>7. Len(p) = IF n <= 0 \/ from > Len(b) THEN 0
               ELSE IF from + n - 1 <= Len(b) THEN n ELSE Len(b) - from + 1
  BY <1>1, <1>2, <1>5
<1>8. \A i \in 1..Len(p) : from + i - 1 \in 1..Len(b) /\ i \in 1..(to - from + 1)
  BY <1>1, <1>3, <1>5
<1>9. p = Part(b, from, n) BY DEF p, to, Part
<1> QED BY <1>5, <1>6, <1>7, <1>8, <1>9

\* The first elements of a sequence, n of them where there are as many.
IsFront(p, s, n) ==
  /\ Len(p) = IF n <= Len(s) THEN n ELSE Len(s)
  /\ \A i \in 1..Len(p) : i \in 1..Len(s) /\ p[i] = s[i]

\* A part from the first element on is that.
LEMMA FirstBytes ==
  ASSUME NEW S, NEW s \in Seq(S), NEW n \in Nat
  PROVE  Part(s, 1, n) \in Seq(S) /\ IsFront(Part(s, 1, n), s, n)
<1>1. PICK k \in Int, from \in Nat \ {0} : k = n /\ from = 1 OBVIOUS
<1> DEFINE p == Part(s, from, k)
<1>2. /\ p \in Seq(S) /\ Len(p) \in Nat
      /\ Len(p) = IF k <= 0 \/ from > Len(s) THEN 0
                  ELSE IF from + k - 1 <= Len(s) THEN k ELSE Len(s) - from + 1
      /\ \A i \in 1..Len(p) : from + i - 1 \in 1..Len(s) /\ p[i] = s[from + i - 1]
  BY PartType
<1> HIDE DEF p
<1>3. Len(s) \in Nat BY LenProperties
<1>4. Len(p) = IF n <= Len(s) THEN n ELSE Len(s) BY <1>1, <1>2, <1>3
<1>5. \A i \in 1..Len(p) : from + i - 1 = i BY <1>1, <1>2
<1>6. \A i \in 1..Len(p) : i \in 1..Len(s) /\ p[i] = s[i] BY <1>2, <1>5
<1>7. IsFront(p, s, n) BY <1>4, <1>6 DEF IsFront
<1>8. Part(s, 1, n) = p BY <1>1 DEF p
<1> QED BY <1>2, <1>7, <1>8

\* The n elements of b behind the first a.
Slice(p, b, a, n) == Len(p) = n /\ \A i \in 1..n : p[i] = b[a + i]

\* A part that does not reach beyond the end is that.
LEMMA InnerPart ==
  ASSUME NEW S, NEW b \in Seq(S), NEW a \in Nat, NEW n \in Nat
  PROVE  /\ Part(b, a + 1, n) \in Seq(S)
         /\ a + n <= Len(b) => Slice(Part(b, a + 1, n), b, a, n)
<1>1. PICK l \in Nat, k \in Int, from \in Nat \ {0} : l = Len(b) /\ k = n /\ from = a + 1
  <2>1. Len(b) \in Nat /\ a + 1 \in Nat \ {0} BY LenProperties
  <2> QED BY <2>1
<1> DEFINE p == Part(b, from, k)
<1>2. /\ p \in Seq(S) /\ Len(p) \in Nat
      /\ Len(p) = IF k <= 0 \/ from > Len(b) THEN 0
                  ELSE IF from + k - 1 <= Len(b) THEN k ELSE Len(b) - from + 1
      /\ \A i \in 1..Len(p) : from + i - 1 \in 1..Len(b) /\ p[i] = b[from + i - 1]
  BY PartType
<1> HIDE DEF p
<1>3. ASSUME a + n <= Len(b) PROVE Slice(p, b, a, n)
  <2>1. a + n <= l BY <1>1, <1>3
  <2>2. Len(p) = n
    <3>1. CASE n = 0 BY <1>1, <1>2, <3>1
    <3>2. CASE n # 0
      <4>1. ~(k <= 0 \/ from > l) /\ from + k - 1 <= l BY <1>1, <2>1, <3>2
      <4> QED BY <1>1, <1>2, <4>1
    <3> QED BY <3>1, <3>2
  <2>3. \A i \in 1..n : from + i - 1 = a + i BY <1>1
  <2> QED BY <1>2, <2>2, <2>3 DEF Slice
<1> QED BY <1>1, <1>2, <1>3 DEF p

\* s stands in b behind the first a elements.
StandsAt(b, a, s) == a + Len(s) <= Len(b) /\ \A i \in 1..Len(s) : b[a + i] = s[i]

\* Then it is that part of b.
LEMMA PartIs ==
  ASSUME NEW S, NEW b \in Seq(S), NEW s \in Seq(S), NEW a \in Nat
  PROVE  StandsAt(b, a, s) => Part(b, a + 1, Len(s)) = s
<1>1. PICK n \in Nat : n = Len(s) BY LenProperties
<1> DEFINE p == Part(b, a + 1, n)
<1>2. p \in Seq(S) /\ (a + n <= Len(b) => Slice(p, b, a, n)) BY InnerPart
<1> HIDE DEF p
<1>3. ASSUME StandsAt(b, a, s) PROVE p = s
  <2>1. Slice(p, b, a, n) BY <1>1, <1>2, <1>3 DEF StandsAt
  <2>2. Len(p) = Len(s) /\ \A i \in 1..Len(p) : p[i] = s[i] BY <1>1, <1>3, <2>1 DEF Slice, StandsAt
  <2> QED BY <1>2, <2>2, SeqEqual
<1> QED BY <1>1, <1>3 DEF p

\* Induction: a set that has 0, and with each number below n the next one, has n.
LEMMA Induction ==
  ASSUME NEW n \in Nat, NEW T, 0 \in T, \A k \in 0..(n - 1) : k \in T => k + 1 \in T
  PROVE  n \in T
<1> SUFFICES ASSUME n \notin T PROVE FALSE OBVIOUS
<1> DEFINE Missing == {k \in Nat : k <= n /\ k \notin T}
<1>1. Missing \in SUBSET Nat /\ n \in Missing OBVIOUS
<1>2. PICK k \in Missing : \A j \in Missing : k <= j BY <1>1, LeastNumber
<1>3. k \in Nat /\ k <= n /\ k \notin T BY <1>2
<1>4. k # 0 BY <1>3
<1>5. PICK j \in Nat : k = j + 1 BY <1>3, <1>4
<1>6. j \in 0..(n - 1) BY <1>3, <1>5
<1>7. j \in T
  <2> SUFFICES ASSUME j \notin T PROVE FALSE OBVIOUS
  <2>1. j \in Missing BY <1>6
  <2> QED BY <1>2, <1>5, <2>1
<1> QED BY <1>3, <1>5, <1>6, <1>7

\* From c, the n steps of h lead to the values of f.
StepsIn(h, n, S) == h \in [1..n -> [S -> S]]
LeadsTo(f, h, c, n, S) ==
  f \in [0..n -> S] /\ f[0] = c /\ \A i \in 1..n : f[i] = h[i][f[i - 1]]

\* A recursion along finitely many steps has values all the way.
LEMMA Recursion ==
  ASSUME NEW S, NEW n \in Nat, NEW c \in S, NEW h, StepsIn(h, n, S)
  PROVE  \E f : LeadsTo(f, h, c, n, S)
<1>0. h \in [1..n -> [S -> S]] BY DEF StepsIn
<1> DEFINE Reaches(k, f) == f \in [0..k -> S] /\ f[0] = c /\ \A i \in 1..k : f[i] = h[i][f[i - 1]]
           Reached == {k \in 0..n : \E f : Reaches(k, f)}
<1>1. 0 \in Reached
  <2> DEFINE f == [i \in 0..0 |-> c]
  <2>1. Reaches(0, f) OBVIOUS
  <2> HIDE DEF f, Reaches
  <2> QED BY <2>1
<1>2. ASSUME NEW k \in 0..(n - 1), k \in Reached PROVE k + 1 \in Reached
  <2>1. PICK f : Reaches(k, f) BY <1>2
  <2>2. PICK m \in 1..n : m = k + 1 OBVIOUS
  <2> DEFINE last == h[m][f[k]]
             g == [i \in 0..m |-> IF i = m THEN last ELSE f[i]]
  <2>3. last \in S
    <3>1. f[k] \in S /\ h[m] \in [S -> S] BY <1>0, <2>1
    <3> QED BY <3>1
  <2>4. g[m] = last BY <2>2
  <2>5. \A i \in 0..k : i \in 0..m /\ i # m /\ g[i] = f[i] /\ f[i] \in S BY <2>1, <2>2
  <2>6. \A i \in 0..m : i = m \/ i \in 0..k BY <2>2
  <2>7. g \in [0..m -> S] BY <2>3, <2>5, <2>6
  <2>8. g[0] = c
    <3>1. 0 \in 0..k OBVIOUS
    <3>2. g[0] = f[0] BY <3>1, <2>5
    <3> QED BY <3>2, <2>1
  <2> HIDE DEF g
  <2>9. ASSUME NEW i \in 1..m PROVE g[i] = h[i][g[i - 1]]
    <3>1. i - 1 \in 0..k BY <2>2
    <3>2. g[i - 1] = f[i - 1] BY <3>1, <2>5
    <3>3. CASE i = m
      <4>1. i - 1 = k BY <3>3, <2>2
      <4> QED BY <3>2, <3>3, <4>1, <2>4
    <3>4. CASE i # m
      <4>1. i \in 1..k /\ i \in 0..k BY <3>4, <2>2
      <4>2. f[i] = h[i][f[i - 1]] BY <4>1, <2>1
      <4> QED BY <3>2, <4>1, <4>2, <2>5
    <3> QED BY <3>3, <3>4
  <2>10. Reaches(m, g) BY <2>7, <2>8, <2>9
  <2> HIDE DEF Reaches
  <2>11. m \in Reached BY <2>10
  <2> QED BY <2>2, <2>11
<1>3. n \in Reached
  <2> HIDE DEF Reached
  <2> QED BY <1>1, <1>2, Induction
<1> QED BY <1>3 DEF LeadsTo

\* Sequences put one behind the other, one more in each step.
LEMMA FlattenSteps ==
  ASSUME NEW S, NEW s \in Seq(Seq(S)), Len(s) # 0
  PROVE  \E f \in [1..Len(s) -> Seq(S)] :
           /\ FlattenSeq(s) = f[Len(s)]
           /\ \A i \in 1..Len(s) : f[i] = IF i = 1 THEN s[i] ELSE f[i - 1] \o s[i]
<1> DEFINE n == Len(s)
           IsFlat(f) == f = [i \in 1..n |-> IF i = 1 THEN s[i] ELSE f[i - 1] \o s[i]]
           F == CHOOSE f : IsFlat(f)
<1>1. n \in Nat /\ \A i \in 1..n : s[i] \in Seq(S) BY LenProperties, ElementOfSeq
<1>2. n \in 1..n BY <1>1
<1> DEFINE h == [i \in 1..n |-> [x \in Seq(S) |-> IF i = 1 THEN s[i] ELSE x \o s[i]]]
<1>3. h \in [1..n -> [Seq(S) -> Seq(S)]]
  <2>1. \A i \in 1..n, x \in Seq(S) : x \o s[i] \in Seq(S) BY <1>1, ConcatProperties
  <2> QED BY <2>1, <1>1
<1>4. \A i \in 1..n, x \in Seq(S) : h[i][x] = IF i = 1 THEN s[i] ELSE x \o s[i] OBVIOUS
<1> HIDE DEF h, n
<1>5. PICK f : LeadsTo(f, h, <<>>, n, Seq(S))
  <2>1. <<>> \in Seq(S) /\ n \in Nat /\ StepsIn(h, n, Seq(S)) BY <1>1, <1>3, EmptySeq DEF StepsIn
  <2> QED BY <2>1, Recursion
<1>6. IsFlat([i \in 1..n |-> f[i]])
  <2> DEFINE g == [i \in 1..n |-> f[i]]
  <2>1. ASSUME NEW i \in 1..n
        PROVE  g[i] = IF i = 1 THEN s[i] ELSE g[i - 1] \o s[i]
    <3>1. i - 1 \in 0..n /\ (i # 1 => i - 1 \in 1..n) BY <1>1
    <3>2. f[i] = IF i = 1 THEN s[i] ELSE f[i - 1] \o s[i] BY <3>1, <1>4, <1>5 DEF LeadsTo
    <3> QED BY <3>1, <3>2
  <2> QED BY <2>1
<1>7. IsFlat(F) BY <1>6, Zenon
<1>8. DOMAIN F = 1..n /\ \A i \in 1..n : F[i] = IF i = 1 THEN s[i] ELSE F[i - 1] \o s[i] BY <1>7
<1>9. F = [i \in 1..n |-> F[i]] BY <1>7
<1>10. FlattenSeq(s) = F[n] BY DEF FlattenSeq, F, n
<1> HIDE DEF F
<1> DEFINE Typed == {k \in 0..n : \A i \in 1..k : F[i] \in Seq(S)}
<1>11. 0 \in Typed BY <1>1
<1>12. ASSUME NEW k \in 0..(n - 1), k \in Typed PROVE k + 1 \in Typed
  <2>1. PICK m \in 1..n : m = k + 1 BY <1>1
  <2>2. m - 1 = k /\ (m = 1 <=> k = 0) /\ (k # 0 => k \in 1..k) BY <2>1
  <2>3. F[m] = IF m = 1 THEN s[m] ELSE F[k] \o s[m] BY <2>2, <1>8
  <2>4. k # 0 => F[k] \o s[m] \in Seq(S) BY <1>1, <1>12, <2>2, ConcatProperties
  <2>5. F[m] \in Seq(S) BY <1>1, <2>2, <2>3, <2>4
  <2>6. \A i \in 1..m : i = m \/ i \in 1..k BY <2>1
  <2> QED BY <2>1, <2>5, <2>6, <1>1, <1>12
<1>13. n \in Typed
  <2> HIDE DEF Typed
  <2> QED BY <1>1, <1>11, <1>12, Induction
<1>14. F \in [1..n -> Seq(S)]
  <2>1. \A i \in 1..n : F[i] \in Seq(S) BY <1>13
  <2> QED BY <2>1, <1>9
<1> QED BY <1>8, <1>10, <1>14 DEF n

\* Sequences put one behind the other are a sequence.
LEMMA FlattenType ==
  ASSUME NEW S, NEW s \in Seq(Seq(S))
  PROVE  FlattenSeq(s) \in Seq(S)
<1>1. Len(s) \in Nat BY LenProperties
<1>2. CASE Len(s) = 0
  <2>1. FlattenSeq(s) = s /\ s = <<>> BY <1>2, EmptySeq DEF FlattenSeq
  <2> QED BY <2>1, EmptySeq
<1>3. CASE Len(s) # 0
  <2>1. PICK f \in [1..Len(s) -> Seq(S)] : FlattenSeq(s) = f[Len(s)] BY <1>3, FlattenSteps
  <2>2. Len(s) \in 1..Len(s) BY <1>1, <1>3
  <2> QED BY <2>1, <2>2
<1> QED BY <1>2, <1>3

\* A sequence without its first elements.
LEMMA RestType ==
  ASSUME NEW S, NEW s \in Seq(S), NEW k \in Nat
  PROVE  LET rest == SubSeq(s, k + 1, Len(s))
         IN /\ rest \in Seq(S) /\ Len(rest) = IF k <= Len(s) THEN Len(s) - k ELSE 0
            /\ \A i \in 1..Len(rest) : k + i \in 1..Len(s) /\ rest[i] = s[k + i]
<1> DEFINE n == Len(s)
           rest == SubSeq(s, k + 1, n)
<1>1. n \in Nat /\ \A i \in (k + 1)..n : s[i] \in S BY LenProperties, ElementOfSeq
<1> HIDE DEF n
<1>2. /\ rest \in Seq(S) /\ Len(rest) = IF k + 1 <= n THEN n - (k + 1) + 1 ELSE 0
      /\ \A i \in 1..(n - (k + 1) + 1) : rest[i] = s[k + 1 + i - 1]
  BY <1>1, SubSeqProperties
<1> HIDE DEF rest
<1>3. Len(rest) = IF k <= n THEN n - k ELSE 0 BY <1>1, <1>2
<1>4. ASSUME NEW i \in 1..Len(rest) PROVE k + i \in 1..n /\ rest[i] = s[k + i]
  <2>1. i \in 1..(n - (k + 1) + 1) /\ k + i \in 1..n /\ k + 1 + i - 1 = k + i
    BY <1>1, <1>3
  <2> QED BY <2>1, <1>2
<1> QED BY <1>2, <1>3, <1>4 DEF rest, n

\* Every element of a concatenation is an element of one of the two.
LEMMA ConcatType ==
  ASSUME NEW S, NEW s \in Seq(S), NEW t \in Seq(S)
  PROVE  /\ s \o t \in Seq(S) /\ Len(s \o t) = Len(s) + Len(t)
         /\ \A i \in 1..Len(s) : i \in 1..Len(s \o t) /\ (s \o t)[i] = s[i]
         /\ \A j \in 1..Len(t) : Len(s) + j \in 1..Len(s \o t) /\ (s \o t)[Len(s) + j] = t[j]
         /\ \A i \in 1..Len(s \o t) : i \in 1..Len(s) \/ \E j \in 1..Len(t) : i = Len(s) + j
<1> DEFINE st == s \o t
           m == Len(s)
           n == Len(t)
<1>1. /\ m \in Nat /\ n \in Nat /\ st \in Seq(S) /\ Len(st) = m + n
      /\ \A i \in 1..(m + n) : st[i] = IF i <= m THEN s[i] ELSE t[i - m]
  BY LenProperties, ConcatProperties
<1> HIDE DEF st, m, n
<1>2. \A i \in 1..m : i \in 1..Len(st) /\ st[i] = s[i] BY <1>1
<1>3. ASSUME NEW j \in 1..n PROVE m + j \in 1..Len(st) /\ st[m + j] = t[j]
  <2>1. PICK i \in 1..(m + n) : i = m + j BY <1>1
  <2>2. i - m = j /\ ~(i <= m) BY <1>1, <2>1
  <2> QED BY <1>1, <2>1, <2>2
<1>4. ASSUME NEW i \in 1..Len(st), i \notin 1..m PROVE \E j \in 1..n : i = m + j
  <2>1. i - m \in 1..n /\ i = m + (i - m) BY <1>1, <1>4
  <2> QED BY <2>1
<1> QED BY <1>1, <1>2, <1>3, <1>4 DEF st, m, n

-----------------------------------------------------------------------------
(* Encodings.                                                                *)

\* A buffer holds bytes.
Octet == 0..255

\* Its elements are numbers up to 255.
LEMMA OctetOfSeq ==
  ASSUME NEW b \in Seq(Octet), NEW i \in 1..Len(b)
  PROVE  b[i] \in Nat /\ b[i] <= 255
<1>1. b[i] \in Octet BY ElementOfSeq
<1>2. \A x \in Octet : x \in Nat /\ x <= 255 BY DEF Octet
<1> QED BY <1>1, <1>2

\* Two of them are a word.
LEMMA WordType ==
  ASSUME NEW b \in Seq(Octet), NEW i \in 1..(Len(b) - 1)
  PROVE  Uint16(b, i) \in Nat /\ Uint16(b, i) <= 65535
<1>1. Len(b) \in Nat BY LenProperties
<1>2. i \in 1..Len(b) /\ i + 1 \in 1..Len(b) BY <1>1
<1>3. b[i] \in Nat /\ b[i] <= 255 /\ b[i + 1] \in Nat /\ b[i + 1] <= 255 BY <1>2, OctetOfSeq
<1>4. PICK x \in Nat, y \in Nat : x = b[i] /\ y = b[i + 1] BY <1>3
<1>5. x <= 255 /\ y <= 255 BY <1>3, <1>4
<1>6. 256 * x + y \in Nat /\ 256 * x + y <= 65535 BY <1>5
<1> QED BY <1>4, <1>6 DEF Uint16

\* Numbers behind numbers.
LEMMA NumbersBehind ==
  ASSUME NEW s \in Seq(Nat), NEW t \in Seq(Nat)
  PROVE  s \o t \in Seq(Nat) /\ Len(s \o t) = Len(s) + Len(t)
BY ConcatProperties

\* Where the objects of a device identification end.
ObjectEnds(end, b) ==
  /\ end[0] = 7
  /\ \A i \in 1..b[7] :
       end[i] = LET from == end[i - 1]
                IN IF from = 0 \/ from + 2 > Len(b) \/ from + 2 + b[from + 2] > Len(b) THEN 0
                   ELSE from + 2 + b[from + 2]
  /\ \A i \in 0..b[7] : end[i] \in 0..Len(b)

\* The code finds such ends, inside the buffer, wherever the lengths lead.
LEMMA IdentificationEnds ==
  ASSUME NEW b \in Seq(Octet), Len(b) >= 7
  PROVE  \E end :
           /\ ObjectEnds(end, b)
           /\ ReadDeviceIdentificationResponse(b) =
                IF end[b[7]] = 0 THEN Null
                ELSE [fc |-> b[1], header |-> Part(b, 2, 5),
                      objects |-> [i \in 1..b[7] |-> SubSeq(b, end[i - 1] + 1, end[i])]]
<1> DEFINE n == b[7]
           l == Len(b)
           IsEnd(f) == f = [i \in 0..b[7] |->
             IF i = 0 THEN 7
             ELSE LET from == f[i - 1]
                  IN IF from = 0 \/ from + 2 > Len(b) \/ from + 2 + b[from + 2] > Len(b) THEN 0
                     ELSE from + 2 + b[from + 2]]
           end == CHOOSE f : IsEnd(f)
           next == [from \in 0..l |-> IF from = 0 \/ from + 2 > l \/ from + 2 + b[from + 2] > l THEN 0
                                      ELSE from + 2 + b[from + 2]]
           h == [i \in 1..n |-> next]
           got == [fc |-> b[1], header |-> Part(b, 2, 5),
                   objects |-> [i \in 1..b[7] |-> SubSeq(b, end[i - 1] + 1, end[i])]]
<1>1. l \in Nat /\ l >= 7 BY LenProperties
<1>2. n \in Nat
  <2>1. 7 \in 1..Len(b) BY <1>1
  <2> QED BY <2>1, OctetOfSeq
<1>3. ReadDeviceIdentificationResponse(b) = IF end[b[7]] = 0 THEN Null ELSE got
  BY <1>1 DEF ReadDeviceIdentificationResponse
<1> HIDE DEF got
<1>5. next \in [0..l -> 0..l]
  <2> HIDE DEF l
  <2> SUFFICES ASSUME NEW from \in 0..l PROVE next[from] \in 0..l BY DEF next
  <2>1. CASE from = 0 \/ from + 2 > l \/ from + 2 + b[from + 2] > l BY <2>1, <1>1
  <2>2. CASE ~(from = 0 \/ from + 2 > l \/ from + 2 + b[from + 2] > l)
    <3>1. from + 2 \in 1..l BY <2>2, <1>1
    <3>2. b[from + 2] \in Nat BY <3>1, OctetOfSeq DEF l
    <3>3. PICK k \in Nat : k = b[from + 2] BY <3>2
    <3>4. from + 2 + k \in 0..l BY <2>2, <3>3, <1>1
    <3>5. next[from] = from + 2 + k BY <2>2, <3>3
    <3> QED BY <3>4, <3>5
  <2> QED BY <2>1, <2>2
<1>6. PICK f : LeadsTo(f, h, 7, n, 0..l)
  <2>1. 7 \in 0..l BY <1>1
  <2>2. StepsIn(h, n, 0..l)
    <3> HIDE DEF next, n, l
    <3> QED BY <1>5 DEF StepsIn
  <2> HIDE DEF h, n
  <2> QED BY <1>2, <2>1, <2>2, Recursion
<1>7. IsEnd(f)
  <2>1. f \in [0..n -> 0..l] /\ f[0] = 7 /\ \A i \in 1..n : f[i] = next[f[i - 1]]
    BY <1>6 DEF LeadsTo
  <2> DEFINE g == [i \in 0..n |->
             IF i = 0 THEN 7
             ELSE LET from == f[i - 1]
                  IN IF from = 0 \/ from + 2 > Len(b) \/ from + 2 + b[from + 2] > Len(b) THEN 0
                     ELSE from + 2 + b[from + 2]]
  <2>2. ASSUME NEW i \in 0..n PROVE f[i] = g[i]
    <3>1. CASE i = 0 BY <3>1, <2>1
    <3>2. CASE i # 0
      <4>1. i \in 1..n /\ i - 1 \in 0..n BY <3>2, <1>2
      <4>2. f[i - 1] \in 0..l /\ f[i] = next[f[i - 1]] BY <4>1, <2>1
      <4> QED BY <3>2, <4>2
    <3> QED BY <3>1, <3>2
  <2>3. f = g BY <2>1, <2>2
  <2> QED BY <2>3
<1>8. IsEnd(end) BY <1>7, Zenon
<1>9. \A i \in 0..n : end[i] =
        IF i = 0 THEN 7
        ELSE LET from == end[i - 1]
             IN IF from = 0 \/ from + 2 > l \/ from + 2 + b[from + 2] > l THEN 0
                ELSE from + 2 + b[from + 2]
  BY <1>8
<1> HIDE DEF end
<1>10. \A k \in 0..n : end[k] \in 0..l
  <2> DEFINE Typed == {k \in 0..n : end[k] \in 0..l}
  <2>0. 0 \in 0..n BY <1>2
  <2> HIDE DEF n, l
  <2>1. 0 \in Typed
    <3>1. end[0] = 7 BY <2>0, <1>9
    <3> QED BY <2>0, <3>1, <1>1
  <2>2. ASSUME NEW k \in 0..(n - 1), k \in Typed PROVE k + 1 \in Typed
    <3>1. PICK m \in 1..n : m = k + 1 BY <1>2
    <3>2. m \in 0..n /\ m # 0 /\ m - 1 = k BY <3>1, <1>2
    <3>3. PICK from \in 0..l : from = end[k] BY <2>2
    <3>4. end[m] = next[from]
      <4>1. end[m - 1] = from BY <3>2, <3>3
      <4>2. end[m] = IF from = 0 \/ from + 2 > l \/ from + 2 + b[from + 2] > l THEN 0
                     ELSE from + 2 + b[from + 2]
        BY <3>2, <4>1, <1>9
      <4> QED BY <4>2
    <3>5. end[m] \in 0..l
      <4> HIDE DEF next
      <4> QED BY <3>4, <1>5
    <3> QED BY <3>1, <3>2, <3>5
  <2>3. ASSUME NEW k \in 0..n PROVE k \in Typed
    <3>1. \A j \in 0..(k - 1) : j \in 0..(n - 1) BY <1>2
    <3>2. \A j \in 0..(k - 1) : j \in Typed => j + 1 \in Typed
      <4> HIDE DEF Typed
      <4> QED BY <2>2, <3>1
    <3>3. k \in Nat BY <1>2
    <3> HIDE DEF Typed
    <3> QED BY <2>1, <3>2, <3>3, Induction
  <2> QED BY <2>3
<1>11. ObjectEnds(end, b)
  <2>1. 0 \in 0..b[7] BY <1>2
  <2>2. \A i \in 1..b[7] : i \in 0..b[7] /\ i # 0 BY <1>2
  <2> QED BY <2>1, <2>2, <1>9, <1>10 DEF ObjectEnds
<1> QED BY <1>3, <1>11 DEF got

\* The objects of a device identification are sequences of bytes.
LEMMA IdentificationType ==
  ASSUME NEW b \in Seq(Octet), ReadDeviceIdentificationResponse(b) # Null
  PROVE  \E header \in Seq(Octet), objects \in Seq(Seq(Octet)) :
           ReadDeviceIdentificationResponse(b) =
             [fc |-> b[1], header |-> header, objects |-> objects]
<1>1. Len(b) \in Nat /\ Len(b) >= 7
  <2>1. Len(b) < 7 => ReadDeviceIdentificationResponse(b) = Null
    BY Zenon DEF ReadDeviceIdentificationResponse
  <2>2. Len(b) \in Nat BY LenProperties
  <2>3. ~(Len(b) < 7) BY <2>1
  <2> QED BY <2>2, <2>3
<1>2. b[7] \in Nat
  <2>1. 7 \in 1..Len(b) BY <1>1
  <2> QED BY <2>1, OctetOfSeq
<1>3. PICK end :
        /\ ObjectEnds(end, b)
        /\ ReadDeviceIdentificationResponse(b) =
             IF end[b[7]] = 0 THEN Null
             ELSE [fc |-> b[1], header |-> Part(b, 2, 5),
                   objects |-> [i \in 1..b[7] |-> SubSeq(b, end[i - 1] + 1, end[i])]]
  BY <1>1, IdentificationEnds
<1> DEFINE header == Part(b, 2, 5)
           objects == [i \in 1..b[7] |-> SubSeq(b, end[i - 1] + 1, end[i])]
<1>4. ReadDeviceIdentificationResponse(b) = [fc |-> b[1], header |-> header, objects |-> objects]
  BY <1>3
<1>5. header \in Seq(Octet) BY PartType
<1> HIDE DEF header
<1>6. objects \in Seq(Seq(Octet))
  <2>1. ASSUME NEW i \in 1..b[7] PROVE SubSeq(b, end[i - 1] + 1, end[i]) \in Seq(Octet)
    <3>1. i - 1 \in 0..b[7] /\ i \in 0..b[7] BY <1>2
    <3>2. PICK from \in Nat, to \in 0..Len(b) : from = end[i - 1] /\ to = end[i]
      BY <3>1, <1>3 DEF ObjectEnds
    <3>3. \A j \in (from + 1)..to : j \in 1..Len(b) BY <1>1, <3>2
    <3>4. \A j \in (from + 1)..to : b[j] \in Octet BY <3>3, ElementOfSeq
    <3>5. SubSeq(b, from + 1, to) \in Seq(Octet) BY <3>2, <3>4, SubSeqProperties
    <3> QED BY <3>2, <3>5
  <2>2. objects \in [1..b[7] -> Seq(Octet)] BY <2>1
  <2> HIDE DEF objects
  <2> QED BY <2>2, <1>2, FunctionIsSeq
<1> QED BY <1>4, <1>5, <1>6

\* Encoded again, what was parsed is a sequence of numbers.
LEMMA WordsEncode ==
  ASSUME NEW x \in Nat, NEW y \in Nat, NEW z \in Nat
  PROVE  <<x>> \o Word(y) \o Word(z) \in Seq(Nat) /\ Len(<<x>> \o Word(y) \o Word(z)) >= 2
<1> DEFINE first == <<x>>
           yy == Word(y)
           zz == Word(z)
<1>1. first \in Seq(Nat) /\ Len(first) = 1 OBVIOUS
<1>2. yy \in Seq(Nat) /\ zz \in Seq(Nat) /\ Len(yy) = 2 /\ Len(zz) = 2 BY DEF Word
<1> HIDE DEF first, yy, zz
<1>3. first \o yy \in Seq(Nat) /\ Len(first \o yy) = Len(first) + Len(yy) BY <1>1, <1>2, NumbersBehind
<1> DEFINE front == first \o yy
<1>4. Len(front) = 3 /\ front \in Seq(Nat) BY <1>1, <1>2, <1>3
<1> HIDE DEF front
<1>5. front \o zz \in Seq(Nat) /\ Len(front \o zz) = Len(front) + Len(zz) BY <1>2, <1>4, NumbersBehind
<1>6. front \o zz \in Seq(Nat) /\ Len(front \o zz) >= 2 BY <1>2, <1>4, <1>5
<1> QED BY <1>6 DEF front, first, yy, zz

\* Bytes are numbers, and so are the bytes of a part.
LEMMA OctetsAreNumbers ==
  ASSUME NEW s \in Seq(Octet)
  PROVE  s \in Seq(Nat) /\ Len(s) \in Nat
<1>1. Octet \subseteq Nat BY DEF Octet
<1> QED BY <1>1, SeqMonotonic, LenProperties

\* Read responses.
LEMMA DataEncodes ==
  ASSUME NEW x \in Nat, NEW d \in Seq(Octet)
  PROVE  LET p == DataPayload([fc |-> x, data |-> d]) IN p \in Seq(Nat) /\ Len(p) >= 2
<1> DEFINE head == <<x, Len(d)>>
<1>1. d \in Seq(Nat) /\ Len(d) \in Nat BY OctetsAreNumbers
<1>2. head \in Seq(Nat) /\ Len(head) = 2 BY <1>1
<1>3. DataPayload([fc |-> x, data |-> d]) = head \o d BY DEF DataPayload
<1> HIDE DEF Octet, head
<1>4. head \o d \in Seq(Nat) /\ Len(head \o d) = 2 + Len(d) BY <1>1, <1>2, NumbersBehind
<1>5. head \o d \in Seq(Nat) /\ Len(head \o d) >= 2 BY <1>1, <1>4
<1> QED BY <1>3, <1>5

\* Device identifications.
LEMMA IdentificationEncodes ==
  ASSUME NEW x \in Nat, NEW header \in Seq(Octet), NEW objects \in Seq(Seq(Octet))
  PROVE  LET p == IdentificationPayload([fc |-> x, header |-> header, objects |-> objects])
         IN p \in Seq(Nat) /\ Len(p) >= 2
<1> DEFINE flat == FlattenSeq(objects)
           n == Len(objects)
           first == <<x>>
           count == <<n>>
           p == first \o header \o count \o flat
<1>1. header \in Seq(Nat) /\ Len(header) \in Nat BY OctetsAreNumbers
<1>2. flat \in Seq(Octet) BY FlattenType
<1>3. n \in Nat BY LenProperties
<1> HIDE DEF flat, n
<1>4. flat \in Seq(Nat) /\ Len(flat) \in Nat BY <1>2, OctetsAreNumbers
<1>5. first \in Seq(Nat) /\ count \in Seq(Nat) /\ Len(first) = 1 /\ Len(count) = 1 BY <1>3
<1> HIDE DEF first, count
<1>6. first \o header \in Seq(Nat) /\ Len(first \o header) = 1 + Len(header)
  BY <1>1, <1>5, NumbersBehind
<1>7. first \o header \o count \in Seq(Nat) /\ Len(first \o header \o count) = 2 + Len(header)
  BY <1>1, <1>5, <1>6, NumbersBehind
<1>8. p \in Seq(Nat) /\ Len(p) = 2 + Len(header) + Len(flat)
  BY <1>1, <1>4, <1>7, NumbersBehind
<1>9. IdentificationPayload([fc |-> x, header |-> header, objects |-> objects]) = p
  BY DEF IdentificationPayload, flat, n, first, count
<1> HIDE DEF p
<1> QED BY <1>1, <1>4, <1>8, <1>9

\* The responses to a write: an address and a value or a quantity.
LEMMA WriteResponseType ==
  ASSUME NEW b \in Seq(Octet), Len(b) >= 5
  PROVE  Uint16(b, 2) \in Nat /\ Uint16(b, 4) \in Nat
<1>1. Len(b) \in Nat BY LenProperties
<1>2. 2 \in 1..(Len(b) - 1) /\ 4 \in 1..(Len(b) - 1) BY <1>1
<1> QED BY <1>2, WordType

\* The body a response was parsed into has an encoding.
LEMMA ResponseEncodes ==
  ASSUME NEW b \in Seq(Octet), ResponseBody(b) # Null
  PROVE  LET p == ResponsePayload(ResponseBody(b)) IN p \in Seq(Nat) /\ Len(p) >= 2
<1> DEFINE body == ResponseBody(b)
<1>1. b # <<>> BY DEF ResponseBody
<1>2. b[1] \in Nat /\ b[1] <= 255 /\ 1 \in 1..Len(b) /\ Len(b) \in Nat BY <1>1, EmptySeq, OctetOfSeq
<1>3. PICK x \in Nat : x = b[1] BY <1>2
<1>4. CASE x > 128
  <2>1. body = ExceptionResponse(b) BY <1>1, <1>3, <1>4 DEF ResponseBody, FC
  <2>2. Len(b) >= 2 /\ b[2] \in Nat
    <3>1. Len(b) >= 2 BY <1>2, <2>1 DEF ExceptionResponse
    <3>2. 2 \in 1..Len(b) BY <1>2, <3>1
    <3> QED BY <3>1, <3>2, OctetOfSeq
  <2>3. CASE x - 128 = 43 /\ Len(b) >= 3
    <3>1. body = [fc |-> x, meiType |-> b[2], code |-> b[3]]
      BY <1>3, <2>1, <2>3 DEF ExceptionResponse, FC
    <3>2. 3 \in 1..Len(b) BY <1>2, <2>3
    <3>3. b[3] \in Nat BY <3>2, OctetOfSeq
    <3>4. ResponsePayload([fc |-> x, meiType |-> b[2], code |-> b[3]]) = <<x, b[2], b[3]>>
      BY <1>4 DEF ResponsePayload, ExceptionPayload, FC
    <3>5. <<x, b[2], b[3]>> \in Seq(Nat) /\ Len(<<x, b[2], b[3]>>) >= 2 BY <2>2, <3>3
    <3> QED BY <3>1, <3>4, <3>5, Zenon
  <2>4. CASE ~(x - 128 = 43 /\ Len(b) >= 3)
    <3>1. body = [fc |-> x, code |-> b[2]]
      BY <1>3, <2>1, <2>4 DEF ExceptionResponse, FC
    <3>2. ResponsePayload([fc |-> x, code |-> b[2]]) = <<x, b[2]>>
      BY <1>4 DEF ResponsePayload, ExceptionPayload, FC
    <3>3. <<x, b[2]>> \in Seq(Nat) /\ Len(<<x, b[2]>>) >= 2 BY <2>2
    <3> QED BY <3>1, <3>2, <3>3, Zenon
  <2> QED BY <2>3, <2>4
<1>5. CASE x \in {1, 2, 3, 4}
  <2>1. /\ body = [fc |-> x, data |-> Part(b, 3, b[2])]
        /\ Len(b) >= 2
    BY <1>1, <1>3, <1>5 DEF ResponseBody, FC, ReadCoilsResponse, ReadDiscreteInputsResponse,
       BitsResponse, ReadHoldingRegistersResponse, ReadInputRegistersResponse
  <2>2. 2 \in 1..Len(b) BY <1>2, <2>1
  <2>3. b[2] \in Int BY <2>2, OctetOfSeq
  <2>4. Part(b, 3, b[2]) \in Seq(Octet)
    <3>1. 3 \in Nat \ {0} OBVIOUS
    <3> HIDE DEF Octet
    <3> QED BY <2>3, <3>1, PartType
  <2>5. DataPayload(body) \in Seq(Nat) /\ Len(DataPayload(body)) >= 2 BY <2>1, <2>4, DataEncodes
  <2>6. ResponsePayload(body) = DataPayload(body)
    BY <1>5, <2>1 DEF ResponsePayload, FC, ReadCoilsResponsePayload, ReadDiscreteInputsResponsePayload,
       ReadHoldingRegistersResponsePayload, ReadInputRegistersResponsePayload
  <2> QED BY <2>5, <2>6
<1>6. CASE x = 43
  <2>1. body = ReadDeviceIdentificationResponse(b) BY <1>1, <1>3, <1>6 DEF ResponseBody, FC
  <2>2. PICK header \in Seq(Octet), objects \in Seq(Seq(Octet)) :
          body = [fc |-> x, header |-> header, objects |-> objects]
    BY <1>3, <2>1, IdentificationType
  <2>3. ResponsePayload(body) = IdentificationPayload(body)
    BY <1>6, <2>2 DEF ResponsePayload, FC
  <2> QED BY <2>2, <2>3, IdentificationEncodes
<1>7. CASE x \in {5, 6}
  <2> DEFINE value == IF x = 5 THEN IF Uint16(b, 4) = On THEN On ELSE 0 ELSE Uint16(b, 4)
  <2>0. Len(b) >= 5 /\ body = [fc |-> x, at |-> Uint16(b, 2), value |-> value]
    <3>1. CASE x = 5 BY <1>1, <1>3, <3>1 DEF ResponseBody, FC, WriteSingleCoilResponse
    <3>2. CASE x = 6 BY <1>1, <1>3, <3>2 DEF ResponseBody, FC, WriteSingleRegisterResponse
    <3> QED BY <1>7, <3>1, <3>2
  <2>1. PICK y, z : /\ Len(b) >= 5 /\ y = Uint16(b, 2) /\ z \in {On, 0, Uint16(b, 4)}
                    /\ body = [fc |-> x, at |-> y, value |-> z]
    <3> HIDE DEF body
    <3>1. value \in {On, 0, Uint16(b, 4)} OBVIOUS
    <3> QED BY <2>0, <3>1
  <2>2. y \in Nat /\ z \in Nat BY <2>1, WriteResponseType DEF On
  <2>3. ResponsePayload(body) = <<x>> \o Word(y) \o Word(z)
    BY <1>7, <2>1 DEF ResponsePayload, FC, WriteSingleCoilResponsePayload,
       WriteSingleRegisterResponsePayload, WritePayload
  <2> QED BY <2>2, <2>3, WordsEncode
<1>8. CASE x \in {15, 16}
  <2>1. PICK y, z : /\ Len(b) >= 5 /\ y = Uint16(b, 2) /\ z = Uint16(b, 4)
                    /\ body = [fc |-> x, at |-> y, n |-> z]
    BY <1>1, <1>3, <1>8 DEF ResponseBody, FC, WriteMultipleCoilsResponse, WriteMultipleRegistersResponse
  <2>2. y \in Nat /\ z \in Nat BY <2>1, WriteResponseType
  <2>3. ResponsePayload(body) = <<x>> \o Word(y) \o Word(z)
    BY <1>8, <2>1 DEF ResponsePayload, FC, WriteMultipleCoilsResponsePayload,
       WriteMultipleRegistersResponsePayload, ReadPayload
  <2> QED BY <2>2, <2>3, WordsEncode
<1>9. x > 128 \/ x \in {1, 2, 3, 4, 43, 5, 6, 15, 16}
  BY <1>1, <1>3 DEF ResponseBody, FC
<1> QED BY <1>4, <1>5, <1>6, <1>7, <1>8, <1>9

-----------------------------------------------------------------------------
(* Words, heads and what stands behind them.                                 *)

\* A function code and two words.
LEMMA WordsOf ==
  ASSUME NEW x \in Nat, NEW y \in Nat, NEW z \in Nat
  PROVE  LET h == <<x>> \o Word(y) \o Word(z)
         IN h \in Seq(Nat) /\ Len(h) = 5 /\ h[1] = x /\ Uint16(h, 4) = z
<1>1. <<x>> \o Word(y) \o Word(z) \in Seq(Nat) BY WordsEncode
<1>2. LET h == <<x>> \o Word(y) \o Word(z) IN Len(h) = 5 /\ h[1] = x /\ Uint16(h, 4) = z
  BY DEF Word, Uint16
<1> QED BY <1>1, <1>2

\* Numbers behind numbers, one by one.
LEMMA NumbersConcat ==
  ASSUME NEW s \in Seq(Nat), NEW t \in Seq(Nat)
  PROVE  /\ s \o t \in Seq(Nat) /\ Len(s \o t) = Len(s) + Len(t)
         /\ \A i \in 1..Len(s) : (s \o t)[i] = s[i]
         /\ \A j \in 1..Len(t) : (s \o t)[Len(s) + j] = t[j]
BY ConcatType

Head4(x, y, z, c) == <<x>> \o Word(y) \o Word(z) \o <<c>>

\* The same with a byte count behind.
LEMMA HeadOf ==
  ASSUME NEW x \in Nat, NEW y \in Nat, NEW z \in Nat, NEW c \in Nat
  PROVE  /\ Head4(x, y, z, c) \in Seq(Nat) /\ Len(Head4(x, y, z, c)) = 6
         /\ Head4(x, y, z, c)[1] = x /\ Uint16(Head4(x, y, z, c), 4) = z
         /\ Head4(x, y, z, c)[6] = c
<1> DEFINE h == <<x>> \o Word(y) \o Word(z)
           count == <<c>>
<1>1. h \in Seq(Nat) /\ Len(h) = 5 /\ h[1] = x /\ Uint16(h, 4) = z BY WordsOf
<1>2. count \in Seq(Nat) /\ Len(count) = 1 /\ count[1] = c OBVIOUS
<1> HIDE DEF h, count
<1> DEFINE hc == h \o count
<1>3. /\ hc \in Seq(Nat) /\ Len(hc) = Len(h) + Len(count)
      /\ \A i \in 1..Len(h) : hc[i] = h[i]
      /\ \A j \in 1..Len(count) : hc[Len(h) + j] = count[j]
  BY <1>1, <1>2, NumbersConcat
<1> HIDE DEF hc
<1>4. /\ Len(hc) = 6 /\ hc[1] = x /\ hc[4] = h[4] /\ hc[5] = h[5] /\ hc[6] = c
  <2>1. 1 \in 1..5 /\ 4 \in 1..5 /\ 5 \in 1..5 /\ 1 \in 1..1 /\ 5 + 1 = 6 OBVIOUS
  <2> QED BY <2>1, <1>1, <1>2, <1>3
<1>5. Uint16(hc, 4) = Uint16(h, 4) BY <1>4 DEF Uint16
<1>6. hc = Head4(x, y, z, c) BY DEF hc, h, count, Head4
<1> QED BY <1>1, <1>3, <1>4, <1>5, <1>6

\* And with data behind that.
LEMMA BehindHead ==
  ASSUME NEW S, NEW h \in Seq(S), NEW data \in Seq(S)
  PROVE  Len(h) = 6 =>
           /\ h \o data \in Seq(S) /\ Len(h \o data) = 6 + Len(data)
           /\ (h \o data)[1] = h[1] /\ (h \o data)[6] = h[6]
           /\ Uint16(h \o data, 4) = Uint16(h, 4)
<1> DEFINE p == h \o data
<1>1. /\ p \in Seq(S) /\ Len(p) = Len(h) + Len(data)
      /\ \A i \in 1..Len(h) : i \in 1..Len(p) /\ p[i] = h[i]
      /\ \A j \in 1..Len(data) : Len(h) + j \in 1..Len(p) /\ p[Len(h) + j] = data[j]
      /\ \A i \in 1..Len(p) : i \in 1..Len(h) \/ \E j \in 1..Len(data) : i = Len(h) + j
  BY ConcatType
<1> HIDE DEF p
<1>2. 1 \in 1..6 /\ 4 \in 1..6 /\ 5 \in 1..6 /\ 6 \in 1..6 OBVIOUS
<1>3. Len(h) = 6 => p[1] = h[1] /\ p[4] = h[4] /\ p[5] = h[5] /\ p[6] = h[6] BY <1>1, <1>2
<1>4. Len(h) = 6 => Uint16(p, 4) = Uint16(h, 4) BY <1>3 DEF Uint16
<1> QED BY <1>1, <1>3, <1>4 DEF p

\* A part that is the whole.
LEMMA WholePart ==
  ASSUME NEW S, NEW b \in Seq(S)
  PROVE  Part(b, 1, Len(b)) = b
<1> DEFINE p == Part(b, 1, Len(b))
<1>1. Len(b) \in Nat /\ Len(b) \in Int /\ 1 \in Nat \ {0} /\ b \in Seq(S) BY LenProperties
<1> DEFINE n == Len(b)
<1>2. /\ Part(b, 1, n) \in Seq(S)
      /\ Len(Part(b, 1, n)) = IF n <= 0 \/ 1 > Len(b) THEN 0
              ELSE IF 1 + n - 1 <= Len(b) THEN n ELSE Len(b) - 1 + 1
      /\ \A i \in 1..Len(Part(b, 1, n)) : Part(b, 1, n)[i] = b[1 + i - 1]
  <2>1. n \in Int /\ 1 \in Nat \ {0} BY <1>1
  <2> HIDE DEF n
  <2> QED BY <2>1, PartType
<1> HIDE DEF p
<1>3. p \in Seq(S) /\ Len(p) = Len(b) BY <1>1, <1>2 DEF p
<1>4. \A i \in 1..Len(p) : p[i] = b[i]
  <2>1. \A i \in 1..Len(p) : 1 + i - 1 = i BY <1>1, <1>3
  <2> QED BY <2>1, <1>2 DEF p
<1> QED BY <1>1, <1>3, <1>4, SeqEqual DEF p

\* The first k of them.
LEMMA FrontPart ==
  ASSUME NEW S, NEW b \in Seq(S), NEW k \in Nat
  PROVE  k <= Len(b) => /\ Part(b, 1, k) \in Seq(S) /\ Len(Part(b, 1, k)) = k
                        /\ \A i \in 1..k : Part(b, 1, k)[i] = b[i]
<1> DEFINE p == Part(b, 1, k)
<1>1. k \in Int /\ 1 \in Nat \ {0} /\ Len(b) \in Nat BY LenProperties
<1>2. /\ p \in Seq(S)
      /\ Len(p) = IF k <= 0 \/ 1 > Len(b) THEN 0
                  ELSE IF 1 + k - 1 <= Len(b) THEN k ELSE Len(b) - 1 + 1
      /\ \A i \in 1..Len(p) : p[i] = b[1 + i - 1]
  BY <1>1, PartType
<1> HIDE DEF p
<1>3. SUFFICES ASSUME k <= Len(b)
               PROVE  p \in Seq(S) /\ Len(p) = k /\ \A i \in 1..k : p[i] = b[i]
  BY DEF p
<1>4. Len(p) = k BY <1>1, <1>2, <1>3
<1>5. \A i \in 1..k : p[i] = b[1 + i - 1] /\ 1 + i - 1 = i BY <1>2, <1>4
<1> QED BY <1>2, <1>4, <1>5

\* Where each of them ends, and what stands there.
EndsOf(ends, s, flat) ==
  /\ ends \in [0..Len(s) -> Nat] /\ ends[0] = 0 /\ ends[Len(s)] = Len(flat)
  /\ \A i \in 1..Len(s) :
       /\ ends[i] = ends[i - 1] + Len(s[i])
       /\ \A j \in 1..Len(s[i]) : flat[ends[i - 1] + j] = s[i][j]

\* Such ends exist.
LEMMA FlattenEnds ==
  ASSUME NEW S, NEW s \in Seq(Seq(S))
  PROVE  \E ends : EndsOf(ends, s, FlattenSeq(s))
<1>1. Len(s) \in Nat /\ \A i \in 1..Len(s) : s[i] \in Seq(S) BY LenProperties, ElementOfSeq
<1>2. CASE Len(s) = 0
  <2>1. FlattenSeq(s) = s BY <1>2, EmptySeq DEF FlattenSeq
  <2>2. EndsOf([i \in 0..0 |-> 0], s, FlattenSeq(s)) BY <1>2, <2>1 DEF EndsOf
  <2> QED BY <2>2
<1>3. CASE Len(s) # 0
  <2>1. PICK f \in [1..Len(s) -> Seq(S)] :
          /\ FlattenSeq(s) = f[Len(s)]
          /\ \A i \in 1..Len(s) : f[i] = IF i = 1 THEN s[i] ELSE f[i - 1] \o s[i]
    BY <1>3, FlattenSteps
  <2> DEFINE n == Len(s)
             ends == [i \in 0..n |-> IF i = 0 THEN 0 ELSE Len(f[i])]
             Placed(k, i) == \A j \in 1..Len(s[i]) :
               ends[i - 1] + j \in 1..ends[k] /\ f[k][ends[i - 1] + j] = s[i][j]
             Right == {k \in 0..n : \A i \in 1..k : ends[i] = ends[i - 1] + Len(s[i]) /\ Placed(k, i)}
  <2>2. n \in Nat /\ n # 0 BY <1>1, <1>3
  <2>3. ends \in [0..n -> Nat] /\ ends[0] = 0 /\ \A i \in 1..n : ends[i] = Len(f[i])
    <3>1. \A i \in 1..n : Len(f[i]) \in Nat BY <2>1, LenProperties
    <3>2. \A i \in 0..n : i # 0 => i \in 1..n BY <2>2
    <3> QED BY <2>2, <3>1, <3>2
  <2>4. \A i \in 1..n : f[i] \in Seq(S) /\ s[i] \in Seq(S) /\ Len(s[i]) \in Nat BY <1>1, <2>1, LenProperties
  <2>5. \A i \in 1..n : f[i] = IF i = 1 THEN s[i] ELSE f[i - 1] \o s[i] BY <2>1
  <2>6. 0 \in Right BY <2>2
  <2> HIDE DEF ends, n
  <2>7. ASSUME NEW k \in 0..(n - 1), k \in Right PROVE k + 1 \in Right
    <3>1. PICK m \in 1..n : m = k + 1 BY <2>2
    <3>2. m - 1 = k /\ k \in 0..n /\ \A i \in 1..m : i \in 1..k \/ i = m BY <2>2, <3>1
    <3>3. CASE k = 0
      <4>1. m = 1 /\ f[m] = s[m] /\ ends[m] = Len(s[m]) /\ ends[m - 1] = 0 BY <3>1, <3>2, <3>3, <2>3, <2>5
      <4>2. Len(s[m]) \in Nat BY <2>4
      <4>3. ends[m] = ends[m - 1] + Len(s[m]) BY <4>1, <4>2
      <4>4. \A j \in 1..Len(s[m]) : 0 + j = j BY <4>2
      <4>5. Placed(m, m) BY <4>1, <4>4
      <4>6. \A i \in 1..m : i = m BY <4>1
      <4>7. m \in 0..n BY <2>2, <3>1
      <4> HIDE DEF Placed
      <4> QED BY <3>1, <4>3, <4>5, <4>6, <4>7
    <3>4. CASE k # 0
      <4>1. k \in 1..n /\ m # 1 BY <3>1, <3>2, <3>4
      <4>2. PICK u \in Seq(S), v \in Seq(S) : u = f[k] /\ v = s[m] BY <4>1, <2>4
      <4> DEFINE st == u \o v
      <4>3. /\ Len(st) = Len(u) + Len(v)
            /\ \A i \in 1..Len(u) : st[i] = u[i]
            /\ \A j \in 1..Len(v) : Len(u) + j \in 1..Len(st) /\ st[Len(u) + j] = v[j]
        BY ConcatType
      <4>9. f[m] = st BY <4>1, <4>2, <3>2, <2>5
      <4> HIDE DEF st
      <4>4. ends[k] = Len(u) /\ ends[m] = Len(st) /\ ends[k] \in Nat /\ Len(s[m]) \in Nat
        BY <4>1, <4>2, <4>9, <2>3, <2>4, <3>2
      <4>5. ends[m] = ends[m - 1] + Len(s[m]) BY <3>2, <4>2, <4>3, <4>4
      <4>6. Placed(m, m) BY <3>2, <4>2, <4>3, <4>4, <4>9
      <4>7. ASSUME NEW i \in 1..k PROVE ends[i] = ends[i - 1] + Len(s[i]) /\ Placed(m, i)
        <5>1. ends[i] = ends[i - 1] + Len(s[i]) /\ Placed(k, i) BY <2>7
        <5>2. ASSUME NEW j \in 1..ends[k] PROVE j \in 1..ends[m] /\ f[m][j] = f[k][j]
          <6>1. j \in 1..Len(u) BY <4>4
          <6>2. PICK a \in Nat, c \in Nat : ends[k] = a /\ Len(s[m]) = c BY <4>4
          <6>3. ends[m] = a + c BY <6>2, <4>5, <3>2
          <6>4. j \in 1..(a + c) BY <6>2
          <6>5. j \in 1..ends[m] BY <6>3, <6>4
          <6> QED BY <6>1, <6>5, <4>2, <4>3, <4>9
        <5> QED BY <5>1, <5>2
      <4>8. m \in 0..n BY <3>1, <2>2
      <4> HIDE DEF Placed
      <4> QED BY <3>1, <3>2, <4>5, <4>6, <4>7, <4>8
    <3> QED BY <3>3, <3>4
  <2>8. n \in Right
    <3> HIDE DEF Right
    <3> QED BY <2>2, <2>6, <2>7, Induction
  <2>9. n \in 1..n BY <2>2
  <2>10. EndsOf(ends, s, FlattenSeq(s)) BY <2>1, <2>3, <2>8, <2>9 DEF EndsOf, n
  <2> QED BY <2>10
<1> QED BY <1>2, <1>3

\* Where a write of registers is cut off.
LEMMA Limits ==
  /\ MaxWriteCount \in Nat /\ MaxRegisters \in Nat /\ MaxWriteCount >= 6
  /\ MaxWriteCount <= 2 * MaxRegisters + 6 /\ MaxWriteCount % 2 = 0
<1>1. MaxWriteCount \in Nat /\ MaxRegisters \in Nat BY LimitAssumption
<1> QED BY <1>1, LimitAssumption

\* Registers are two bytes each.
LEMMA WordsFlat ==
  ASSUME NEW registers \in Seq(Nat)
  PROVE  LET flat == FlattenSeq([i \in DOMAIN registers |-> Word(registers[i])])
         IN flat \in Seq(Nat) /\ Len(flat) = 2 * Len(registers)
<1> DEFINE n == Len(registers)
           words == [i \in 1..n |-> Word(registers[i])]
           flat == FlattenSeq(words)
<1>1. n \in Nat /\ DOMAIN registers = 1..n BY LenProperties
<1>2. \A i \in 1..n : Word(registers[i]) \in Seq(Nat) /\ Len(Word(registers[i])) = 2
  <2>1. \A x \in Nat : Word(x) \in Seq(Nat) /\ Len(Word(x)) = 2 BY DEF Word
  <2>2. \A i \in 1..n : registers[i] \in Nat BY ElementOfSeq
  <2> QED BY <2>1, <2>2
<1>3. words \in [1..n -> Seq(Nat)] /\ \A i \in 1..n : Len(words[i]) = 2 BY <1>2
<1> HIDE DEF words, n
<1>4. words \in Seq(Seq(Nat)) /\ Len(words) = n BY <1>1, <1>3, FunctionIsSeq
<1>5. PICK ends : EndsOf(ends, words, flat) BY <1>4, FlattenEnds
<1>6. flat \in Seq(Nat) BY <1>4, FlattenType
<1> HIDE DEF flat
<1>7. /\ ends[0] = 0 /\ ends[n] = Len(flat)
      /\ \A i \in 1..n : ends[i] = ends[i - 1] + 2
  BY <1>3, <1>4, <1>5 DEF EndsOf
<1> DEFINE Right == {k \in 0..n : ends[k] = 2 * k}
<1>8. 0 \in Right BY <1>1, <1>7
<1>9. ASSUME NEW k \in 0..(n - 1), k \in Right PROVE k + 1 \in Right
  <2>1. PICK m \in 1..n : m = k + 1 BY <1>1
  <2>2. m - 1 = k /\ m \in 0..n BY <1>1, <2>1
  <2>3. ends[m] = 2 * k + 2 BY <1>7, <1>9, <2>2
  <2>4. ends[m] = 2 * m BY <2>1, <2>3
  <2> QED BY <2>1, <2>2, <2>4
<1>10. n \in Right
  <2> HIDE DEF Right
  <2> QED BY <1>1, <1>8, <1>9, Induction
<1>11. Len(flat) = 2 * n BY <1>7, <1>10
<1> QED BY <1>1, <1>6, <1>11 DEF flat, words, n

\* A byte and two words behind it.
AreWords(h, x, y, z) ==
  h \in Seq(Nat) /\ Len(h) = 5 /\ h[1] = x /\ Uint16(h, 2) = y /\ Uint16(h, 4) = z

\* Such are the bodies made of a byte and two words.
LEMMA FirstWord ==
  ASSUME NEW x \in Nat, NEW y \in Nat, NEW z \in Nat
  PROVE  AreWords(<<x>> \o Word(y) \o Word(z), x, y, z)
<1>1. LET h == <<x>> \o Word(y) \o Word(z)
      IN h \in Seq(Nat) /\ Len(h) = 5 /\ h[1] = x /\ Uint16(h, 4) = z
  BY WordsOf
<1>2. LET h == <<x>> \o Word(y) \o Word(z) IN Uint16(h, 2) = y BY DEF Word, Uint16
<1> QED BY <1>1, <1>2 DEF AreWords

\* The first word of a head with a byte count.
LEMMA HeadWord ==
  ASSUME NEW x \in Nat, NEW y \in Nat, NEW z \in Nat, NEW c \in Nat
  PROVE  Uint16(Head4(x, y, z, c), 2) = y
<1>1. Head4(x, y, z, c)[2] = y \div 256 /\ Head4(x, y, z, c)[3] = y % 256 BY DEF Head4, Word
<1>2. 256 * (y \div 256) + (y % 256) = y OBVIOUS
<1> QED BY <1>1, <1>2 DEF Uint16

\* A head of six bytes and the data behind it.
BehindSix(p, h, data) ==
  Uint16(p, 2) = Uint16(h, 2) /\ \A j \in 1..Len(data) : p[6 + j] = data[j]

\* The bytes of the data follow the sixth.
LEMMA HeadData ==
  ASSUME NEW S, NEW h \in Seq(S), NEW data \in Seq(S)
  PROVE  Len(h) = 6 => BehindSix(h \o data, h, data)
<1> DEFINE p == h \o data
<1>1. /\ p \in Seq(S) /\ Len(p) = Len(h) + Len(data)
      /\ \A i \in 1..Len(h) : i \in 1..Len(p) /\ p[i] = h[i]
      /\ \A j \in 1..Len(data) : Len(h) + j \in 1..Len(p) /\ p[Len(h) + j] = data[j]
      /\ \A i \in 1..Len(p) : i \in 1..Len(h) \/ \E j \in 1..Len(data) : i = Len(h) + j
  BY ConcatType
<1> HIDE DEF p
<1>2. 2 \in 1..6 /\ 3 \in 1..6 OBVIOUS
<1>3. Len(h) = 6 => p[2] = h[2] /\ p[3] = h[3] BY <1>1, <1>2
<1>4. Len(h) = 6 => Uint16(p, 2) = Uint16(h, 2) BY <1>3 DEF Uint16
<1>5. Len(h) = 6 => \A j \in 1..Len(data) : p[6 + j] = data[j] BY <1>1
<1> QED BY <1>4, <1>5 DEF p, BehindSix

\* Of the bytes of registers, each two are one of them.
LEMMA WordsFlatWords ==
  ASSUME NEW registers \in Seq(Nat)
  PROVE  LET flat == FlattenSeq([i \in DOMAIN registers |-> Word(registers[i])])
         IN \A i \in 1..Len(registers) : Uint16(flat, 2 * i - 1) = registers[i]
<1> DEFINE n == Len(registers)
           words == [i \in 1..n |-> Word(registers[i])]
           flat == FlattenSeq(words)
<1>1. n \in Nat /\ DOMAIN registers = 1..n BY LenProperties
<1>0. \A i \in 1..n : registers[i] \in Nat BY ElementOfSeq
<1>2. \A i \in 1..n : /\ Word(registers[i]) \in Seq(Nat) /\ Len(Word(registers[i])) = 2
                      /\ 256 * Word(registers[i])[1] + Word(registers[i])[2] = registers[i]
  <2>1. \A x \in Nat : Word(x) \in Seq(Nat) /\ Len(Word(x)) = 2 BY DEF Word
  <2>2. \A x \in Nat : 256 * Word(x)[1] + Word(x)[2] = x BY DEF Word
  <2> QED BY <2>1, <2>2, <1>0
<1>3. words \in [1..n -> Seq(Nat)] /\ \A i \in 1..n : words[i] = Word(registers[i]) BY <1>2
<1> HIDE DEF words, n
<1>4. words \in Seq(Seq(Nat)) /\ Len(words) = n BY <1>1, <1>3, FunctionIsSeq
<1>5. PICK ends : EndsOf(ends, words, flat) BY <1>4, FlattenEnds
<1> HIDE DEF flat
<1>7. /\ ends[0] = 0
      /\ \A i \in 1..n : ends[i] = ends[i - 1] + 2
      /\ \A i \in 1..n : flat[ends[i - 1] + 1] = Word(registers[i])[1]
                         /\ flat[ends[i - 1] + 2] = Word(registers[i])[2]
  <2>1. \A i \in 1..n : Len(words[i]) = 2 BY <1>2, <1>3
  <2>2. 1 \in 1..2 /\ 2 \in 1..2 OBVIOUS
  <2>3. /\ ends[0] = 0
        /\ \A i \in 1..n : /\ ends[i] = ends[i - 1] + Len(words[i])
                          /\ \A j \in 1..Len(words[i]) : flat[ends[i - 1] + j] = words[i][j]
    BY <1>4, <1>5 DEF EndsOf
  <2>4. \A i \in 1..n : ends[i] = ends[i - 1] + 2 BY <2>1, <2>3
  <2>5. \A i \in 1..n : flat[ends[i - 1] + 1] = words[i][1] /\ flat[ends[i - 1] + 2] = words[i][2]
    BY <2>1, <2>2, <2>3
  <2>6. \A i \in 1..n : words[i] = Word(registers[i]) BY <1>3
  <2> QED BY <2>3, <2>4, <2>5, <2>6
<1> DEFINE Right == {k \in 0..n : ends[k] = 2 * k}
<1>8. 0 \in Right BY <1>1, <1>7
<1>9. ASSUME NEW k \in 0..(n - 1), k \in Right PROVE k + 1 \in Right
  <2>1. PICK m \in 1..n : m = k + 1 BY <1>1
  <2>2. m - 1 = k /\ m \in 0..n BY <1>1, <2>1
  <2>3. ends[m] = 2 * k + 2 BY <1>7, <1>9, <2>2
  <2>4. ends[m] = 2 * m BY <2>1, <2>3
  <2> QED BY <2>1, <2>2, <2>4
<1>10. ASSUME NEW i \in 1..n PROVE Uint16(flat, 2 * i - 1) = registers[i]
  <2>1. PICK k \in Nat : k = i - 1 /\ k <= n BY <1>1
  <2>2. \A j \in 0..(k - 1) : j \in 0..(n - 1) BY <1>1, <2>1
  <2>3. \A j \in 0..(k - 1) : j \in Right => j + 1 \in Right
    <3> HIDE DEF Right
    <3> QED BY <1>9, <2>2
  <2>4. k \in Right
    <3> HIDE DEF Right
    <3> QED BY <2>1, <2>3, <1>8, Induction
  <2>5. ends[i - 1] + 1 = 2 * i - 1 /\ ends[i - 1] + 2 = 2 * i - 1 + 1 BY <2>1, <2>4
  <2>6. flat[2 * i - 1] = Word(registers[i])[1] /\ flat[2 * i - 1 + 1] = Word(registers[i])[2]
    BY <1>7, <2>5
  <2> QED BY <1>2, <2>6 DEF Uint16
<1> QED BY <1>1, <1>10 DEF flat, words, n

\* A sequence, whatever its elements.
IsSequence(c) == \E S : c \in Seq(S)

-----------------------------------------------------------------------------
(* Coils and their bytes.                                                    *)

\* The bits of a sum of different powers of two.
LEMMA EightBits ==
  ASSUME NEW a \in 0..1, NEW b \in 0..1, NEW c \in 0..1, NEW d \in 0..1,
         NEW e \in 0..1, NEW f \in 0..1, NEW g \in 0..1, NEW h \in 0..1
  PROVE  LET s == a + 2 * b + 4 * c + 8 * d + 16 * e + 32 * f + 64 * g + 128 * h
         IN /\ (s \div 1) % 2 = a /\ (s \div 2) % 2 = b /\ (s \div 4) % 2 = c /\ (s \div 8) % 2 = d
            /\ (s \div 16) % 2 = e /\ (s \div 32) % 2 = f /\ (s \div 64) % 2 = g /\ (s \div 128) % 2 = h
<1> DEFINE s == a + 2 * b + 4 * c + 8 * d + 16 * e + 32 * f + 64 * g + 128 * h
<1>1. (s \div 1) % 2 = a OBVIOUS
<1>2. (s \div 2) % 2 = b OBVIOUS
<1>3. (s \div 4) % 2 = c OBVIOUS
<1>4. (s \div 8) % 2 = d OBVIOUS
<1>5. (s \div 16) % 2 = e OBVIOUS
<1>6. (s \div 32) % 2 = f OBVIOUS
<1>7. (s \div 64) % 2 = g OBVIOUS
<1>8. (s \div 128) % 2 = h OBVIOUS
<1> QED BY <1>1, <1>2, <1>3, <1>4, <1>5, <1>6, <1>7, <1>8

\* What each coil weighs in its byte.
LEMMA Weights ==
  ASSUME NEW k \in Nat
  PROVE  /\ Weight(8 * k - 7) = 1 /\ Weight(8 * k - 6) = 2 /\ Weight(8 * k - 5) = 4
         /\ Weight(8 * k - 4) = 8 /\ Weight(8 * k - 3) = 16 /\ Weight(8 * k - 2) = 32
         /\ Weight(8 * k - 1) = 64 /\ Weight(8 * k) = 128
<1>1. /\ 1 + ((8 * k - 7 - 1) % 8) = 1 /\ 1 + ((8 * k - 6 - 1) % 8) = 2
      /\ 1 + ((8 * k - 5 - 1) % 8) = 3 /\ 1 + ((8 * k - 4 - 1) % 8) = 4
      /\ 1 + ((8 * k - 3 - 1) % 8) = 5 /\ 1 + ((8 * k - 2 - 1) % 8) = 6
      /\ 1 + ((8 * k - 1 - 1) % 8) = 7 /\ 1 + ((8 * k - 1) % 8) = 8
  OBVIOUS
<1> QED BY <1>1 DEF Weight, Power

\* Packed coils are unpacked again, each from its byte.
LEMMA PackedBits ==
  ASSUME NEW bits \in Seq(BOOLEAN)
  PROVE  /\ Len(Packed(bits)) = Octets(Len(bits)) /\ Packed(bits) \in Seq(Nat)
         /\ \A i \in 1..Len(bits) :
              /\ (i + 7) \div 8 \in 1..Octets(Len(bits))
              /\ ((Packed(bits)[(i + 7) \div 8] \div Weight(i)) % 2 = 1) = bits[i]
<1> DEFINE n == Len(bits)
           bit(i) == IF i \in DOMAIN bits /\ bits[i] THEN Weight(i) ELSE 0
           one(i) == IF i \in DOMAIN bits /\ bits[i] THEN 1 ELSE 0
           byte(k) == bit(8 * k - 7) + bit(8 * k - 6) + bit(8 * k - 5) + bit(8 * k - 4) +
                      bit(8 * k - 3) + bit(8 * k - 2) + bit(8 * k - 1) + bit(8 * k)
           size == Octets(n)
<1>1. n \in Nat /\ DOMAIN bits = 1..n /\ \A i \in 1..n : bits[i] \in BOOLEAN
  BY LenProperties, ElementOfSeq
<1>2. size \in Nat /\ \A i \in 1..n : (i + 7) \div 8 \in 1..size BY <1>1 DEF Octets
<1>3. Packed(bits) = [k \in 1..size |-> byte(k)] BY DEF Packed
<1>4. \A i : one(i) \in 0..1 OBVIOUS
<1>5. \A i, w : Weight(i) = w /\ w \in Nat => bit(i) = w * one(i) OBVIOUS
<1>6. \A i \in 1..n : (one(i) = 1) = bits[i] BY <1>1
<1> HIDE DEF bit, one, n, size
<1>7. ASSUME NEW k \in 1..size
      PROVE  /\ byte(k) = one(8 * k - 7) + 2 * one(8 * k - 6) + 4 * one(8 * k - 5) + 8 * one(8 * k - 4) +
                16 * one(8 * k - 3) + 32 * one(8 * k - 2) + 64 * one(8 * k - 1) + 128 * one(8 * k)
  <2>1. k \in Nat BY <1>2
  <2>2. /\ Weight(8 * k - 7) = 1 /\ Weight(8 * k - 6) = 2 /\ Weight(8 * k - 5) = 4
        /\ Weight(8 * k - 4) = 8 /\ Weight(8 * k - 3) = 16 /\ Weight(8 * k - 2) = 32
        /\ Weight(8 * k - 1) = 64 /\ Weight(8 * k) = 128
    BY <2>1, Weights
  <2>3. /\ bit(8 * k - 7) = 1 * one(8 * k - 7) /\ bit(8 * k - 6) = 2 * one(8 * k - 6)
        /\ bit(8 * k - 5) = 4 * one(8 * k - 5) /\ bit(8 * k - 4) = 8 * one(8 * k - 4)
        /\ bit(8 * k - 3) = 16 * one(8 * k - 3) /\ bit(8 * k - 2) = 32 * one(8 * k - 2)
        /\ bit(8 * k - 1) = 64 * one(8 * k - 1) /\ bit(8 * k) = 128 * one(8 * k)
    BY <2>2, <1>5
  <2>4. 1 * one(8 * k - 7) = one(8 * k - 7) BY <1>4
  <2> QED BY <2>3, <2>4
<1>8. ASSUME NEW k \in 1..size, NEW j \in 1..8
      PROVE  byte(k) \in Nat /\ (byte(k) \div Power[j]) % 2 = one(8 * k - 8 + j)
  <2>1. k \in Nat BY <1>2
  <2>2. PICK a \in 0..1, b \in 0..1, c \in 0..1, d \in 0..1, e \in 0..1, f \in 0..1, g \in 0..1, h \in 0..1 :
          /\ a = one(8 * k - 7) /\ b = one(8 * k - 6) /\ c = one(8 * k - 5) /\ d = one(8 * k - 4)
          /\ e = one(8 * k - 3) /\ f = one(8 * k - 2) /\ g = one(8 * k - 1) /\ h = one(8 * k)
    BY <1>4
  <2> DEFINE s == a + 2 * b + 4 * c + 8 * d + 16 * e + 32 * f + 64 * g + 128 * h
  <2>3. byte(k) = s BY <1>7, <2>2
  <2>4. /\ (s \div 1) % 2 = a /\ (s \div 2) % 2 = b /\ (s \div 4) % 2 = c /\ (s \div 8) % 2 = d
        /\ (s \div 16) % 2 = e /\ (s \div 32) % 2 = f /\ (s \div 64) % 2 = g /\ (s \div 128) % 2 = h
    BY EightBits
  <2>5. s \in Nat OBVIOUS
  <2> HIDE DEF s, byte
  <2>6. /\ 8 * k - 8 + 1 = 8 * k - 7 /\ 8 * k - 8 + 2 = 8 * k - 6 /\ 8 * k - 8 + 3 = 8 * k - 5
        /\ 8 * k - 8 + 4 = 8 * k - 4 /\ 8 * k - 8 + 5 = 8 * k - 3 /\ 8 * k - 8 + 6 = 8 * k - 2
        /\ 8 * k - 8 + 7 = 8 * k - 1 /\ 8 * k - 8 + 8 = 8 * k
    BY <2>1
  <2>7. /\ Power[1] = 1 /\ Power[2] = 2 /\ Power[3] = 4 /\ Power[4] = 8
        /\ Power[5] = 16 /\ Power[6] = 32 /\ Power[7] = 64 /\ Power[8] = 128
    BY DEF Power
  <2>8. j = 1 \/ j = 2 \/ j = 3 \/ j = 4 \/ j = 5 \/ j = 6 \/ j = 7 \/ j = 8 OBVIOUS
  <2>9. (s \div Power[j]) % 2 = one(8 * k - 8 + j) BY <2>2, <2>4, <2>6, <2>7, <2>8
  <2> QED BY <2>3, <2>5, <2>9
<1> HIDE DEF byte
<1>9. Packed(bits) \in Seq(Nat) /\ Len(Packed(bits)) = size
  <2>1. \A k \in 1..size : byte(k) \in Nat
    <3>1. 1 \in 1..8 OBVIOUS
    <3> QED BY <1>8, <3>1
  <2>2. Packed(bits) \in [1..size -> Nat] BY <1>3, <2>1
  <2> QED BY <1>2, <2>2, FunctionIsSeq
<1>10. ASSUME NEW i \in 1..n
       PROVE  /\ (i + 7) \div 8 \in 1..size
              /\ ((Packed(bits)[(i + 7) \div 8] \div Weight(i)) % 2 = 1) = bits[i]
  <2>1. PICK k \in 1..size : k = (i + 7) \div 8 BY <1>2
  <2>2. PICK j \in 1..8 : j = i - (8 * k - 8) BY <1>1, <2>1
  <2>3. 8 * k - 8 + j = i /\ 1 + ((i - 1) % 8) = j BY <1>1, <1>2, <2>1, <2>2
  <2>4. Weight(i) = Power[j] BY <2>3 DEF Weight
  <2>5. Packed(bits)[k] = byte(k) BY <1>3
  <2>6. (byte(k) \div Power[j]) % 2 = one(i) BY <1>8, <2>3
  <2>7. (Packed(bits)[(i + 7) \div 8] \div Weight(i)) % 2 = one(i) BY <2>1, <2>4, <2>5, <2>6
  <2>8. ((Packed(bits)[(i + 7) \div 8] \div Weight(i)) % 2 = 1) = bits[i]
    <3>1. ((Packed(bits)[(i + 7) \div 8] \div Weight(i)) % 2 = 1) = (one(i) = 1) BY <2>7, Zenon
    <3> QED BY <3>1, <1>6, Zenon
  <2> QED BY <1>2, <2>8
<1> QED BY <1>9, <1>10 DEF n, size

-----------------------------------------------------------------------------
(* Requests as they are sent.                                                *)

\* The body of a request as it is sent: the payload up to its byte count.
Cut(body, memory) ==
  LET payload == RequestPayload(body, memory)
  IN Part(payload, 1, RequestByteCount(body, payload))

\* It is a sequence, of the length the frame announces.
IsCut(body, memory) ==
  /\ \E S : Cut(body, memory) \in Seq(S)
  /\ RequestByteCount(body, RequestPayload(body, memory)) = Len(Cut(body, memory))

\* Only a write of registers is cut off.
LEMMA Uncut ==
  ASSUME NEW S, NEW body, NEW memory, "registers" \notin DOMAIN body,
         RequestPayload(body, memory) \in Seq(S)
  PROVE  Cut(body, memory) = RequestPayload(body, memory) /\ IsCut(body, memory)
<1>1. Cut(body, memory) = RequestPayload(body, memory) BY WholePart DEF Cut, RequestByteCount
<1> QED BY <1>1 DEF IsCut, RequestByteCount

\* What the reader relies on.
RequestForm(c, body) ==
  \/ body.fc \in 1..4 /\ Len(c) = 5 /\ c[1] = body.fc /\ Uint16(c, 4) = body.n /\ "n" \in DOMAIN body
  \/ body.fc \in {5, 6} /\ Len(c) = 5 /\ c[1] = body.fc
  \/ /\ body.fc = 15 /\ c[1] = 15
     /\ \E n \in Nat : Len(c) = 6 + Octets(n) /\ Uint16(c, 4) = n /\ c[6] = Octets(n)
  \/ /\ body.fc = 16 /\ c[1] = 16
     /\ \E n \in Nat : /\ Len(c) = IF 6 + 2 * n <= MaxWriteCount THEN 6 + 2 * n ELSE MaxWriteCount
                       /\ c[6] = 2 * n
  \/ body.fc = 43 /\ Len(c) = 4 /\ c[1] = 43
  \/ body.fc \in 1..255 \ FunctionCodes /\ Len(c) >= 1 /\ c[1] = body.fc

\* Reads and writes of single cells.
LEMMA ShortRequestForm ==
  ASSUME NEW memory, NEW body,
         body \in [fc : 1..4, at : Nat, n : Nat] \/ body \in [fc : {5, 6}, at : Nat, value : Nat]
  PROVE  RequestForm(Cut(body, memory), body) /\ IsCut(body, memory)
<1>1. CASE body \in [fc : 1..4, at : Nat, n : Nat]
  <2>1. PICK x \in 1..4, y \in Nat, z \in Nat : body = [fc |-> x, at |-> y, n |-> z] BY <1>1
  <2>2. RequestPayload(body, memory) = <<x>> \o Word(y) \o Word(z)
    <3>1. body.fc = x /\ body.at = y /\ body.n = z /\ "raw" \notin DOMAIN body BY <2>1
    <3>2. x = 1 \/ x = 2 \/ x = 3 \/ x = 4 BY <2>1
    <3>3. RequestPayload(body, memory) = ReadPayload(body)
      BY <3>1, <3>2 DEF RequestPayload, FC, ReadCoilsPayload, ReadDiscreteInputsPayload,
         ReadHoldingRegistersPayload, ReadInputRegistersPayload
    <3> QED BY <3>1, <3>3 DEF ReadPayload
  <2> DEFINE h == <<x>> \o Word(y) \o Word(z)
  <2>3. h \in Seq(Nat) /\ Len(h) = 5 /\ h[1] = x /\ Uint16(h, 4) = z
    <3>1. x \in Nat OBVIOUS
    <3> QED BY <3>1, WordsOf
  <2> HIDE DEF h
  <2>4. Cut(body, memory) = h /\ IsCut(body, memory)
    <3>1. "registers" \notin DOMAIN body BY <2>1
    <3> QED BY <2>2, <2>3, <3>1, Uncut DEF h
  <2>5. body.fc = x /\ body.n = z /\ "n" \in DOMAIN body BY <2>1
  <2> QED BY <2>3, <2>4, <2>5 DEF RequestForm
<1>2. CASE body \in [fc : {5, 6}, at : Nat, value : Nat]
  <2>1. PICK x \in Nat, y \in Nat, z \in Nat : x \in {5, 6} /\ body = [fc |-> x, at |-> y, value |-> z]
    BY <1>2
  <2>2. RequestPayload(body, memory) = <<x>> \o Word(y) \o Word(z)
    <3>1. body.fc = x /\ body.at = y /\ body.value = z /\ "raw" \notin DOMAIN body BY <2>1
    <3>2. x = 5 \/ x = 6 BY <2>1
    <3>3. RequestPayload(body, memory) = WritePayload(body)
      BY <3>1, <3>2 DEF RequestPayload, FC, WriteSingleCoilPayload, WriteSingleRegisterPayload
    <3> QED BY <3>1, <3>3 DEF WritePayload
  <2> DEFINE h == <<x>> \o Word(y) \o Word(z)
  <2>3. h \in Seq(Nat) /\ Len(h) = 5 /\ h[1] = x /\ Uint16(h, 4) = z BY <2>1, WordsOf
  <2> HIDE DEF h
  <2>4. Cut(body, memory) = h /\ IsCut(body, memory)
    <3>1. "registers" \notin DOMAIN body BY <2>1
    <3> QED BY <2>2, <2>3, <3>1, Uncut DEF h
  <2>5. body.fc = x BY <2>1
  <2>6. body.fc \in {5, 6} BY <2>1, <2>5
  <2> QED BY <2>3, <2>4, <2>5, <2>6 DEF RequestForm
<1> QED BY <1>1, <1>2

HasLength(s) == Len(s) \in Nat

\* Writes of coils.
LEMMA CoilsRequestForm ==
  ASSUME NEW memory, NEW y \in Nat, NEW coils, HasLength(coils)
  PROVE  LET body == [fc |-> 15, at |-> y, coils |-> coils]
         IN RequestForm(Cut(body, memory), body) /\ IsCut(body, memory)
<1> DEFINE body == [fc |-> 15, at |-> y, coils |-> coils]
<1>1. body = [fc |-> 15, at |-> y, coils |-> coils] /\ y \in Nat OBVIOUS
<1> HIDE DEF body
<1> DEFINE n == Len(coils)
           size == Octets(n)
           packed == Packed(Part(coils, 1, MaxPackedCoils))
           data == [k \in 1..size |-> IF k <= Len(packed) THEN packed[k] ELSE memory]
           p == <<15>> \o Word(y) \o Word(n) \o <<size>> \o data
<1>2. n \in Nat BY DEF HasLength
<1> HIDE DEF n
<1>3. size \in Nat BY <1>2 DEF Octets
<1>4. RequestPayload(body, memory) = p
  <2>1. body.fc = 15 /\ body.at = y /\ body.coils = coils /\ "raw" \notin DOMAIN body BY <1>1
  <2>2. RequestPayload(body, memory) = WriteMultipleCoilsPayload(body, memory)
    BY <2>1 DEF RequestPayload, FC
  <2>3. WriteMultipleCoilsPayload(body, memory) = p BY <2>1 DEF WriteMultipleCoilsPayload, n
  <2> QED BY <2>2, <2>3
<1> HIDE DEF size, packed
<1> DEFINE S == Nat \cup {data[k] : k \in 1..size}
<1>5. data \in Seq(S) /\ Len(data) = size
  <2>1. data \in [1..size -> S] OBVIOUS
  <2> HIDE DEF data, S
  <2> QED BY <2>1, <1>3, FunctionIsSeq
<1>6. Nat \subseteq S OBVIOUS
<1> HIDE DEF data, S
<1>7. p \in Seq(S) /\ Len(p) = 6 + size /\ p[1] = 15 /\ Uint16(p, 4) = n /\ p[6] = size
  <2> DEFINE h == <<15>> \o Word(y) \o Word(n) \o <<size>>
  <2>1. h \in Seq(Nat) /\ Len(h) = 6 /\ h[1] = 15 /\ Uint16(h, 4) = n /\ h[6] = size
    <3>1. 15 \in Nat /\ y \in Nat /\ n \in Nat /\ size \in Nat BY <1>1, <1>2, <1>3
    <3>2. PICK code \in Nat : code = 15 BY <3>1
    <3>3. PICK k \in Nat : k = size BY <3>1
    <3>9. PICK q \in Nat : q = n BY <3>1
    <3>6. code \in Nat /\ y \in Nat /\ q \in Nat /\ k \in Nat BY <3>1, <3>2, <3>3, <3>9
    <3> DEFINE g == Head4(code, y, q, k)
    <3>4. g \in Seq(Nat) /\ Len(g) = 6 BY HeadOf
    <3>8. g[1] = code /\ g[6] = k BY HeadOf
    <3>7. Uint16(g, 4) = q BY HeadOf
    <3>5. g = h BY <3>2, <3>3, <3>9 DEF Head4
    <3> HIDE DEF g
    <3> HIDE DEF h
    <3> QED BY <3>2, <3>3, <3>4, <3>5, <3>7, <3>8, <3>9
  <2> HIDE DEF h
  <2>2. h \in Seq(S) BY <2>1, <1>6, SeqMonotonic
  <2>3. /\ h \o data \in Seq(S) /\ Len(h \o data) = 6 + Len(data)
        /\ (h \o data)[1] = h[1] /\ (h \o data)[6] = h[6]
        /\ Uint16(h \o data, 4) = Uint16(h, 4)
    BY <2>1, <2>2, <1>5, BehindHead
  <2>4. h \o data = p BY DEF h
  <2> HIDE DEF p
  <2> QED BY <2>1, <2>3, <2>4, <1>5
<1> HIDE DEF p
<1>8. Cut(body, memory) = p /\ IsCut(body, memory)
  <2>1. "registers" \notin DOMAIN body BY <1>1
  <2> QED BY <2>1, <1>4, <1>7, Uncut
<1>9. body.fc = 15 BY <1>1
<1>10. RequestForm(Cut(body, memory), body) /\ IsCut(body, memory)
  BY <1>2, <1>7, <1>8, <1>9 DEF RequestForm, size
<1> QED BY <1>10 DEF body

IsNumbers(s) == s \in Seq(Nat)

\* Writes of registers, the only body that is cut off.
LEMMA RegistersRequestForm ==
  ASSUME NEW memory, NEW y \in Nat, NEW registers, IsNumbers(registers)
  PROVE  LET body == [fc |-> 16, at |-> y, registers |-> registers]
         IN RequestForm(Cut(body, memory), body) /\ IsCut(body, memory)
<1> DEFINE body == [fc |-> 16, at |-> y, registers |-> registers]
<1>1. body = [fc |-> 16, at |-> y, registers |-> registers] /\ y \in Nat OBVIOUS
<1> HIDE DEF body
<1> DEFINE n == Len(registers)
           data == FlattenSeq([i \in DOMAIN registers |-> Word(registers[i])])
           p == <<16>> \o Word(y) \o Word(n) \o <<2 * n>> \o data
           size == Min({Len(p), MaxWriteCount})
           c == Part(p, 1, size)
<1>2. data \in Seq(Nat) /\ Len(data) = 2 * n /\ n \in Nat
  BY WordsFlat, LenProperties DEF IsNumbers
<1>3. RequestPayload(body, memory) = p
  BY <1>1 DEF RequestPayload, FC, WriteMultipleRegistersPayload
<1>4. Cut(body, memory) = c
  <2>1. "registers" \in DOMAIN body BY <1>1
  <2> QED BY <2>1, <1>3 DEF Cut, RequestByteCount
<1> HIDE DEF n, data
<1>5. p \in Seq(Nat) /\ Len(p) = 6 + 2 * n /\ p[1] = 16 /\ p[6] = 2 * n
  <2> DEFINE h == <<16>> \o Word(y) \o Word(n) \o <<2 * n>>
  <2>1. h \in Seq(Nat) /\ Len(h) = 6 /\ h[1] = 16 /\ h[6] = 2 * n
    <3>1. 16 \in Nat /\ y \in Nat /\ n \in Nat /\ 2 * n \in Nat BY <1>1, <1>2
    <3>2. PICK code \in Nat : code = 16 BY <3>1
    <3>3. PICK k \in Nat : k = 2 * n BY <3>1
    <3>9. PICK q \in Nat : q = n BY <3>1
    <3>6. code \in Nat /\ y \in Nat /\ q \in Nat /\ k \in Nat BY <3>1, <3>2, <3>3, <3>9
    <3> DEFINE g == Head4(code, y, q, k)
    <3>4. g \in Seq(Nat) /\ Len(g) = 6 BY HeadOf
    <3>8. g[1] = code /\ g[6] = k BY HeadOf
    <3>7. Uint16(g, 4) = q BY HeadOf
    <3>5. g = h BY <3>2, <3>3, <3>9 DEF Head4
    <3> HIDE DEF g
    <3> HIDE DEF h
    <3> QED BY <3>2, <3>3, <3>4, <3>5, <3>7, <3>8, <3>9
  <2> HIDE DEF h
  <2>3. /\ h \o data \in Seq(Nat) /\ Len(h \o data) = 6 + Len(data)
        /\ (h \o data)[1] = h[1] /\ (h \o data)[6] = h[6]
    BY <2>1, <1>2, BehindHead
  <2>4. h \o data = p BY DEF h
  <2> HIDE DEF p
  <2> QED BY <2>1, <2>3, <2>4, <1>2
<1> HIDE DEF p
<1>6. size = IF 6 + 2 * n <= MaxWriteCount THEN 6 + 2 * n ELSE MaxWriteCount
  <2>1. Len(p) \in Int /\ MaxWriteCount \in Int BY <1>2, <1>5, Limits
  <2>2. size = IF Len(p) <= MaxWriteCount THEN Len(p) ELSE MaxWriteCount BY <2>1, MinOfTwo
  <2> QED BY <2>2, <1>5
<1>7. size \in Nat /\ size >= 6 /\ size <= Len(p)
  <2>1. MaxWriteCount \in Nat /\ MaxWriteCount >= 6 BY Limits
  <2> HIDE DEF size
  <2> QED BY <2>1, <1>2, <1>5, <1>6
<1> HIDE DEF size
<1>8. Len(c) = size /\ c \in Seq(Nat) /\ \A i \in 1..size : c[i] = p[i]
  <2>1. p \in Seq(Nat) /\ size \in Nat BY <1>5, <1>7
  <2>2. size <= Len(p) => /\ Part(p, 1, size) \in Seq(Nat) /\ Len(Part(p, 1, size)) = size
                          /\ \A i \in 1..size : Part(p, 1, size)[i] = p[i]
    BY <2>1, FrontPart
  <2> QED BY <2>2, <1>7
<1>9. c[1] = 16 /\ c[6] = 2 * n
  <2>1. 1 \in 1..size /\ 6 \in 1..size BY <1>7
  <2>2. c[1] = p[1] /\ c[6] = p[6] BY <2>1, <1>8
  <2> QED BY <2>2, <1>5
<1>10. body.fc = 16 BY <1>1
<1>11. RequestForm(Cut(body, memory), body)
  BY <1>2, <1>4, <1>6, <1>8, <1>9, <1>10 DEF RequestForm
<1>12. IsCut(body, memory)
  <2>1. "registers" \in DOMAIN body BY <1>1
  <2>2. RequestByteCount(body, p) = size BY <2>1 DEF RequestByteCount, size
  <2> HIDE DEF c
  <2> QED BY <2>2, <1>3, <1>4, <1>8 DEF IsCut
<1> QED BY <1>11, <1>12 DEF body

\* What every request looks like when it is sent.
LEMMA RequestsForm ==
  ASSUME NEW memory, NEW body \in Requests
  PROVE  RequestForm(Cut(body, memory), body) /\ IsCut(body, memory)
<1>1. CASE body \in [fc : {43}, selector : {s \in Seq(0..255) : Len(s) = 3}]
  <2>1. PICK s \in Seq(Octet) : Len(s) = 3 /\ body = [fc |-> 43, selector |-> s] BY <1>1 DEF Octet
  <2> DEFINE first == <<43>>
             p == first \o s
  <2>2. RequestPayload(body, memory) = p
    BY <2>1 DEF RequestPayload, FC, ReadDeviceIdentificationPayload
  <2>3. first \in Seq(Nat) /\ Len(first) = 1 /\ first[1] = 43 OBVIOUS
  <2>4. s \in Seq(Nat) BY OctetsAreNumbers
  <2> HIDE DEF first
  <2>5. p \in Seq(Nat) /\ Len(p) = 4 /\ p[1] = 43
    <3>1. p \in Seq(Nat) /\ Len(p) = Len(first) + Len(s) /\ \A i \in 1..Len(first) : p[i] = first[i]
      BY <2>3, <2>4, NumbersConcat
    <3> QED BY <2>1, <2>3, <3>1
  <2> HIDE DEF p
  <2>6. Cut(body, memory) = p /\ IsCut(body, memory)
    <3>1. "registers" \notin DOMAIN body BY <2>1
    <3> QED BY <3>1, <2>2, <2>5, Uncut
  <2>7. body.fc = 43 BY <2>1
  <2> QED BY <2>5, <2>6, <2>7 DEF RequestForm
<1>2. CASE body \in [fc : 1..255 \ FunctionCodes, raw : Seq(0..255)]
  <2>1. PICK x \in Nat, s \in Seq(Octet) :
          x \in 1..255 \ FunctionCodes /\ body = [fc |-> x, raw |-> s]
    <3>1. body \in [fc : 1..255 \ FunctionCodes, raw : Seq(Octet)] BY <1>2 DEF Octet
    <3> HIDE DEF Octet
    <3>2. body.fc \in 1..255 \ FunctionCodes /\ body.raw \in Seq(Octet) BY <3>1
    <3>3. body = [fc |-> body.fc, raw |-> body.raw] BY <3>1
    <3>4. \A x \in 1..255 \ FunctionCodes : x \in Nat OBVIOUS
    <3> QED BY <3>2, <3>3, <3>4
  <2> DEFINE first == <<x>>
             p == first \o s
  <2>2. RequestPayload(body, memory) = p BY <2>1 DEF RequestPayload
  <2>3. first \in Seq(Nat) /\ Len(first) = 1 /\ first[1] = x OBVIOUS
  <2>4. s \in Seq(Nat) /\ Len(s) \in Nat BY OctetsAreNumbers
  <2> HIDE DEF first
  <2>5. p \in Seq(Nat) /\ Len(p) >= 1 /\ p[1] = x
    <3>1. p \in Seq(Nat) /\ Len(p) = Len(first) + Len(s) /\ \A i \in 1..Len(first) : p[i] = first[i]
      BY <2>3, <2>4, NumbersConcat
    <3> QED BY <2>3, <2>4, <3>1
  <2> HIDE DEF p
  <2>6. Cut(body, memory) = p /\ IsCut(body, memory)
    <3>1. "registers" \notin DOMAIN body BY <2>1
    <3> QED BY <3>1, <2>2, <2>5, Uncut
  <2>7. body.fc = x BY <2>1
  <2> QED BY <2>1, <2>5, <2>6, <2>7 DEF RequestForm
<1>3. CASE body \in [fc : {15}, at : Nat, coils : Seq(BOOLEAN)]
  <2>1. PICK y \in Nat, coils \in Seq(BOOLEAN) : body = [fc |-> 15, at |-> y, coils |-> coils] BY <1>3
  <2>2. HasLength(coils) BY <2>1, LenProperties DEF HasLength
  <2> QED BY <2>1, <2>2, CoilsRequestForm
<1>4. CASE body \in [fc : {16}, at : Nat, registers : Seq(Nat)]
  <2>1. PICK y \in Nat, registers \in Seq(Nat) : body = [fc |-> 16, at |-> y, registers |-> registers]
    BY <1>4
  <2>2. IsNumbers(registers) BY <2>1 DEF IsNumbers
  <2> QED BY <2>1, <2>2, RegistersRequestForm
<1>5. CASE body \in [fc : 1..4, at : Nat, n : Nat] \/ body \in [fc : {5, 6}, at : Nat, value : Nat]
  BY <1>5, ShortRequestForm
<1> QED BY <1>1, <1>2, <1>3, <1>4, <1>5 DEF Requests

\* Where coil i of a write stands, and register i.
CoilAt(c, i) == (c[6 + ((i + 7) \div 8)] \div Weight(i)) % 2 = 1
RegisterAt(c, i) == Uint16(c, 5 + 2 * i)

\* What the body of a request says.
CoilsContent(c, body, coils) ==
  /\ body = [fc |-> c[1], at |-> Uint16(c, 2), coils |-> coils] /\ c[1] = 15
  /\ Len(coils) = Uint16(c, 4) /\ c[6] = Octets(Len(coils)) /\ Len(c) = 6 + Octets(Len(coils))
  /\ \A i \in 1..Len(coils) : i <= MaxPackedCoils => CoilAt(c, i) = coils[i]
RegistersContent(c, body, registers) ==
  /\ body = [fc |-> c[1], at |-> Uint16(c, 2), registers |-> registers] /\ c[1] = 16
  /\ c[6] = 2 * Len(registers)
  /\ Len(c) = IF 6 + 2 * Len(registers) <= MaxWriteCount THEN 6 + 2 * Len(registers) ELSE MaxWriteCount
  /\ \A i \in 1..Len(registers) : 6 + 2 * i <= Len(c) => RegisterAt(c, i) = registers[i]
RequestContent(c, body) ==
  \/ Len(c) = 5 /\ c[1] \in 1..4 /\ body = [fc |-> c[1], at |-> Uint16(c, 2), n |-> Uint16(c, 4)]
  \/ Len(c) = 5 /\ c[1] \in {5, 6} /\ body = [fc |-> c[1], at |-> Uint16(c, 2), value |-> Uint16(c, 4)]
  \/ \E coils \in Seq(BOOLEAN) : CoilsContent(c, body, coils)
  \/ \E registers \in Seq(Nat) : RegistersContent(c, body, registers)
  \/ Len(c) = 4 /\ c[1] = 43 /\ body = [fc |-> c[1], selector |-> Part(c, 2, 3)]
  \/ c[1] \in 1..255 \ FunctionCodes

\* Reads and writes of single cells.
LEMMA ShortRequestContent ==
  ASSUME NEW memory, NEW body,
         body \in [fc : 1..4, at : Nat, n : Nat] \/ body \in [fc : {5, 6}, at : Nat, value : Nat]
  PROVE  RequestContent(Cut(body, memory), body)
<1>1. CASE body \in [fc : 1..4, at : Nat, n : Nat]
  <2>1. PICK x \in 1..4, y \in Nat, z \in Nat : body = [fc |-> x, at |-> y, n |-> z] BY <1>1
  <2>2. RequestPayload(body, memory) = <<x>> \o Word(y) \o Word(z)
    <3>1. body.fc = x /\ body.at = y /\ body.n = z /\ "raw" \notin DOMAIN body BY <2>1
    <3>2. x = 1 \/ x = 2 \/ x = 3 \/ x = 4 BY <2>1
    <3>3. RequestPayload(body, memory) = ReadPayload(body)
      BY <3>1, <3>2 DEF RequestPayload, FC, ReadCoilsPayload, ReadDiscreteInputsPayload,
         ReadHoldingRegistersPayload, ReadInputRegistersPayload
    <3> QED BY <3>1, <3>3 DEF ReadPayload
  <2> DEFINE h == <<x>> \o Word(y) \o Word(z)
  <2>3. h \in Seq(Nat) /\ Len(h) = 5 /\ h[1] = x /\ Uint16(h, 2) = y /\ Uint16(h, 4) = z
    <3>1. x \in Nat OBVIOUS
    <3>2. AreWords(h, x, y, z) BY <3>1, FirstWord
    <3> QED BY <3>2 DEF AreWords
  <2> HIDE DEF h
  <2>4. Cut(body, memory) = h
    <3>1. "registers" \notin DOMAIN body BY <2>1
    <3> QED BY <2>2, <2>3, <3>1, Uncut DEF h
  <2>6. body = [fc |-> h[1], at |-> Uint16(h, 2), n |-> Uint16(h, 4)] BY <2>1, <2>3
  <2>7. RequestContent(h, body) BY <2>1, <2>3, <2>6 DEF RequestContent
  <2> QED BY <2>4, <2>7
<1>2. CASE body \in [fc : {5, 6}, at : Nat, value : Nat]
  <2>1. PICK x \in Nat, y \in Nat, z \in Nat : x \in {5, 6} /\ body = [fc |-> x, at |-> y, value |-> z]
    BY <1>2
  <2>2. RequestPayload(body, memory) = <<x>> \o Word(y) \o Word(z)
    <3>1. body.fc = x /\ body.at = y /\ body.value = z /\ "raw" \notin DOMAIN body BY <2>1
    <3>2. x = 5 \/ x = 6 BY <2>1
    <3>3. RequestPayload(body, memory) = WritePayload(body)
      BY <3>1, <3>2 DEF RequestPayload, FC, WriteSingleCoilPayload, WriteSingleRegisterPayload
    <3> QED BY <3>1, <3>3 DEF WritePayload
  <2> DEFINE h == <<x>> \o Word(y) \o Word(z)
  <2>3. h \in Seq(Nat) /\ Len(h) = 5 /\ h[1] = x /\ Uint16(h, 2) = y /\ Uint16(h, 4) = z
    <3>1. AreWords(h, x, y, z) BY FirstWord
    <3> QED BY <3>1 DEF AreWords
  <2> HIDE DEF h
  <2>4. Cut(body, memory) = h
    <3>1. "registers" \notin DOMAIN body BY <2>1
    <3> QED BY <2>2, <2>3, <3>1, Uncut DEF h
  <2>6. body = [fc |-> h[1], at |-> Uint16(h, 2), value |-> Uint16(h, 4)] BY <2>1, <2>3
  <2>7. RequestContent(h, body) BY <2>1, <2>3, <2>6 DEF RequestContent
  <2> QED BY <2>4, <2>7
<1> QED BY <1>1, <1>2

\* Coils, under a name.
IsCoils(s) == s \in Seq(BOOLEAN)

\* Coils and their bytes.
LEMMA CoilsRequestContent ==
  ASSUME NEW memory, NEW y \in Nat, NEW coils, IsCoils(coils)
  PROVE  LET body == [fc |-> 15, at |-> y, coils |-> coils]
         IN RequestContent(Cut(body, memory), body)
<1> DEFINE body == [fc |-> 15, at |-> y, coils |-> coils]
<1>1. body = [fc |-> 15, at |-> y, coils |-> coils] /\ y \in Nat OBVIOUS
<1> HIDE DEF body
<1> DEFINE n == Len(coils)
           size == Octets(n)
           part == Part(coils, 1, MaxPackedCoils)
           packed == Packed(part)
           data == [k \in 1..size |-> IF k <= Len(packed) THEN packed[k] ELSE memory]
           p == <<15>> \o Word(y) \o Word(n) \o <<size>> \o data
<1>2. n \in Nat /\ coils \in Seq(BOOLEAN) BY LenProperties DEF IsCoils
<1>3. RequestPayload(body, memory) = p
  <2>1. body.fc = 15 /\ body.at = y /\ body.coils = coils /\ "raw" \notin DOMAIN body BY <1>1
  <2>2. RequestPayload(body, memory) = WriteMultipleCoilsPayload(body, memory)
    BY <2>1 DEF RequestPayload, FC
  <2>3. WriteMultipleCoilsPayload(body, memory) = p BY <2>1 DEF WriteMultipleCoilsPayload, n
  <2> QED BY <2>2, <2>3
<1>4. /\ part \in Seq(BOOLEAN) /\ Len(part) \in Nat
      /\ \A i \in 1..n : i <= MaxPackedCoils => i \in 1..Len(part) /\ part[i] = coils[i]
      /\ Len(part) <= n
  <2>1. MaxPackedCoils \in Nat BY LimitAssumption
  <2>2. PICK max \in Nat : max = MaxPackedCoils BY <2>1
  <2>3. part \in Seq(BOOLEAN) /\ IsFront(part, coils, max)
    <3>1. coils \in Seq(BOOLEAN) BY <1>2
    <3>2. Part(coils, 1, max) \in Seq(BOOLEAN) /\ IsFront(Part(coils, 1, max), coils, max)
      BY <3>1, FirstBytes
    <3> QED BY <2>2, <3>2
  <2> HIDE DEF part
  <2>4. /\ Len(part) = IF max <= n THEN max ELSE n
        /\ \A i \in 1..Len(part) : part[i] = coils[i]
    BY <2>3 DEF IsFront
  <2> HIDE DEF n
  <2>5. \A i \in 1..n : i <= max => i \in 1..Len(part) BY <1>2, <2>4
  <2>6. Len(part) \in Nat /\ Len(part) <= n BY <1>2, <2>4
  <2> QED BY <2>2, <2>3, <2>4, <2>5, <2>6
<1> HIDE DEF part, n
<1>5. /\ Len(packed) = Octets(Len(part)) /\ packed \in Seq(Nat)
      /\ \A i \in 1..Len(part) :
           /\ (i + 7) \div 8 \in 1..Octets(Len(part))
           /\ ((packed[(i + 7) \div 8] \div Weight(i)) % 2 = 1) = part[i]
  <2>1. part \in Seq(BOOLEAN) BY <1>4
  <2> QED BY <2>1, PackedBits
<1> HIDE DEF packed
<1>6. size \in Nat /\ Octets(Len(part)) \in Nat /\ Octets(Len(part)) <= size BY <1>2, <1>4 DEF Octets
<1> HIDE DEF size
<1>7. \A k \in 1..Octets(Len(part)) : k \in 1..size /\ data[k] = packed[k] BY <1>5, <1>6
<1> DEFINE S == Nat \cup {data[k] : k \in 1..size}
<1>8. data \in Seq(S) /\ Len(data) = size
  <2>1. data \in [1..size -> S] OBVIOUS
  <2> HIDE DEF data, S
  <2> QED BY <2>1, <1>6, FunctionIsSeq
<1>9. Nat \subseteq S OBVIOUS
<1> HIDE DEF data, S
<1>10. /\ p \in Seq(S) /\ Len(p) = 6 + size /\ p[1] = 15 /\ Uint16(p, 2) = y /\ Uint16(p, 4) = n
       /\ p[6] = size /\ \A j \in 1..size : p[6 + j] = data[j]
  <2> DEFINE h == <<15>> \o Word(y) \o Word(n) \o <<size>>
  <2>1. /\ h \in Seq(Nat) /\ Len(h) = 6 /\ h[1] = 15 /\ Uint16(h, 2) = y /\ Uint16(h, 4) = n
        /\ h[6] = size
    <3>1. 15 \in Nat /\ y \in Nat /\ n \in Nat /\ size \in Nat BY <1>1, <1>2, <1>6
    <3>2. PICK code \in Nat : code = 15 BY <3>1
    <3>3. PICK k \in Nat : k = size BY <3>1
    <3>4. PICK q \in Nat : q = n BY <3>1
    <3> DEFINE g == Head4(code, y, q, k)
    <3>5. /\ g \in Seq(Nat) /\ Len(g) = 6 /\ g[1] = code /\ Uint16(g, 4) = q /\ g[6] = k BY HeadOf
    <3>6. Uint16(g, 2) = y BY HeadWord
    <3>7. g = h BY <3>2, <3>3, <3>4 DEF Head4
    <3> HIDE DEF g, h
    <3> QED BY <3>2, <3>3, <3>4, <3>5, <3>6, <3>7
  <2> HIDE DEF h
  <2>2. h \in Seq(S) BY <2>1, <1>9, SeqMonotonic
  <2>3. /\ h \o data \in Seq(S) /\ Len(h \o data) = 6 + Len(data)
        /\ (h \o data)[1] = h[1] /\ (h \o data)[6] = h[6]
        /\ Uint16(h \o data, 4) = Uint16(h, 4)
    BY <2>1, <2>2, <1>8, BehindHead
  <2>4. /\ Uint16(h \o data, 2) = Uint16(h, 2)
        /\ \A j \in 1..Len(data) : (h \o data)[6 + j] = data[j]
    <3>1. h \in Seq(S) /\ data \in Seq(S) BY <2>2, <1>8
    <3>2. Len(h) = 6 => BehindSix(h \o data, h, data) BY <3>1, HeadData
    <3> QED BY <3>2, <2>1 DEF BehindSix
  <2>5. h \o data = p BY DEF h
  <2> HIDE DEF p
  <2> QED BY <2>1, <2>3, <2>4, <2>5, <1>8
<1> HIDE DEF p
<1>11. Cut(body, memory) = p
  <2>1. "registers" \notin DOMAIN body BY <1>1
  <2> QED BY <2>1, <1>3, <1>10, Uncut
<1>12. ASSUME NEW i \in 1..n, i <= MaxPackedCoils PROVE CoilAt(p, i) = coils[i]
  <2>1. i \in 1..Len(part) /\ part[i] = coils[i] BY <1>4, <1>12
  <2>2. PICK k \in 1..Octets(Len(part)) : k = (i + 7) \div 8 BY <1>5, <2>1
  <2>3. k \in 1..size /\ p[6 + k] = packed[k] BY <1>7, <1>10
  <2>4. ((packed[k] \div Weight(i)) % 2 = 1) = part[i] BY <1>5, <2>1, <2>2
  <2>5. CoilAt(p, i) = ((p[6 + k] \div Weight(i)) % 2 = 1) BY <2>2 DEF CoilAt
  <2> QED BY <2>1, <2>3, <2>4, <2>5, Zenon
<1>14. RequestContent(p, body)
  <2>1. body = [fc |-> p[1], at |-> Uint16(p, 2), coils |-> coils] BY <1>1, <1>10
  <2>2. /\ Len(coils) = Uint16(p, 4) /\ p[6] = Octets(Len(coils)) /\ Len(p) = 6 + Octets(Len(coils))
        /\ \A i \in 1..Len(coils) : i <= MaxPackedCoils => CoilAt(p, i) = coils[i]
    BY <1>10, <1>12 DEF n, size
  <2>3. CoilsContent(p, body, coils) BY <1>10, <2>1, <2>2 DEF CoilsContent
  <2> QED BY <1>2, <2>3 DEF RequestContent
<1> QED BY <1>11, <1>14 DEF body

\* Registers and their bytes, as far as they are sent.
LEMMA RegistersRequestContent ==
  ASSUME NEW memory, NEW y \in Nat, NEW registers, IsNumbers(registers)
  PROVE  LET body == [fc |-> 16, at |-> y, registers |-> registers]
         IN RequestContent(Cut(body, memory), body)
<1> DEFINE body == [fc |-> 16, at |-> y, registers |-> registers]
<1>1. body = [fc |-> 16, at |-> y, registers |-> registers] /\ y \in Nat OBVIOUS
<1> HIDE DEF body
<1> DEFINE n == Len(registers)
           data == FlattenSeq([i \in DOMAIN registers |-> Word(registers[i])])
           p == <<16>> \o Word(y) \o Word(n) \o <<2 * n>> \o data
           size == Min({Len(p), MaxWriteCount})
           c == Part(p, 1, size)
<1>2. data \in Seq(Nat) /\ Len(data) = 2 * n /\ n \in Nat /\ registers \in Seq(Nat)
  BY WordsFlat, LenProperties DEF IsNumbers
<1>0. \A i \in 1..n : Uint16(data, 2 * i - 1) = registers[i] BY <1>2, WordsFlatWords
<1>3. RequestPayload(body, memory) = p
  BY <1>1 DEF RequestPayload, FC, WriteMultipleRegistersPayload
<1>4. Cut(body, memory) = c
  <2>1. "registers" \in DOMAIN body BY <1>1
  <2> QED BY <2>1, <1>3 DEF Cut, RequestByteCount
<1> HIDE DEF n, data
<1>5. /\ p \in Seq(Nat) /\ Len(p) = 6 + 2 * n /\ p[1] = 16 /\ Uint16(p, 2) = y /\ p[6] = 2 * n
      /\ \A j \in 1..Len(data) : p[6 + j] = data[j]
  <2> DEFINE h == <<16>> \o Word(y) \o Word(n) \o <<2 * n>>
  <2>1. h \in Seq(Nat) /\ Len(h) = 6 /\ h[1] = 16 /\ Uint16(h, 2) = y /\ h[6] = 2 * n
    <3>1. 16 \in Nat /\ y \in Nat /\ n \in Nat /\ 2 * n \in Nat BY <1>1, <1>2
    <3>2. PICK code \in Nat : code = 16 BY <3>1
    <3>3. PICK k \in Nat : k = 2 * n BY <3>1
    <3>4. PICK q \in Nat : q = n BY <3>1
    <3> DEFINE g == Head4(code, y, q, k)
    <3>5. g \in Seq(Nat) /\ Len(g) = 6 /\ g[1] = code /\ Uint16(g, 4) = q /\ g[6] = k BY HeadOf
    <3>6. Uint16(g, 2) = y BY HeadWord
    <3>7. g = h BY <3>2, <3>3, <3>4 DEF Head4
    <3> HIDE DEF g, h
    <3> QED BY <3>2, <3>3, <3>5, <3>6, <3>7
  <2> HIDE DEF h
  <2>2. /\ h \o data \in Seq(Nat) /\ Len(h \o data) = 6 + Len(data)
        /\ (h \o data)[1] = h[1] /\ (h \o data)[6] = h[6]
        /\ Uint16(h \o data, 4) = Uint16(h, 4)
    BY <2>1, <1>2, BehindHead
  <2>3. BehindSix(h \o data, h, data) BY <2>1, <1>2, HeadData
  <2>4. h \o data = p BY DEF h
  <2> HIDE DEF p
  <2> QED BY <2>1, <2>2, <2>3, <2>4, <1>2 DEF BehindSix
<1> HIDE DEF p
<1>6. size = IF 6 + 2 * n <= MaxWriteCount THEN 6 + 2 * n ELSE MaxWriteCount
  <2>1. Len(p) \in Int /\ MaxWriteCount \in Int BY <1>2, <1>5, Limits
  <2>2. size = IF Len(p) <= MaxWriteCount THEN Len(p) ELSE MaxWriteCount BY <2>1, MinOfTwo
  <2> QED BY <2>2, <1>5
<1>7. size \in Nat /\ size >= 6 /\ size <= Len(p)
  <2>1. MaxWriteCount \in Nat /\ MaxWriteCount >= 6 BY Limits
  <2> HIDE DEF size
  <2> QED BY <2>1, <1>2, <1>5, <1>6
<1> HIDE DEF size
<1>8. Len(c) = size /\ c \in Seq(Nat) /\ \A i \in 1..size : c[i] = p[i]
  <2>1. p \in Seq(Nat) /\ size \in Nat BY <1>5, <1>7
  <2>2. size <= Len(p) => /\ Part(p, 1, size) \in Seq(Nat) /\ Len(Part(p, 1, size)) = size
                          /\ \A i \in 1..size : Part(p, 1, size)[i] = p[i]
    BY <2>1, FrontPart
  <2> QED BY <2>2, <1>7
<1> HIDE DEF c
<1>9. c[1] = 16 /\ Uint16(c, 2) = y /\ c[6] = 2 * n
  <2>1. 1 \in 1..size /\ 2 \in 1..size /\ 2 + 1 \in 1..size /\ 6 \in 1..size BY <1>7
  <2>2. c[1] = p[1] /\ c[2] = p[2] /\ c[2 + 1] = p[2 + 1] /\ c[6] = p[6] BY <2>1, <1>8
  <2>3. Uint16(c, 2) = Uint16(p, 2) BY <2>2 DEF Uint16
  <2> QED BY <2>2, <2>3, <1>5
<1>10. ASSUME NEW i \in 1..n, 6 + 2 * i <= Len(c) PROVE RegisterAt(c, i) = registers[i]
  <2>1. i \in Nat /\ i >= 1 BY <1>2
  <2>2. 5 + 2 * i \in 1..size /\ 5 + 2 * i + 1 \in 1..size BY <2>1, <1>7, <1>8, <1>10
  <2>3. 2 * i - 1 \in 1..Len(data) /\ 2 * i - 1 + 1 \in 1..Len(data) BY <2>1, <1>2
  <2>4. 6 + (2 * i - 1) = 5 + 2 * i /\ 6 + (2 * i - 1 + 1) = 5 + 2 * i + 1 BY <2>1
  <2>5. c[5 + 2 * i] = data[2 * i - 1] /\ c[5 + 2 * i + 1] = data[2 * i - 1 + 1]
    <3>1. p[6 + (2 * i - 1)] = data[2 * i - 1] /\ p[6 + (2 * i - 1 + 1)] = data[2 * i - 1 + 1]
      BY <2>3, <1>5
    <3>2. c[5 + 2 * i] = p[5 + 2 * i] /\ c[5 + 2 * i + 1] = p[5 + 2 * i + 1] BY <2>2, <1>8
    <3> QED BY <3>1, <3>2, <2>4
  <2>6. RegisterAt(c, i) = Uint16(data, 2 * i - 1) BY <2>5 DEF RegisterAt, Uint16
  <2> QED BY <2>6, <1>0
<1>11. RegistersContent(c, body, registers)
  <2>1. body = [fc |-> c[1], at |-> Uint16(c, 2), registers |-> registers] BY <1>1, <1>9
  <2> QED BY <2>1, <1>6, <1>8, <1>9, <1>10 DEF RegistersContent, n
<1>12. RequestContent(c, body) BY <1>2, <1>11 DEF RequestContent
<1> QED BY <1>4, <1>12 DEF body

\* What every request says when it is sent.
LEMMA RequestsContent ==
  ASSUME NEW memory, NEW body \in Requests
  PROVE  RequestContent(Cut(body, memory), body)
<1>1. CASE body \in [fc : {43}, selector : {s \in Seq(0..255) : Len(s) = 3}]
  <2>1. PICK s \in Seq(Octet) : Len(s) = 3 /\ body = [fc |-> 43, selector |-> s] BY <1>1 DEF Octet
  <2> DEFINE first == <<43>>
             p == first \o s
  <2>2. RequestPayload(body, memory) = p
    BY <2>1 DEF RequestPayload, FC, ReadDeviceIdentificationPayload
  <2>3. first \in Seq(Nat) /\ Len(first) = 1 /\ first[1] = 43 OBVIOUS
  <2>4. s \in Seq(Nat) BY OctetsAreNumbers
  <2> HIDE DEF first
  <2>5. p \in Seq(Nat) /\ Len(p) = 4 /\ p[1] = 43 /\ \A j \in 1..3 : p[1 + j] = s[j]
    <3>1. /\ p \in Seq(Nat) /\ Len(p) = Len(first) + Len(s)
          /\ \A i \in 1..Len(first) : p[i] = first[i]
          /\ \A j \in 1..Len(s) : p[Len(first) + j] = s[j]
      BY <2>3, <2>4, NumbersConcat
    <3> QED BY <2>1, <2>3, <3>1
  <2> HIDE DEF p
  <2>6. Cut(body, memory) = p
    <3>1. "registers" \notin DOMAIN body BY <2>1
    <3> QED BY <3>1, <2>2, <2>5, Uncut
  <2>7. Part(p, 2, 3) = s
    <3>1. StandsAt(p, 1, s)
      <4>1. 1 + 3 <= 4 OBVIOUS
      <4> QED BY <2>1, <2>5, <4>1 DEF StandsAt
    <3>2. PICK a \in Nat : a = 1 OBVIOUS
    <3>3. p \in Seq(Nat) BY <2>5
    <3>4. Part(p, a + 1, Len(s)) = s BY <2>4, <3>1, <3>2, <3>3, PartIs
    <3>5. a + 1 = 2 BY <3>2
    <3> QED BY <2>1, <3>4, <3>5
  <2>8. body = [fc |-> p[1], selector |-> Part(p, 2, 3)] BY <2>1, <2>5, <2>7
  <2> QED BY <2>5, <2>6, <2>8 DEF RequestContent
<1>2. CASE body \in [fc : 1..255 \ FunctionCodes, raw : Seq(0..255)]
  <2>1. body.fc \in 1..255 \ FunctionCodes BY <1>2
  <2>2. RequestForm(Cut(body, memory), body) BY RequestsForm
  <2>3. Cut(body, memory)[1] = body.fc
    BY <2>1, <2>2, RequestsForm DEF RequestForm
  <2> QED BY <2>1, <2>3 DEF RequestContent
<1>3. CASE body \in [fc : {15}, at : Nat, coils : Seq(BOOLEAN)]
  <2>1. PICK y \in Nat, coils \in Seq(BOOLEAN) : body = [fc |-> 15, at |-> y, coils |-> coils] BY <1>3
  <2>2. IsCoils(coils) BY <2>1 DEF IsCoils
  <2> QED BY <2>1, <2>2, CoilsRequestContent
<1>4. CASE body \in [fc : {16}, at : Nat, registers : Seq(Nat)]
  <2>1. PICK y \in Nat, registers \in Seq(Nat) : body = [fc |-> 16, at |-> y, registers |-> registers]
    BY <1>4
  <2>2. IsNumbers(registers) BY <2>1 DEF IsNumbers
  <2> QED BY <2>1, <2>2, RegistersRequestContent
<1>5. CASE body \in [fc : 1..4, at : Nat, n : Nat] \/ body \in [fc : {5, 6}, at : Nat, value : Nat]
  BY <1>5, ShortRequestContent
<1> QED BY <1>1, <1>2, <1>3, <1>4, <1>5 DEF Requests

-----------------------------------------------------------------------------
(* Requests as they are read.                                                *)

\* A block whose data has arrived in part: nothing is missing of what has.
LEMMA DataPart ==
  ASSUME NEW b \in Seq(Octet), Len(b) >= 6, Len(b) - 6 <= b[6]
  PROVE  Part(b, 7, b[6]) \in Seq(Octet) /\ Len(Part(b, 7, b[6])) = Len(b) - 6
<1>1. Len(b) \in Nat /\ 6 \in 1..Len(b) BY LenProperties
<1>2. b[6] \in Nat BY <1>1, OctetOfSeq
<1>3. PICK n \in Nat : n = b[6] BY <1>2
<1> DEFINE p == Part(b, 7, n)
<1>4. /\ p \in Seq(Octet) /\ Len(p) \in Nat
      /\ Len(p) = IF n <= 0 \/ 7 > Len(b) THEN 0
                  ELSE IF 7 + n - 1 <= Len(b) THEN n ELSE Len(b) - 7 + 1
      /\ \A i \in 1..Len(p) : 7 + i - 1 \in 1..Len(b) /\ p[i] = b[7 + i - 1]
  <2>1. n \in Int /\ 7 \in Nat \ {0} OBVIOUS
  <2> QED BY <2>1, PartType
<1> HIDE DEF p
<1>5. Len(p) = Len(b) - 6 BY <1>1, <1>3, <1>4
<1> QED BY <1>3, <1>4, <1>5 DEF p

\* The body of a request that has arrived in part does not parse, unless it
\* parses early.
LEMMA RequestFront ==
  ASSUME NEW c \in Seq(Octet), NEW body, RequestForm(c, body), NEW p \in Seq(Octet),
         Len(p) < Len(c), \A i \in 1..Len(p) : p[i] = c[i],
         reader = "tcpServer", ~ParsesEarly(body, Len(p) + 7)
  PROVE  RequestBody(p) = Null
<1>1. Len(p) \in Nat /\ Len(c) \in Nat BY LenProperties
<1>2. CASE Len(p) = 0
  <2>1. p = <<>> BY <1>2, EmptySeq
  <2> QED BY <2>1 DEF RequestBody
<1>3. CASE Len(p) # 0
  <2>1. p # <<>> /\ 1 \in 1..Len(p) BY <1>1, <1>3, EmptySeq
  <2>2. p[1] = c[1] BY <2>1
  <2>3. CASE body.fc \in 1..4 /\ Len(c) = 5 /\ c[1] = body.fc
    <3>1. Len(p) < 5 BY <2>3
    <3> QED BY <2>1, <2>2, <2>3, <3>1, <1>1 DEF RequestBody, FC, ReadCoilsRequest,
         ReadDiscreteInputsRequest, ReadHoldingRegistersRequest, ReadInputRegistersRequest, ReadRequest
  <2>4. CASE body.fc \in {5, 6} /\ Len(c) = 5 /\ c[1] = body.fc
    <3>1. Len(p) < 5 BY <2>4
    <3> QED BY <2>1, <2>2, <2>4, <3>1, <1>1 DEF RequestBody, FC, WriteSingleCoilRequest,
         WriteSingleRegisterRequest
  <2>5. CASE /\ c[1] = 15
             /\ \E n \in Nat : Len(c) = 6 + Octets(n) /\ Uint16(c, 4) = n /\ c[6] = Octets(n)
    <3>1. RequestBody(p) = WriteMultipleCoilsRequest(p) BY <2>1, <2>2, <2>5 DEF RequestBody, FC
    <3>2. CASE Len(p) < 6 BY <3>1, <3>2 DEF WriteMultipleCoilsRequest
    <3>3. CASE Len(p) >= 6
      <4>1. PICK n \in Nat : Len(c) = 6 + Octets(n) /\ Uint16(c, 4) = n /\ c[6] = Octets(n) BY <2>5
      <4>2. 4 \in 1..Len(p) /\ 5 \in 1..Len(p) /\ 6 \in 1..Len(p) BY <1>1, <3>3
      <4>3. p[4] = c[4] /\ p[5] = c[5] /\ p[6] = c[6] BY <4>2
      <4>4. Uint16(p, 4) = n BY <4>1, <4>3 DEF Uint16
      <4>5. Octets(n) \in Nat /\ 8 * Octets(n) <= n + 7 BY DEF Octets
      <4>6. Len(p) - 6 < Octets(n) BY <1>1, <4>1, <4>5
      <4>7. Len(Part(p, 7, p[6])) = Len(p) - 6
        <5>1. Len(p) - 6 <= p[6] BY <1>1, <4>1, <4>3, <4>5, <4>6
        <5> QED BY <3>3, <5>1, DataPart
      <4>8. 8 * (Len(p) - 6) < n BY <1>1, <4>5, <4>6
      <4> QED BY <1>1, <3>1, <3>3, <4>4, <4>7, <4>8 DEF WriteMultipleCoilsRequest
    <3> QED BY <1>1, <3>2, <3>3
  <2>6. CASE /\ body.fc = 16 /\ c[1] = 16
             /\ \E n \in Nat : /\ Len(c) = IF 6 + 2 * n <= MaxWriteCount THEN 6 + 2 * n ELSE MaxWriteCount
                               /\ c[6] = 2 * n
    <3>1. RequestBody(p) = WriteMultipleRegistersRequest(p) BY <2>1, <2>2, <2>6 DEF RequestBody, FC
    <3>2. CASE Len(p) < 6 BY <3>1, <3>2 DEF WriteMultipleRegistersRequest
    <3>3. CASE Len(p) >= 6
      <4>1. PICK n \in Nat : /\ Len(c) = IF 6 + 2 * n <= MaxWriteCount THEN 6 + 2 * n ELSE MaxWriteCount
                             /\ c[6] = 2 * n
        BY <2>6
      <4>2. 6 \in 1..Len(p) BY <1>1, <3>3
      <4>3. p[6] = 2 * n BY <4>1, <4>2
      <4>4. Len(c) <= 6 + 2 * n BY <4>1, Limits
      <4>5. Len(Part(p, 7, p[6])) = Len(p) - 6
        <5>1. Len(p) - 6 <= p[6] BY <1>1, <4>3, <4>4
        <5> QED BY <3>3, <5>1, DataPart
      <4>6. (Len(p) + 7) % 2 # 1 BY <1>1, <2>6, <3>3 DEF ParsesEarly, FC
      <4>7. (Len(p) - 6) % 2 = 1 BY <1>1, <4>6
      <4> QED BY <3>1, <3>3, <4>5, <4>7 DEF WriteMultipleRegistersRequest
    <3> QED BY <1>1, <3>2, <3>3
  <2>7. CASE Len(c) = 4 /\ c[1] = 43
    <3>1. Len(p) < 4 BY <2>7
    <3> QED BY <2>1, <2>2, <2>7, <3>1, <1>1 DEF RequestBody, FC, ReadDeviceIdentificationRequest
  <2>8. CASE body.fc \in 1..255 \ FunctionCodes /\ c[1] = body.fc
    <3>1. p[1] \notin FunctionCodes BY <2>2, <2>8
    <3>2. RequestBody(p) = ExceptionRequest(p[1])
      BY <2>1, <3>1 DEF RequestBody, FunctionCodes, FC
    <3> QED BY <3>1, <3>2 DEF ExceptionRequest
  <2> QED BY <2>3, <2>4, <2>5, <2>6, <2>7, <2>8 DEF RequestForm
<1> QED BY <1>2, <1>3

\* A whole one parses, unless it never does.
LEMMA RequestWhole ==
  ASSUME NEW c \in Seq(Octet), NEW body, RequestForm(c, body), reader = "tcpServer",
         RequestBody(c) = Null
  PROVE  NeverParses(body)
<1>1. Len(c) \in Nat BY LenProperties
<1>2. ASSUME Len(c) >= 1 PROVE c # <<>> BY <1>1, <1>2, EmptySeq
<1>3. CASE body.fc \in 1..4 /\ Len(c) = 5 /\ c[1] = body.fc /\ Uint16(c, 4) = body.n
  <2>1. CASE body.n > MaxQuantity BY <1>3, <2>1 DEF NeverParses
  <2>2. CASE ~(body.n > MaxQuantity)
    <3>1. Uint16(c, 4) \in Nat
      <4>1. 4 \in 1..(Len(c) - 1) BY <1>3
      <4> QED BY <4>1, WordType
    <3>2. MaxQuantity \in Nat BY LimitAssumption
    <3>3. Uint16(c, 4) <= MaxQuantity BY <1>3, <2>2, <3>1, <3>2
    <3>4. RequestBody(c) = ReadRequest(c, c[1])
      BY <1>2, <1>3 DEF RequestBody, FC, ReadCoilsRequest, ReadDiscreteInputsRequest,
         ReadHoldingRegistersRequest, ReadInputRegistersRequest
    <3>5. RequestBody(c) = [fc |-> c[1], at |-> Uint16(c, 2), n |-> Uint16(c, 4)]
      BY <1>3, <3>3, <3>4 DEF ReadRequest
    <3>6. RequestBody(c).fc = c[1] BY <3>5
    <3> QED BY <1>3, <3>6 DEF Null
  <2> QED BY <2>1, <2>2
<1>4. CASE body.fc \in {5, 6} /\ Len(c) = 5 /\ c[1] = body.fc
  <2>1. c # <<>> BY <1>2, <1>4
  <2>2. RequestBody(c).fc = c[1]
    <3>1. CASE c[1] = 5 BY <1>4, <2>1, <3>1 DEF RequestBody, FC, WriteSingleCoilRequest
    <3>2. CASE c[1] = 6 BY <1>4, <2>1, <3>2 DEF RequestBody, FC, WriteSingleRegisterRequest
    <3> QED BY <1>4, <3>1, <3>2
  <2> QED BY <1>4, <2>2 DEF Null
<1>5. CASE /\ c[1] = 15
           /\ \E n \in Nat : Len(c) = 6 + Octets(n) /\ Uint16(c, 4) = n /\ c[6] = Octets(n)
  <2>1. PICK n \in Nat : Len(c) = 6 + Octets(n) /\ Uint16(c, 4) = n /\ c[6] = Octets(n) BY <1>5
  <2>2. Octets(n) \in Nat /\ n <= 8 * Octets(n) BY DEF Octets
  <2>3. Len(c) >= 6 BY <2>1, <2>2
  <2>4. Len(Part(c, 7, c[6])) = Octets(n)
    <3>1. Len(c) - 6 <= c[6] BY <2>1, <2>2
    <3>2. Len(Part(c, 7, c[6])) = Len(c) - 6 BY <2>3, <3>1, DataPart
    <3> QED BY <2>1, <2>2, <3>2
  <2>5. RequestBody(c) = WriteMultipleCoilsRequest(c) BY <1>2, <1>5, <2>3 DEF RequestBody, FC
  <2>6. WriteMultipleCoilsRequest(c).fc = c[1]
    BY <1>1, <2>1, <2>2, <2>3, <2>4 DEF WriteMultipleCoilsRequest
  <2> QED BY <1>5, <2>5, <2>6 DEF Null
<1>6. CASE /\ c[1] = 16
           /\ \E n \in Nat : /\ Len(c) = IF 6 + 2 * n <= MaxWriteCount THEN 6 + 2 * n ELSE MaxWriteCount
                             /\ c[6] = 2 * n
  <2>1. PICK n \in Nat : /\ Len(c) = IF 6 + 2 * n <= MaxWriteCount THEN 6 + 2 * n ELSE MaxWriteCount
                         /\ c[6] = 2 * n
    BY <1>6
  <2>2. /\ Len(c) <= 6 + 2 * n /\ Len(c) <= MaxWriteCount /\ Len(c) >= 6 /\ Len(c) % 2 = 0
        /\ MaxWriteCount <= 2 * MaxRegisters + 6 /\ MaxRegisters \in Nat /\ MaxWriteCount \in Nat
    BY <2>1, Limits
  <2>3. Len(Part(c, 7, c[6])) = Len(c) - 6
    <3>1. Len(c) - 6 <= c[6] BY <1>1, <2>1, <2>2
    <3> QED BY <2>2, <3>1, DataPart
  <2>4. Len(c) - 6 <= 2 * MaxRegisters /\ (Len(c) - 6) % 2 = 0 BY <1>1, <2>2
  <2>5. RequestBody(c) = WriteMultipleRegistersRequest(c) BY <1>1, <1>2, <1>6, <2>2 DEF RequestBody, FC
  <2>6. WriteMultipleRegistersRequest(c).fc = c[1]
    BY <1>1, <2>2, <2>3, <2>4 DEF WriteMultipleRegistersRequest
  <2> QED BY <1>6, <2>5, <2>6 DEF Null
<1>7. CASE Len(c) = 4 /\ c[1] = 43
  <2>1. RequestBody(c).fc = c[1]
    BY <1>2, <1>7 DEF RequestBody, FC, ReadDeviceIdentificationRequest
  <2> QED BY <1>7, <2>1 DEF Null
<1>8. CASE body.fc \in 1..255 \ FunctionCodes BY <1>8 DEF NeverParses
<1> QED BY <1>3, <1>4, <1>5, <1>6, <1>7, <1>8 DEF RequestForm

\* The bytes behind the byte count, in order.
LEMMA DataPartOf ==
  ASSUME NEW b \in Seq(Octet), Len(b) >= 6, Len(b) - 6 <= b[6]
  PROVE  \A i \in 1..(Len(b) - 6) : Part(b, 7, b[6])[i] = b[6 + i]
<1>1. Len(b) \in Nat /\ 6 \in 1..Len(b) BY LenProperties
<1>2. b[6] \in Nat BY <1>1, OctetOfSeq
<1>3. PICK n \in Int, from \in Nat \ {0} : n = b[6] /\ from = 7 BY <1>2
<1> DEFINE p == Part(b, from, n)
<1>4. /\ p \in Seq(Octet) /\ Len(p) \in Nat
      /\ Len(p) = IF n <= 0 \/ from > Len(b) THEN 0
                  ELSE IF from + n - 1 <= Len(b) THEN n ELSE Len(b) - from + 1
      /\ \A i \in 1..Len(p) : from + i - 1 \in 1..Len(b) /\ p[i] = b[from + i - 1]
  BY PartType
<1>5. Len(Part(b, 7, b[6])) = Len(b) - 6 BY DataPart
<1>6. Len(p) = Len(b) - 6 BY <1>3, <1>5
<1> HIDE DEF p
<1>7. \A i \in 1..(Len(b) - 6) : from + i - 1 = 6 + i BY <1>1, <1>3
<1>8. \A i \in 1..(Len(b) - 6) : p[i] = b[6 + i] BY <1>4, <1>6, <1>7
<1> QED BY <1>3, <1>8 DEF p

\* Coils, as far as they are packed, are read as they were written.
LEMMA CoilsRead ==
  ASSUME NEW c \in Seq(Octet), NEW body, NEW coils \in Seq(BOOLEAN), CoilsContent(c, body, coils)
  PROVE  Means(body, RequestBody(c))
<1>1. /\ body = [fc |-> c[1], at |-> Uint16(c, 2), coils |-> coils] /\ c[1] = 15
      /\ Len(coils) = Uint16(c, 4) /\ c[6] = Octets(Len(coils)) /\ Len(c) = 6 + Octets(Len(coils))
      /\ \A i \in 1..Len(coils) : i <= MaxPackedCoils => CoilAt(c, i) = coils[i]
  BY DEF CoilsContent
<1>2. PICK n \in Nat : n = Len(coils) BY LenProperties
<1>3. PICK k \in Nat : k = Octets(n) /\ 8 * k >= n /\ (n = 0 => k = 0) BY DEF Octets
<1>4. Len(c) = 6 + k /\ c[6] = k /\ Uint16(c, 4) = n BY <1>1, <1>2, <1>3
<1> DEFINE values == Part(c, 7, c[6])
<1>5. /\ values \in Seq(Octet) /\ Len(values) = k /\ \A j \in 1..k : values[j] = c[6 + j]
  <2>1. Len(c) >= 6 /\ Len(c) - 6 <= c[6] /\ Len(c) - 6 = k BY <1>4
  <2>2. Part(c, 7, c[6]) \in Seq(Octet) /\ Len(Part(c, 7, c[6])) = Len(c) - 6 BY <2>1, DataPart
  <2>3. \A i \in 1..(Len(c) - 6) : Part(c, 7, c[6])[i] = c[6 + i] BY <2>1, DataPartOf
  <2> QED BY <2>1, <2>2, <2>3
<1> DEFINE bits == Bits(values)
           read == SubSeq(bits, 1, n)
           got == [fc |-> c[1], at |-> Uint16(c, 2), coils |-> read]
<1>6. RequestBody(c) = got
  <2>1. c # <<>> BY <1>4, EmptySeq
  <2>2. RequestBody(c) = WriteMultipleCoilsRequest(c) BY <1>1, <2>1 DEF RequestBody, FC
  <2>3. ~(Len(c) < 6) BY <1>4
  <2>4. ~(8 * Len(values) < Uint16(c, 4)) BY <1>3, <1>4, <1>5
  <2>5. n = IF Uint16(c, 4) = 0 THEN Len(values) ELSE Uint16(c, 4) BY <1>3, <1>4, <1>5
  <2>6. WriteMultipleCoilsRequest(c) = got BY <2>3, <2>4, <2>5 DEF WriteMultipleCoilsRequest
  <2> QED BY <2>2, <2>6
<1> HIDE DEF values
<1>7. /\ bits \in Seq(BOOLEAN) /\ Len(bits) = 8 * k
      /\ \A i \in 1..8 * k : bits[i] = ((values[(i + 7) \div 8] \div Weight(i)) % 2 = 1)
  <2>1. bits = [i \in 1..8 * k |-> (values[(i + 7) \div 8] \div Weight(i)) % 2 = 1] BY <1>5 DEF Bits
  <2>2. \A i \in 1..8 * k : ((values[(i + 7) \div 8] \div Weight(i)) % 2 = 1) \in BOOLEAN OBVIOUS
  <2> HIDE DEF bits
  <2>3. bits \in [1..8 * k -> BOOLEAN] BY <2>1, <2>2
  <2>4. 8 * k \in Nat OBVIOUS
  <2>5. PICK l \in Nat : l = 8 * k BY <2>4
  <2>6. bits \in Seq(BOOLEAN) /\ Len(bits) = l BY <2>3, <2>5, FunctionIsSeq
  <2> QED BY <2>1, <2>5, <2>6
<1> HIDE DEF bits
<1>8. read \in Seq(BOOLEAN) /\ Len(read) = n /\ \A i \in 1..n : read[i] = bits[i]
  <2>1. \A i \in 1..n : i \in 1..Len(bits) BY <1>3, <1>7
  <2>2. \A i \in 1..n : bits[i] \in BOOLEAN BY <2>1, <1>7, ElementOfSeq
  <2>3. /\ read \in Seq(BOOLEAN) /\ Len(read) = IF 1 <= n THEN n - 1 + 1 ELSE 0
        /\ \A i \in 1..(n - 1 + 1) : read[i] = bits[1 + i - 1]
    BY <2>2, SubSeqProperties
  <2> HIDE DEF read
  <2>4. \A i \in 1..n : i \in 1..(n - 1 + 1) /\ 1 + i - 1 = i OBVIOUS
  <2> QED BY <2>3, <2>4
<1> HIDE DEF read
<1>9. ASSUME NEW i \in 1..n, i <= MaxPackedCoils PROVE read[i] = coils[i]
  <2>1. PICK j \in 1..k : j = (i + 7) \div 8 BY <1>3
  <2>2. i \in 1..8 * k BY <1>3
  <2>3. read[i] = ((values[j] \div Weight(i)) % 2 = 1) BY <1>7, <1>8, <2>1, <2>2
  <2>4. values[j] = c[6 + j] BY <1>5
  <2>5. CoilAt(c, i) = ((c[6 + j] \div Weight(i)) % 2 = 1) BY <2>1 DEF CoilAt
  <2>6. CoilAt(c, i) = coils[i] BY <1>1, <1>2, <1>9
  <2> QED BY <2>3, <2>4, <2>5, <2>6, Zenon
<1>10. MaxPackedCoils \in Nat BY LimitAssumption
<1>11. CASE n <= MaxPackedCoils
  <2>1. \A i \in 1..n : read[i] = coils[i] BY <1>9, <1>10, <1>11
  <2>2. read = coils BY <1>2, <1>8, <2>1, SeqEqual
  <2>3. got = body BY <1>1, <2>2
  <2> QED BY <1>6, <2>3 DEF Means
<1>12. CASE ~(n <= MaxPackedCoils)
  <2>1. n > MaxPackedCoils BY <1>10, <1>12
  <2>2. \A i \in 1..MaxPackedCoils : read[i] = coils[i] BY <1>9, <1>10, <2>1
  <2>3. /\ body.fc = 15 /\ "coils" \in DOMAIN body /\ body.coils = coils
        /\ got.coils = read /\ got.at = body.at
    BY <1>1
  <2>4. /\ Len(body.coils) > MaxPackedCoils /\ Len(got.coils) = Len(body.coils)
        /\ \A i \in 1..MaxPackedCoils : got.coils[i] = body.coils[i]
    BY <1>2, <1>8, <2>1, <2>2, <2>3
  <2> HIDE DEF got
  <2>5. body.fc = FC.WRITE_MULTIPLE_COILS BY <2>3 DEF FC
  <2> QED BY <1>6, <2>3, <2>4, <2>5 DEF Means
<1> QED BY <1>11, <1>12

\* A sequence whose elements are the first of another is a prefix of it.
LEMMA PrefixOf ==
  ASSUME NEW S, NEW s \in Seq(S), NEW t \in Seq(S)
  PROVE  Len(s) <= Len(t) /\ (\A i \in 1..Len(s) : s[i] = t[i]) => IsPrefix(s, t)
<1> SUFFICES ASSUME Len(s) <= Len(t), \A i \in 1..Len(s) : s[i] = t[i] PROVE IsPrefix(s, t)
  OBVIOUS
<1>1. PICK n \in Nat : n = Len(s) BY LenProperties
<1>2. Len(t) \in Nat BY LenProperties
<1> DEFINE u == SubSeq(s, 1, n)
           v == SubSeq(t, 1, n)
<1>3. \A i \in 1..n : i \in 1..Len(s) /\ i \in 1..Len(t) BY <1>1, <1>2
<1>4. \A i \in 1..n : s[i] \in S /\ t[i] \in S BY <1>3, ElementOfSeq
<1>5. /\ u \in Seq(S) /\ Len(u) = IF 1 <= n THEN n - 1 + 1 ELSE 0
      /\ \A i \in 1..(n - 1 + 1) : u[i] = s[1 + i - 1]
  BY <1>4, SubSeqProperties
<1>6. /\ v \in Seq(S) /\ Len(v) = IF 1 <= n THEN n - 1 + 1 ELSE 0
      /\ \A i \in 1..(n - 1 + 1) : v[i] = t[1 + i - 1]
  BY <1>4, SubSeqProperties
<1> HIDE DEF u, v
<1>7. Len(u) = n /\ Len(v) = n BY <1>5, <1>6
<1>8. \A i \in 1..n : u[i] = v[i]
  <2>1. \A i \in 1..n : i \in 1..(n - 1 + 1) /\ 1 + i - 1 = i OBVIOUS
  <2> QED BY <1>1, <1>5, <1>6, <2>1
<1>9. u = v BY <1>5, <1>6, <1>7, <1>8, SeqEqual
<1> QED BY <1>1, <1>9 DEF IsPrefix, u, v

\* Registers are read as they were written, those that have arrived.
LEMMA RegistersRead ==
  ASSUME NEW c \in Seq(Octet), NEW body, NEW registers \in Seq(Nat), RegistersContent(c, body, registers),
         NEW p \in Seq(Octet), Len(p) <= Len(c), \A i \in 1..Len(p) : p[i] = c[i],
         RequestBody(p) # Null, Len(p) < Len(c) => chopped
  PROVE  Means(body, RequestBody(p))
<1>1. /\ body = [fc |-> c[1], at |-> Uint16(c, 2), registers |-> registers] /\ c[1] = 16
      /\ c[6] = 2 * Len(registers)
      /\ Len(c) = IF 6 + 2 * Len(registers) <= MaxWriteCount THEN 6 + 2 * Len(registers) ELSE MaxWriteCount
      /\ \A i \in 1..Len(registers) : 6 + 2 * i <= Len(c) => RegisterAt(c, i) = registers[i]
  BY DEF RegistersContent
<1>2. PICK n \in Nat : n = Len(registers) BY LenProperties
<1>3. Len(p) \in Nat /\ Len(c) \in Nat BY LenProperties
<1>4. Len(p) # 0 /\ p[1] = 16
  <2>1. p # <<>> BY DEF RequestBody
  <2>2. Len(p) # 0 BY <2>1, EmptySeq
  <2>3. 1 \in 1..Len(p) BY <1>3, <2>2
  <2> QED BY <1>1, <2>2, <2>3
<1> DEFINE values == Part(p, 7, p[6])
           got == [fc |-> p[1], at |-> Uint16(p, 2), registers |-> Registers(values)]
<1>5. /\ ~(Len(p) < 6) /\ ~(Len(values) > 2 * MaxRegisters \/ Len(values) % 2 = 1)
      /\ RequestBody(p) = got
  <2>1. p # <<>> BY <1>4, EmptySeq
  <2>2. RequestBody(p) = WriteMultipleRegistersRequest(p) BY <1>4, <2>1 DEF RequestBody, FC
  <2>3. /\ Len(p) < 6 => WriteMultipleRegistersRequest(p) = Null
        /\ ~(Len(p) < 6) => WriteMultipleRegistersRequest(p) =
             IF Len(values) > 2 * MaxRegisters \/ Len(values) % 2 = 1 THEN Null ELSE got
    BY DEF WriteMultipleRegistersRequest
  <2> HIDE DEF got, values
  <2> QED BY <2>2, <2>3
<1>6. Len(p) >= 6 BY <1>3, <1>5
<1>7. p[6] = 2 * n /\ Uint16(p, 2) = Uint16(c, 2)
  <2>1. 2 \in 1..Len(p) /\ 2 + 1 \in 1..Len(p) /\ 6 \in 1..Len(p) BY <1>3, <1>6
  <2>2. p[2] = c[2] /\ p[2 + 1] = c[2 + 1] /\ p[6] = c[6] BY <2>1
  <2> QED BY <1>1, <1>2, <2>2 DEF Uint16
<1>8. Len(c) <= 6 + 2 * n BY <1>1, <1>2, Limits
<1>9. /\ values \in Seq(Octet) /\ Len(values) = Len(p) - 6
      /\ \A j \in 1..(Len(p) - 6) : values[j] = p[6 + j]
  <2>1. Len(p) - 6 <= p[6] BY <1>3, <1>7, <1>8
  <2> QED BY <1>6, <2>1, DataPart, DataPartOf
<1>10. PICK k \in Nat : Len(p) = 6 + 2 * k /\ Len(values) = 2 * k /\ k <= n
  <2>1. PICK l \in Nat : l = Len(p) - 6
    <3>1. \A i \in Nat : i >= 6 => i - 6 \in Nat OBVIOUS
    <3>2. Len(p) - 6 \in Nat BY <3>1, <1>3, <1>6
    <3> QED BY <3>2
  <2>2. ~(l % 2 = 1)
    <3>1. Len(values) = l BY <1>9, <2>1
    <3> HIDE DEF values
    <3> QED BY <1>5, <3>1
  <2>3. \A j \in Nat : ~(j % 2 = 1) => j = 2 * (j \div 2) /\ j \div 2 \in Nat OBVIOUS
  <2>4. PICK j \in Nat : l = 2 * j BY <2>2, <2>3
  <2>5. l <= 2 * n BY <1>3, <1>8, <2>1
  <2>6. j <= n BY <2>4, <2>5
  <2> HIDE DEF values
  <2> QED BY <1>3, <1>9, <2>1, <2>4, <2>6
<1> DEFINE read == Registers(values)
<1>11. read = [i \in 1..k |-> Uint16(values, 2 * i - 1)]
  <2>1. (2 * k) \div 2 = k OBVIOUS
  <2> HIDE DEF values
  <2> QED BY <1>10, <2>1 DEF Registers
<1> HIDE DEF values
<1>12. ASSUME NEW i \in 1..k PROVE Uint16(values, 2 * i - 1) = registers[i]
  <2>1. PICK j \in Nat : j = 2 * i - 1 /\ 1 <= j /\ j + 1 <= 2 * k BY <1>10
  <2>2. j \in 1..(Len(p) - 6) /\ j + 1 \in 1..(Len(p) - 6) BY <1>10, <2>1
  <2>3. values[j] = p[6 + j] /\ values[j + 1] = p[6 + (j + 1)] BY <1>9, <2>2
  <2>4. 6 + j \in 1..Len(p) /\ 6 + (j + 1) \in 1..Len(p) BY <1>10, <2>1
  <2>5. p[6 + j] = c[6 + j] /\ p[6 + (j + 1)] = c[6 + (j + 1)] BY <2>4
  <2>6. 6 + j = 5 + 2 * i /\ 6 + (j + 1) = 5 + 2 * i + 1 BY <2>1
  <2>7. Uint16(values, j) = RegisterAt(c, i) BY <2>3, <2>5, <2>6 DEF Uint16, RegisterAt
  <2>8. i \in 1..Len(registers) /\ 6 + 2 * i <= Len(c) BY <1>2, <1>3, <1>10
  <2>9. RegisterAt(c, i) = registers[i] BY <1>1, <2>8
  <2> QED BY <2>1, <2>7, <2>9
<1>13. read \in Seq(Nat) /\ Len(read) = k /\ \A i \in 1..k : read[i] = registers[i]
  <2>1. \A i \in 1..k : i \in 1..Len(registers) BY <1>2, <1>10
  <2>2. \A i \in 1..k : registers[i] \in Nat BY <2>1, ElementOfSeq
  <2>3. \A i \in 1..k : read[i] = registers[i] BY <1>11, <1>12
  <2>4. DOMAIN read = 1..k /\ read = [i \in 1..k |-> read[i]] BY <1>11
  <2> HIDE DEF read
  <2>5. read \in [1..k -> Nat] BY <2>2, <2>3, <2>4
  <2>6. read \in Seq(Nat) /\ Len(read) = k BY <2>5, FunctionIsSeq
  <2> QED BY <2>3, <2>6
<1>14. RequestBody(p) = [fc |-> c[1], at |-> Uint16(c, 2), registers |-> read]
  BY <1>1, <1>4, <1>5, <1>7
<1> HIDE DEF got, read
<1>15. CASE k = n
  <2>1. read = registers BY <1>2, <1>13, <1>15, SeqEqual
  <2>2. RequestBody(p) = body BY <1>1, <1>14, <2>1
  <2> QED BY <2>2 DEF Means
<1>16. CASE k # n
  <2>1. IsPrefix(read, registers)
    <3>1. Len(read) <= Len(registers) BY <1>2, <1>10, <1>13
    <3> QED BY <1>13, <3>1, PrefixOf
  <2>2. chopped \/ 6 + 2 * Len(registers) > MaxWriteCount
    <3>1. CASE Len(p) < Len(c) BY <3>1
    <3>2. CASE ~(Len(p) < Len(c))
      <4>1. Len(c) = 6 + 2 * k BY <1>3, <1>10, <3>2
      <4>2. Len(c) # 6 + 2 * n BY <1>10, <1>16, <4>1
      <4>3. ~(6 + 2 * n <= MaxWriteCount) BY <1>1, <1>2, <4>2
      <4> QED BY <1>2, <4>3, Limits
    <3> QED BY <3>1, <3>2
  <2>3. /\ body.fc = 16 /\ "registers" \in DOMAIN body /\ body.registers = registers
        /\ RequestBody(p).at = body.at /\ RequestBody(p).registers = read
    BY <1>1, <1>14
  <2>4. body.fc = FC.WRITE_MULTIPLE_HOLDING_REGISTERS BY <2>3 DEF FC
  <2> QED BY <2>1, <2>2, <2>3, <2>4 DEF Means
<1> QED BY <1>15, <1>16

\* What is read of a request is what was asked for.
LEMMA RequestRead ==
  ASSUME NEW c \in Seq(Octet), NEW body, RequestContent(c, body),
         NEW p \in Seq(Octet), Len(p) <= Len(c), \A i \in 1..Len(p) : p[i] = c[i],
         RequestBody(p) # Null, Len(p) < Len(c) => chopped /\ c[1] = 16
  PROVE  Means(body, RequestBody(p))
<1>1. Len(p) \in Nat /\ Len(c) \in Nat BY LenProperties
<1>2. ASSUME c[1] # 16 PROVE p = c
  <2>1. Len(p) = Len(c) BY <1>1, <1>2
  <2> QED BY <2>1, SeqEqual
<1>3. p # <<>> BY DEF RequestBody
<1>4. CASE \E registers \in Seq(Nat) : RegistersContent(c, body, registers)
  <2>1. PICK registers \in Seq(Nat) : RegistersContent(c, body, registers) BY <1>4
  <2> QED BY <2>1, RegistersRead
<1>5. CASE \E coils \in Seq(BOOLEAN) : CoilsContent(c, body, coils)
  <2>1. PICK coils \in Seq(BOOLEAN) : CoilsContent(c, body, coils) BY <1>5
  <2>2. p = c BY <1>2, <2>1 DEF CoilsContent
  <2> QED BY <2>1, <2>2, CoilsRead
<1>6. CASE Len(c) = 5 /\ c[1] \in 1..4 /\ body = [fc |-> c[1], at |-> Uint16(c, 2), n |-> Uint16(c, 4)]
  <2>1. p = c BY <1>2, <1>6
  <2>2. RequestBody(c) = ReadRequest(c, c[1])
    BY <1>3, <1>6, <2>1 DEF RequestBody, FC, ReadCoilsRequest, ReadDiscreteInputsRequest,
       ReadHoldingRegistersRequest, ReadInputRegistersRequest
  <2>3. ReadRequest(c, c[1]) = Null \/ ReadRequest(c, c[1]) = body BY <1>6 DEF ReadRequest
  <2> QED BY <2>1, <2>2, <2>3 DEF Means
<1>7. CASE Len(c) = 5 /\ c[1] \in {5, 6} /\ body = [fc |-> c[1], at |-> Uint16(c, 2), value |-> Uint16(c, 4)]
  <2>1. p = c BY <1>2, <1>7
  <2>2. CASE c[1] = 6
    <3>1. RequestBody(c) = body
      BY <1>3, <1>7, <2>1, <2>2 DEF RequestBody, FC, WriteSingleRegisterRequest
    <3> QED BY <2>1, <3>1 DEF Means
  <2>3. CASE c[1] = 5
    <3>1. RequestBody(c) =
            [fc |-> 5, at |-> Uint16(c, 2), value |-> IF Uint16(c, 4) = On THEN On ELSE 0]
      BY <1>3, <1>7, <2>1, <2>3 DEF RequestBody, FC, WriteSingleCoilRequest
    <3>2. body = [fc |-> 5, at |-> Uint16(c, 2), value |-> Uint16(c, 4)] BY <1>7, <2>3
    <3>3. CASE Uint16(c, 4) \in {0, On}
      <4>1. RequestBody(c) = body BY <3>1, <3>2, <3>3
      <4> QED BY <2>1, <4>1 DEF Means
    <3>4. CASE Uint16(c, 4) \notin {0, On}
      <4>1. RequestBody(c) = [fc |-> 5, at |-> Uint16(c, 2), value |-> 0] BY <3>1, <3>4
      <4>2. RequestBody(c) = [body EXCEPT !.value = 0] BY <3>2, <4>1
      <4>3. body.fc = FC.WRITE_SINGLE_COIL /\ body.value \notin {0, On} BY <3>2, <3>4 DEF FC
      <4> QED BY <2>1, <4>2, <4>3 DEF Means
    <3> QED BY <3>3, <3>4
  <2> QED BY <1>7, <2>2, <2>3
<1>8. CASE Len(c) = 4 /\ c[1] = 43 /\ body = [fc |-> c[1], selector |-> Part(c, 2, 3)]
  <2>1. p = c BY <1>2, <1>8
  <2>2. RequestBody(c) = body
    BY <1>3, <1>8, <2>1 DEF RequestBody, FC, ReadDeviceIdentificationRequest
  <2> QED BY <2>1, <2>2 DEF Means
<1>9. CASE c[1] \in 1..255 \ FunctionCodes
  <2>1. p[1] = c[1]
    <3>1. 1 \in 1..Len(p) BY <1>1, <1>3, EmptySeq
    <3> QED BY <3>1
  <2>2. RequestBody(p) = ExceptionRequest(p[1]) BY <1>3, <1>9, <2>1 DEF RequestBody, FunctionCodes, FC
  <2> QED BY <1>9, <2>1, <2>2 DEF ExceptionRequest
<1> QED BY <1>4, <1>5, <1>6, <1>7, <1>8, <1>9 DEF RequestContent

-----------------------------------------------------------------------------
(* Responses as they are sent.                                               *)

\* Where the objects of an encoded device identification end.
EndsAt(c, n, ends) ==
  /\ Len(c) >= 7 /\ c[7] = n /\ ends[0] = 7 /\ ends[n] = Len(c)
  /\ \A i \in 0..n : ends[i] \in 7..Len(c)
  /\ \A i \in 1..n : ends[i - 1] + 2 <= ends[i] /\ ends[i] = ends[i - 1] + 2 + c[ends[i - 1] + 2]

\* What the reader of a response relies on.
ResponseForm(c, body) ==
  \/ /\ body.fc \in 1..4 /\ Len(body.data) \in Nat
     /\ Len(c) = 2 + Len(body.data) /\ c[1] = body.fc /\ c[2] = Len(body.data)
  \/ body.fc \in {5, 6, 15, 16} /\ Len(c) = 5 /\ c[1] = body.fc
  \/ body.fc = 43 /\ c[1] = 43 /\ \E n \in Nat : \E ends : EndsAt(c, n, ends)
  \/ body.fc \in Refusals /\ Len(c) = 2 /\ c[1] = body.fc
  \/ body.fc = 171 /\ "meiType" \in DOMAIN body /\ Len(c) = 3 /\ c[1] = 171
  \/ body.fc \in 1..255 \ (FunctionCodes \cup Refusals) /\ Len(c) >= 1 /\ c[1] = body.fc

\* What the body of a response says.
DataContent(c, body, data) ==
  /\ body = [fc |-> c[1], data |-> data] /\ c[1] \in 1..4
  /\ c[2] = Len(data) /\ Len(c) = 2 + Len(data) /\ StandsAt(c, 2, data)
IdentificationContent(c, body, n, ends) ==
  /\ EndsAt(c, n, ends) /\ c[1] = 43
  /\ body = [fc |-> c[1], header |-> Part(c, 2, 5),
             objects |-> [i \in 1..n |-> SubSeq(c, ends[i - 1] + 1, ends[i])]]
ResponseContent(c, body) ==
  \/ \E data \in Seq(Octet) : DataContent(c, body, data)
  \/ Len(c) = 5 /\ c[1] \in {5, 6} /\ body = [fc |-> c[1], at |-> Uint16(c, 2), value |-> Uint16(c, 4)]
  \/ Len(c) = 5 /\ c[1] \in {15, 16} /\ body = [fc |-> c[1], at |-> Uint16(c, 2), n |-> Uint16(c, 4)]
  \/ \E n \in Nat : \E ends : IdentificationContent(c, body, n, ends)
  \/ Len(c) = 2 /\ c[1] \in Refusals /\ body = [fc |-> c[1], code |-> c[2]]
  \/ Len(c) = 3 /\ c[1] = 171 /\ body = [fc |-> c[1], meiType |-> c[2], code |-> c[3]]
  \/ body.fc \in 1..255 \ (FunctionCodes \cup Refusals) /\ Len(c) >= 1 /\ c[1] = body.fc
IsResponse(c, body) == IsSequence(c) /\ ResponseContent(c, body)

\* Reads and their data.
LEMMA DataContentOf ==
  ASSUME NEW x \in 1..4, NEW data \in Seq(Octet)
  PROVE  LET body == [fc |-> x, data |-> data] IN IsResponse(ResponsePayload(body), body)
<1> DEFINE body == [fc |-> x, data |-> data]
           n == Len(data)
           head == <<x, n>>
           c == head \o data
<1>1. body.fc = x /\ body.data = data /\ body = [fc |-> x, data |-> data] OBVIOUS
<1>2. ResponsePayload(body) = c
  BY <1>1 DEF ResponsePayload, FC, ReadCoilsResponsePayload, ReadDiscreteInputsResponsePayload,
     ReadHoldingRegistersResponsePayload, ReadInputRegistersResponsePayload, DataPayload
<1> HIDE DEF body
<1>3. n \in Nat /\ data \in Seq(Nat) BY OctetsAreNumbers
<1> HIDE DEF n
<1>4. head \in Seq(Nat) /\ Len(head) = 2 /\ head[1] = x /\ head[2] = n BY <1>3
<1> HIDE DEF head
<1>5. /\ c \in Seq(Nat) /\ Len(c) = Len(head) + Len(data)
      /\ \A i \in 1..Len(head) : c[i] = head[i]
      /\ \A j \in 1..Len(data) : c[Len(head) + j] = data[j]
  BY <1>3, <1>4, NumbersConcat
<1> HIDE DEF c
<1>6. Len(c) = 2 + n /\ c[1] = x /\ c[2] = n /\ StandsAt(c, 2, data)
  <2>1. 1 \in 1..2 /\ 2 \in 1..2 OBVIOUS
  <2>2. Len(c) = 2 + n /\ c[1] = x /\ c[2] = n BY <2>1, <1>4, <1>5 DEF n
  <2>3. 2 + n <= Len(c) BY <1>3, <2>2
  <2>4. \A j \in 1..Len(data) : c[2 + j] = data[j] BY <1>4, <1>5
  <2> QED BY <2>2, <2>3, <2>4 DEF StandsAt, n
<1>7. DataContent(c, body, data) BY <1>1, <1>3, <1>6 DEF DataContent, n
<1>8. IsResponse(c, body) BY <1>5, <1>7 DEF IsSequence, ResponseContent, IsResponse
<1> QED BY <1>2, <1>8 DEF body

\* Answers to writes.
LEMMA WrittenContent ==
  ASSUME NEW body,
         body \in [fc : {5, 6}, at : Nat, value : Nat] \/ body \in [fc : {15, 16}, at : Nat, n : Nat]
  PROVE  IsResponse(ResponsePayload(body), body)
<1>1. CASE body \in [fc : {5, 6}, at : Nat, value : Nat]
  <2>1. PICK x \in Nat, y \in Nat, z \in Nat : x \in {5, 6} /\ body = [fc |-> x, at |-> y, value |-> z]
    BY <1>1
  <2> DEFINE c == <<x>> \o Word(y) \o Word(z)
  <2>2. ResponsePayload(body) = c
    BY <2>1 DEF ResponsePayload, FC, WriteSingleCoilResponsePayload,
       WriteSingleRegisterResponsePayload, WritePayload
  <2>3. AreWords(c, x, y, z) BY FirstWord
  <2> HIDE DEF c
  <2>4. c \in Seq(Nat) /\ Len(c) = 5 /\ c[1] = x /\ Uint16(c, 2) = y /\ Uint16(c, 4) = z
    BY <2>3 DEF AreWords
  <2>5. body = [fc |-> c[1], at |-> Uint16(c, 2), value |-> Uint16(c, 4)] BY <2>1, <2>4
  <2> QED BY <2>1, <2>2, <2>4, <2>5 DEF IsResponse, IsSequence, ResponseContent
<1>2. CASE body \in [fc : {15, 16}, at : Nat, n : Nat]
  <2>1. PICK x \in Nat, y \in Nat, z \in Nat : x \in {15, 16} /\ body = [fc |-> x, at |-> y, n |-> z]
    BY <1>2
  <2> DEFINE c == <<x>> \o Word(y) \o Word(z)
  <2>2. ResponsePayload(body) = c
    BY <2>1 DEF ResponsePayload, FC, WriteMultipleCoilsResponsePayload,
       WriteMultipleRegistersResponsePayload, ReadPayload
  <2>3. AreWords(c, x, y, z) BY FirstWord
  <2> HIDE DEF c
  <2>4. c \in Seq(Nat) /\ Len(c) = 5 /\ c[1] = x /\ Uint16(c, 2) = y /\ Uint16(c, 4) = z
    BY <2>3 DEF AreWords
  <2>5. body = [fc |-> c[1], at |-> Uint16(c, 2), n |-> Uint16(c, 4)] BY <2>1, <2>4
  <2> QED BY <2>1, <2>2, <2>4, <2>5 DEF IsResponse, IsSequence, ResponseContent
<1> QED BY <1>1, <1>2

\* Refusals.
LEMMA RefusalContent ==
  ASSUME NEW body,
         \/ body \in [fc : Refusals, code : 0..255]
         \/ body \in [fc : {43 + 128}, meiType : 0..255, code : 0..255]
  PROVE  IsResponse(ResponsePayload(body), body)
<1>1. CASE body \in [fc : Refusals, code : 0..255]
  <2>1. PICK x \in Refusals, k \in 0..255 : body = [fc |-> x, code |-> k] BY <1>1
  <2>2. x \in Nat /\ x > 128 BY DEF Refusals, FunctionCodes, FC
  <2>3. ResponsePayload(body) = <<x, k>> BY <2>1, <2>2 DEF ResponsePayload, ExceptionPayload, FC
  <2> DEFINE c == <<x, k>>
  <2>4. c \in Seq(Nat) /\ Len(c) = 2 /\ c[1] = x /\ c[2] = k BY <2>2
  <2> HIDE DEF c
  <2>5. body = [fc |-> c[1], code |-> c[2]] BY <2>1, <2>4
  <2>6. c[1] \in Refusals BY <2>4
  <2>7. IsResponse(c, body) BY <2>4, <2>5, <2>6 DEF IsSequence, ResponseContent, IsResponse
  <2> QED BY <2>3, <2>7 DEF c
<1>2. CASE body \in [fc : {43 + 128}, meiType : 0..255, code : 0..255]
  <2>1. PICK t \in 0..255, k \in 0..255 : body = [fc |-> 171, meiType |-> t, code |-> k]
    <3>1. 43 + 128 = 171 OBVIOUS
    <3>2. body \in [fc : {171}, meiType : 0..255, code : 0..255] BY <1>2, <3>1
    <3> QED BY <3>2
  <2>2. ResponsePayload(body) = <<171, t, k>> BY <2>1 DEF ResponsePayload, ExceptionPayload, FC
  <2> DEFINE c == <<171, t, k>>
  <2>3. c \in Seq(Nat) /\ Len(c) = 3 /\ c[1] = 171 /\ c[2] = t /\ c[3] = k OBVIOUS
  <2> HIDE DEF c
  <2>4. body = [fc |-> c[1], meiType |-> c[2], code |-> c[3]] BY <2>1, <2>3
  <2>5. IsResponse(c, body) BY <2>3, <2>4 DEF IsSequence, ResponseContent, IsResponse
  <2> QED BY <2>2, <2>5 DEF c
<1> QED BY <1>1, <1>2

\* Device identifications.
LEMMA IdentificationContentOf ==
  ASSUME NEW header \in Seq(Octet), NEW objects \in Seq(Seq(Octet)),
         \A i \in 1..Len(objects) : objects[i] \in Objects
  PROVE  LET body == [fc |-> 43, header |-> header, objects |-> objects]
         IN Len(header) = 5 => IsResponse(ResponsePayload(body), body)
<1> SUFFICES ASSUME Len(header) = 5
             PROVE  LET body == [fc |-> 43, header |-> header, objects |-> objects]
                    IN IsResponse(ResponsePayload(body), body)
  OBVIOUS
<1> DEFINE body == [fc |-> 43, header |-> header, objects |-> objects]
           flat == FlattenSeq(objects)
           n == Len(objects)
           first == <<43>>
           count == <<n>>
           front == first \o header
           head == front \o count
           c == head \o flat
<1>1. body = [fc |-> 43, header |-> header, objects |-> objects] OBVIOUS
<1>2. ResponsePayload(body) = c BY DEF ResponsePayload, FC, IdentificationPayload
<1> HIDE DEF body
<1>3. n \in Nat BY LenProperties
<1>4. PICK ends : EndsOf(ends, objects, flat) BY FlattenEnds
<1>5. flat \in Seq(Octet) BY FlattenType
<1> HIDE DEF flat
<1>6. flat \in Seq(Nat) /\ header \in Seq(Nat) /\ Len(flat) \in Nat BY <1>5, OctetsAreNumbers
<1>7. first \in Seq(Nat) /\ Len(first) = 1 /\ first[1] = 43 OBVIOUS
<1>8. count \in Seq(Nat) /\ Len(count) = 1 /\ count[1] = n BY <1>3
<1> HIDE DEF first, count, n
<1>9. /\ front \in Seq(Nat) /\ Len(front) = 6 /\ front[1] = 43
      /\ \A j \in 1..5 : front[1 + j] = header[j]
  <2>1. /\ front \in Seq(Nat) /\ Len(front) = Len(first) + Len(header)
        /\ \A i \in 1..Len(first) : front[i] = first[i]
        /\ \A j \in 1..Len(header) : front[Len(first) + j] = header[j]
    BY <1>6, <1>7, NumbersConcat
  <2> HIDE DEF front
  <2> QED BY <2>1, <1>7
<1> HIDE DEF front
<1>10. /\ head \in Seq(Nat) /\ Len(head) = 7 /\ head[1] = 43 /\ head[7] = n
       /\ \A j \in 1..5 : head[1 + j] = header[j]
  <2>1. /\ head \in Seq(Nat) /\ Len(head) = Len(front) + Len(count)
        /\ \A i \in 1..Len(front) : head[i] = front[i]
        /\ \A j \in 1..Len(count) : head[Len(front) + j] = count[j]
    BY <1>8, <1>9, NumbersConcat
  <2>2. 1 \in 1..6 /\ 1 \in 1..1 /\ 6 + 1 = 7 /\ \A j \in 1..5 : 1 + j \in 1..6 OBVIOUS
  <2> HIDE DEF head
  <2> QED BY <2>1, <2>2, <1>8, <1>9
<1> HIDE DEF head
<1>11. /\ c \in Seq(Nat) /\ Len(c) = Len(head) + Len(flat)
       /\ \A i \in 1..Len(head) : c[i] = head[i]
       /\ \A j \in 1..Len(flat) : c[Len(head) + j] = flat[j]
  BY <1>6, <1>10, NumbersConcat
<1> HIDE DEF c
<1>12. /\ Len(c) = 7 + Len(flat) /\ c[1] = 43 /\ c[7] = n
       /\ \A j \in 1..5 : c[1 + j] = header[j]
  <2>1. 1 \in 1..7 /\ 7 \in 1..7 /\ \A j \in 1..5 : 1 + j \in 1..7 OBVIOUS
  <2> QED BY <2>1, <1>10, <1>11
<1>13. \A i \in 1..n : Len(objects[i]) \in Nat /\ Len(objects[i]) >= 2 /\ objects[i][2] = Len(objects[i]) - 2
  <2>1. \A i \in 1..n : objects[i] \in Seq(0..255) BY DEF Objects, n
  <2> QED BY <2>1, LenProperties DEF Objects, n
<1>14. /\ ends \in [0..n -> Nat] /\ ends[0] = 0 /\ ends[n] = Len(flat)
       /\ \A i \in 1..n : ends[i] = ends[i - 1] + Len(objects[i]) /\ flat[ends[i - 1] + 2] = objects[i][2]
  <2>1. \A i \in 1..n : 2 \in 1..Len(objects[i]) BY <1>13
  <2> QED BY <1>4, <2>1 DEF EndsOf, n
<1> DEFINE Inside == {k \in 0..n : ends[n - k] <= ends[n]}
<1>15. 0 \in Inside BY <1>3, <1>14
<1>16. ASSUME NEW k \in 0..(n - 1), k \in Inside PROVE k + 1 \in Inside
  <2>1. PICK m \in 1..n : m = n - k BY <1>3
  <2>2. m - 1 \in 0..n /\ m \in 0..n /\ n \in 0..n /\ n - (k + 1) = m - 1 /\ k + 1 \in 0..n BY <1>3, <2>1
  <2>3. ends[m] = ends[m - 1] + Len(objects[m]) /\ Len(objects[m]) \in Nat BY <1>13, <1>14
  <2>4. ends[m] <= ends[n] BY <1>16, <2>1
  <2>5. ends[m - 1] \in Nat /\ ends[n] \in Nat BY <1>14, <2>2
  <2>6. ends[m - 1] <= ends[n] BY <2>3, <2>4, <2>5
  <2> QED BY <2>2, <2>6
<1>17. ASSUME NEW i \in 0..n PROVE ends[i] \in Nat /\ ends[i] <= Len(flat)
  <2>1. PICK k \in 0..n : k = n - i BY <1>3
  <2>2. \A j \in 0..(k - 1) : j \in 0..(n - 1) BY <1>3
  <2>3. \A j \in 0..(k - 1) : j \in Inside => j + 1 \in Inside
    <3> HIDE DEF Inside
    <3> QED BY <1>16, <2>2
  <2>4. k \in Nat BY <1>3
  <2>5. k \in Inside
    <3> HIDE DEF Inside
    <3> QED BY <1>15, <2>3, <2>4, Induction
  <2>6. n - k = i BY <1>3, <2>1
  <2> QED BY <2>5, <2>6, <1>14
<1> DEFINE at == [i \in 0..n |-> 7 + ends[i]]
<1>18. EndsAt(c, n, at)
  <2>1. at[0] = 7 /\ at[n] = Len(c)
    <3>1. 0 \in 0..n /\ n \in 0..n BY <1>3
    <3> QED BY <3>1, <1>12, <1>14
  <2>2. ASSUME NEW i \in 0..n PROVE at[i] \in 7..Len(c)
    <3>1. PICK k \in Nat : k = ends[i] /\ k <= Len(flat) BY <1>17
    <3>2. 7 + k \in 7..Len(c) BY <1>6, <1>12, <3>1
    <3> QED BY <3>1, <3>2
  <2>3. ASSUME NEW i \in 1..n PROVE at[i - 1] + 2 <= at[i] /\ at[i] = at[i - 1] + 2 + c[at[i - 1] + 2]
    <3>1. i - 1 \in 0..n /\ i \in 0..n BY <1>3
    <3>2. PICK k \in Nat, l \in Nat : k = ends[i - 1] /\ l = Len(objects[i]) /\ l >= 2
      BY <1>13, <1>17, <3>1
    <3>3. ends[i] = k + l /\ flat[k + 2] = l - 2 BY <1>13, <1>14, <3>2
    <3>4. at[i - 1] = 7 + k /\ at[i] = 7 + (k + l) BY <3>1, <3>2, <3>3
    <3>5. k + 2 \in 1..Len(flat)
      <4>1. k + l <= Len(flat) BY <1>17, <3>1, <3>3
      <4>2. PICK f \in Nat : f = Len(flat) BY <1>6
      <4>3. k + 2 <= f
        <5>1. k + l <= f /\ l >= 2 BY <4>1, <4>2, <3>2
        <5> QED BY <5>1
      <4>4. k + 2 \in 1..f BY <4>3
      <4> QED BY <4>2, <4>4
    <3>6. c[7 + (k + 2)] = l - 2 BY <3>3, <3>5, <1>10, <1>11
    <3>7. 7 + k + 2 = 7 + (k + 2) OBVIOUS
    <3>8. c[at[i - 1] + 2] = l - 2 BY <3>4, <3>6, <3>7
    <3>9. 7 + k + 2 <= 7 + (k + l) /\ 7 + (k + l) = 7 + k + 2 + (l - 2)
      <4>1. l >= 2 BY <3>2
      <4> QED BY <4>1
    <3> HIDE DEF at
    <3> QED BY <3>4, <3>8, <3>9
  <2> HIDE DEF at
  <2> QED BY <1>6, <1>12, <2>1, <2>2, <2>3 DEF EndsAt
<1>19. Part(c, 2, 5) = header
  <2>1. StandsAt(c, 1, header)
    <3>1. 1 + 5 <= Len(c) BY <1>6, <1>12
    <3> QED BY <1>12, <3>1 DEF StandsAt
  <2>2. PICK a \in Nat : a = 1 OBVIOUS
  <2>3. Part(c, a + 1, Len(header)) = header BY <1>6, <1>11, <2>1, <2>2, PartIs
  <2>4. a + 1 = 2 BY <2>2
  <2> QED BY <2>3, <2>4
<1>20. ASSUME NEW i \in 1..n PROVE SubSeq(c, at[i - 1] + 1, at[i]) = objects[i]
  <2>1. i - 1 \in 0..n /\ i \in 0..n BY <1>3
  <2>2. PICK k \in Nat, l \in Nat : k = ends[i - 1] /\ l = Len(objects[i])
    BY <1>13, <1>17, <2>1
  <2>3. ends[i] = k + l /\ \A j \in 1..l : flat[k + j] = objects[i][j] BY <1>4, <2>2 DEF EndsOf, n
  <2>4. PICK from \in Nat, to \in Nat : from = 7 + k + 1 /\ to = 7 + (k + l) /\ to - from + 1 = l OBVIOUS
  <2>5. at[i - 1] + 1 = from /\ at[i] = to BY <2>1, <2>2, <2>3, <2>4
  <2> HIDE DEF at
  <2>6. PICK f \in Nat : f = Len(flat) BY <1>6
  <2>7. k + l <= f BY <1>17, <2>1, <2>3, <2>6
  <2>8. \A j \in 1..l : c[from + j - 1] = objects[i][j]
    <3>1. \A j \in 1..l : k + j \in 1..f /\ from + j - 1 = 7 + (k + j) BY <2>4, <2>7
    <3>2. \A j \in 1..l : c[7 + (k + j)] = flat[k + j] BY <1>10, <1>11, <2>6, <3>1
    <3> QED BY <2>3, <3>1, <3>2
  <2>9. \A j \in from..to : c[j] \in Nat
    <3>1. \A j \in from..to : j \in 1..(7 + f) BY <2>4, <2>7
    <3>2. \A j \in from..to : j \in 1..Len(c) BY <1>12, <2>6, <3>1
    <3> QED BY <1>11, <3>2, ElementOfSeq
  <2> DEFINE s == SubSeq(c, from, to)
  <2>10. /\ s \in Seq(Nat) /\ Len(s) = IF from <= to THEN to - from + 1 ELSE 0
         /\ \A j \in 1..(to - from + 1) : s[j] = c[from + j - 1]
    BY <2>9, SubSeqProperties
  <2> HIDE DEF s
  <2>11. Len(s) = l BY <2>4, <2>10
  <2>12. \A j \in 1..l : s[j] = objects[i][j] BY <2>4, <2>8, <2>10
  <2>13. objects[i] \in Seq(Nat)
    <3>1. objects[i] \in Seq(Octet) BY ElementOfSeq DEF n
    <3> QED BY <3>1, OctetsAreNumbers
  <2>14. s = objects[i] BY <2>2, <2>10, <2>11, <2>12, <2>13, SeqEqual
  <2> QED BY <2>5, <2>14 DEF s
<1>21. objects = [i \in 1..n |-> SubSeq(c, at[i - 1] + 1, at[i])]
  <2>1. objects = [i \in 1..n |-> objects[i]] BY LenProperties DEF n
  <2> HIDE DEF at
  <2> QED BY <1>20, <2>1
<1>22. IdentificationContent(c, body, n, at)
  <2> HIDE DEF at
  <2> QED BY <1>1, <1>12, <1>18, <1>19, <1>21 DEF IdentificationContent
<1>23. IsResponse(c, body)
  <2> HIDE DEF at
  <2> QED BY <1>3, <1>11, <1>22 DEF IsSequence, ResponseContent, IsResponse
<1> QED BY <1>2, <1>23 DEF body

\* What every response looks like when it is sent.
LEMMA ResponsesContent ==
  ASSUME NEW body \in Responses
  PROVE  IsResponse(ResponsePayload(body), body)
<1>1. CASE body \in [fc : 1..4, data : Seq(0..255)]
  <2>1. PICK x \in 1..4, data \in Seq(Octet) : body = [fc |-> x, data |-> data] BY <1>1 DEF Octet
  <2> QED BY <2>1, DataContentOf
<1>2. CASE body \in [fc : {43}, header : {s \in Seq(0..255) : Len(s) = 5}, objects : Seq(Objects)]
  <2>1. PICK header \in Seq(Octet), objects \in Seq(Objects) :
          Len(header) = 5 /\ body = [fc |-> 43, header |-> header, objects |-> objects]
    BY <1>2 DEF Octet
  <2>2. Objects \subseteq Seq(Octet) BY DEF Objects, Octet
  <2>3. objects \in Seq(Seq(Octet)) BY <2>2, SeqMonotonic
  <2>4. \A i \in 1..Len(objects) : objects[i] \in Objects BY ElementOfSeq
  <2> QED BY <2>1, <2>3, <2>4, IdentificationContentOf
<1>3. CASE body \in [fc : 1..255 \ (FunctionCodes \cup Refusals), raw : Seq(0..255)]
  <2>1. PICK x \in Nat, s \in Seq(Octet) :
          x \in 1..255 \ (FunctionCodes \cup Refusals) /\ body = [fc |-> x, raw |-> s]
    <3>1. body \in [fc : 1..255 \ (FunctionCodes \cup Refusals), raw : Seq(Octet)] BY <1>3 DEF Octet
    <3> HIDE DEF Octet
    <3>2. body.fc \in 1..255 \ (FunctionCodes \cup Refusals) /\ body.raw \in Seq(Octet) BY <3>1
    <3>3. body = [fc |-> body.fc, raw |-> body.raw] BY <3>1
    <3>4. \A x \in 1..255 \ (FunctionCodes \cup Refusals) : x \in Nat OBVIOUS
    <3> QED BY <3>2, <3>3, <3>4
  <2> DEFINE first == <<x>>
             c == first \o s
  <2>2. ResponsePayload(body) = c BY <2>1 DEF ResponsePayload
  <2>3. first \in Seq(Nat) /\ Len(first) = 1 /\ first[1] = x OBVIOUS
  <2>4. s \in Seq(Nat) /\ Len(s) \in Nat BY OctetsAreNumbers
  <2> HIDE DEF first
  <2>5. c \in Seq(Nat) /\ Len(c) >= 1 /\ c[1] = x
    <3>1. c \in Seq(Nat) /\ Len(c) = Len(first) + Len(s) /\ \A i \in 1..Len(first) : c[i] = first[i]
      BY <2>3, <2>4, NumbersConcat
    <3> QED BY <2>3, <2>4, <3>1
  <2> HIDE DEF c
  <2>6. body.fc = x BY <2>1
  <2> QED BY <2>1, <2>2, <2>5, <2>6 DEF IsSequence, IsResponse, ResponseContent
<1>4. CASE \/ body \in [fc : {5, 6}, at : Nat, value : Nat]
           \/ body \in [fc : {15, 16}, at : Nat, n : Nat]
  BY <1>4, WrittenContent
<1>5. CASE \/ body \in [fc : Refusals, code : 0..255]
           \/ body \in [fc : {43 + 128}, meiType : 0..255, code : 0..255]
  BY <1>5, RefusalContent
<1> QED BY <1>1, <1>2, <1>3, <1>4, <1>5 DEF Responses

\* What a response says gives it its form.
LEMMA FormOfContent ==
  ASSUME NEW c, NEW body, ResponseContent(c, body)
  PROVE  ResponseForm(c, body)
<1>1. CASE \E data \in Seq(Octet) : DataContent(c, body, data)
  <2>1. PICK data \in Seq(Octet) : DataContent(c, body, data) BY <1>1
  <2>2. body.fc = c[1] /\ body.data = data /\ Len(data) \in Nat BY <2>1, LenProperties DEF DataContent
  <2> QED BY <2>1, <2>2 DEF DataContent, ResponseForm
<1>2. CASE \/ Len(c) = 5 /\ c[1] \in {5, 6} /\ body = [fc |-> c[1], at |-> Uint16(c, 2), value |-> Uint16(c, 4)]
           \/ Len(c) = 5 /\ c[1] \in {15, 16} /\ body = [fc |-> c[1], at |-> Uint16(c, 2), n |-> Uint16(c, 4)]
  <2>1. Len(c) = 5 /\ c[1] \in {5, 6, 15, 16} /\ body.fc = c[1] BY <1>2
  <2> QED BY <2>1 DEF ResponseForm
<1>3. CASE \E n \in Nat : \E ends : IdentificationContent(c, body, n, ends)
  <2>1. PICK n \in Nat : \E ends : IdentificationContent(c, body, n, ends) BY <1>3
  <2>2. PICK ends : IdentificationContent(c, body, n, ends) BY <2>1
  <2>3. body.fc = 43 /\ c[1] = 43 /\ EndsAt(c, n, ends) BY <2>2 DEF IdentificationContent
  <2> QED BY <2>3 DEF ResponseForm
<1>4. CASE \/ Len(c) = 2 /\ c[1] \in Refusals /\ body = [fc |-> c[1], code |-> c[2]]
           \/ Len(c) = 3 /\ c[1] = 171 /\ body = [fc |-> c[1], meiType |-> c[2], code |-> c[3]]
  BY <1>4 DEF ResponseForm
<1>5. CASE body.fc \in 1..255 \ (FunctionCodes \cup Refusals) /\ Len(c) >= 1 /\ c[1] = body.fc
  BY <1>5 DEF ResponseForm
<1> QED BY <1>1, <1>2, <1>3, <1>4, <1>5 DEF ResponseContent

-----------------------------------------------------------------------------
(* Responses as they are read.                                               *)

\* Of a prefix of a device identification no end is found but those of the
\* whole, and not the last one.
LEMMA IdentificationFront ==
  ASSUME NEW c \in Seq(Octet), NEW n \in Nat, NEW ends, EndsAt(c, n, ends), NEW p \in Seq(Octet),
         Len(p) < Len(c), \A i \in 1..Len(p) : p[i] = c[i]
  PROVE  ReadDeviceIdentificationResponse(p) = Null
<1>1. Len(p) \in Nat /\ Len(c) \in Nat BY LenProperties
<1>2. CASE Len(p) < 7 BY <1>2 DEF ReadDeviceIdentificationResponse
<1>3. CASE Len(p) >= 7
  <2>1. PICK end : /\ ObjectEnds(end, p)
                   /\ end[p[7]] = 0 => ReadDeviceIdentificationResponse(p) = Null
    BY <1>3, IdentificationEnds
  <2>2. p[7] = n
    <3>1. 7 \in 1..Len(p) BY <1>1, <1>3
    <3> QED BY <3>1 DEF EndsAt
  <2> DEFINE Known == {k \in 0..n : end[k] = 0 \/ end[k] = ends[k]}
  <2>3. 0 \in Known BY <2>1 DEF ObjectEnds, EndsAt
  <2>4. ASSUME NEW k \in 0..(n - 1), k \in Known PROVE k + 1 \in Known
    <3>1. PICK m \in 1..n : m = k + 1 OBVIOUS
    <3>2. m - 1 = k /\ m \in 0..n /\ k \in 0..n BY <3>1
    <3>3. PICK from \in 0..Len(p) : from = end[k] BY <2>1, <2>2, <3>2 DEF ObjectEnds
    <3>4. end[m] = IF from = 0 \/ from + 2 > Len(p) \/ from + 2 + p[from + 2] > Len(p) THEN 0
                   ELSE from + 2 + p[from + 2]
      BY <2>1, <2>2, <3>2, <3>3 DEF ObjectEnds
    <3>5. CASE from = 0 \/ from + 2 > Len(p) \/ from + 2 + p[from + 2] > Len(p)
      <4>1. end[m] = 0 BY <3>4, <3>5
      <4> QED BY <3>1, <3>2, <4>1
    <3>6. CASE ~(from = 0 \/ from + 2 > Len(p) \/ from + 2 + p[from + 2] > Len(p))
      <4>1. from = ends[k] BY <2>4, <3>3, <3>6
      <4>2. from + 2 \in 1..Len(p) BY <1>1, <3>6
      <4>3. p[from + 2] = c[from + 2] BY <4>2
      <4>4. end[m] = from + 2 + c[from + 2] BY <3>4, <3>6, <4>3
      <4>5. ends[m] = from + 2 + c[from + 2] BY <3>2, <4>1 DEF EndsAt
      <4>6. end[m] = ends[m] BY <4>4, <4>5
      <4> QED BY <3>1, <3>2, <4>6
    <3> QED BY <3>5, <3>6
  <2>5. n \in Known
    <3> HIDE DEF Known
    <3> QED BY <2>3, <2>4, Induction
  <2>6. end[n] \in 0..Len(p) BY <2>1, <2>2 DEF ObjectEnds
  <2>7. end[n] # ends[n] BY <1>1, <2>6 DEF EndsAt
  <2> QED BY <2>1, <2>2, <2>5, <2>7
<1> QED BY <1>1, <1>2, <1>3

\* Of a whole one every end is found.
LEMMA IdentificationWhole ==
  ASSUME NEW c \in Seq(Octet), NEW n \in Nat, NEW ends, EndsAt(c, n, ends)
  PROVE  ReadDeviceIdentificationResponse(c).fc = c[1]
<1>1. Len(c) \in Nat /\ Len(c) >= 7 /\ c[7] = n BY LenProperties DEF EndsAt
<1>2. 1 \in 1..Len(c) BY <1>1
<1>3. PICK end :
        /\ ObjectEnds(end, c)
        /\ end[c[7]] # 0 => ReadDeviceIdentificationResponse(c) =
             [fc |-> c[1], header |-> Part(c, 2, 5),
              objects |-> [i \in 1..c[7] |-> SubSeq(c, end[i - 1] + 1, end[i])]]
  BY <1>1, IdentificationEnds
<1> DEFINE Known == {k \in 0..n : end[k] = ends[k]}
<1>4. 0 \in Known BY <1>3 DEF ObjectEnds, EndsAt
<1>5. ASSUME NEW k \in 0..(n - 1), k \in Known PROVE k + 1 \in Known
  <2>1. PICK m \in 1..n : m = k + 1 OBVIOUS
  <2>2. m - 1 = k /\ m \in 0..n /\ k \in 0..n BY <2>1
  <2>3. PICK from \in 7..Len(c) : from = ends[k] BY <2>2 DEF EndsAt
  <2>4. end[k] = from BY <1>5, <2>3
  <2>5. end[m] = IF from = 0 \/ from + 2 > Len(c) \/ from + 2 + c[from + 2] > Len(c) THEN 0
                 ELSE from + 2 + c[from + 2]
    BY <1>1, <1>3, <2>2, <2>4 DEF ObjectEnds
  <2>6. ends[m] \in 7..Len(c) /\ from + 2 <= ends[m] /\ ends[m] = from + 2 + c[from + 2]
    BY <2>2, <2>3 DEF EndsAt
  <2>7. PICK to \in 7..Len(c) : to = ends[m] BY <2>6
  <2>8. from + 2 + c[from + 2] = to /\ from + 2 <= to /\ to <= Len(c) BY <1>1, <2>6, <2>7
  <2>9. from # 0 /\ ~(from + 2 > Len(c)) /\ ~(to > Len(c)) BY <1>1, <2>8
  <2>10. end[m] = to BY <2>5, <2>8, <2>9
  <2> QED BY <2>1, <2>2, <2>7, <2>10
<1>6. n \in Known
  <2> HIDE DEF Known
  <2> QED BY <1>4, <1>5, Induction
<1>7. end[n] # 0 BY <1>1, <1>6 DEF EndsAt
<1> QED BY <1>1, <1>3, <1>7

\* A device identification may be refused.
LEMMA IdentificationCode == 43 \in FunctionCodes /\ 171 \in Refusals
<1>1. "READ_DEVICE_IDENTIFICATION" \in DOMAIN FC /\ FC["READ_DEVICE_IDENTIFICATION"] = 43 BY DEF FC
<1>2. 43 \in FunctionCodes BY <1>1 DEF FunctionCodes
<1>3. 171 = 43 + 128 OBVIOUS
<1> QED BY <1>2, <1>3 DEF Refusals

\* Above 128 the function code of a refusal begins.
LEMMA ExceptionBody ==
  ASSUME NEW b \in Seq(Octet), b # <<>>, b[1] > 128
  PROVE  ResponseBody(b) = ExceptionResponse(b)
<1>1. 1 \in 1..Len(b) BY EmptySeq, LenProperties
<1>2. PICK x \in Nat : x = b[1] BY <1>1, OctetOfSeq
<1>3. x > 128 /\ x \notin {1, 2, 3, 4, 5, 6, 15, 16, 43} BY <1>2
<1> QED BY <1>2, <1>3 DEF ResponseBody, FC

\* The body of a response that has arrived in part does not parse, unless it
\* parses early.
LEMMA ResponseFront ==
  ASSUME NEW c \in Seq(Octet), NEW body, ResponseForm(c, body), NEW p \in Seq(Octet),
         Len(p) < Len(c), \A i \in 1..Len(p) : p[i] = c[i],
         reader = "tcpClient", ~ParsesEarly(body, Len(p) + 7)
  PROVE  ResponseBody(p) = Null
<1>1. Len(p) \in Nat /\ Len(c) \in Nat BY LenProperties
<1>2. CASE Len(p) = 0
  <2>1. p = <<>> BY <1>2, EmptySeq
  <2> QED BY <2>1 DEF ResponseBody
<1>3. CASE Len(p) # 0
  <2>1. p # <<>> /\ 1 \in 1..Len(p) BY <1>1, <1>3, EmptySeq
  <2>2. p[1] = c[1] BY <2>1
  <2>3. CASE /\ body.fc \in 1..4 /\ Len(body.data) \in Nat
             /\ Len(c) = 2 + Len(body.data) /\ c[1] = body.fc /\ c[2] = Len(body.data)
    <3>1. CASE body.fc = 3
      <4>1. Len(p) < 2 BY <1>1, <2>3, <3>1 DEF ParsesEarly, FC
      <4> QED BY <2>1, <2>2, <2>3, <3>1, <4>1, <1>1 DEF ResponseBody, FC, ReadHoldingRegistersResponse
    <3>2. CASE body.fc \in {1, 2, 4}
      <4>1. Len(p) >= 2 => p[2] = c[2]
        <5>1. Len(p) >= 2 => 2 \in 1..Len(p) BY <1>1
        <5> QED BY <5>1
      <4>2. ~(Len(p) >= 2 /\ Len(p) >= 2 + p[2]) BY <1>1, <2>3, <4>1
      <4> QED BY <2>1, <2>2, <2>3, <3>2, <4>2 DEF ResponseBody, FC, ReadCoilsResponse,
           ReadDiscreteInputsResponse, BitsResponse, ReadInputRegistersResponse
    <3> QED BY <2>3, <3>1, <3>2
  <2>4. CASE body.fc \in {5, 6, 15, 16} /\ Len(c) = 5 /\ c[1] = body.fc
    <3>1. Len(p) < 5 BY <2>4
    <3> QED BY <2>1, <2>2, <2>4, <3>1, <1>1 DEF ResponseBody, FC, WriteSingleCoilResponse,
         WriteSingleRegisterResponse, WriteMultipleCoilsResponse, WriteMultipleRegistersResponse
  <2>5. CASE c[1] = 43 /\ \E n \in Nat : \E ends : EndsAt(c, n, ends)
    <3>1. ResponseBody(p) = ReadDeviceIdentificationResponse(p) BY <2>1, <2>2, <2>5 DEF ResponseBody, FC
    <3>2. PICK n \in Nat : \E ends : EndsAt(c, n, ends) BY <2>5
    <3>3. PICK ends : EndsAt(c, n, ends) BY <3>2
    <3> QED BY <3>1, <3>3, IdentificationFront
  <2>6. CASE body.fc \in Refusals /\ Len(c) = 2 /\ c[1] = body.fc
    <3>1. Len(p) < 2 BY <2>6
    <3>2. p[1] > 128 BY <2>2, <2>6 DEF Refusals, FunctionCodes, FC
    <3>3. ResponseBody(p) = ExceptionResponse(p) BY <2>1, <3>2, ExceptionBody
    <3> QED BY <3>1, <3>3 DEF ExceptionResponse
  <2>7. CASE body.fc = 171 /\ "meiType" \in DOMAIN body /\ Len(c) = 3 /\ c[1] = 171
    <3>1. Len(p) < 2 BY <1>1, <2>7 DEF ParsesEarly
    <3>2. ResponseBody(p) = ExceptionResponse(p) BY <2>1, <2>2, <2>7, ExceptionBody
    <3> QED BY <3>1, <3>2 DEF ExceptionResponse
  <2>8. CASE body.fc \in 1..255 \ (FunctionCodes \cup Refusals) /\ c[1] = body.fc
    <3>1. PICK x \in 1..255 : x = p[1] /\ x \notin FunctionCodes \cup Refusals
      <4>1. p[1] \in 1..255 \ (FunctionCodes \cup Refusals) BY <2>2, <2>8
      <4> QED BY <4>1
    <3>2. CASE x > 128
      <4>1. p[1] - 128 \notin FunctionCodes
        <5>1. x - 128 + 128 = x OBVIOUS
        <5>2. x - 128 \notin FunctionCodes BY <3>1, <5>1 DEF Refusals
        <5> QED BY <3>1, <5>2
      <4>2. ResponseBody(p) = ExceptionResponse(p) BY <2>1, <3>1, <3>2, ExceptionBody
      <4> QED BY <4>1, <4>2, IdentificationCode DEF ExceptionResponse, FC
    <3>3. CASE ~(x > 128)
      BY <2>1, <3>1, <3>3 DEF ResponseBody, FunctionCodes, FC
    <3> QED BY <3>2, <3>3
  <2> QED BY <2>3, <2>4, <2>5, <2>6, <2>7, <2>8 DEF ResponseForm
<1> QED BY <1>2, <1>3

\* A whole one parses, unless it never does.
LEMMA ResponseWhole ==
  ASSUME NEW c \in Seq(Octet), NEW body, ResponseForm(c, body), reader = "tcpClient",
         ResponseBody(c) = Null
  PROVE  NeverParses(body)
<1>1. Len(c) \in Nat BY LenProperties
<1>2. ASSUME Len(c) >= 1 PROVE c # <<>> BY <1>1, <1>2, EmptySeq
<1>3. CASE /\ body.fc \in 1..4 /\ Len(body.data) \in Nat
           /\ Len(c) = 2 + Len(body.data) /\ c[1] = body.fc /\ c[2] = Len(body.data)
  <2>1. CASE body.fc = 4 /\ Len(body.data) % 2 = 1 BY <2>1 DEF NeverParses, FC
  <2>2. CASE ~(body.fc = 4 /\ Len(body.data) % 2 = 1)
    <3>1. PICK n \in Nat : n = Len(body.data) BY <1>3
    <3>2. body.fc = 4 => n % 2 = 0
      <4>1. n % 2 = 0 \/ n % 2 = 1 OBVIOUS
      <4> QED BY <2>2, <3>1, <4>1
    <3>5. Len(c) >= 2 /\ Len(c) >= 2 + c[2] /\ c # <<>> /\ (c[1] = 4 => c[2] % 2 = 0)
      <4>1. Len(c) = 2 + n /\ c[2] = n /\ c[1] = body.fc BY <1>3, <3>1
      <4>2. c # <<>> BY <1>2, <4>1
      <4> QED BY <3>2, <4>1, <4>2
    <3>3. ResponseBody(c) = [fc |-> c[1], data |-> Part(c, 3, c[2])]
      <4>1. CASE c[1] = 1 BY <3>5, <4>1 DEF ResponseBody, FC, ReadCoilsResponse, BitsResponse
      <4>2. CASE c[1] = 2 BY <3>5, <4>2 DEF ResponseBody, FC, ReadDiscreteInputsResponse, BitsResponse
      <4>3. CASE c[1] = 3 BY <3>5, <4>3 DEF ResponseBody, FC, ReadHoldingRegistersResponse
      <4>4. CASE c[1] = 4 BY <3>5, <4>4 DEF ResponseBody, FC, ReadInputRegistersResponse
      <4> QED BY <1>3, <4>1, <4>2, <4>3, <4>4
    <3>4. ResponseBody(c).fc = c[1] BY <3>3
    <3> QED BY <1>3, <3>4 DEF Null
  <2> QED BY <2>1, <2>2
<1>4. CASE body.fc \in {5, 6, 15, 16} /\ Len(c) = 5 /\ c[1] = body.fc
  <2>1. c # <<>> BY <1>2, <1>4
  <2>2. ResponseBody(c).fc = c[1]
    <3>1. CASE c[1] = 5 BY <1>4, <2>1, <3>1 DEF ResponseBody, FC, WriteSingleCoilResponse
    <3>2. CASE c[1] = 6 BY <1>4, <2>1, <3>2 DEF ResponseBody, FC, WriteSingleRegisterResponse
    <3>3. CASE c[1] \in {15, 16}
      BY <1>4, <2>1, <3>3 DEF ResponseBody, FC, WriteMultipleCoilsResponse, WriteMultipleRegistersResponse
    <3> QED BY <1>4, <3>1, <3>2, <3>3
  <2> QED BY <1>4, <2>2 DEF Null
<1>5. CASE c[1] = 43 /\ \E n \in Nat : \E ends : EndsAt(c, n, ends)
  <2>0. PICK n \in Nat : \E ends : EndsAt(c, n, ends) BY <1>5
  <2>1. PICK ends : EndsAt(c, n, ends) BY <2>0
  <2>2. c # <<>> BY <1>1, <1>2, <2>1 DEF EndsAt
  <2>3. ResponseBody(c) = ReadDeviceIdentificationResponse(c) BY <1>5, <2>2 DEF ResponseBody, FC
  <2>4. ResponseBody(c).fc = c[1] BY <2>1, <2>3, IdentificationWhole
  <2> QED BY <1>5, <2>4 DEF Null
<1>6. ASSUME body.fc \in Refusals, Len(c) \in {2, 3}, c[1] = body.fc PROVE FALSE
  <2>1. PICK x \in Nat : x = c[1] /\ x > 128 /\ x - 128 \in FunctionCodes
    BY <1>6 DEF Refusals, FunctionCodes, FC
  <2>2. ResponseBody(c) = ExceptionResponse(c) BY <1>2, <1>6, <2>1, ExceptionBody
  <2>3. ExceptionResponse(c).fc = c[1]
    <3>1. c[1] - 128 \in FunctionCodes BY <2>1
    <3>2. ~(c[1] - 128 \notin FunctionCodes \/ Len(c) < 2)
      <4>1. Len(c) = 2 \/ Len(c) = 3 BY <1>6
      <4>2. ~(Len(c) < 2) BY <4>1
      <4> QED BY <3>1, <4>2
    <3>3. CASE c[1] - 128 = 43 /\ Len(c) >= 3
      <4>1. ExceptionResponse(c) = [fc |-> c[1], meiType |-> c[2], code |-> c[3]]
        BY <3>2, <3>3 DEF ExceptionResponse, FC
      <4> QED BY <4>1
    <3>4. CASE ~(c[1] - 128 = 43 /\ Len(c) >= 3)
      <4>1. ExceptionResponse(c) = [fc |-> c[1], code |-> c[2]]
        BY <3>2, <3>4 DEF ExceptionResponse, FC
      <4> QED BY <4>1
    <3> QED BY <3>3, <3>4
  <2> QED BY <2>1, <2>2, <2>3 DEF Null
<1>8. CASE body.fc \in Refusals /\ Len(c) = 2 /\ c[1] = body.fc BY <1>6, <1>8
<1>9. CASE body.fc = 171 /\ Len(c) = 3 /\ c[1] = 171
  <2>1. 171 \in Refusals BY IdentificationCode
  <2> QED BY <1>6, <1>9, <2>1
<1>7. CASE body.fc \in 1..255 \ (FunctionCodes \cup Refusals) BY <1>7 DEF NeverParses
<1> QED BY <1>3, <1>4, <1>5, <1>7, <1>8, <1>9 DEF ResponseForm

\* Where the objects of a device identification end that takes the first l bytes
\* of a buffer.
EndsIn(b, l, n, ends) ==
  /\ l \in 7..Len(b) /\ b[7] = n /\ ends[0] = 7 /\ ends[n] = l
  /\ \A i \in 0..n : ends[i] \in 7..l
  /\ \A i \in 1..n : ends[i - 1] + 2 <= ends[i] /\ ends[i] = ends[i - 1] + 2 + b[ends[i - 1] + 2]

\* Where two buffers agree, their objects end at the same places.
LEMMA SameEnds ==
  ASSUME NEW b \in Seq(Octet), NEW l \in Nat, NEW n \in Nat, NEW e, EndsIn(b, l, n, e),
         NEW c \in Seq(Octet), NEW k \in Nat, NEW m \in Nat, NEW f, EndsIn(c, k, m, f),
         \A i \in 1..l : i <= k => b[i] = c[i]
  PROVE  n = m /\ l = k /\ \A i \in 0..n : e[i] = f[i]
<1>1. n = m
  <2>1. 7 \in 1..l /\ 7 <= k BY DEF EndsIn
  <2> QED BY <2>1 DEF EndsIn
<1> DEFINE Same == {i \in 0..n : e[i] = f[i]}
<1>2. 0 \in Same BY DEF EndsIn
<1>3. ASSUME NEW i \in 0..(n - 1), i \in Same PROVE i + 1 \in Same
  <2>1. PICK j \in 1..n : j = i + 1 /\ j - 1 = i /\ j \in 0..n /\ i \in 0..n OBVIOUS
  <2>2. PICK from \in Nat : from = e[i] /\ from = f[i] BY <1>3, <2>1 DEF EndsIn
  <2>3. /\ e[j] \in 7..l /\ from + 2 <= e[j] /\ e[j] = from + 2 + b[from + 2]
        /\ f[j] \in 7..k /\ from + 2 <= f[j] /\ f[j] = from + 2 + c[from + 2]
    <3>1. /\ e[j] \in 7..l /\ e[j - 1] + 2 <= e[j]
          /\ e[j] = e[j - 1] + 2 + b[e[j - 1] + 2]
      BY <2>1 DEF EndsIn
    <3>2. /\ f[j] \in 7..k /\ f[j - 1] + 2 <= f[j]
          /\ f[j] = f[j - 1] + 2 + c[f[j - 1] + 2]
      BY <1>1, <2>1 DEF EndsIn
    <3>3. e[j - 1] = from /\ f[j - 1] = from BY <2>1, <2>2
    <3> HIDE DEF Same
    <3> QED BY <3>1, <3>2, <3>3
  <2>4. from + 2 \in 1..l /\ from + 2 <= k
    <3>1. PICK x \in Nat, y \in Nat : x = e[j] /\ y = f[j] /\ x <= l /\ y <= k BY <2>3
    <3>2. from + 2 <= x /\ from + 2 <= y BY <2>3, <3>1
    <3>3. from + 2 <= l /\ from + 2 <= k BY <3>1, <3>2
    <3> QED BY <3>3
  <2>5. b[from + 2] = c[from + 2] BY <2>4
  <2>6. e[j] = f[j] BY <2>3, <2>5
  <2> QED BY <2>1, <2>6
<1>4. ASSUME NEW i \in 0..n PROVE i \in Same
  <2>1. \A j \in 0..(i - 1) : j \in 0..(n - 1) OBVIOUS
  <2>2. \A j \in 0..(i - 1) : j \in Same => j + 1 \in Same
    <3> HIDE DEF Same
    <3> QED BY <1>3, <2>1
  <2>3. i \in Nat OBVIOUS
  <2> HIDE DEF Same
  <2> QED BY <1>2, <2>2, <2>3, Induction
<1>5. l = k
  <2>1. n \in 0..n OBVIOUS
  <2> QED BY <1>1, <1>4, <2>1 DEF EndsIn
<1> QED BY <1>1, <1>4, <1>5

\* What parses as a device identification has such ends.
LEMMA IdentificationParsed ==
  ASSUME NEW b \in Seq(Octet), ReadDeviceIdentificationResponse(b) # Null
  PROVE  \E n \in Nat, l \in Nat : \E ends :
           /\ EndsIn(b, l, n, ends)
           /\ ReadDeviceIdentificationResponse(b) =
                [fc |-> b[1], header |-> Part(b, 2, 5),
                 objects |-> [i \in 1..n |-> SubSeq(b, ends[i - 1] + 1, ends[i])]]
<1>1. Len(b) \in Nat /\ Len(b) >= 7
  <2>1. Len(b) < 7 => ReadDeviceIdentificationResponse(b) = Null
    BY Zenon DEF ReadDeviceIdentificationResponse
  <2>2. Len(b) \in Nat BY LenProperties
  <2>3. ~(Len(b) < 7) BY <2>1
  <2> QED BY <2>2, <2>3
<1>2. PICK n \in Nat : n = b[7]
  <2>1. 7 \in 1..Len(b) BY <1>1
  <2> QED BY <2>1, OctetOfSeq
<1>3. PICK ends :
        /\ ObjectEnds(ends, b)
        /\ ReadDeviceIdentificationResponse(b) =
             IF ends[b[7]] = 0 THEN Null
             ELSE [fc |-> b[1], header |-> Part(b, 2, 5),
                   objects |-> [i \in 1..b[7] |-> SubSeq(b, ends[i - 1] + 1, ends[i])]]
  BY <1>1, IdentificationEnds
<1>4. ends[n] # 0 BY <1>2, <1>3
<1>5. /\ ends[0] = 7
      /\ \A i \in 1..n :
           ends[i] = LET from == ends[i - 1]
                     IN IF from = 0 \/ from + 2 > Len(b) \/ from + 2 + b[from + 2] > Len(b) THEN 0
                        ELSE from + 2 + b[from + 2]
      /\ \A i \in 0..n : ends[i] \in 0..Len(b)
  BY <1>2, <1>3 DEF ObjectEnds
<1>6. ASSUME NEW i \in 1..n, ends[i] # 0
      PROVE  /\ ends[i - 1] # 0 /\ ends[i - 1] + 2 <= ends[i]
             /\ ends[i] = ends[i - 1] + 2 + b[ends[i - 1] + 2]
  <2>1. PICK from \in 0..Len(b) : from = ends[i - 1]
    <3>1. i - 1 \in 0..n OBVIOUS
    <3> QED BY <3>1, <1>5
  <2>2. /\ ~(from = 0 \/ from + 2 > Len(b) \/ from + 2 + b[from + 2] > Len(b))
        /\ ends[i] = from + 2 + b[from + 2]
    BY <1>5, <1>6, <2>1
  <2>3. from + 2 \in 1..Len(b) BY <1>1, <2>2
  <2>4. b[from + 2] \in Nat BY <2>3, OctetOfSeq
  <2> QED BY <2>1, <2>2, <2>4
<1> DEFINE Found == {k \in 0..n : ends[n - k] # 0 /\ ends[n - k] <= ends[n]}
<1>7. 0 \in Found
  <2>1. n - 0 = n /\ n \in 0..n OBVIOUS
  <2>2. PICK x \in Nat : x = ends[n] BY <1>5, <2>1
  <2> QED BY <1>4, <2>1, <2>2
<1>8. ASSUME NEW k \in 0..(n - 1), k \in Found PROVE k + 1 \in Found
  <2>1. PICK i \in 1..n : i = n - k OBVIOUS
  <2>2. i - 1 \in 0..n /\ i \in 0..n /\ n \in 0..n /\ n - (k + 1) = i - 1 /\ k + 1 \in 0..n BY <2>1
  <2>3. ends[i] # 0 /\ ends[i] <= ends[n] BY <1>8, <2>1
  <2>4. ends[i - 1] # 0 /\ ends[i - 1] + 2 <= ends[i] BY <1>6, <2>3
  <2>5. PICK x \in Nat, y \in Nat, z \in Nat : x = ends[i - 1] /\ y = ends[i] /\ z = ends[n]
    BY <1>5, <2>2
  <2>6. x <= z BY <2>3, <2>4, <2>5
  <2> QED BY <2>2, <2>4, <2>5, <2>6
<1>9. ASSUME NEW i \in 0..n PROVE ends[i] # 0 /\ ends[i] <= ends[n]
  <2>1. PICK k \in 0..n : k = n - i OBVIOUS
  <2>2. \A j \in 0..(k - 1) : j \in 0..(n - 1) OBVIOUS
  <2>3. \A j \in 0..(k - 1) : j \in Found => j + 1 \in Found
    <3> HIDE DEF Found
    <3> QED BY <1>8, <2>2
  <2>4. k \in Nat OBVIOUS
  <2>5. k \in Found
    <3> HIDE DEF Found
    <3> QED BY <1>7, <2>3, <2>4, Induction
  <2>6. n - k = i BY <2>1
  <2> QED BY <2>5, <2>6
<1> DEFINE Late == {k \in 0..n : ends[k] >= 7}
<1>10. 0 \in Late BY <1>5
<1>11. ASSUME NEW k \in 0..(n - 1), k \in Late PROVE k + 1 \in Late
  <2>1. PICK i \in 1..n : i = k + 1 /\ i - 1 = k /\ i \in 0..n /\ k \in 0..n OBVIOUS
  <2>2. ends[i - 1] + 2 <= ends[i] BY <1>6, <1>9, <2>1
  <2>3. PICK x \in Nat, y \in Nat : x = ends[i - 1] /\ y = ends[i] BY <1>5, <2>1
  <2>4. x >= 7 BY <1>11, <2>1, <2>3
  <2>5. y >= 7 BY <2>2, <2>3, <2>4
  <2> QED BY <2>1, <2>3, <2>5
<1>12. ASSUME NEW i \in 0..n PROVE ends[i] >= 7
  <2>1. \A j \in 0..(i - 1) : j \in 0..(n - 1) OBVIOUS
  <2>2. \A j \in 0..(i - 1) : j \in Late => j + 1 \in Late
    <3> HIDE DEF Late
    <3> QED BY <1>11, <2>1
  <2>3. i \in Nat OBVIOUS
  <2>4. i \in Late
    <3> HIDE DEF Late
    <3> QED BY <1>10, <2>2, <2>3, Induction
  <2> QED BY <2>4
<1>13. PICK l \in Nat : l = ends[n] /\ l <= Len(b) /\ l >= 7
  <2>1. n \in 0..n OBVIOUS
  <2> QED BY <1>5, <1>12, <2>1
<1>14. EndsIn(b, l, n, ends)
  <2>1. \A i \in 0..n : ends[i] \in 7..l
    <3> SUFFICES ASSUME NEW i \in 0..n PROVE ends[i] \in 7..l OBVIOUS
    <3>1. PICK x \in Nat : x = ends[i] BY <1>5
    <3>2. x >= 7 /\ x <= l BY <1>9, <1>12, <1>13, <3>1
    <3> QED BY <3>1, <3>2
  <2>2. \A i \in 1..n : ends[i - 1] + 2 <= ends[i] /\ ends[i] = ends[i - 1] + 2 + b[ends[i - 1] + 2]
    <3> SUFFICES ASSUME NEW i \in 1..n
                 PROVE  ends[i - 1] + 2 <= ends[i] /\ ends[i] = ends[i - 1] + 2 + b[ends[i - 1] + 2]
      OBVIOUS
    <3>1. i \in 0..n OBVIOUS
    <3> QED BY <1>6, <1>9, <3>1
  <2>3. l \in 7..Len(b) BY <1>1, <1>13
  <2> QED BY <1>2, <1>5, <1>13, <2>1, <2>2, <2>3 DEF EndsIn
<1>15. ReadDeviceIdentificationResponse(b) =
         [fc |-> b[1], header |-> Part(b, 2, 5),
          objects |-> [i \in 1..n |-> SubSeq(b, ends[i - 1] + 1, ends[i])]]
  BY <1>2, <1>3, <1>4
<1> QED BY <1>14, <1>15

\* What stands between two of the ends.
Object(b, ends, i) == SubSeq(b, ends[i - 1] + 1, ends[i])

\* s is the bytes of b behind one place up to another, within the first l.
Between(s, b, l, from, to) ==
  /\ s \in Seq(Octet) /\ Len(s) \in Nat /\ from \in Nat /\ to \in Nat /\ from + Len(s) = to
  /\ \A j \in 1..Len(s) : from + j \in 1..l /\ s[j] = b[from + j]

\* So are the objects.
LEMMA ObjectBetween ==
  ASSUME NEW b \in Seq(Octet), NEW l \in Nat, NEW n \in Nat, NEW ends, EndsIn(b, l, n, ends),
         NEW i \in 1..n
  PROVE  Between(Object(b, ends, i), b, l, ends[i - 1], ends[i])
<1>1. i - 1 \in 0..n /\ i \in 0..n /\ Len(b) \in Nat BY LenProperties
<1>2. PICK k \in Nat, m \in Nat : k = ends[i - 1] /\ m = ends[i] /\ k + 2 <= m /\ m <= l
  <2>1. ends[i - 1] \in 7..l /\ ends[i] \in 7..l /\ ends[i - 1] + 2 <= ends[i] BY <1>1 DEF EndsIn
  <2> QED BY <2>1
<1>3. l <= Len(b) BY DEF EndsIn
<1>4. PICK from \in Nat : from = k + 1 /\ from <= m /\ m - from + 1 = m - k
  <2>1. k + 2 <= m BY <1>2
  <2>2. k + 1 \in Nat /\ k + 1 <= m /\ m - (k + 1) + 1 = m - k BY <2>1
  <2> QED BY <2>2
<1> DEFINE s == SubSeq(b, from, m)
<1>5. \A j \in from..m : b[j] \in Octet
  <2>1. m <= Len(b) /\ from >= 1
    <3>1. m <= l BY <1>2
    <3> QED BY <1>1, <1>3, <1>4, <3>1
  <2>2. \A j \in from..m : j \in 1..Len(b) BY <1>1, <2>1
  <2> QED BY <2>2, ElementOfSeq
<1>6. /\ s \in Seq(Octet) /\ Len(s) = IF from <= m THEN m - from + 1 ELSE 0
      /\ \A j \in 1..(m - from + 1) : s[j] = b[from + j - 1]
  BY <1>5, SubSeqProperties
<1> HIDE DEF s
<1>7. s = Object(b, ends, i) BY <1>2, <1>4 DEF Object, s
<1>8. Len(s) = m - k BY <1>4, <1>6
<1>9. Len(s) \in Nat /\ k + Len(s) = m BY <1>2, <1>8
<1>10. \A j \in 1..(m - k) : from + j - 1 = k + j /\ k + j \in 1..l
  <2>1. m <= l /\ from = k + 1 BY <1>2, <1>4
  <2> QED BY <2>1
<1>11. \A j \in 1..Len(s) : k + j \in 1..l /\ s[j] = b[k + j] BY <1>4, <1>6, <1>8, <1>10
<1>12. Between(s, b, l, k, m) BY <1>6, <1>9, <1>11 DEF Between
<1> QED BY <1>2, <1>7, <1>12

\* What is read between the ends.
ReadIdentification(b, n, ends) ==
  [fc |-> b[1], header |-> Part(b, 2, 5),
   objects |-> [i \in 1..n |-> SubSeq(b, ends[i - 1] + 1, ends[i])]]

\* Its header is there.
LEMMA HeaderPart ==
  ASSUME NEW b \in Seq(Octet)
  PROVE  /\ Part(b, 2, 5) \in Seq(Octet)
         /\ Len(b) >= 7 => Slice(Part(b, 2, 5), b, 1, 5)
<1>1. PICK a \in Nat, n \in Nat : a = 1 /\ n = 5 OBVIOUS
<1>2. /\ Part(b, a + 1, n) \in Seq(Octet)
      /\ a + n <= Len(b) => Slice(Part(b, a + 1, n), b, a, n)
  BY InnerPart
<1>3. a + 1 = 2 BY <1>1
<1>4. Len(b) >= 7 => a + n <= Len(b) BY <1>1, LenProperties
<1> QED BY <1>1, <1>2, <1>3, <1>4

\* It takes as many bytes when it is encoded again.
LEMMA IdentificationSize ==
  ASSUME NEW b \in Seq(Octet), NEW l \in Nat, NEW n \in Nat, NEW ends, EndsIn(b, l, n, ends), b[1] = 43
  PROVE  Len(ResponsePayload(ReadIdentification(b, n, ends))) = l
<1> DEFINE objects == [i \in 1..n |-> SubSeq(b, ends[i - 1] + 1, ends[i])]
           header == Part(b, 2, 5)
           body == ReadIdentification(b, n, ends)
           flat == FlattenSeq(objects)
           first == <<43>>
           count == <<Len(objects)>>
           c == first \o header \o count \o flat
<1>1. ResponsePayload(body) = c
  <2>1. body.fc = 43 /\ body.header = header /\ body.objects = objects /\ "raw" \notin DOMAIN body
    BY DEF ReadIdentification
  <2> HIDE DEF header, objects
  <2> QED BY <2>1 DEF ResponsePayload, FC, IdentificationPayload
<1>2. header \in Seq(Octet) /\ Len(header) = 5
  <2>1. Len(b) >= 7 BY LenProperties DEF EndsIn
  <2> QED BY <2>1, HeaderPart DEF Slice
<1> HIDE DEF header
<1>3. objects \in Seq(Seq(Octet)) /\ Len(objects) = n
      /\ \A i \in 1..n : objects[i] = Object(b, ends, i)
  <2>1. \A i \in 1..n : objects[i] = Object(b, ends, i) BY DEF Object
  <2>2. \A i \in 1..n : Object(b, ends, i) \in Seq(Octet) BY ObjectBetween DEF Between
  <2>3. DOMAIN objects = 1..n /\ objects = [i \in 1..n |-> objects[i]] OBVIOUS
  <2> HIDE DEF objects
  <2>4. objects \in [1..n -> Seq(Octet)] BY <2>1, <2>2, <2>3
  <2> QED BY <2>1, <2>4, FunctionIsSeq
<1> HIDE DEF objects
<1>4. PICK at : EndsOf(at, objects, flat) BY <1>3, FlattenEnds
<1>5. flat \in Seq(Octet) BY <1>3, FlattenType
<1> HIDE DEF flat
<1>6. Len(flat) \in Nat BY <1>5, LenProperties
<1> DEFINE Moved == {i \in 0..n : ends[i] = 7 + at[i]}
<1>7. 0 \in Moved BY <1>4 DEF EndsOf, EndsIn
<1>8. ASSUME NEW i \in 0..(n - 1), i \in Moved PROVE i + 1 \in Moved
  <2>1. PICK j \in 1..n : j = i + 1 /\ j - 1 = i /\ j \in 0..n /\ i \in 0..n OBVIOUS
  <2>2. PICK k \in Nat : k = Len(Object(b, ends, j)) /\ ends[j] = ends[j - 1] + k
    <3>1. Between(Object(b, ends, j), b, l, ends[j - 1], ends[j]) BY ObjectBetween
    <3> QED BY <3>1 DEF Between
  <2>3. at[j] = at[j - 1] + k BY <1>3, <1>4, <2>2 DEF EndsOf
  <2>4. PICK x \in Nat : x = at[j - 1] BY <1>3, <1>4, <2>1 DEF EndsOf
  <2>5. ends[j - 1] = 7 + x BY <1>8, <2>1, <2>4
  <2>6. ends[j] = 7 + x + k /\ at[j] = x + k BY <2>2, <2>3, <2>4, <2>5
  <2>7. 7 + x + k = 7 + (x + k) OBVIOUS
  <2>8. ends[j] = 7 + at[j] BY <2>6, <2>7
  <2> QED BY <2>1, <2>8
<1>9. n \in Moved
  <2> HIDE DEF Moved
  <2> QED BY <1>7, <1>8, Induction
<1>10. l = 7 + Len(flat) BY <1>3, <1>4, <1>9 DEF EndsOf, EndsIn
<1>11. Len(c) = 7 + Len(flat)
  <2>1. first \in Seq(Nat) /\ Len(first) = 1 OBVIOUS
  <2>2. count \in Seq(Nat) /\ Len(count) = 1 BY <1>3
  <2> HIDE DEF first, count
  <2>3. header \in Seq(Nat) /\ flat \in Seq(Nat) BY <1>2, <1>5, OctetsAreNumbers
  <2> DEFINE front == first \o header
             head == front \o count
  <2>4. front \in Seq(Nat) /\ Len(front) = Len(first) + Len(header) BY <2>1, <2>3, NumbersBehind
  <2> HIDE DEF front
  <2>5. head \in Seq(Nat) /\ Len(head) = Len(front) + Len(count) BY <2>2, <2>4, NumbersBehind
  <2> HIDE DEF head
  <2>6. Len(head \o flat) = Len(head) + Len(flat) BY <2>3, <2>5, NumbersBehind
  <2>7. Len(head) = 7 BY <1>2, <2>1, <2>2, <2>4, <2>5
  <2> QED BY <2>6, <2>7 DEF head, front
<1> QED BY <1>1, <1>10, <1>11

\* Where two buffers agree, the same is read.
LEMMA SameIdentification ==
  ASSUME NEW b \in Seq(Octet), NEW l \in Nat, NEW n \in Nat, NEW e, EndsIn(b, l, n, e),
         NEW c \in Seq(Octet), NEW k \in Nat, NEW m \in Nat, NEW f, EndsIn(c, k, m, f),
         \A i \in 1..l : i <= k => b[i] = c[i]
  PROVE  l = k /\ ReadIdentification(b, n, e) = ReadIdentification(c, m, f)
<1>1. n = m /\ l = k /\ \A i \in 0..n : e[i] = f[i] BY SameEnds
<1>2. \A i \in 1..l : b[i] = c[i] BY <1>1
<1>3. l >= 7 /\ l <= Len(b) /\ l <= Len(c) /\ Len(b) \in Nat /\ Len(c) \in Nat BY <1>1, LenProperties DEF EndsIn
<1>4. Part(b, 2, 5) = Part(c, 2, 5)
  <2>1. PICK p \in Seq(Octet), q \in Seq(Octet) :
          p = Part(b, 2, 5) /\ q = Part(c, 2, 5) /\ Slice(p, b, 1, 5) /\ Slice(q, c, 1, 5)
    <3>1. Len(b) >= 7 /\ Len(c) >= 7 BY <1>3
    <3> QED BY <3>1, HeaderPart
  <2>2. \A i \in 1..5 : 1 + i \in 1..l BY <1>3
  <2>3. \A i \in 1..5 : p[i] = q[i] BY <1>2, <2>1, <2>2 DEF Slice
  <2>4. p = q BY <2>1, <2>3, SeqEqual, SMTT(30) DEF Slice
  <2> QED BY <2>1, <2>4
<1>5. ASSUME NEW i \in 1..n PROVE Object(b, e, i) = Object(c, f, i)
  <2>1. i \in 1..m /\ i - 1 \in 0..n /\ i \in 0..n BY <1>1
  <2>2. e[i - 1] = f[i - 1] /\ e[i] = f[i] BY <1>1, <2>1
  <2>3. Between(Object(b, e, i), b, l, e[i - 1], e[i]) BY ObjectBetween
  <2>4. Between(Object(c, f, i), c, k, f[i - 1], f[i]) BY <2>1, ObjectBetween
  <2>5. PICK s, t, x, y : /\ s = Object(b, e, i) /\ Between(s, b, l, x, y)
                          /\ t = Object(c, f, i) /\ Between(t, c, k, x, y)
    BY <2>2, <2>3, <2>4
  <2>6. Len(s) = Len(t) BY <2>5 DEF Between
  <2>7. \A j \in 1..Len(s) : s[j] = t[j] BY <1>2, <2>5, <2>6 DEF Between
  <2>8. s \in Seq(Octet) /\ t \in Seq(Octet) BY <2>5 DEF Between
  <2> QED BY <2>5, <2>6, <2>7, <2>8, SeqEqual
<1>6. [i \in 1..n |-> SubSeq(b, e[i - 1] + 1, e[i])] = [i \in 1..m |-> SubSeq(c, f[i - 1] + 1, f[i])]
  BY <1>1, <1>5 DEF Object
<1>7. b[1] = c[1]
  <2>1. 1 \in 1..l BY <1>3
  <2> QED BY <1>2, <2>1
<1> QED BY <1>1, <1>4, <1>6, <1>7 DEF ReadIdentification

\* A device identification is read as it was sent.
LEMMA IdentificationRead ==
  ASSUME NEW c \in Seq(Octet), NEW body, NEW n \in Nat, NEW ends, IdentificationContent(c, body, n, ends),
         NEW p \in Seq(Octet), NEW l \in Nat, \A i \in 1..l : i <= Len(c) => p[i] = c[i],
         NEW m \in Nat, NEW at, EndsIn(p, l, m, at)
  PROVE  l = Len(c) /\ ReadIdentification(p, m, at) = body
<1>1. EndsAt(c, n, ends) /\ body = ReadIdentification(c, n, ends)
  BY DEF IdentificationContent, ReadIdentification
<1>2. PICK k \in Nat : k = Len(c) BY LenProperties
<1>3. EndsIn(c, k, n, ends)
  <2>1. k >= 7 BY <1>1, <1>2 DEF EndsAt
  <2>2. k \in 7..Len(c) BY <1>2, <2>1
  <2> QED BY <1>1, <1>2, <2>2 DEF EndsAt, EndsIn
<1>4. \A i \in 1..l : i <= k => p[i] = c[i] BY <1>2
<1>5. l = k /\ ReadIdentification(p, m, at) = ReadIdentification(c, n, ends)
  BY <1>3, <1>4, SameIdentification
<1> QED BY <1>1, <1>2, <1>5

\* What a response with data says, byte for byte.
LEMMA DataRead ==
  ASSUME NEW c \in Seq(Octet), NEW body, NEW data \in Seq(Octet), DataContent(c, body, data),
         NEW p \in Seq(Octet), Len(p) >= Len(c), \A i \in 1..Len(c) : p[i] = c[i],
         ResponseBody(p) # Null
  PROVE  ResponseBody(p) = body
<1>1. /\ body = [fc |-> c[1], data |-> data] /\ c[1] \in 1..4
      /\ c[2] = Len(data) /\ Len(c) = 2 + Len(data) /\ StandsAt(c, 2, data)
  BY DEF DataContent
<1>2. PICK n \in Nat, l \in Nat, k \in Nat : n = Len(data) /\ l = Len(p) /\ k = Len(c) BY LenProperties
<1>3. k = 2 + n /\ l >= 2 + n BY <1>1, <1>2
<1>4. p[1] = c[1] /\ p[2] = n
  <2>1. 1 \in 1..k /\ 2 \in 1..k BY <1>3
  <2> QED BY <1>1, <1>2, <2>1
<1>5. Part(p, 3, p[2]) = data
  <2>1. \A i \in 1..n : 2 + i \in 1..k BY <1>3
  <2>2. \A i \in 1..n : p[2 + i] = data[i] BY <1>1, <1>2, <2>1 DEF StandsAt
  <2>3. StandsAt(p, 2, data) BY <1>2, <1>3, <2>2 DEF StandsAt
  <2>4. PICK a \in Nat : a = 2 OBVIOUS
  <2>5. Part(p, a + 1, Len(data)) = data BY <2>3, <2>4, PartIs
  <2>6. a + 1 = 3 BY <2>4
  <2> QED BY <1>2, <1>4, <2>5, <2>6
<1>6. ResponseBody(p) = [fc |-> p[1], data |-> Part(p, 3, p[2])]
  <2>1. p # <<>> BY DEF ResponseBody
  <2>2. p[1] \in 1..4 BY <1>1, <1>4
  <2>3. CASE p[1] = 1
    <3>1. ResponseBody(p) = BitsResponse(p) BY <2>1, <2>3 DEF ResponseBody, FC, ReadCoilsResponse
    <3> QED BY <3>1 DEF BitsResponse
  <2>4. CASE p[1] = 2
    <3>1. ResponseBody(p) = BitsResponse(p) BY <2>1, <2>4 DEF ResponseBody, FC, ReadDiscreteInputsResponse
    <3> QED BY <3>1 DEF BitsResponse
  <2>5. CASE p[1] = 3
    <3>1. ResponseBody(p) = ReadHoldingRegistersResponse(p) BY <2>1, <2>5 DEF ResponseBody, FC
    <3> QED BY <3>1 DEF ReadHoldingRegistersResponse
  <2>6. CASE p[1] = 4
    <3>1. ResponseBody(p) = ReadInputRegistersResponse(p) BY <2>1, <2>6 DEF ResponseBody, FC
    <3> QED BY <3>1 DEF ReadInputRegistersResponse
  <2> QED BY <2>2, <2>3, <2>4, <2>5, <2>6
<1> QED BY <1>1, <1>4, <1>5, <1>6

\* An answer to a write.
LEMMA WrittenRead ==
  ASSUME NEW c \in Seq(Octet), NEW body,
         NEW p \in Seq(Octet), Len(c) = 5, Len(p) >= 5, \A i \in 1..5 : p[i] = c[i],
         \/ c[1] \in {5, 6} /\ body = [fc |-> c[1], at |-> Uint16(c, 2), value |-> Uint16(c, 4)]
         \/ c[1] \in {15, 16} /\ body = [fc |-> c[1], at |-> Uint16(c, 2), n |-> Uint16(c, 4)]
  PROVE  Means(body, ResponseBody(p))
<1>1. p # <<>> /\ p[1] = c[1]
  <2>1. Len(p) \in Nat BY LenProperties
  <2>2. Len(p) # 0 /\ 1 \in 1..5 BY <2>1
  <2> QED BY <2>2, EmptySeq
<1>2. Uint16(p, 2) = Uint16(c, 2) /\ Uint16(p, 4) = Uint16(c, 4)
  <2>1. 2 \in 1..5 /\ 2 + 1 \in 1..5 /\ 4 \in 1..5 /\ 4 + 1 \in 1..5 OBVIOUS
  <2> QED BY <2>1 DEF Uint16
<1>3. CASE c[1] = 5 /\ body = [fc |-> c[1], at |-> Uint16(c, 2), value |-> Uint16(c, 4)]
  <2>1. ResponseBody(p) = WriteSingleCoilResponse(p) BY <1>1, <1>3 DEF ResponseBody, FC
  <2>2. ResponseBody(p) = [fc |-> 5, at |-> Uint16(c, 2), value |-> IF Uint16(c, 4) = On THEN On ELSE 0]
    BY <1>1, <1>2, <1>3, <2>1 DEF WriteSingleCoilResponse
  <2>3. CASE Uint16(c, 4) \in {0, On}
    <3>1. ResponseBody(p) = body BY <1>3, <2>2, <2>3
    <3> QED BY <3>1 DEF Means
  <2>4. CASE Uint16(c, 4) \notin {0, On}
    <3>1. ResponseBody(p) = [fc |-> 5, at |-> Uint16(c, 2), value |-> 0] BY <2>2, <2>4
    <3>2. ResponseBody(p) = [body EXCEPT !.value = 0] BY <1>3, <3>1
    <3>3. body.fc = FC.WRITE_SINGLE_COIL /\ body.value \notin {0, On} BY <1>3, <2>4 DEF FC
    <3> QED BY <3>2, <3>3 DEF Means
  <2> QED BY <2>3, <2>4
<1>4. CASE c[1] = 6 /\ body = [fc |-> c[1], at |-> Uint16(c, 2), value |-> Uint16(c, 4)]
  <2>1. ResponseBody(p) = WriteSingleRegisterResponse(p) BY <1>1, <1>4 DEF ResponseBody, FC
  <2>2. ResponseBody(p) = body BY <1>1, <1>2, <1>4, <2>1 DEF WriteSingleRegisterResponse
  <2> QED BY <2>2 DEF Means
<1>5. CASE c[1] \in {15, 16} /\ body = [fc |-> c[1], at |-> Uint16(c, 2), n |-> Uint16(c, 4)]
  <2>1. ResponseBody(p) = [fc |-> p[1], at |-> Uint16(p, 2), n |-> Uint16(p, 4)]
    <3>1. CASE c[1] = 15
      <4>1. ResponseBody(p) = WriteMultipleCoilsResponse(p) BY <1>1, <3>1 DEF ResponseBody, FC
      <4> QED BY <4>1 DEF WriteMultipleCoilsResponse
    <3>2. CASE c[1] = 16
      <4>1. ResponseBody(p) = WriteMultipleRegistersResponse(p) BY <1>1, <3>2 DEF ResponseBody, FC
      <4> QED BY <4>1 DEF WriteMultipleRegistersResponse
    <3> QED BY <1>5, <3>1, <3>2
  <2>2. ResponseBody(p) = body BY <1>1, <1>2, <1>5, <2>1
  <2> QED BY <2>2 DEF Means
<1> QED BY <1>3, <1>4, <1>5

\* Refusals.
LEMMA RefusalRead ==
  ASSUME NEW c \in Seq(Octet), NEW body,
         \/ Len(c) = 2 /\ c[1] \in Refusals /\ body = [fc |-> c[1], code |-> c[2]]
         \/ Len(c) = 3 /\ c[1] = 171 /\ body = [fc |-> c[1], meiType |-> c[2], code |-> c[3]],
         NEW p \in Seq(Octet), Len(p) >= Len(c), \A i \in 1..Len(c) : p[i] = c[i],
         Len(c) = 2 /\ c[1] = 171 => Len(p) = 2
  PROVE  ResponseBody(p) = body
<1>1. PICK k \in Nat, l \in Nat : k = Len(c) /\ l = Len(p) /\ k >= 2 /\ l >= k BY LenProperties
<1>2. 1 \in 1..k /\ 2 \in 1..k BY <1>1
<1>3. p[1] = c[1] /\ p[2] = c[2] BY <1>1, <1>2
<1>4. PICK x \in Nat : x = c[1] /\ x > 128 /\ x - 128 \in FunctionCodes
  <2>1. c[1] \in Refusals
    <3>1. c[1] \in Refusals \/ c[1] = 171 OBVIOUS
    <3> QED BY <3>1, IdentificationCode
  <2>2. PICK f \in FunctionCodes : c[1] = f + 128 BY <2>1 DEF Refusals
  <2>3. f \in Nat /\ f > 0 BY DEF FunctionCodes, FC
  <2>4. PICK x \in Nat : x = f + 128 /\ x > 128 /\ x - 128 = f BY <2>3
  <2>5. x = c[1] /\ x - 128 \in FunctionCodes BY <2>2, <2>4
  <2> QED BY <2>4, <2>5
<1>5. ResponseBody(p) = ExceptionResponse(p)
  <2>1. p # <<>> BY <1>1, EmptySeq
  <2> QED BY <1>3, <1>4, <2>1, ExceptionBody
<1>6. p[1] - 128 = x - 128 /\ ~(x - 128 \notin FunctionCodes \/ Len(p) < 2) BY <1>1, <1>3, <1>4
<1>7. CASE Len(c) = 2 /\ body = [fc |-> c[1], code |-> c[2]]
  <2>1. ~(x - 128 = 43 /\ Len(p) >= 3)
    <3>1. CASE x = 171
      <4>1. Len(p) = 2 BY <1>4, <1>7, <3>1
      <4> QED BY <4>1
    <3>2. CASE x # 171
      <4>1. x - 128 # 43 BY <3>2
      <4> QED BY <4>1
    <3> QED BY <3>1, <3>2
  <2>2. ExceptionResponse(p) = [fc |-> p[1], code |-> p[2]] BY <1>6, <2>1 DEF ExceptionResponse, FC
  <2> QED BY <1>3, <1>5, <1>7, <2>2
<1>8. CASE Len(c) = 3 /\ c[1] = 171 /\ body = [fc |-> c[1], meiType |-> c[2], code |-> c[3]]
  <2>1. x - 128 = 43 /\ Len(p) >= 3 /\ 3 \in 1..k BY <1>1, <1>4, <1>8
  <2>2. ExceptionResponse(p) = [fc |-> p[1], meiType |-> p[2], code |-> p[3]]
    BY <1>6, <2>1 DEF ExceptionResponse, FC
  <2>3. p[3] = c[3] BY <1>1, <2>1
  <2> QED BY <1>3, <1>5, <1>8, <2>2, <2>3
<1> QED BY <1>7, <1>8

\* Unknown function codes are never read.
LEMMA UnknownResponse ==
  ASSUME NEW p \in Seq(Octet), p # <<>>, p[1] \in 1..255 \ (FunctionCodes \cup Refusals)
  PROVE  ResponseBody(p) = Null
<1>1. PICK x \in 1..255 : x = p[1] /\ x \notin FunctionCodes \cup Refusals OBVIOUS
<1>2. CASE x > 128
  <2>1. p[1] - 128 \notin FunctionCodes
    <3>1. x - 128 + 128 = x OBVIOUS
    <3>2. x - 128 \notin FunctionCodes BY <1>1, <3>1 DEF Refusals
    <3> QED BY <1>1, <3>2
  <2>2. ResponseBody(p) = ExceptionResponse(p) BY <1>1, <1>2, ExceptionBody
  <2> QED BY <2>1, <2>2, IdentificationCode DEF ExceptionResponse, FC
<1>3. CASE ~(x > 128) BY <1>1, <1>3 DEF ResponseBody, FunctionCodes, FC
<1> QED BY <1>2, <1>3

\* What is read of a response that is there is what was asked for; the short
\* refusal of a device identification, only if nothing stands behind it.
LEMMA ResponseRead ==
  ASSUME NEW c \in Seq(Octet), NEW body, ResponseContent(c, body),
         NEW p \in Seq(Octet), Len(p) >= Len(c), \A i \in 1..Len(c) : p[i] = c[i],
         Len(c) = 2 /\ c[1] = 171 => Len(p) = 2, ResponseBody(p) # Null
  PROVE  Means(body, ResponseBody(p))
<1>1. CASE \E data \in Seq(Octet) : DataContent(c, body, data)
  <2>1. PICK data \in Seq(Octet) : DataContent(c, body, data) BY <1>1
  <2>2. ResponseBody(p) = body BY <2>1, DataRead
  <2> QED BY <2>2 DEF Means
<1>2. CASE \/ Len(c) = 5 /\ c[1] \in {5, 6} /\ body = [fc |-> c[1], at |-> Uint16(c, 2), value |-> Uint16(c, 4)]
           \/ Len(c) = 5 /\ c[1] \in {15, 16} /\ body = [fc |-> c[1], at |-> Uint16(c, 2), n |-> Uint16(c, 4)]
  <2>1. Len(c) = 5 /\ Len(p) >= 5 /\ \A i \in 1..5 : p[i] = c[i] BY <1>2
  <2> QED BY <1>2, <2>1, WrittenRead
<1>3. CASE \E n \in Nat : \E ends : IdentificationContent(c, body, n, ends)
  <2>1. PICK n \in Nat : \E ends : IdentificationContent(c, body, n, ends) BY <1>3
  <2>2. PICK ends : IdentificationContent(c, body, n, ends) BY <2>1
  <2>3. c[1] = 43 /\ Len(c) >= 7 BY <2>2 DEF IdentificationContent, EndsAt
  <2>4. p # <<>> /\ p[1] = 43
    <3>1. 1 \in 1..Len(c) BY <2>3, LenProperties
    <3> QED BY <2>3, <3>1 DEF ResponseBody
  <2>5. ResponseBody(p) = ReadDeviceIdentificationResponse(p) BY <2>4 DEF ResponseBody, FC
  <2>6. PICK m \in Nat, l \in Nat : \E at :
          /\ EndsIn(p, l, m, at)
          /\ ReadDeviceIdentificationResponse(p) =
               [fc |-> p[1], header |-> Part(p, 2, 5),
                objects |-> [i \in 1..m |-> SubSeq(p, at[i - 1] + 1, at[i])]]
    <3>1. ReadDeviceIdentificationResponse(p) # Null BY <2>5
    <3> QED BY <3>1, IdentificationParsed
  <2>7. PICK at :
          /\ EndsIn(p, l, m, at)
          /\ ReadDeviceIdentificationResponse(p) =
               [fc |-> p[1], header |-> Part(p, 2, 5),
                objects |-> [i \in 1..m |-> SubSeq(p, at[i - 1] + 1, at[i])]]
    BY <2>6
  <2>8. ResponseBody(p) = ReadIdentification(p, m, at) BY <2>5, <2>7 DEF ReadIdentification
  <2>9. \A i \in 1..l : i <= Len(c) => p[i] = c[i]
    <3>1. PICK k \in Nat : k = Len(c) BY LenProperties
    <3>2. \A i \in 1..l : i <= k => i \in 1..k OBVIOUS
    <3> QED BY <3>1, <3>2
  <2>10. ResponseBody(p) = body BY <2>2, <2>7, <2>8, <2>9, IdentificationRead
  <2> QED BY <2>10 DEF Means
<1>4. CASE \/ Len(c) = 2 /\ c[1] \in Refusals /\ body = [fc |-> c[1], code |-> c[2]]
           \/ Len(c) = 3 /\ c[1] = 171 /\ body = [fc |-> c[1], meiType |-> c[2], code |-> c[3]]
  <2>1. ResponseBody(p) = body BY <1>4, RefusalRead
  <2> QED BY <2>1 DEF Means
<1>5. CASE body.fc \in 1..255 \ (FunctionCodes \cup Refusals) /\ Len(c) >= 1 /\ c[1] = body.fc
  <2>1. 1 \in 1..Len(c) BY <1>5, LenProperties
  <2>2. p # <<>> /\ p[1] = c[1] BY <2>1 DEF ResponseBody
  <2> QED BY <1>5, <2>2, UnknownResponse
<1> QED BY <1>1, <1>2, <1>3, <1>4, <1>5 DEF ResponseContent

\* What a TCP client reads of a response that has arrived in part.
LEMMA ResponseReadEarly ==
  ASSUME NEW c \in Seq(Octet), NEW body, ResponseContent(c, body),
         NEW p \in Seq(Octet), Len(p) < Len(c), \A i \in 1..Len(p) : p[i] = c[i],
         reader = "tcpClient", chopped, ResponseBody(p) # Null
  PROVE  Means(body, ResponseBody(p))
<1>1. ResponseForm(c, body) BY FormOfContent
<1>2. ParsesEarly(body, Len(p) + 7) BY <1>1, ResponseFront
<1>3. \/ body.fc = 3 /\ Len(p) + 7 >= 9
      \/ "meiType" \in DOMAIN body /\ Len(p) + 7 = 9
  BY <1>2 DEF ParsesEarly, FC
<1>4. PICK l \in Nat, k \in Nat : l = Len(p) /\ k = Len(c) /\ l >= 2 /\ l < k
  <2>1. Len(p) \in Nat /\ Len(c) \in Nat BY LenProperties
  <2>2. Len(p) >= 2 BY <1>3, <2>1
  <2> QED BY <2>1, <2>2
<1>5. p # <<>> /\ p[1] = c[1] /\ p[2] = c[2]
  <2>1. 1 \in 1..l /\ 2 \in 1..l BY <1>4
  <2> QED BY <1>4, <2>1 DEF ResponseBody
<1>6. CASE \E data \in Seq(Octet) : DataContent(c, body, data)
  <2>1. PICK data \in Seq(Octet) : DataContent(c, body, data) BY <1>6
  <2>2. /\ body = [fc |-> c[1], data |-> data] /\ c[2] = Len(data)
        /\ Len(c) = 2 + Len(data) /\ StandsAt(c, 2, data)
    BY <2>1 DEF DataContent
  <2>3. c[1] = 3
    <3>1. body.fc = c[1] /\ "meiType" \notin DOMAIN body BY <2>2
    <3> QED BY <1>3, <3>1
  <2>4. ResponseBody(p) = [fc |-> p[1], data |-> Part(p, 3, p[2])]
    <3>1. ResponseBody(p) = ReadHoldingRegistersResponse(p) BY <1>5, <2>3 DEF ResponseBody, FC
    <3> QED BY <3>1 DEF ReadHoldingRegistersResponse
  <2>5. PICK n \in Nat, from \in Nat \ {0} : n = Len(data) /\ from = 3
    <3>1. Len(data) \in Nat /\ 3 \in Nat \ {0} BY LenProperties
    <3> QED BY <3>1
  <2> DEFINE s == Part(p, from, n)
  <2>6. /\ s \in Seq(Octet) /\ Len(s) \in Nat
        /\ Len(s) = IF n <= 0 \/ from > Len(p) THEN 0
                    ELSE IF from + n - 1 <= Len(p) THEN n ELSE Len(p) - from + 1
        /\ \A i \in 1..Len(s) : from + i - 1 \in 1..Len(p) /\ s[i] = p[from + i - 1]
    <3>1. n \in Int OBVIOUS
    <3> QED BY <3>1, PartType
  <2> HIDE DEF s
  <2>7. Len(s) <= n BY <1>4, <2>5, <2>6
  <2>8. \A i \in 1..Len(s) : s[i] = data[i]
    <3>1. \A i \in 1..Len(s) : from + i - 1 = 2 + i /\ i \in 1..Len(data) BY <2>5, <2>6, <2>7
    <3> QED BY <2>2, <2>6, <3>1 DEF StandsAt
  <2>9. IsPrefix(s, data)
    <3>1. Len(s) <= Len(data) BY <2>5, <2>7
    <3> QED BY <2>6, <2>8, <3>1, PrefixOf
  <2>10. ResponseBody(p).data = s BY <1>5, <2>2, <2>4, <2>5 DEF s
  <2>11. body.fc = FC.READ_HOLDING_REGISTERS /\ body.data = data BY <2>2, <2>3 DEF FC
  <2> QED BY <2>9, <2>10, <2>11 DEF Means
<1>7. CASE Len(c) = 3 /\ c[1] = 171 /\ body = [fc |-> c[1], meiType |-> c[2], code |-> c[3]]
  <2>1. l = 2 BY <1>4, <1>7
  <2>2. ResponseBody(p) = ExceptionResponse(p) BY <1>5, <1>7, ExceptionBody
  <2>3. p[1] - 128 = 43 /\ Len(p) = 2 BY <1>4, <1>5, <1>7, <2>1
  <2>4. p[1] - 128 \in FunctionCodes BY <2>3, IdentificationCode
  <2>5. ExceptionResponse(p) = [fc |-> p[1], code |-> p[2]] BY <2>3, <2>4 DEF ExceptionResponse, FC
  <2>6. /\ body.fc = c[1] /\ body.meiType = c[2] /\ "meiType" \in DOMAIN body BY <1>7
  <2>7. ResponseBody(p) = [fc |-> body.fc, code |-> body.meiType] BY <1>5, <2>2, <2>5, <2>6
  <2> QED BY <2>6, <2>7 DEF Means
<1>8. CASE body.fc \in 1..255 \ (FunctionCodes \cup Refusals) /\ Len(c) >= 1 /\ c[1] = body.fc
  BY <1>5, <1>8, UnknownResponse
<1>9. CASE \/ Len(c) = 5 /\ c[1] \in {5, 6} /\ body = [fc |-> c[1], at |-> Uint16(c, 2), value |-> Uint16(c, 4)]
           \/ Len(c) = 5 /\ c[1] \in {15, 16} /\ body = [fc |-> c[1], at |-> Uint16(c, 2), n |-> Uint16(c, 4)]
  <2>1. body.fc # 3 /\ "meiType" \notin DOMAIN body BY <1>9
  <2> QED BY <1>3, <2>1
<1>10. CASE \E n \in Nat : \E ends : IdentificationContent(c, body, n, ends)
  <2>1. body.fc # 3 /\ "meiType" \notin DOMAIN body BY <1>10 DEF IdentificationContent
  <2> QED BY <1>3, <2>1
<1>11. CASE Len(c) = 2 /\ c[1] \in Refusals /\ body = [fc |-> c[1], code |-> c[2]]
  BY <1>4, <1>11
<1> QED BY <1>6, <1>7, <1>8, <1>9, <1>10, <1>11 DEF ResponseContent

\* The length of data that were read, encoded again.
LEMMA DataSize ==
  ASSUME NEW x \in 1..4, NEW data \in Seq(Octet)
  PROVE  Len(ResponsePayload([fc |-> x, data |-> data])) = 2 + Len(data)
<1> DEFINE body == [fc |-> x, data |-> data]
           head == <<x, Len(data)>>
<1>1. body.fc = x /\ body.data = data /\ "raw" \notin DOMAIN body OBVIOUS
<1>2. ResponsePayload(body) = head \o data
  BY <1>1 DEF ResponsePayload, FC, ReadCoilsResponsePayload, ReadDiscreteInputsResponsePayload,
     ReadHoldingRegistersResponsePayload, ReadInputRegistersResponsePayload, DataPayload
<1>3. data \in Seq(Nat) /\ Len(data) \in Nat BY OctetsAreNumbers
<1>4. head \in Seq(Nat) /\ Len(head) = 2 BY <1>3
<1> HIDE DEF head, body
<1>5. Len(head \o data) = Len(head) + Len(data) BY <1>3, <1>4, NumbersBehind
<1> QED BY <1>2, <1>4, <1>5 DEF body

\* And of an answer to a write.
LEMMA WrittenSize ==
  ASSUME NEW b \in Seq(Octet), b # <<>>, b[1] \in {5, 6, 15, 16}, ResponseBody(b) # Null
  PROVE  Len(ResponsePayload(ResponseBody(b))) = 5
<1>1. PICK x \in Nat : x = b[1] /\ x \in {5, 6, 15, 16} OBVIOUS
<1>2. CASE x \in {5, 6}
  <2> DEFINE value == IF x = 5 THEN IF Uint16(b, 4) = On THEN On ELSE 0 ELSE Uint16(b, 4)
  <2>1. Len(b) >= 5 /\ ResponseBody(b) = [fc |-> x, at |-> Uint16(b, 2), value |-> value]
    <3>1. CASE x = 5 BY <1>1, <3>1 DEF ResponseBody, FC, WriteSingleCoilResponse
    <3>2. CASE x = 6 BY <1>1, <3>2 DEF ResponseBody, FC, WriteSingleRegisterResponse
    <3> QED BY <1>2, <3>1, <3>2
  <2>2. Uint16(b, 2) \in Nat /\ Uint16(b, 4) \in Nat BY <2>1, WriteResponseType
  <2>3. PICK y \in Nat, z \in Nat : y = Uint16(b, 2) /\ z = value
    <3>1. value \in Nat BY <2>2 DEF On
    <3> QED BY <2>2, <3>1
  <2> HIDE DEF value
  <2>4. ResponseBody(b) = [fc |-> x, at |-> y, value |-> z] BY <2>1, <2>3
  <2>5. ResponsePayload([fc |-> x, at |-> y, value |-> z]) = <<x>> \o Word(y) \o Word(z)
    BY <1>2 DEF ResponsePayload, FC, WriteSingleCoilResponsePayload,
       WriteSingleRegisterResponsePayload, WritePayload
  <2>6. Len(<<x>> \o Word(y) \o Word(z)) = 5 BY WordsOf
  <2> QED BY <2>4, <2>5, <2>6
<1>3. CASE x \in {15, 16}
  <2>1. Len(b) >= 5 /\ ResponseBody(b) = [fc |-> x, at |-> Uint16(b, 2), n |-> Uint16(b, 4)]
    <3>1. CASE x = 15 BY <1>1, <3>1 DEF ResponseBody, FC, WriteMultipleCoilsResponse
    <3>2. CASE x = 16 BY <1>1, <3>2 DEF ResponseBody, FC, WriteMultipleRegistersResponse
    <3> QED BY <1>3, <3>1, <3>2
  <2>2. PICK y \in Nat, z \in Nat : y = Uint16(b, 2) /\ z = Uint16(b, 4) BY <2>1, WriteResponseType
  <2>3. ResponseBody(b) = [fc |-> x, at |-> y, n |-> z] BY <2>1, <2>2
  <2>4. ResponsePayload([fc |-> x, at |-> y, n |-> z]) = <<x>> \o Word(y) \o Word(z)
    BY <1>3 DEF ResponsePayload, FC, WriteMultipleCoilsResponsePayload,
       WriteMultipleRegistersResponsePayload, ReadPayload
  <2>5. Len(<<x>> \o Word(y) \o Word(z)) = 5 BY WordsOf
  <2> QED BY <2>3, <2>4, <2>5
<1> QED BY <1>1, <1>2, <1>3

\* What begins like a response, and ends within it when it is encoded again, is
\* all of it: what an RTU client, which knows no lengths, reads.
LEMMA ResponseReadAgain ==
  ASSUME NEW c \in Seq(Octet), NEW body, ResponseContent(c, body),
         NEW p \in Seq(Octet), ResponseBody(p) # Null,
         NEW g \in Nat, g = Len(ResponsePayload(ResponseBody(p))), g <= Len(c), g + 2 <= Len(p),
         \A i \in 1..Len(c) : i <= g + 2 => p[i] = c[i]
  PROVE  Means(body, ResponseBody(p))
<1>1. PICK k \in Nat, l \in Nat : k = Len(c) /\ l = Len(p) BY LenProperties
<1>2. g >= 2 BY ResponseEncodes
<1>3. k >= 2 /\ l >= 4 /\ p # <<>> /\ p[1] = c[1] /\ p[2] = c[2] /\ \A i \in 1..k : i <= 4 => p[i] = c[i]
  <2>1. k >= 2 /\ l >= 4 BY <1>1, <1>2
  <2>2. \A i \in 1..k : i <= 4 => i <= g + 2 BY <1>2
  <2>3. \A i \in 1..k : i <= 4 => p[i] = c[i] BY <1>1, <2>2
  <2>4. 1 \in 1..k /\ 2 \in 1..k BY <2>1
  <2> QED BY <2>1, <2>3, <2>4 DEF ResponseBody
<1>4. k <= g + 2 /\ ~(k = 2 /\ c[1] = 171)
  <2>1. CASE \E data \in Seq(Octet) : DataContent(c, body, data)
    <3>1. PICK data \in Seq(Octet) : DataContent(c, body, data) BY <2>1
    <3>2. c[1] \in 1..4 /\ c[2] = Len(data) /\ Len(c) = 2 + Len(data) BY <3>1 DEF DataContent
    <3>3. PICK n \in Nat, from \in Nat \ {0} : n = Len(data) /\ from = 3
      <4>1. Len(data) \in Nat /\ 3 \in Nat \ {0} BY LenProperties
      <4> QED BY <4>1
    <3>4. PICK x \in 1..4 : x = p[1] BY <1>3, <3>2
    <3> DEFINE s == Part(p, from, n)
    <3>5. ResponseBody(p) = [fc |-> x, data |-> s]
      <4>1. ResponseBody(p) = [fc |-> p[1], data |-> Part(p, 3, p[2])]
        <5>1. CASE x = 1
          <6>1. ResponseBody(p) = BitsResponse(p) BY <1>3, <3>4, <5>1 DEF ResponseBody, FC, ReadCoilsResponse
          <6> QED BY <6>1 DEF BitsResponse
        <5>2. CASE x = 2
          <6>1. ResponseBody(p) = BitsResponse(p)
            BY <1>3, <3>4, <5>2 DEF ResponseBody, FC, ReadDiscreteInputsResponse
          <6> QED BY <6>1 DEF BitsResponse
        <5>3. CASE x = 3
          <6>1. ResponseBody(p) = ReadHoldingRegistersResponse(p) BY <1>3, <3>4, <5>3 DEF ResponseBody, FC
          <6> QED BY <6>1 DEF ReadHoldingRegistersResponse
        <5>4. CASE x = 4
          <6>1. ResponseBody(p) = ReadInputRegistersResponse(p) BY <1>3, <3>4, <5>4 DEF ResponseBody, FC
          <6> QED BY <6>1 DEF ReadInputRegistersResponse
        <5> QED BY <5>1, <5>2, <5>3, <5>4
      <4> QED BY <1>3, <3>2, <3>3, <3>4, <4>1
    <3>6. /\ s \in Seq(Octet) /\ Len(s) \in Nat
          /\ Len(s) = IF n <= 0 \/ from > Len(p) THEN 0
                      ELSE IF from + n - 1 <= Len(p) THEN n ELSE Len(p) - from + 1
      <4>1. n \in Int OBVIOUS
      <4> QED BY <4>1, PartType
    <3> HIDE DEF s
    <3>7. g = 2 + Len(s) BY <3>5, <3>6, DataSize
    <3>8. Len(s) = n
      <4>1. CASE n = 0 BY <3>6, <4>1
      <4>2. CASE n # 0
        <5>1. PICK d \in Nat : d = Len(s) BY <3>6
        <5>2. d + 4 <= l BY <1>1, <3>7, <5>1
        <5>3. d = IF from + n - 1 <= l THEN n ELSE l - from + 1 BY <1>1, <1>3, <3>3, <3>6, <4>2, <5>1
        <5> QED BY <3>3, <5>1, <5>2, <5>3
      <4> QED BY <4>1, <4>2
    <3>9. k = g BY <1>1, <3>2, <3>3, <3>7, <3>8
    <3>10. c[1] # 171 BY <3>2
    <3> QED BY <3>9, <3>10
  <2>2. CASE Len(c) = 5 /\ c[1] \in {5, 6, 15, 16}
    <3>1. g = 5 BY <1>3, <2>2, WrittenSize
    <3> QED BY <1>1, <2>2, <3>1
  <2>3. CASE \E n \in Nat : \E ends : IdentificationContent(c, body, n, ends)
    <3>1. PICK n \in Nat : \E ends : IdentificationContent(c, body, n, ends) BY <2>3
    <3>2. PICK ends : IdentificationContent(c, body, n, ends) BY <3>1
    <3>3. c[1] = 43 BY <3>2 DEF IdentificationContent
    <3>4. ResponseBody(p) = ReadDeviceIdentificationResponse(p) BY <1>3, <3>3 DEF ResponseBody, FC
    <3>5. PICK m \in Nat, d \in Nat : \E at :
            /\ EndsIn(p, d, m, at)
            /\ ReadDeviceIdentificationResponse(p) =
                 [fc |-> p[1], header |-> Part(p, 2, 5),
                  objects |-> [i \in 1..m |-> SubSeq(p, at[i - 1] + 1, at[i])]]
      <4>1. ReadDeviceIdentificationResponse(p) # Null BY <3>4
      <4> QED BY <4>1, IdentificationParsed
    <3>6. PICK at :
            /\ EndsIn(p, d, m, at)
            /\ ReadDeviceIdentificationResponse(p) =
                 [fc |-> p[1], header |-> Part(p, 2, 5),
                  objects |-> [i \in 1..m |-> SubSeq(p, at[i - 1] + 1, at[i])]]
      BY <3>5
    <3>7. ResponseBody(p) = ReadIdentification(p, m, at) BY <3>4, <3>6 DEF ReadIdentification
    <3>8. g = d BY <1>3, <3>3, <3>6, <3>7, IdentificationSize
    <3>9. \A i \in 1..d : i <= Len(c) => p[i] = c[i]
      <4>1. \A i \in 1..d : i <= k => i \in 1..k /\ i <= g + 2 BY <3>8
      <4> QED BY <1>1, <4>1
    <3>10. d = Len(c) BY <3>2, <3>6, <3>9, IdentificationRead
    <3> QED BY <1>1, <3>3, <3>8, <3>10
  <2>4. CASE Len(c) = 2 /\ c[1] \in Refusals /\ body = [fc |-> c[1], code |-> c[2]]
    <3>1. CASE c[1] = 171
      <4>1. ResponseBody(p) = ExceptionResponse(p) BY <1>3, <3>1, ExceptionBody
      <4>2. p[1] - 128 = 43 /\ Len(p) >= 3 BY <1>1, <1>3, <3>1
      <4>3. p[1] - 128 \in FunctionCodes BY <4>2, IdentificationCode
      <4>4. ExceptionResponse(p) = [fc |-> p[1], meiType |-> p[2], code |-> p[3]]
        BY <4>2, <4>3 DEF ExceptionResponse, FC
      <4>5. PICK x, y, z : x = p[1] /\ y = p[2] /\ z = p[3] OBVIOUS
      <4>6. ResponsePayload([fc |-> 171, meiType |-> y, code |-> z]) = <<171, y, z>>
        BY DEF ResponsePayload, ExceptionPayload, FC
      <4>7. ResponseBody(p) = [fc |-> 171, meiType |-> y, code |-> z] BY <1>3, <3>1, <4>1, <4>4, <4>5
      <4>8. g = 3 BY <4>6, <4>7
      <4> QED BY <2>4, <4>8
    <3>2. CASE c[1] # 171 BY <1>1, <1>2, <2>4, <3>2
    <3> QED BY <3>1, <3>2
  <2>5. CASE Len(c) = 3 BY <1>1, <1>2, <2>5
  <2>6. CASE body.fc \in 1..255 \ (FunctionCodes \cup Refusals) /\ Len(c) >= 1 /\ c[1] = body.fc
    BY <1>3, <2>6, UnknownResponse
  <2> QED BY <2>1, <2>2, <2>3, <2>4, <2>5, <2>6 DEF ResponseContent
<1>5. Len(p) >= Len(c) BY <1>1, <1>4
<1>6. \A i \in 1..Len(c) : p[i] = c[i]
  <2>1. \A i \in 1..k : i <= g + 2 BY <1>4
  <2> QED BY <1>1, <2>1
<1>7. ~(Len(c) = 2 /\ c[1] = 171) BY <1>1, <1>4
<1> QED BY <1>5, <1>6, <1>7, ResponseRead

-----------------------------------------------------------------------------
(* Frames around them.                                                       *)

\* The frame of a TCP message around its body.
Framed(id, c) == Word(id) \o Word(0) \o Word(Len(c) + 1) \o <<Unit>> \o c

\* Seven bytes, the last two but one of them the length of the body and 1,
\* and the body behind them.
LEMMA FrameLayout ==
  ASSUME NEW id \in Nat, NEW c, IsSequence(c)
  PROVE  /\ IsSequence(Framed(id, c)) /\ Len(Framed(id, c)) = 7 + Len(c)
         /\ Uint16(Framed(id, c), 5) = Len(c) + 1
         /\ \A i \in 1..Len(c) : Framed(id, c)[7 + i] = c[i]
<1>1. PICK S : c \in Seq(S) BY DEF IsSequence
<1>2. PICK n \in Nat : n = Len(c) BY <1>1, LenProperties
<1> DEFINE head == Word(id) \o Word(0) \o Word(n + 1) \o <<Unit>>
           T == Nat \cup S
<1>3. Len(head) = 7 /\ head[5] = (n + 1) \div 256 /\ head[6] = (n + 1) % 256 BY DEF Word, Unit
<1>4. head \in Seq(Nat) /\ Len(head) = 7 /\ Uint16(head, 5) = n + 1
  <2>1. head \in Seq(Nat)
    <3> DEFINE front == Word(id) \o Word(0) \o Word(n + 1)
               unit == <<Unit>>
    <3>1. Word(id) \in Seq(Nat) /\ Word(0) \in Seq(Nat) /\ Word(n + 1) \in Seq(Nat) BY DEF Word
    <3>2. unit \in Seq(Nat) BY DEF Unit
    <3>3. Word(id) \o Word(0) \in Seq(Nat) BY <3>1, NumbersBehind
    <3>4. front \in Seq(Nat) BY <3>1, <3>3, NumbersBehind
    <3> HIDE DEF front, unit
    <3>5. front \o unit \in Seq(Nat) BY <3>2, <3>4, NumbersBehind
    <3> QED BY <3>5 DEF front, unit
  <2>2. \A k \in Nat : 256 * (k \div 256) + (k % 256) = k OBVIOUS
  <2>3. n + 1 \in Nat OBVIOUS
  <2> HIDE DEF head
  <2> QED BY <1>3, <2>1, <2>2, <2>3 DEF Uint16
<1> HIDE DEF head
<1>5. head \in Seq(T) /\ c \in Seq(T) BY <1>1, <1>4, SeqMonotonic
<1> HIDE DEF T
<1> DEFINE e == head \o c
<1>6. /\ e \in Seq(T) /\ Len(e) = Len(head) + Len(c)
      /\ \A i \in 1..Len(head) : i \in 1..Len(e) /\ e[i] = head[i]
      /\ \A j \in 1..Len(c) : Len(head) + j \in 1..Len(e) /\ e[Len(head) + j] = c[j]
      /\ \A i \in 1..Len(e) : i \in 1..Len(head) \/ \E j \in 1..Len(c) : i = Len(head) + j
  BY <1>5, ConcatType
<1> HIDE DEF e
<1>7. e = Framed(id, c) BY <1>2 DEF e, head, Framed
<1>8. Uint16(e, 5) = n + 1
  <2>1. 5 \in 1..7 /\ 6 \in 1..7 /\ 5 + 1 = 6 OBVIOUS
  <2>2. e[5] = head[5] /\ e[6] = head[6] BY <2>1, <1>4, <1>6
  <2> QED BY <2>1, <2>2, <1>4 DEF Uint16
<1>9. Len(e) = 7 + Len(c) /\ \A i \in 1..Len(c) : e[7 + i] = c[i] BY <1>4, <1>6
<1>10. IsSequence(e) BY <1>6 DEF IsSequence
<1> QED BY <1>2, <1>7, <1>8, <1>9, <1>10

\* A request is its body in a frame.
LEMMA RequestFramed ==
  ASSUME NEW id, NEW body, NEW memory, IsCut(body, memory)
  PROVE  TcpRequestPayload(id, Unit, body, memory) = Framed(id, Cut(body, memory))
BY DEF IsCut, TcpRequestPayload, Framed, Cut

\* Part of a frame in front, its body behind the seven bytes.
LEMMA FrameBody ==
  ASSUME NEW n \in Nat, NEW b \in Seq(Octet), Len(b) >= 7, Uint16(b, 5) = n + 1
  PROVE  /\ TcpBody(b) \in Seq(Octet)
         /\ Len(TcpBody(b)) = IF n <= Len(b) - 7 THEN n ELSE Len(b) - 7
         /\ \A i \in 1..Len(TcpBody(b)) : 7 + i \in 1..Len(b) /\ TcpBody(b)[i] = b[7 + i]
<1>1. Len(b) \in Nat BY LenProperties
<1> DEFINE p == Part(b, 8, n)
<1>2. /\ p \in Seq(Octet) /\ Len(p) \in Nat
      /\ Len(p) = IF n <= 0 \/ 8 > Len(b) THEN 0
                  ELSE IF 8 + n - 1 <= Len(b) THEN n ELSE Len(b) - 8 + 1
      /\ \A i \in 1..Len(p) : 8 + i - 1 \in 1..Len(b) /\ p[i] = b[8 + i - 1]
  <2>1. n \in Int /\ 8 \in Nat \ {0} OBVIOUS
  <2> QED BY <2>1, PartType
<1>3. p = TcpBody(b)
  <2>1. Uint16(b, 5) - 1 = n OBVIOUS
  <2> QED BY <2>1 DEF TcpBody
<1> HIDE DEF p
<1>4. Len(p) = IF n <= Len(b) - 7 THEN n ELSE Len(b) - 7 BY <1>1, <1>2
<1>5. \A i \in 1..Len(p) : 8 + i - 1 = 7 + i BY <1>2
<1> QED BY <1>2, <1>3, <1>4, <1>5

\* The factory the reader hands a body to.
BodyOf(b) == IF reader = "tcpServer" THEN RequestBody(b) ELSE ResponseBody(b)

\* What a TCP reader makes of its buffer.
LEMMA TcpParse ==
  ASSUME reader \in {"tcpServer", "tcpClient"}, NEW b
  PROVE  Parse(b) = IF Len(b) < 7 \/ BodyOf(TcpBody(b)) = Null THEN Null
                    ELSE TcpFrame(b, BodyOf(TcpBody(b)))
<1>1. CASE reader = "tcpServer" BY <1>1 DEF Parse, TcpRequest, BodyOf
<1>2. CASE reader = "tcpClient" BY <1>2 DEF Parse, TcpResponse, BodyOf
<1> QED BY <1>1, <1>2

\* A body that parses when it is whole and not before, unless it parses early
\* or never.
Readable(c, body) ==
  /\ BodyOf(c) = Null => NeverParses(body)
  /\ \A p \in Seq(Octet) :
       Len(p) < Len(c) /\ (\A i \in 1..Len(p) : p[i] = c[i]) /\ ~ParsesEarly(body, Len(p) + 7) =>
         BodyOf(p) = Null

\* How a message in front of a buffer is read: all of it or nothing.
Speaks(e, body, b) ==
  /\ Len(b) >= Len(e) /\ (\A i \in 1..Len(e) : b[i] = e[i]) =>
       /\ Parse(b) # Null => Parse(b).consumed = Len(e)
       /\ Parse(b) = Null => NeverParses(body)
  /\ Len(b) < Len(e) /\ (\A i \in 1..Len(b) : b[i] = e[i]) /\ ~ParsesEarly(body, Len(b)) =>
       Parse(b) = Null

\* So is every readable body in its frame.
LEMMA FramedSpeaks ==
  ASSUME reader \in {"tcpServer", "tcpClient"}, NEW id \in Nat, NEW c \in Seq(Octet),
         NEW body, Readable(c, body), NEW b \in Seq(Octet)
  PROVE  Speaks(Framed(id, c), body, b)
<1> DEFINE e == Framed(id, c)
           p == TcpBody(b)
<1>1. PICK n \in Nat : n = Len(c) BY LenProperties
<1>2. Len(b) \in Nat BY LenProperties
<1>3. /\ Len(e) = 7 + n /\ Uint16(e, 5) = n + 1 /\ \A i \in 1..n : e[7 + i] = c[i]
  <2>1. IsSequence(c) BY DEF IsSequence
  <2> HIDE DEF e
  <2>2. /\ IsSequence(Framed(id, c)) /\ Len(Framed(id, c)) = 7 + Len(c)
        /\ Uint16(Framed(id, c), 5) = Len(c) + 1
        /\ \A i \in 1..Len(c) : Framed(id, c)[7 + i] = c[i]
    BY <2>1, FrameLayout
  <2> QED BY <2>2, <1>1 DEF e
<1> HIDE DEF e
<1>4. Parse(b) = IF Len(b) < 7 \/ BodyOf(p) = Null THEN Null ELSE TcpFrame(b, BodyOf(p)) BY TcpParse
<1>5. ASSUME Len(b) >= 7, b[5] = e[5], b[6] = e[6]
      PROVE  /\ Uint16(b, 5) = n + 1 /\ p \in Seq(Octet)
             /\ Len(p) = IF n <= Len(b) - 7 THEN n ELSE Len(b) - 7
             /\ \A i \in 1..Len(p) : 7 + i \in 1..Len(b) /\ p[i] = b[7 + i]
  <2>1. Uint16(b, 5) = n + 1 BY <1>3, <1>5 DEF Uint16
  <2>2. /\ TcpBody(b) \in Seq(Octet)
        /\ Len(TcpBody(b)) = IF n <= Len(b) - 7 THEN n ELSE Len(b) - 7
        /\ \A i \in 1..Len(TcpBody(b)) : 7 + i \in 1..Len(b) /\ TcpBody(b)[i] = b[7 + i]
    BY <1>5, <2>1, FrameBody
  <2> QED BY <2>1, <2>2
<1> HIDE DEF p
<1>6. ASSUME Len(b) >= Len(e), \A i \in 1..Len(e) : b[i] = e[i]
      PROVE  /\ Parse(b) # Null => Parse(b).consumed = Len(e)
             /\ Parse(b) = Null => NeverParses(body)
  <2>1. Len(b) >= 7 /\ 5 \in 1..Len(e) /\ 6 \in 1..Len(e) BY <1>2, <1>3, <1>6
  <2>2. /\ Uint16(b, 5) = n + 1 /\ p \in Seq(Octet)
        /\ Len(p) = IF n <= Len(b) - 7 THEN n ELSE Len(b) - 7
        /\ \A i \in 1..Len(p) : 7 + i \in 1..Len(b) /\ p[i] = b[7 + i]
    BY <1>5, <1>6, <2>1
  <2>3. Len(p) = n BY <1>2, <1>3, <1>6, <2>2
  <2>4. \A i \in 1..n : 7 + i \in 1..Len(e) BY <1>3
  <2>5. \A i \in 1..Len(p) : p[i] = c[i] BY <1>3, <1>6, <2>2, <2>3, <2>4
  <2>6. p = c BY <1>1, <2>2, <2>3, <2>5, SeqEqual
  <2>7. Parse(b) # Null => Parse(b).consumed = Len(e)
    <3>1. Uint16(b, 5) + 6 = Len(e) BY <1>3, <2>2
    <3>2. Parse(b) # Null => Parse(b).consumed = Uint16(b, 5) + 6 BY <1>4 DEF TcpFrame
    <3> QED BY <3>1, <3>2
  <2>8. Parse(b) = Null => NeverParses(body)
    <3>1. TcpFrame(b, BodyOf(p)) # Null
      <4>1. "consumed" \in DOMAIN TcpFrame(b, BodyOf(p)) BY DEF TcpFrame
      <4>2. "consumed" \notin DOMAIN Null BY DEF Null
      <4> QED BY <4>1, <4>2
    <3>2. Parse(b) = Null => BodyOf(p) = Null BY <1>2, <1>4, <2>1, <3>1
    <3> QED BY <2>6, <3>2 DEF Readable
  <2> QED BY <2>7, <2>8
<1>7. ASSUME Len(b) < Len(e), \A i \in 1..Len(b) : b[i] = e[i], ~ParsesEarly(body, Len(b))
      PROVE  Parse(b) = Null
  <2>1. CASE Len(b) < 7 BY <1>4, <2>1
  <2>2. CASE Len(b) >= 7
    <3>1. 5 \in 1..Len(b) /\ 6 \in 1..Len(b) BY <1>2, <2>2
    <3>2. /\ p \in Seq(Octet)
          /\ Len(p) = IF n <= Len(b) - 7 THEN n ELSE Len(b) - 7
          /\ \A i \in 1..Len(p) : 7 + i \in 1..Len(b) /\ p[i] = b[7 + i]
      BY <1>5, <1>7, <2>2, <3>1
    <3>3. Len(p) = Len(b) - 7 /\ Len(p) < n BY <1>2, <1>3, <1>7, <3>2
    <3>4. \A i \in 1..Len(p) : i \in 1..n BY <3>3, <1>2
    <3>5. \A i \in 1..Len(p) : p[i] = c[i] BY <1>3, <1>7, <3>2, <3>4
    <3>6. Len(p) + 7 = Len(b) BY <1>2, <3>3
    <3>7. BodyOf(p) = Null BY <1>1, <1>7, <3>2, <3>3, <3>5, <3>6 DEF Readable
    <3> QED BY <1>4, <3>7
  <2> QED BY <1>2, <2>1, <2>2
<1> QED BY <1>6, <1>7 DEF Speaks, e

\* A body whose frame is bytes is bytes.
LEMMA FramedBytes ==
  ASSUME NEW id \in Nat, NEW c, IsSequence(c), Framed(id, c) \in Seq(Octet)
  PROVE  c \in Seq(Octet)
<1> DEFINE e == Framed(id, c)
<1>1. /\ Len(e) = 7 + Len(c) /\ \A i \in 1..Len(c) : e[7 + i] = c[i]
  <2> HIDE DEF e
  <2>1. /\ IsSequence(Framed(id, c)) /\ Len(Framed(id, c)) = 7 + Len(c)
        /\ Uint16(Framed(id, c), 5) = Len(c) + 1
        /\ \A i \in 1..Len(c) : Framed(id, c)[7 + i] = c[i]
    BY FrameLayout
  <2> QED BY <2>1 DEF e
<1> HIDE DEF e
<1>2. PICK S : c \in Seq(S) BY DEF IsSequence
<1>3. PICK n \in Nat : n = Len(c) /\ DOMAIN c = 1..n /\ c = [i \in 1..n |-> c[i]]
  <2>1. Len(c) \in Nat /\ DOMAIN c = 1..Len(c) /\ c \in [1..Len(c) -> S] BY <1>2, LenProperties
  <2>2. c = [i \in 1..Len(c) |-> c[i]] BY <2>1
  <2> QED BY <2>1, <2>2
<1>4. \A i \in 1..n : c[i] \in Octet
  <2>1. \A i \in 1..n : 7 + i \in 1..Len(e) BY <1>1, <1>3
  <2>2. \A i \in 1..Len(e) : e[i] \in Octet BY ElementOfSeq DEF e
  <2> QED BY <1>1, <1>3, <2>1, <2>2
<1>5. c \in [1..n -> Octet] BY <1>3, <1>4
<1> QED BY <1>5, FunctionIsSeq

\* A body whose bytes, those that have arrived, mean what it says when they are
\* read at all.
Faithful(c, body) ==
  \A p \in Seq(Octet) :
    (/\ BodyOf(p) # Null /\ Len(p) <= Len(c) /\ \A i \in 1..Len(p) : p[i] = c[i]
     /\ Len(p) < Len(c) => chopped) => Means(body, BodyOf(p))

\* What is read of t bytes of a message means what the message says: of all of
\* them, or of fewer when it does not parse early or a data event ended there.
SaysOf(e, body, b, t) ==
  (/\ Parse(b) # Null /\ t = Len(Part(b, 1, Parse(b).consumed))
   /\ t <= Len(e) /\ \A i \in 1..t : b[i] = e[i]
   /\ t = Len(b) /\ Len(b) < Len(e) /\ ParsesEarly(body, Len(b)) => chopped) => Means(body, Parse(b).body)

\* So is every faithful body in its frame.
LEMMA FramedSays ==
  ASSUME reader \in {"tcpServer", "tcpClient"}, NEW id \in Nat, NEW c \in Seq(Octet),
         NEW body, Readable(c, body), Faithful(c, body), NEW b \in Seq(Octet), NEW t
  PROVE  SaysOf(Framed(id, c), body, b, t)
<1> DEFINE e == Framed(id, c)
           p == TcpBody(b)
           rest == (t = Len(b) /\ Len(b) < Len(e) /\ ParsesEarly(body, Len(b)) => chopped)
<1> SUFFICES ASSUME /\ Parse(b) # Null /\ t = Len(Part(b, 1, Parse(b).consumed))
                    /\ t <= Len(e) /\ \A i \in 1..t : b[i] = e[i]
                    /\ rest
             PROVE  Means(body, Parse(b).body)
  BY DEF SaysOf
<1>1. PICK n \in Nat : n = Len(c) BY LenProperties
<1>2. PICK l \in Nat : l = Len(b) BY LenProperties
<1>3. /\ Len(e) = 7 + n /\ Uint16(e, 5) = n + 1 /\ \A i \in 1..n : e[7 + i] = c[i]
  <2>1. IsSequence(c) BY DEF IsSequence
  <2> HIDE DEF e
  <2>2. /\ IsSequence(Framed(id, c)) /\ Len(Framed(id, c)) = 7 + Len(c)
        /\ Uint16(Framed(id, c), 5) = Len(c) + 1
        /\ \A i \in 1..Len(c) : Framed(id, c)[7 + i] = c[i]
    BY <2>1, FrameLayout
  <2> QED BY <2>2, <1>1 DEF e
<1> HIDE DEF e
<1>4. l >= 7 /\ BodyOf(p) # Null /\ Parse(b) = TcpFrame(b, BodyOf(p))
  <2>1. Parse(b) = IF Len(b) < 7 \/ BodyOf(p) = Null THEN Null ELSE TcpFrame(b, BodyOf(p)) BY TcpParse
  <2> HIDE DEF p
  <2> QED BY <1>2, <2>1
<1>5. PICK u \in Nat : u = Uint16(b, 5) /\ Parse(b).consumed = u + 6
  <2>1. 5 \in 1..(Len(b) - 1) BY <1>2, <1>4
  <2>2. Uint16(b, 5) \in Nat BY <2>1, WordType
  <2>3. Parse(b).consumed = Uint16(b, 5) + 6 BY <1>4 DEF TcpFrame
  <2> QED BY <2>2, <2>3
<1>6. t = IF u + 6 <= l THEN u + 6 ELSE l
  <2>1. PICK k \in Int, from \in Nat \ {0} : k = u + 6 /\ from = 1 /\ k > 0 OBVIOUS
  <2>2. Len(Part(b, from, k)) = IF k <= 0 \/ from > Len(b) THEN 0
              ELSE IF from + k - 1 <= Len(b) THEN k ELSE Len(b) - from + 1
    BY PartType
  <2>3. t = Len(Part(b, from, k)) BY <1>5, <2>1
  <2>4. ~(k <= 0 \/ from > l) BY <1>4, <2>1
  <2> QED BY <1>2, <2>1, <2>2, <2>3, <2>4
<1>7. u = n + 1
  <2>1. 5 \in 1..t /\ 5 + 1 \in 1..t BY <1>4, <1>6
  <2>2. b[5] = e[5] /\ b[5 + 1] = e[5 + 1] BY <2>1
  <2>3. Uint16(b, 5) = Uint16(e, 5) BY <2>2 DEF Uint16
  <2> QED BY <1>3, <1>5, <2>3
<1>8. /\ p \in Seq(Octet) /\ Len(p) = IF n <= l - 7 THEN n ELSE l - 7
      /\ \A i \in 1..Len(p) : 7 + i \in 1..l /\ p[i] = b[7 + i]
  <2>1. Len(b) >= 7 /\ Uint16(b, 5) = n + 1 BY <1>2, <1>4, <1>5, <1>7
  <2>2. /\ TcpBody(b) \in Seq(Octet)
        /\ Len(TcpBody(b)) = IF n <= Len(b) - 7 THEN n ELSE Len(b) - 7
        /\ \A i \in 1..Len(TcpBody(b)) : 7 + i \in 1..Len(b) /\ TcpBody(b)[i] = b[7 + i]
    BY <2>1, FrameBody
  <2> QED BY <1>2, <2>2
<1> HIDE DEF p
<1>9. t = 7 + Len(p) /\ Len(p) \in Nat /\ Len(p) <= n BY <1>4, <1>6, <1>7, <1>8
<1>10. \A i \in 1..Len(p) : p[i] = c[i]
  <2>1. \A i \in 1..Len(p) : 7 + i \in 1..t /\ i \in 1..n BY <1>9
  <2> QED BY <1>3, <1>8, <2>1
<1>11. Len(p) < Len(c) => chopped
  <2> SUFFICES ASSUME Len(p) < n PROVE chopped BY <1>1
  <2>1. Len(p) + 7 = l /\ l < 7 + n BY <1>4, <1>8
  <2>2. ParsesEarly(body, Len(p) + 7) BY <1>1, <1>4, <1>8, <1>10 DEF Readable
  <2>3. t = Len(b) BY <1>2, <1>9, <2>1
  <2> QED BY <1>2, <1>3, <2>1, <2>2, <2>3
<1>12. Means(body, BodyOf(p)) BY <1>1, <1>4, <1>8, <1>9, <1>10, <1>11 DEF Faithful
<1>13. Parse(b).body = BodyOf(p) BY <1>4 DEF TcpFrame
<1> QED BY <1>12, <1>13

\* Requests are faithful.
LEMMA RequestFaithful ==
  ASSUME NEW c \in Seq(Octet), NEW body, RequestForm(c, body), RequestContent(c, body), reader = "tcpServer"
  PROVE  Faithful(c, body)
<1> SUFFICES ASSUME NEW p \in Seq(Octet), BodyOf(p) # Null, Len(p) <= Len(c),
                    \A i \in 1..Len(p) : p[i] = c[i], Len(p) < Len(c) => chopped
             PROVE  Means(body, BodyOf(p))
  BY DEF Faithful
<1>1. RequestBody(p) # Null BY DEF BodyOf
<1>2. Len(p) < Len(c) => c[1] = 16
  <2> SUFFICES ASSUME Len(p) < Len(c) PROVE c[1] = 16 OBVIOUS
  <2>1. ParsesEarly(body, Len(p) + 7) BY <1>1, RequestFront
  <2>2. body.fc = 16 BY <2>1 DEF ParsesEarly, FC
  <2>3. 16 \in FunctionCodes
    <3>1. "WRITE_MULTIPLE_HOLDING_REGISTERS" \in DOMAIN FC /\ FC["WRITE_MULTIPLE_HOLDING_REGISTERS"] = 16 BY DEF FC
    <3> QED BY <3>1 DEF FunctionCodes
  <2> QED BY <2>2, <2>3 DEF RequestForm
<1>3. Means(body, RequestBody(p)) BY <1>1, <1>2, RequestRead
<1> QED BY <1>3 DEF BodyOf

\* Responses are faithful.
LEMMA ResponseFaithful ==
  ASSUME NEW c \in Seq(Octet), NEW body, ResponseContent(c, body), reader = "tcpClient"
  PROVE  Faithful(c, body)
<1> SUFFICES ASSUME NEW p \in Seq(Octet), BodyOf(p) # Null, Len(p) <= Len(c),
                    \A i \in 1..Len(p) : p[i] = c[i], Len(p) < Len(c) => chopped
             PROVE  Means(body, BodyOf(p))
  BY DEF Faithful
<1>1. ResponseBody(p) # Null BY DEF BodyOf
<1>2. CASE Len(p) < Len(c)
  <2>1. Means(body, ResponseBody(p)) BY <1>1, <1>2, ResponseReadEarly
  <2> QED BY <2>1 DEF BodyOf
<1>3. CASE ~(Len(p) < Len(c))
  <2>1. Len(p) = Len(c) BY <1>3, LenProperties
  <2>2. Means(body, ResponseBody(p)) BY <1>1, <2>1, ResponseRead
  <2> QED BY <2>2 DEF BodyOf
<1> QED BY <1>2, <1>3

-----------------------------------------------------------------------------
(* Bodies on the serial line.                                                *)

\* The bytes of a body on the serial line.
Serial(c, x, y) == (<<Unit>> \o c) \o <<x, y>>

\* They stand between the unit and the CRC.
LEMMA SerialLayout ==
  ASSUME NEW c, IsSequence(c), NEW x, NEW y, Serial(c, x, y) \in Seq(Octet)
  PROVE  LET e == Serial(c, x, y)
         IN c \in Seq(Octet) /\ Len(e) = Len(c) + 3 /\ \A i \in 1..Len(c) : e[1 + i] = c[i]
<1>1. PICK S : c \in Seq(S) BY DEF IsSequence
<1> DEFINE T == S \cup {Unit, x, y}
           unit == <<Unit>>
           crc == <<x, y>>
           f == unit \o c
           e == f \o crc
<1>2. c \in Seq(T) BY <1>1, SeqMonotonic
<1>3. unit \in Seq(T) /\ crc \in Seq(T) /\ Len(unit) = 1 /\ Len(crc) = 2 OBVIOUS
<1> HIDE DEF T, unit, crc
<1>4. /\ f \in Seq(T) /\ Len(f) = Len(unit) + Len(c)
      /\ \A i \in 1..Len(unit) : i \in 1..Len(f) /\ f[i] = unit[i]
      /\ \A j \in 1..Len(c) : Len(unit) + j \in 1..Len(f) /\ f[Len(unit) + j] = c[j]
      /\ \A i \in 1..Len(f) : i \in 1..Len(unit) \/ \E j \in 1..Len(c) : i = Len(unit) + j
  <2>1. unit \in Seq(T) /\ c \in Seq(T) BY <1>2, <1>3
  <2> QED BY <2>1, ConcatType
<1> HIDE DEF f
<1>5. /\ e \in Seq(T) /\ Len(e) = Len(f) + Len(crc)
      /\ \A i \in 1..Len(f) : i \in 1..Len(e) /\ e[i] = f[i]
      /\ \A j \in 1..Len(crc) : Len(f) + j \in 1..Len(e) /\ e[Len(f) + j] = crc[j]
      /\ \A i \in 1..Len(e) : i \in 1..Len(f) \/ \E j \in 1..Len(crc) : i = Len(f) + j
  <2>1. f \in Seq(T) /\ crc \in Seq(T) BY <1>3, <1>4
  <2> QED BY <2>1, ConcatType
<1>6. e \in Seq(Octet) BY DEF f, unit, crc, Serial
<1> HIDE DEF e
<1>7. PICK n \in Nat : n = Len(c) /\ DOMAIN c = 1..n /\ c = [i \in 1..n |-> c[i]]
  <2>1. Len(c) \in Nat /\ DOMAIN c = 1..Len(c) /\ c \in [1..Len(c) -> S] BY <1>1, LenProperties
  <2>2. c = [i \in 1..Len(c) |-> c[i]] BY <2>1
  <2> QED BY <2>1, <2>2
<1>8. Len(e) = n + 3 /\ \A i \in 1..n : 1 + i \in 1..Len(e) /\ e[1 + i] = c[i]
  <2>1. Len(e) = n + 3 BY <1>3, <1>4, <1>5, <1>7
  <2>2. \A i \in 1..n : 1 + i \in 1..Len(f) /\ f[1 + i] = c[i] BY <1>3, <1>4, <1>7
  <2> QED BY <1>5, <2>1, <2>2
<1>9. \A i \in 1..n : c[i] \in Octet BY <1>6, <1>8, ElementOfSeq
<1>10. c \in [1..n -> Octet] BY <1>7, <1>9
<1>11. c \in Seq(Octet) BY <1>10, FunctionIsSeq
<1> QED BY <1>7, <1>8, <1>11 DEF e, f, unit, crc, Serial

\* What an RTU client reads of the bytes of a response is what it says.
LEMMA SerialSays ==
  ASSUME reader = "rtuClient", NEW c \in Seq(Octet), NEW body, ResponseContent(c, body), NEW e,
         Len(e) = Len(c) + 3, \A i \in 1..Len(c) : e[1 + i] = c[i], NEW b \in Seq(Octet), NEW t
  PROVE  SaysOf(e, body, b, t)
<1> SUFFICES ASSUME /\ Parse(b) # Null /\ t = Len(Part(b, 1, Parse(b).consumed))
                    /\ t <= Len(e) /\ \A i \in 1..t : b[i] = e[i]
             PROVE  Means(body, Parse(b).body)
  BY DEF SaysOf
<1>1. PICK k \in Nat, l \in Nat : k = Len(c) /\ l = Len(b) BY LenProperties
<1>2. b # <<>> BY DEF Parse, RtuResponse
<1> DEFINE p == Tail(b)
           got == ResponseBody(p)
           q == Len(ResponsePayload(got))
<1>3. p \in Seq(Octet) /\ Len(p) = l - 1 /\ l >= 1 /\ \A i \in 1..(l - 1) : p[i] = b[1 + i]
  BY <1>1, <1>2
<1>4. /\ got # Null /\ l >= 1 + q + 2
      /\ Parse(b).body = got /\ Parse(b).consumed = 1 + q + 2
  <2>1. got # Null BY DEF Parse, RtuResponse
  <2>2. ~(Len(b) < 1 + q + 2) BY <2>1, <1>2 DEF Parse, RtuResponse
  <2>3. Parse(b).body = got /\ Parse(b).consumed = 1 + q + 2 BY <2>1, <2>2, <1>2 DEF Parse, RtuResponse
  <2>4. q \in Nat BY <1>3, <2>1, ResponseEncodes, LenProperties
  <2> HIDE DEF q, got
  <2> QED BY <1>1, <2>1, <2>2, <2>3, <2>4
<1>5. PICK g \in Nat : g = q BY <1>3, <1>4, ResponseEncodes, LenProperties
<1> HIDE DEF p, q
<1>6. t = g + 3
  <2>1. PICK n \in Int, from \in Nat \ {0} : n = g + 3 /\ from = 1 /\ n > 0 OBVIOUS
  <2>2. Len(Part(b, from, n)) = IF n <= 0 \/ from > Len(b) THEN 0
              ELSE IF from + n - 1 <= Len(b) THEN n ELSE Len(b) - from + 1
    BY PartType
  <2>3. t = Len(Part(b, from, n))
    <3>1. 1 + g + 2 = n BY <2>1
    <3> QED BY <1>4, <1>5, <2>1, <3>1
  <2> QED BY <1>1, <1>4, <1>5, <2>1, <2>2, <2>3
<1>7. g <= k BY <1>1, <1>6
<1>8. g + 2 <= l - 1 BY <1>4, <1>5
<1>9. \A i \in 1..k : i <= g + 2 => p[i] = c[i]
  <2> SUFFICES ASSUME NEW i \in 1..k, i <= g + 2 PROVE p[i] = c[i] OBVIOUS
  <2>1. 1 + i \in 1..t /\ i \in 1..(l - 1) BY <1>6, <1>8
  <2>2. b[1 + i] = e[1 + i] /\ p[i] = b[1 + i] BY <1>3, <2>1
  <2> QED BY <1>1, <2>2
<1>10. p \in Seq(Octet) /\ ResponseBody(p) # Null /\ g = Len(ResponsePayload(ResponseBody(p)))
  BY <1>3, <1>4, <1>5 DEF q
<1>11. g <= Len(c) /\ g + 2 <= Len(p) /\ \A i \in 1..Len(c) : i <= g + 2 => p[i] = c[i]
  BY <1>1, <1>3, <1>7, <1>8, <1>9
<1> HIDE DEF got
<1>12. Means(body, ResponseBody(p)) BY <1>10, <1>11, ResponseReadAgain
<1> QED BY <1>4, <1>12 DEF got

-----------------------------------------------------------------------------
(* What the code encodes.                                                    *)

\* A body the code encodes stands whole in its Modbus/TCP frame.
LEMMA EncodedBody ==
  ASSUME reader \in Readers, reader # "rtuClient", NEW m \in 1..MaxMessages,
         NEW body \in Messages[reader], NEW memory \in Memory
  PROVE  \E c \in Seq(Octet) :
           /\ Encoded(reader, m, body, memory) = Framed(m, c)
           /\ Readable(c, body) /\ Faithful(c, body)
<1> DEFINE e == Encoded(reader, m, body, memory)
<1>1. reader \in {"tcpServer", "tcpClient"} BY StreamAssumption
<1>2. /\ e \in Seq(Octet)
      /\ Messages[reader] \subseteq IF reader = "tcpServer" THEN Requests ELSE Responses
  BY MessageAssumption DEF Octet
<1>3. m \in Nat BY StreamAssumption
<1>4. CASE reader = "tcpServer"
  <2> DEFINE c == Cut(body, memory)
  <2>1. body \in Requests BY <1>2, <1>4
  <2>2. RequestForm(c, body) /\ IsCut(body, memory) BY <2>1, RequestsForm
  <2>3. RequestContent(c, body) BY <2>1, RequestsContent
  <2>4. e = Framed(m, c)
    <3>1. e = TcpRequestPayload(m, Unit, body, memory) BY <1>4 DEF Encoded
    <3> QED BY <2>2, <3>1, RequestFramed
  <2>5. IsSequence(c) BY <2>2 DEF IsCut, IsSequence
  <2> HIDE DEF c, e
  <2>6. c \in Seq(Octet) BY <1>2, <1>3, <2>4, <2>5, FramedBytes
  <2>7. Readable(c, body)
    <3>1. BodyOf(c) = Null => NeverParses(body) BY <1>4, <2>2, <2>6, RequestWhole DEF BodyOf
    <3>2. ASSUME NEW p \in Seq(Octet), Len(p) < Len(c), \A i \in 1..Len(p) : p[i] = c[i],
                 ~ParsesEarly(body, Len(p) + 7)
          PROVE  BodyOf(p) = Null
      <4>1. RequestBody(p) = Null BY <1>4, <2>2, <2>6, <3>2, RequestFront
      <4> QED BY <1>4, <4>1 DEF BodyOf
    <3> QED BY <3>1, <3>2 DEF Readable
  <2>8. Faithful(c, body) BY <1>4, <2>2, <2>3, <2>6, RequestFaithful
  <2> QED BY <2>4, <2>6, <2>7, <2>8 DEF e
<1>5. CASE reader = "tcpClient"
  <2> DEFINE c == ResponsePayload(body)
  <2>1. body \in Responses BY <1>2, <1>5
  <2>2. IsSequence(c) /\ ResponseContent(c, body) BY <2>1, ResponsesContent DEF IsResponse
  <2>3. ResponseForm(c, body) BY <2>2, FormOfContent
  <2>4. e = Framed(m, c) BY <1>5 DEF Encoded, TcpResponsePayload, Framed
  <2> HIDE DEF c, e
  <2>5. c \in Seq(Octet) BY <1>2, <1>3, <2>2, <2>4, FramedBytes
  <2>6. Readable(c, body)
    <3>1. BodyOf(c) = Null => NeverParses(body) BY <1>5, <2>3, <2>5, ResponseWhole DEF BodyOf
    <3>2. ASSUME NEW p \in Seq(Octet), Len(p) < Len(c), \A i \in 1..Len(p) : p[i] = c[i],
                 ~ParsesEarly(body, Len(p) + 7)
          PROVE  BodyOf(p) = Null
      <4>1. ResponseBody(p) = Null BY <1>5, <2>3, <2>5, <3>2, ResponseFront
      <4> QED BY <1>5, <4>1 DEF BodyOf
    <3> QED BY <3>1, <3>2 DEF Readable
  <2>7. Faithful(c, body) BY <1>5, <2>2, <2>5, ResponseFaithful
  <2> QED BY <2>4, <2>5, <2>6, <2>7 DEF e
<1> QED BY <1>1, <1>4, <1>5

\* Every message the code encodes is read as a whole or not at all.
LEMMA EncodedSpeaks ==
  ASSUME reader \in Readers, reader # "rtuClient", NEW m \in 1..MaxMessages,
         NEW body \in Messages[reader], NEW memory \in Memory, NEW b \in Seq(Octet)
  PROVE  LET e == Encoded(reader, m, body, memory) IN Len(e) >= 7 /\ Speaks(e, body, b)
<1> DEFINE e == Encoded(reader, m, body, memory)
<1>1. reader \in {"tcpServer", "tcpClient"} /\ m \in Nat BY StreamAssumption
<1>2. PICK c \in Seq(Octet) : e = Framed(m, c) /\ Readable(c, body) BY EncodedBody
<1> HIDE DEF e
<1>3. Speaks(Framed(m, c), body, b) BY <1>1, <1>2, FramedSpeaks
<1>4. Len(e) >= 7
  <2>1. IsSequence(c) BY DEF IsSequence
  <2>2. /\ IsSequence(Framed(m, c)) /\ Len(Framed(m, c)) = 7 + Len(c)
        /\ Uint16(Framed(m, c), 5) = Len(c) + 1
        /\ \A i \in 1..Len(c) : Framed(m, c)[7 + i] = c[i]
    BY <1>1, <2>1, FrameLayout
  <2>3. Len(c) \in Nat BY LenProperties
  <2> QED BY <1>2, <2>2, <2>3
<1> QED BY <1>2, <1>3, <1>4 DEF e

\* What is read of the bytes of a message the code encodes is what it says.
LEMMA EncodedSays ==
  ASSUME reader \in Readers, NEW m \in 1..MaxMessages,
         NEW body \in Messages[reader], NEW memory \in Memory, NEW b \in Seq(Octet), NEW t
  PROVE  SaysOf(Encoded(reader, m, body, memory), body, b, t)
<1> DEFINE e == Encoded(reader, m, body, memory)
<1>1. m \in Nat BY StreamAssumption
<1>2. CASE reader # "rtuClient"
  <2>1. PICK c \in Seq(Octet) : e = Framed(m, c) /\ Readable(c, body) /\ Faithful(c, body)
    BY <1>2, EncodedBody
  <2> HIDE DEF e
  <2>2. reader \in {"tcpServer", "tcpClient"} BY <1>2, StreamAssumption
  <2>3. SaysOf(Framed(m, c), body, b, t) BY <1>1, <2>1, <2>2, FramedSays
  <2> QED BY <2>1, <2>3 DEF e
<1>3. CASE reader = "rtuClient"
  <2> DEFINE c == ResponsePayload(body)
  <2>1. /\ e \in Seq(Octet)
        /\ Messages[reader] \subseteq IF reader = "tcpServer" THEN Requests ELSE Responses
    BY MessageAssumption DEF Octet
  <2>2. IsSequence(c) /\ ResponseContent(c, body)
    <3>1. body \in Responses BY <1>3, <2>1
    <3> QED BY <3>1, ResponsesContent DEF IsResponse
  <2>3. PICK x, y : e = Serial(c, x, y) BY <1>3 DEF Encoded, RtuResponsePayload, Serial
  <2> HIDE DEF c, e
  <2>4. c \in Seq(Octet) /\ Len(e) = Len(c) + 3 /\ \A i \in 1..Len(c) : e[1 + i] = c[i]
    BY <2>1, <2>2, <2>3, SerialLayout
  <2>5. SaysOf(e, body, b, t) BY <1>3, <2>2, <2>4, SerialSays
  <2> QED BY <2>5 DEF e
<1> QED BY <1>2, <1>3
=============================================================================
