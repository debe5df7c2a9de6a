--------------------------- MODULE SequenceProofs ----------------------------
(***************************************************************************)
(* Lemmas about the operators on sequences that the models use: Keep, the  *)
(* FlattenSeq of the community modules, prefixes and extreme numbers.      *)
(* They are proved by induction over a set of numbers or of sequences that *)
(* the lemma names, and a recursive function is shown to exist before its  *)
(* equations are used.                                                     *)
(***************************************************************************)
EXTENDS SubSequences, SequencesExt, SequenceTheorems, FiniteSetTheorems, WellFoundedInduction, TLAPS

(* Induction over the naturals, for a set: what contains 0 and with every  *)
(* number its successor contains them all.                                 *)
LEMMA SetInduction ==
  ASSUME NEW S, 0 \in S, \A n \in Nat : n \in S => n + 1 \in S
  PROVE  Nat \subseteq S
PROOF
<1> SUFFICES ASSUME ~(Nat \subseteq S) PROVE FALSE
  OBVIOUS
<1> DEFINE T == Nat \ S
<1>1. T \subseteq Nat /\ T # {}
  OBVIOUS
<1>2. \E x \in T : \A y \in T : ~(<<y, x>> \in OpToRel(<, Nat))
  <2> HIDE DEF T
  <2> QED BY <1>1, NatLessThanWellFounded, WFMin
<1>3. PICK x \in T : \A y \in T : ~(<<y, x>> \in OpToRel(<, Nat))
  BY <1>2
<1>4. x # 0 /\ x \in Nat
  OBVIOUS
<1>5. x - 1 \in Nat /\ x - 1 < x /\ (x - 1) + 1 = x
  BY <1>4
<1>6. x - 1 \in T
  BY <1>5
<1>7. <<x - 1, x>> \in OpToRel(<, Nat)
  BY <1>4, <1>5 DEF OpToRel
<1> QED BY <1>3, <1>6, <1>7

(* The same up to a bound.                                                 *)
LEMMA BoundedInduction ==
  ASSUME NEW N \in Nat, NEW S, 0 \in S, \A n \in 0 .. N - 1 : n \in S => n + 1 \in S
  PROVE  0 .. N \subseteq S
PROOF
<1> DEFINE T == {n \in Nat : n <= N => n \in S}
<1>1. 0 \in T
  OBVIOUS
<1>2. \A n \in Nat : n \in T => n + 1 \in T
  OBVIOUS
<1>3. Nat \subseteq T
  <2> HIDE DEF T
  <2> QED BY <1>1, <1>2, SetInduction
<1> QED BY <1>3

(* A recursion of N steps over values in T, and its solutions.             *)
StepFunctions(N, T) == [1 .. N -> [T -> T]]
Solution(N, T, base, step, g) ==
  g \in [0 .. N -> T] /\ g[0] = base /\ \A i \in 1 .. N : g[i] = step[i][g[i - 1]]

(* A recursive function over 0 .. N exists: each value is one step from the *)
(* one before it.                                                          *)
LEMMA Recursion ==
  ASSUME NEW N \in Nat, NEW T, NEW base \in T, NEW step \in StepFunctions(N, T)
  PROVE  \E g : Solution(N, T, base, step, g)
PROOF
<1> USE DEF StepFunctions, Solution
<1> DEFINE Solves(g, n) == g[0] = base /\ \A i \in 1 .. n : g[i] = step[i][g[i - 1]]
           S == {n \in 0 .. N : \E g \in [0 .. N -> T] : Solves(g, n)}
<1>1. 0 \in S
  <2>1. [i \in 0 .. N |-> base] \in [0 .. N -> T] /\ Solves([i \in 0 .. N |-> base], 0)
    OBVIOUS
  <2> HIDE DEF Solves
  <2> QED BY <2>1
<1>2. ASSUME NEW n \in 0 .. N - 1, n \in S PROVE n + 1 \in S
  <2>1. PICK g \in [0 .. N -> T] : Solves(g, n)
    BY <1>2
  <2> DEFINE v == step[n + 1][g[n]]
             f == [g EXCEPT ![n + 1] = v]
  <2>2. v \in T
    <3>1. g[n] \in T /\ n + 1 \in 1 .. N
      OBVIOUS
    <3> QED BY <3>1
  <2>3. f \in [0 .. N -> T]
    BY <2>2
  <2>4. f[n + 1] = v /\ \A i \in 0 .. n : f[i] = g[i]
    OBVIOUS
  <2>5. Solves(f, n + 1)
    <3> SUFFICES ASSUME NEW i \in 1 .. n + 1 PROVE f[i] = step[i][f[i - 1]]
      BY <2>1, <2>4
    <3>1. CASE i = n + 1
      <4>1. f[n] = g[n] /\ i - 1 = n
        BY <2>4, <3>1
      <4>2. f[n + 1] = step[n + 1][g[n]]
        BY <2>4
      <4> HIDE DEF f
      <4> QED BY <3>1, <4>1, <4>2
    <3>2. CASE i \in 1 .. n
      <4>1. f[i] = g[i] /\ f[i - 1] = g[i - 1]
        BY <2>4, <3>2
      <4>2. g[i] = step[i][g[i - 1]]
        BY <2>1, <3>2
      <4> HIDE DEF f
      <4> QED BY <4>1, <4>2
    <3> QED BY <3>1, <3>2
  <2> HIDE DEF Solves, f
  <2> QED BY <2>3, <2>5
<1>3. 0 .. N \subseteq S
  <2> HIDE DEF S
  <2> QED BY <1>1, <1>2, BoundedInduction
<1>4. N \in S
  <2> HIDE DEF S
  <2> QED BY <1>3
<1> QED BY <1>4

(* Induction over sequences: a set with the empty sequence, closed under   *)
(* Append, holds every sequence.                                           *)
LEMMA SeqInduction ==
  ASSUME NEW S, NEW P, <<>> \in P, \A s \in Seq(S), e \in S : s \in P => Append(s, e) \in P
  PROVE  Seq(S) \subseteq P
PROOF
<1> DEFINE L == {n \in Nat : \A s \in Seq(S) : Len(s) = n => s \in P}
<1>1. 0 \in L
  <2> SUFFICES ASSUME NEW s \in Seq(S), Len(s) = 0 PROVE s \in P
    OBVIOUS
  <2>1. s = <<>>
    BY EmptySeq
  <2> QED BY <2>1
<1>2. ASSUME NEW n \in Nat, n \in L PROVE n + 1 \in L
  <2> SUFFICES ASSUME NEW s \in Seq(S), Len(s) = n + 1 PROVE s \in P
    OBVIOUS
  <2>1. s # <<>>
    BY EmptySeq
  <2>2. PICK t \in Seq(S), e \in S : s = Append(t, e)
    BY <2>1, SequenceEmptyOrAppend
  <2>3. Len(t) = n
    BY <2>2, AppendProperties, LenProperties
  <2>4. t \in P
    BY <1>2, <2>3
  <2> QED BY <2>2, <2>4
<1>3. Nat \subseteq L
  <2> HIDE DEF L
  <2> QED BY <1>1, <1>2, SetInduction
<1> SUFFICES ASSUME NEW s \in Seq(S) PROVE s \in P
  OBVIOUS
<1>4. Len(s) \in Nat
  BY LenProperties
<1>5. Len(s) \in L
  <2> HIDE DEF L
  <2> QED BY <1>3, <1>4
<1> QED BY <1>5

-----------------------------------------------------------------------------
(* k lists what Keep has kept after each element.                          *)
KeepSteps(k, s, T) ==
  /\ k[0] = <<>>
  /\ \A n \in 1 .. Len(s) : k[n] = IF s[n] \in T THEN Append(k[n - 1], s[n]) ELSE k[n - 1]

(* The recursive function in Keep has its defining equations.              *)
LEMMA KeepDef ==
  ASSUME NEW S, NEW s \in Seq(S), NEW T
  PROVE  \E k \in [0 .. Len(s) -> Seq(S)] : KeepSteps(k, s, T) /\ Keep(s, T) = k[Len(s)]
PROOF
<1> DEFINE N == Len(s)
           step == [n \in 1 .. N |-> [v \in Seq(S) |-> IF s[n] \in T THEN Append(v, s[n]) ELSE v]]
           Is(k) == k = [n \in 0 .. N |->
                           IF n = 0 THEN <<>>
                           ELSE IF s[n] \in T THEN Append(k[n - 1], s[n]) ELSE k[n - 1]]
<1>1. N \in Nat /\ <<>> \in Seq(S) /\ s \in [1 .. N -> S]
  BY LenProperties, EmptySeq
<1>2. step \in [1 .. N -> [Seq(S) -> Seq(S)]]
  <2> SUFFICES ASSUME NEW n \in 1 .. N, NEW v \in Seq(S)
               PROVE  (IF s[n] \in T THEN Append(v, s[n]) ELSE v) \in Seq(S)
    OBVIOUS
  <2> QED BY <1>1, AppendProperties
<1>3. PICK g \in [0 .. N -> Seq(S)] : g[0] = <<>> /\ \A i \in 1 .. N : g[i] = step[i][g[i - 1]]
  <2> DEFINE base == <<>>
             V == Seq(S)
  <2>1. N \in Nat /\ base \in V /\ step \in StepFunctions(N, V)
    BY <1>1, <1>2 DEF StepFunctions
  <2> HIDE DEF N, step, base, V
  <2>2. \E g : Solution(N, V, base, step, g)
    BY <2>1, Recursion
  <2> QED BY <2>2 DEF base, V, Solution
<1>4. \A i \in 1 .. N : g[i] = IF s[i] \in T THEN Append(g[i - 1], s[i]) ELSE g[i - 1]
  <2> SUFFICES ASSUME NEW i \in 1 .. N
               PROVE  g[i] = IF s[i] \in T THEN Append(g[i - 1], s[i]) ELSE g[i - 1]
    OBVIOUS
  <2>1. g[i - 1] \in Seq(S)
    BY <1>1
  <2>2. step[i][g[i - 1]] = IF s[i] \in T THEN Append(g[i - 1], s[i]) ELSE g[i - 1]
    BY <2>1
  <2> QED BY <1>3, <2>2
<1>5. Is(g)
  <2>1. ASSUME NEW n \in 0 .. N
        PROVE  g[n] = IF n = 0 THEN <<>> ELSE IF s[n] \in T THEN Append(g[n - 1], s[n]) ELSE g[n - 1]
    <3>1. CASE n = 0
      BY <1>3, <3>1
    <3>2. CASE n # 0
      <4>1. n \in 1 .. N
        BY <1>1, <3>2
      <4> QED BY <1>4, <3>2, <4>1
    <3> QED BY <3>1, <3>2
  <2> QED BY <2>1
<1> DEFINE kept == CHOOSE k : Is(k)
<1>6. Is(kept)
  <2> HIDE DEF Is
  <2> QED BY <1>5
<1>7. kept = g
  <2> DEFINE E == {n \in 0 .. N : kept[n] = g[n]}
  <2>1. 0 \in E
    <3> HIDE DEF kept
    <3> QED BY <1>1, <1>3, <1>6
  <2>2. ASSUME NEW n \in 0 .. N - 1, n \in E PROVE n + 1 \in E
    <3>1. n + 1 \in 1 .. N /\ (n + 1) - 1 = n
      BY <1>1
    <3> HIDE DEF kept
    <3>2. kept[n + 1] = IF s[n + 1] \in T THEN Append(kept[n], s[n + 1]) ELSE kept[n]
      <4>1. n + 1 \in 0 .. N /\ n + 1 # 0
        BY <3>1
      <4> QED BY <1>6, <3>1, <4>1
    <3>3. g[n + 1] = IF s[n + 1] \in T THEN Append(g[n], s[n + 1]) ELSE g[n]
      BY <1>4, <3>1
    <3> QED BY <2>2, <3>1, <3>2, <3>3
  <2>3. 0 .. N \subseteq E
    <3> HIDE DEF E, N
    <3> QED BY <1>1, <2>1, <2>2, BoundedInduction
  <2>4. kept = [n \in 0 .. N |-> kept[n]]
    BY <1>6
  <2> HIDE DEF kept
  <2> QED BY <2>3, <2>4
<1>8. Keep(s, T) = kept[N]
  BY DEF Keep
<1> HIDE DEF kept
<1> QED BY <1>3, <1>4, <1>7, <1>8 DEF KeepSteps

(* Nothing is kept of nothing.                                             *)
LEMMA KeepEmpty == \A T : Keep(<<>>, T) = <<>>
PROOF
<1> SUFFICES ASSUME NEW T PROVE Keep(<<>>, T) = <<>>
  OBVIOUS
<1>1. <<>> \in Seq({}) /\ Len(<<>>) = 0
  BY EmptySeq
<1>2. PICK k \in [0 .. Len(<<>>) -> Seq({})] : KeepSteps(k, <<>>, T) /\ Keep(<<>>, T) = k[Len(<<>>)]
  BY <1>1, KeepDef
<1>3. k[0] = <<>>
  BY <1>2 DEF KeepSteps
<1> QED BY <1>1, <1>2, <1>3

(* An appended element is kept when it passes the test.                    *)
LEMMA KeepAppend ==
  ASSUME NEW S, NEW s \in Seq(S), NEW e \in S, NEW T
  PROVE  Keep(Append(s, e), T) = IF e \in T THEN Append(Keep(s, T), e) ELSE Keep(s, T)
PROOF
<1> DEFINE t == Append(s, e)
           N == Len(s)
<1>1. /\ N \in Nat /\ t \in Seq(S) /\ Len(t) = N + 1 /\ t[N + 1] = e
      /\ \A i \in 1 .. N : t[i] = s[i]
  BY LenProperties, AppendProperties
<1> HIDE DEF t
<1>2. PICK k : KeepSteps(k, s, T) /\ Keep(s, T) = k[N]
  BY KeepDef
<1>3. PICK l : KeepSteps(l, t, T) /\ Keep(t, T) = l[N + 1]
  BY <1>1, KeepDef
<1>4. k[0] = <<>> /\ l[0] = <<>>
  BY <1>2, <1>3 DEF KeepSteps
<1>5. \A n \in 1 .. N : k[n] = IF s[n] \in T THEN Append(k[n - 1], s[n]) ELSE k[n - 1]
  BY <1>2 DEF KeepSteps
<1>6. \A n \in 1 .. N + 1 : l[n] = IF t[n] \in T THEN Append(l[n - 1], t[n]) ELSE l[n - 1]
  BY <1>1, <1>3 DEF KeepSteps
<1> DEFINE E == {n \in 0 .. N : k[n] = l[n]}
<1> HIDE DEF N
<1>7. 0 \in E
  BY <1>1, <1>4
<1>8. ASSUME NEW n \in 0 .. N - 1, n \in E PROVE n + 1 \in E
  <2>1. n + 1 \in 1 .. N /\ n + 1 \in 1 .. N + 1 /\ (n + 1) - 1 = n /\ n + 1 \in 0 .. N
    BY <1>1
  <2>2. k[n + 1] = IF s[n + 1] \in T THEN Append(k[n], s[n + 1]) ELSE k[n]
    BY <1>5, <2>1
  <2>3. l[n + 1] = IF t[n + 1] \in T THEN Append(l[n], t[n + 1]) ELSE l[n]
    BY <1>6, <2>1
  <2> QED BY <1>1, <1>8, <2>1, <2>2, <2>3
<1>9. k[N] = l[N]
  <2>1. 0 .. N \subseteq E
    <3> HIDE DEF E
    <3> QED BY <1>1, <1>7, <1>8, BoundedInduction
  <2>2. N \in 0 .. N
    BY <1>1
  <2> QED BY <2>1, <2>2
<1>10. l[N + 1] = IF e \in T THEN Append(l[N], e) ELSE l[N]
  <2>1. N + 1 \in 1 .. N + 1 /\ (N + 1) - 1 = N
    BY <1>1
  <2> QED BY <1>1, <1>6, <2>1
<1> QED BY <1>2, <1>3, <1>9, <1>10 DEF t

(* What is kept passes the test.                                           *)
LEMMA KeepType ==
  ASSUME NEW S, NEW T
  PROVE  \A s \in Seq(S) : Keep(s, T) \in Seq(S \cap T)
PROOF
<1> DEFINE P == {s \in Seq(S) : Keep(s, T) \in Seq(S \cap T)}
<1>1. <<>> \in P
  BY KeepEmpty, EmptySeq
<1>2. ASSUME NEW s \in Seq(S), NEW e \in S, s \in P PROVE Append(s, e) \in P
  <2>1. Append(s, e) \in Seq(S)
    BY AppendProperties
  <2>2. Keep(s, T) \in Seq(S \cap T)
    BY <1>2
  <2>3. e \in T => Append(Keep(s, T), e) \in Seq(S \cap T)
    BY <2>2, AppendProperties
  <2> QED BY <2>1, <2>2, <2>3, KeepAppend
<1>3. Seq(S) \subseteq P
  <2> HIDE DEF P
  <2> QED BY <1>1, <1>2, SeqInduction
<1> QED BY <1>3

(* What is kept of a sequence over S is one.                               *)
LEMMA KeepSeq ==
  ASSUME NEW S, NEW T
  PROVE  \A s \in Seq(S) : Keep(s, T) \in Seq(S)
PROOF
<1> SUFFICES ASSUME NEW s \in Seq(S) PROVE Keep(s, T) \in Seq(S)
  OBVIOUS
<1>1. Keep(s, T) \in Seq(S \cap T)
  BY KeepType
<1> QED BY <1>1, SeqMonotonic

(* Concatenation is associative.                                           *)
Associates(s, t, u) == (s \o t) \o u = s \o (t \o u)

(* In the form that the provers can use.                                   *)
LEMMA Associative ==
  ASSUME NEW S, NEW s \in Seq(S), NEW t \in Seq(S), NEW u \in Seq(S)
  PROVE  Associates(s, t, u)
PROOF
BY ConcatAssociative DEF Associates

(* Keep distributes over concatenation.                                    *)
LEMMA KeepConcat ==
  ASSUME NEW S, NEW T, NEW s \in Seq(S)
  PROVE  \A t \in Seq(S) : Keep(s \o t, T) = Keep(s, T) \o Keep(t, T)
PROOF
<1> DEFINE Splits(t) == Keep(s \o t, T) = Keep(s, T) \o Keep(t, T)
           P == {t \in Seq(S) : Splits(t)}
<1>0. \A t \in Seq(S) : Keep(t, T) \in Seq(S)
  <2> SUFFICES ASSUME NEW t \in Seq(S) PROVE Keep(t, T) \in Seq(S)
    OBVIOUS
  <2>1. Keep(t, T) \in Seq(S \cap T)
    BY KeepType
  <2> QED BY <2>1, SeqMonotonic
<1>1. <<>> \in P
  <2>1. s \o <<>> = s /\ Keep(s, T) \o <<>> = Keep(s, T)
    BY <1>0, ConcatEmptySeq
  <2> QED BY <2>1, KeepEmpty, EmptySeq
<1>2. ASSUME NEW t \in Seq(S), NEW e \in S, t \in P PROVE Append(t, e) \in P
  <2>1. Append(t, e) \in Seq(S) /\ s \o t \in Seq(S) /\ Append(t, e) = t \o <<e>> /\ <<e>> \in Seq(S)
    BY AppendProperties, ConcatProperties, AppendIsConcat
  <2>2. s \o Append(t, e) = Append(s \o t, e)
    <3>1. (s \o t) \o <<e>> = s \o (t \o <<e>>)
      <4>1. Associates(s, t, <<e>>)
        BY <2>1, Associative
      <4> QED BY <4>1, Zenon DEF Associates
    <3>2. Append(s \o t, e) = (s \o t) \o <<e>>
      BY <2>1, AppendIsConcat
    <3> QED BY <2>1, <3>1, <3>2
  <2>3. Keep(s \o t, T) = Keep(s, T) \o Keep(t, T)
    BY <1>2
  <2>4. CASE e \in T
    <3>1. Keep(Append(s \o t, e), T) = Append(Keep(s, T) \o Keep(t, T), e)
      <4> DEFINE u == s \o t
      <4>1. u \in Seq(S) /\ Keep(u, T) = Keep(s, T) \o Keep(t, T)
        BY <2>1, <2>3
      <4> HIDE DEF u
      <4>2. Keep(Append(u, e), T) = Append(Keep(u, T), e)
        BY <2>4, <4>1, KeepAppend
      <4>3. Keep(Append(u, e), T) = Append(Keep(s, T) \o Keep(t, T), e)
        BY <4>1, <4>2, Zenon
      <4> QED BY <4>3, Zenon DEF u
    <3>2. Keep(Append(t, e), T) = Append(Keep(t, T), e)
      BY <2>4, KeepAppend
    <3>3. /\ Append(Keep(s, T) \o Keep(t, T), e) = (Keep(s, T) \o Keep(t, T)) \o <<e>>
          /\ Append(Keep(t, T), e) = Keep(t, T) \o <<e>>
      BY <1>0, ConcatProperties, AppendIsConcat
    <3>4. (Keep(s, T) \o Keep(t, T)) \o <<e>> = Keep(s, T) \o (Keep(t, T) \o <<e>>)
      <4>1. Keep(s, T) \in Seq(S) /\ Keep(t, T) \in Seq(S) /\ <<e>> \in Seq(S)
        BY <1>0
      <4>2. Associates(Keep(s, T), Keep(t, T), <<e>>)
        BY <4>1, Associative
      <4> QED BY <4>2, Zenon DEF Associates
    <3>5. Keep(Append(s \o t, e), T) = Keep(s, T) \o Keep(Append(t, e), T)
      BY <3>1, <3>2, <3>3, <3>4, Zenon
    <3>6. Splits(Append(t, e))
      BY <2>2, <3>5, Zenon
    <3>7. Append(t, e) \in Seq(S)
      BY <2>1
    <3> HIDE DEF Splits
    <3> QED BY <3>6, <3>7
  <2>5. CASE e \notin T
    <3>1. Keep(Append(s \o t, e), T) = Keep(s \o t, T) /\ Keep(Append(t, e), T) = Keep(t, T)
      BY <2>1, <2>5, KeepAppend
    <3> QED BY <2>1, <2>2, <2>3, <3>1
  <2> QED BY <2>4, <2>5
<1>3. Seq(S) \subseteq P
  <2> HIDE DEF P
  <2> QED BY <1>1, <1>2, SeqInduction
<1> QED BY <1>3

(* p lists the positions of s whose elements Keep retains.                 *)
Positions(s, T, p) ==
  /\ DOMAIN p = 1 .. Len(Keep(s, T))
  /\ \A j \in 1 .. Len(Keep(s, T)) :
       p[j] \in 1 .. Len(s) /\ s[p[j]] \in T /\ Keep(s, T)[j] = s[p[j]]
  /\ \A j, k \in 1 .. Len(Keep(s, T)) : j < k => p[j] < p[k]
  /\ \A i \in 1 .. Len(s) : s[i] \in T => \E j \in 1 .. Len(Keep(s, T)) : p[j] = i

(* The kept elements stand at increasing positions of the sequence, and    *)
(* none that passes the test is left out.                                  *)
LEMMA KeepPositions ==
  ASSUME NEW S, NEW T
  PROVE  \A s \in Seq(S) : \E p : Positions(s, T, p)
PROOF
<1> DEFINE P == {s \in Seq(S) : \E p : Positions(s, T, p)}
<1>1. <<>> \in P
  <2>1. Keep(<<>>, T) = <<>> /\ <<>> \in Seq(S) /\ Len(<<>>) = 0
    BY KeepEmpty, EmptySeq
  <2>2. Positions(<<>>, T, <<>>)
    BY <2>1 DEF Positions
  <2> QED BY <2>1, <2>2
<1>2. ASSUME NEW s \in Seq(S), NEW e \in S, s \in P PROVE Append(s, e) \in P
  <2> DEFINE t == Append(s, e)
             N == Len(s)
             K == Keep(s, T)
             M == Len(K)
  <2>1. /\ N \in Nat /\ t \in Seq(S) /\ Len(t) = N + 1 /\ t[N + 1] = e
        /\ \A i \in 1 .. N : t[i] = s[i]
    BY LenProperties, AppendProperties
  <2>2. PICK p : Positions(s, T, p)
    BY <1>2
  <2>3. K \in Seq(S \cap T) /\ M \in Nat
    <3>1. K \in Seq(S \cap T)
      BY KeepType
    <3> QED BY <3>1, LenProperties
  <2>4. Keep(t, T) = IF e \in T THEN Append(K, e) ELSE K
    BY KeepAppend
  <2>5. /\ DOMAIN p = 1 .. M
        /\ \A j \in 1 .. M : p[j] \in 1 .. N /\ s[p[j]] \in T /\ K[j] = s[p[j]]
        /\ \A j, k \in 1 .. M : j < k => p[j] < p[k]
        /\ \A i \in 1 .. N : s[i] \in T => \E j \in 1 .. M : p[j] = i
    BY <2>2 DEF Positions
  <2> HIDE DEF t, N, K, M
  <2>6. CASE e \in T
    <3> DEFINE q == [j \in 1 .. M + 1 |-> IF j = M + 1 THEN N + 1 ELSE p[j]]
    <3>1. /\ Len(Keep(t, T)) = M + 1 /\ Keep(t, T)[M + 1] = e
          /\ \A j \in 1 .. M : Keep(t, T)[j] = K[j]
      <4>1. e \in S \cap T
        BY <2>6
      <4> QED BY <2>3, <2>4, <2>6, <4>1, AppendProperties DEF M
    <3>2. DOMAIN q = 1 .. M + 1 /\ q[M + 1] = N + 1 /\ \A j \in 1 .. M : q[j] = p[j]
      BY <2>3
    <3> HIDE DEF q
    <3>3. \A j \in 1 .. M + 1 : q[j] \in 1 .. N + 1 /\ t[q[j]] \in T /\ Keep(t, T)[j] = t[q[j]]
      <4> SUFFICES ASSUME NEW j \in 1 .. M + 1
                   PROVE  q[j] \in 1 .. N + 1 /\ t[q[j]] \in T /\ Keep(t, T)[j] = t[q[j]]
        OBVIOUS
      <4>1. CASE j = M + 1
        BY <2>1, <2>6, <3>1, <3>2, <4>1
      <4>2. CASE j \in 1 .. M
        <5>1. q[j] = p[j] /\ p[j] \in 1 .. N /\ s[p[j]] \in T /\ K[j] = s[p[j]]
          BY <2>5, <3>2, <4>2
        <5>2. t[p[j]] = s[p[j]] /\ Keep(t, T)[j] = K[j] /\ p[j] \in 1 .. N + 1
          BY <2>1, <3>1, <4>2, <5>1
        <5> QED BY <5>1, <5>2
      <4> QED BY <2>3, <4>1, <4>2
    <3>4. \A j, k \in 1 .. M + 1 : j < k => q[j] < q[k]
      <4> SUFFICES ASSUME NEW j \in 1 .. M + 1, NEW k \in 1 .. M + 1, j < k PROVE q[j] < q[k]
        OBVIOUS
      <4>1. j \in 1 .. M /\ q[j] = p[j] /\ p[j] \in 1 .. N
        BY <2>3, <2>5, <3>2
      <4>2. CASE k = M + 1
        BY <2>1, <3>2, <4>1, <4>2
      <4>3. CASE k \in 1 .. M
        <5>1. q[k] = p[k]
          BY <3>2, <4>3
        <5> QED BY <2>5, <4>1, <4>3, <5>1
      <4> QED BY <2>3, <4>2, <4>3
    <3>5. \A i \in 1 .. N + 1 : t[i] \in T => \E j \in 1 .. M + 1 : q[j] = i
      BY <2>1, <2>3, <2>5, <3>2
    <3>6. Positions(t, T, q)
      BY <2>1, <3>1, <3>2, <3>3, <3>4, <3>5 DEF Positions
    <3> QED BY <2>1, <3>6 DEF t
  <2>7. CASE e \notin T
    <3>1. Keep(t, T) = K
      BY <2>4, <2>7
    <3>2. \A j \in 1 .. M : p[j] \in 1 .. N + 1 /\ t[p[j]] \in T /\ K[j] = t[p[j]]
      BY <2>1, <2>5
    <3>3. \A i \in 1 .. N + 1 : t[i] \in T => \E j \in 1 .. M : p[j] = i
      BY <2>1, <2>5, <2>7
    <3>4. Positions(t, T, p)
      BY <2>1, <2>5, <3>1, <3>2, <3>3 DEF Positions, M
    <3> QED BY <2>1, <3>4 DEF t
  <2> QED BY <2>6, <2>7
<1>3. Seq(S) \subseteq P
  <2> HIDE DEF P
  <2> QED BY <1>1, <1>2, SeqInduction
<1> QED BY <1>3

(* The kept elements are those that pass the test.                         *)
LEMMA KeepRange ==
  ASSUME NEW S, NEW T
  PROVE  \A s \in Seq(S) : Range(Keep(s, T)) = Range(s) \cap T
PROOF
<1> SUFFICES ASSUME NEW s \in Seq(S) PROVE Range(Keep(s, T)) = Range(s) \cap T
  OBVIOUS
<1> DEFINE K == Keep(s, T)
<1>1. K \in Seq(S \cap T)
  BY KeepType
<1>2. DOMAIN s = 1 .. Len(s) /\ DOMAIN K = 1 .. Len(K)
  BY <1>1, LenProperties
<1>3. PICK p : Positions(s, T, p)
  BY KeepPositions
<1>4. ASSUME NEW x \in Range(K) PROVE x \in Range(s) \cap T
  <2>1. PICK j \in 1 .. Len(K) : x = K[j]
    BY <1>2 DEF Range
  <2>2. p[j] \in 1 .. Len(s) /\ s[p[j]] \in T /\ K[j] = s[p[j]]
    BY <1>3, <2>1 DEF Positions
  <2> QED BY <1>2, <2>1, <2>2 DEF Range
<1>5. ASSUME NEW x \in Range(s) \cap T PROVE x \in Range(K)
  <2>1. PICK i \in 1 .. Len(s) : x = s[i] /\ s[i] \in T
    BY <1>2 DEF Range
  <2>2. PICK j \in 1 .. Len(K) : p[j] = i
    BY <1>3, <2>1 DEF Positions
  <2>3. K[j] = s[i]
    BY <1>3, <2>2 DEF Positions
  <2> QED BY <1>2, <2>1, <2>2, <2>3 DEF Range
<1> QED BY <1>4, <1>5

(* The positions of s whose elements are in A.                             *)
Where(s, A) == {i \in DOMAIN s : s[i] \in A}

(* An element that passes the test is kept as often as it occurs.          *)
LEMMA KeepCount ==
  ASSUME NEW S, NEW T, NEW s \in Seq(S), NEW A
  PROVE  Cardinality(Where(Keep(s, T), A)) = Cardinality(Where(s, T \cap A))
PROOF
<1> DEFINE K == Keep(s, T)
           J == {j \in DOMAIN K : K[j] \in A}
           I == {i \in DOMAIN s : s[i] \in T /\ s[i] \in A}
<1>1. K \in Seq(S \cap T)
  BY KeepType
<1>2. DOMAIN s = 1 .. Len(s) /\ DOMAIN K = 1 .. Len(K) /\ Len(K) \in Nat
  BY <1>1, LenProperties
<1>3. PICK p : Positions(s, T, p)
  BY KeepPositions
<1>4. IsFiniteSet(J)
  <2>1. IsFiniteSet(1 .. Len(K))
    BY <1>2, FS_Interval
  <2> QED BY <1>2, <2>1, FS_Subset
<1> DEFINE f == [j \in J |-> p[j]]
<1>5. f \in [J -> I]
  BY <1>2, <1>3 DEF Positions
<1>6. \A j, k \in J : f[j] = f[k] => j = k
  <2> SUFFICES ASSUME NEW j \in J, NEW k \in J, f[j] = f[k] PROVE j = k
    OBVIOUS
  <2>1. p[j] = p[k] /\ j \in 1 .. Len(K) /\ k \in 1 .. Len(K) /\ p[j] \in Int /\ p[k] \in Int
    BY <1>2, <1>3 DEF Positions
  <2>2. ~(j < k) /\ ~(k < j)
    BY <1>3, <2>1 DEF Positions
  <2> QED BY <2>1, <2>2
<1>7. \A i \in I : \E j \in J : f[j] = i
  <2> SUFFICES ASSUME NEW i \in I PROVE \E j \in J : f[j] = i
    OBVIOUS
  <2>1. PICK j \in 1 .. Len(K) : p[j] = i
    BY <1>2, <1>3 DEF Positions
  <2>2. K[j] = s[i]
    BY <1>3, <2>1 DEF Positions
  <2> QED BY <1>2, <2>1, <2>2
<1>8. ExistsBijection(J, I)
  <2> HIDE DEF f, J, I
  <2>1. f \in Bijection(J, I)
    BY <1>5, <1>6, <1>7 DEF Bijection, Injection, Surjection, IsInjective
  <2> QED BY <2>1 DEF ExistsBijection
<1> HIDE DEF J, I
<1>9. Cardinality(I) = Cardinality(J)
  BY <1>4, <1>8, FS_Bijection
<1>10. Where(K, A) = J /\ Where(s, T \cap A) = I
  BY DEF Where, J, I
<1> QED BY <1>9, <1>10

(* A sequence holds its head and what its tail holds.                      *)
LEMMA HeadTailRange ==
  ASSUME NEW S, NEW s \in Seq(S), s # <<>>
  PROVE  Range(s) = {Head(s)} \cup Range(Tail(s))
PROOF
<1>1. /\ Tail(s) \in Seq(S) /\ Len(Tail(s)) = Len(s) - 1 /\ Head(s) = s[1]
      /\ \A i \in 1 .. Len(Tail(s)) : Tail(s)[i] = s[i + 1]
  BY HeadTailProperties
<1>2. Len(s) \in Nat /\ Len(s) # 0 /\ DOMAIN s = 1 .. Len(s) /\ DOMAIN Tail(s) = 1 .. Len(s) - 1
  BY <1>1, LenProperties, EmptySeq
<1> DEFINE t == Tail(s)
           h == Head(s)
           n == Len(s)
<1>3. /\ h = s[1] /\ 1 \in DOMAIN s /\ DOMAIN t = 1 .. n - 1 /\ DOMAIN s = 1 .. n /\ n \in Nat
      /\ \A i \in 1 .. n - 1 : t[i] = s[i + 1]
  BY <1>1, <1>2
<1> HIDE DEF t, h, n
<1>4. ASSUME NEW i \in DOMAIN s PROVE s[i] \in {h} \cup Range(t)
  <2>1. CASE i = 1
    BY <1>3, <2>1
  <2>2. CASE i # 1
    <3>1. i - 1 \in DOMAIN t /\ (i - 1) + 1 = i
      BY <1>3, <2>2
    <3>2. t[i - 1] = s[i]
      BY <1>3, <3>1
    <3> QED BY <3>1, <3>2 DEF Range
  <2> QED BY <2>1, <2>2
<1>5. \A i \in DOMAIN t : i + 1 \in DOMAIN s /\ t[i] = s[i + 1]
  BY <1>3
<1>6. Range(s) = {h} \cup Range(t)
  BY <1>3, <1>4, <1>5 DEF Range
<1> QED BY <1>6 DEF h, t

-----------------------------------------------------------------------------
(* g lists the concatenations of the first sequences of ss.                *)
Flattens(g, ss) == g[0] = <<>> /\ \A n \in 1 .. Len(ss) : g[n] = g[n - 1] \o ss[n]

(* The recursive function in FlattenSeq has its defining equations.        *)
LEMMA FlattenDef ==
  ASSUME NEW S, NEW ss \in Seq(Seq(S))
  PROVE  \E g \in [0 .. Len(ss) -> Seq(S)] : Flattens(g, ss) /\ FlattenSeq(ss) = g[Len(ss)]
PROOF
<1> DEFINE N == Len(ss)
           V == Seq(S)
           base == <<>>
           step == [n \in 1 .. N |-> [v \in V |-> v \o ss[n]]]
           Is(f) == f = [i \in 1 .. N |-> IF i = 1 THEN ss[i] ELSE f[i - 1] \o ss[i]]
<1>1. N \in Nat /\ base \in V /\ \A n \in 1 .. N : ss[n] \in V
  BY LenProperties, EmptySeq
<1>2. step \in StepFunctions(N, V)
  <2> SUFFICES ASSUME NEW n \in 1 .. N, NEW v \in V PROVE v \o ss[n] \in V
    BY DEF StepFunctions
  <2> QED BY <1>1, ConcatProperties
<1>3. PICK g : Solution(N, V, base, step, g)
  <2> HIDE DEF N, V, base, step
  <2> QED BY <1>1, <1>2, Recursion
<1>4. /\ g \in [0 .. N -> V] /\ g[0] = <<>>
      /\ \A i \in 1 .. N : g[i] = g[i - 1] \o ss[i]
  <2>1. g \in [0 .. N -> V] /\ g[0] = base /\ \A i \in 1 .. N : g[i] = step[i][g[i - 1]]
    BY <1>3 DEF Solution
  <2>2. ASSUME NEW i \in 1 .. N PROVE g[i] = g[i - 1] \o ss[i]
    <3>1. g[i - 1] \in V
      <4>1. i - 1 \in 0 .. N
        BY <1>1
      <4> HIDE DEF V, N
      <4> QED BY <2>1, <4>1
    <3>2. step[i][g[i - 1]] = g[i - 1] \o ss[i]
      BY <3>1
    <3> QED BY <2>1, <3>2
  <2> QED BY <2>1, <2>2
<1>5. CASE N = 0
  <2>1. ss = <<>>
    BY <1>5, EmptySeq
  <2> QED BY <1>4, <1>5, <2>1 DEF FlattenSeq, Flattens
<1>6. CASE N # 0
  <2> DEFINE f == [i \in 1 .. N |-> g[i]]
             flatten == CHOOSE h : Is(h)
  <2>1. Is(f)
    <3>1. ASSUME NEW i \in 1 .. N PROVE f[i] = IF i = 1 THEN ss[i] ELSE f[i - 1] \o ss[i]
      <4>1. CASE i = 1
        <5>1. ss[1] \in Seq(S)
          BY <1>1, <4>1
        <5>2. g[1] = g[0] \o ss[1]
          <6>1. 1 \in 1 .. N /\ 1 - 1 = 0
            BY <4>1
          <6> QED BY <1>4, <6>1
        <5> QED BY <1>4, <4>1, <5>1, <5>2, ConcatEmptySeq
      <4>2. CASE i # 1
        <5>1. i - 1 \in 1 .. N
          BY <1>1, <4>2
        <5> QED BY <1>4, <4>2, <5>1
      <4> QED BY <4>1, <4>2
    <3> QED BY <3>1
  <2>2. Is(flatten)
    <3> HIDE DEF Is, f
    <3> QED BY <2>1
  <2>3. FlattenSeq(ss) = flatten[N]
    BY <1>6 DEF FlattenSeq
  <2> HIDE DEF flatten
  <2> DEFINE E == {n \in 0 .. N : n = 0 \/ flatten[n] = g[n]}
  <2>4. 0 \in E
    BY <1>1
  <2>5. ASSUME NEW n \in 0 .. N - 1, n \in E PROVE n + 1 \in E
    <3>1. n + 1 \in 1 .. N /\ (n + 1) - 1 = n /\ n + 1 \in 0 .. N
      BY <1>1
    <3>2. f[n + 1] = g[n + 1]
      BY <3>1
    <3>3. CASE n = 0
      <4>1. 1 \in 1 .. N
        BY <3>1, <3>3
      <4>2. flatten[1] = ss[1]
        BY <2>2, <4>1
      <4>3. f[1] = ss[1]
        <5> HIDE DEF f
        <5> QED BY <2>1, <4>1
      <4> HIDE DEF f
      <4> QED BY <3>1, <3>2, <3>3, <4>2, <4>3
    <3>4. CASE n # 0
      <4>1. flatten[n + 1] = flatten[n] \o ss[n + 1]
        <5>1. n + 1 # 1
          BY <3>4
        <5> QED BY <2>2, <3>1, <5>1
      <4>2. g[n + 1] = g[n] \o ss[n + 1] /\ flatten[n] = g[n]
        BY <1>4, <2>5, <3>1, <3>4
      <4> QED BY <3>1, <4>1, <4>2
    <3> QED BY <3>3, <3>4
  <2>6. 0 .. N \subseteq E
    <3> HIDE DEF E, N
    <3> QED BY <1>1, <2>4, <2>5, BoundedInduction
  <2>7. flatten[N] = g[N]
    <3>1. N \in 0 .. N /\ N # 0
      BY <1>1, <1>6
    <3> QED BY <2>6, <3>1
  <2> QED BY <1>4, <2>3, <2>7 DEF Flattens
<1> QED BY <1>5, <1>6

(* Flattening no sequence gives the empty one.                             *)
LEMMA FlattenEmpty == FlattenSeq(<<>>) = <<>>
PROOF BY DEF FlattenSeq

(* Flattening goes on at the end.                                          *)
LEMMA FlattenAppend ==
  ASSUME NEW S, NEW ss \in Seq(Seq(S)), NEW e \in Seq(S)
  PROVE  FlattenSeq(Append(ss, e)) = FlattenSeq(ss) \o e
PROOF
<1> DEFINE t == Append(ss, e)
           N == Len(ss)
           V == Seq(S)
<1>1. /\ N \in Nat /\ t \in Seq(V) /\ Len(t) = N + 1 /\ t[N + 1] = e
      /\ \A i \in 1 .. N : t[i] = ss[i]
  <2>1. ss \in Seq(V) /\ e \in V
    OBVIOUS
  <2> HIDE DEF V
  <2> QED BY <2>1, LenProperties, AppendProperties
<1> HIDE DEF t
<1>2. PICK k : Flattens(k, ss) /\ FlattenSeq(ss) = k[N]
  BY FlattenDef
<1>3. PICK l : Flattens(l, t) /\ FlattenSeq(t) = l[N + 1]
  BY <1>1, FlattenDef
<1>4. k[0] = <<>> /\ l[0] = <<>>
  BY <1>2, <1>3 DEF Flattens
<1>5. \A n \in 1 .. N : k[n] = k[n - 1] \o ss[n]
  BY <1>2 DEF Flattens
<1>6. \A n \in 1 .. N + 1 : l[n] = l[n - 1] \o t[n]
  BY <1>1, <1>3 DEF Flattens
<1> DEFINE E == {n \in 0 .. N : k[n] = l[n]}
<1> HIDE DEF N
<1>7. 0 \in E
  BY <1>1, <1>4
<1>8. ASSUME NEW n \in 0 .. N - 1, n \in E PROVE n + 1 \in E
  <2>1. n + 1 \in 1 .. N /\ n + 1 \in 1 .. N + 1 /\ (n + 1) - 1 = n /\ n + 1 \in 0 .. N
    BY <1>1
  <2>2. k[n + 1] = k[n] \o ss[n + 1]
    BY <1>5, <2>1
  <2>3. l[n + 1] = l[n] \o t[n + 1]
    BY <1>6, <2>1
  <2> QED BY <1>1, <1>8, <2>1, <2>2, <2>3
<1>9. k[N] = l[N]
  <2>1. 0 .. N \subseteq E
    <3> HIDE DEF E
    <3> QED BY <1>1, <1>7, <1>8, BoundedInduction
  <2>2. N \in 0 .. N
    BY <1>1
  <2> QED BY <2>1, <2>2
<1>10. l[N + 1] = l[N] \o e
  <2>1. N + 1 \in 1 .. N + 1 /\ (N + 1) - 1 = N
    BY <1>1
  <2> QED BY <1>1, <1>6, <2>1
<1> QED BY <1>2, <1>3, <1>9, <1>10 DEF t

(* Flattening sequences over S gives a sequence over S.                    *)
LEMMA FlattenType ==
  ASSUME NEW S
  PROVE  \A ss \in Seq(Seq(S)) : FlattenSeq(ss) \in Seq(S)
PROOF
<1> SUFFICES ASSUME NEW ss \in Seq(Seq(S)) PROVE FlattenSeq(ss) \in Seq(S)
  OBVIOUS
<1>1. PICK g \in [0 .. Len(ss) -> Seq(S)] : FlattenSeq(ss) = g[Len(ss)]
  BY FlattenDef
<1>2. Len(ss) \in Nat
  BY LenProperties
<1> QED BY <1>1, <1>2

(* Append adds one element.                                                *)
LEMMA RangeAppend ==
  ASSUME NEW S, NEW s \in Seq(S), NEW e \in S
  PROVE  Range(Append(s, e)) = Range(s) \cup {e}
PROOF
<1>1. /\ Len(Append(s, e)) = Len(s) + 1 /\ Len(s) \in Nat
      /\ \A i \in 1 .. Len(s) : Append(s, e)[i] = s[i]
      /\ Append(s, e)[Len(s) + 1] = e /\ Append(s, e) \in Seq(S)
  BY AppendProperties, LenProperties
<1>2. DOMAIN Append(s, e) = 1 .. Len(s) + 1 /\ DOMAIN s = 1 .. Len(s)
  BY <1>1, LenProperties
<1> QED BY <1>1, <1>2 DEF Range

(* Flattening keeps every element.                                         *)
LEMMA FlattenRange ==
  ASSUME NEW S
  PROVE  \A ss \in Seq(Seq(S)) : Range(FlattenSeq(ss)) = UNION {Range(ss[i]) : i \in DOMAIN ss}
PROOF
<1> DEFINE V == Seq(S)
           P == {ss \in Seq(V) : Range(FlattenSeq(ss)) = UNION {Range(ss[i]) : i \in DOMAIN ss}}
<1>1. <<>> \in P
  <2>1. <<>> \in Seq(V) /\ DOMAIN <<>> = {}
    BY EmptySeq
  <2> QED BY <2>1, FlattenEmpty DEF Range
<1>2. ASSUME NEW ss \in Seq(V), NEW e \in V, ss \in P PROVE Append(ss, e) \in P
  <2> DEFINE t == Append(ss, e)
  <2>1. /\ Len(t) = Len(ss) + 1 /\ Len(ss) \in Nat
        /\ \A i \in 1 .. Len(ss) : t[i] = ss[i]
        /\ t[Len(ss) + 1] = e /\ t \in Seq(V)
    <3> HIDE DEF V
    <3> QED BY AppendProperties, LenProperties
  <2>2. DOMAIN t = 1 .. Len(ss) + 1 /\ DOMAIN ss = 1 .. Len(ss)
    <3> HIDE DEF V, t
    <3> QED BY <2>1, LenProperties
  <2>3. Range(FlattenSeq(t)) = Range(FlattenSeq(ss)) \cup Range(e)
    <3>1. FlattenSeq(t) = FlattenSeq(ss) \o e
      BY FlattenAppend
    <3>2. FlattenSeq(ss) \in Seq(S)
      BY FlattenType
    <3> QED BY <3>1, <3>2, RangeConcatenation
  <2> HIDE DEF t
  <2>4. UNION {Range(t[i]) : i \in DOMAIN t} = (UNION {Range(ss[i]) : i \in DOMAIN ss}) \cup Range(e)
    <3>1. \A i \in DOMAIN t : i \in DOMAIN ss \/ i = Len(ss) + 1
      BY <2>1, <2>2
    <3>2. \A i \in DOMAIN ss : i \in DOMAIN t /\ t[i] = ss[i]
      BY <2>1, <2>2
    <3>3. Len(ss) + 1 \in DOMAIN t
      BY <2>1, <2>2
    <3> QED BY <2>1, <3>1, <3>2, <3>3
  <2> QED BY <1>2, <2>1, <2>3, <2>4 DEF t
<1>3. Seq(V) \subseteq P
  <2> HIDE DEF P, V
  <2> QED BY <1>1, <1>2, SeqInduction
<1> QED BY <1>3

(* Flattening distributes over concatenation.                              *)
LEMMA FlattenConcat ==
  ASSUME NEW S, NEW ss \in Seq(Seq(S))
  PROVE  \A tt \in Seq(Seq(S)) : FlattenSeq(ss \o tt) = FlattenSeq(ss) \o FlattenSeq(tt)
PROOF
<1> DEFINE V == Seq(S)
           Splits(tt) == FlattenSeq(ss \o tt) = FlattenSeq(ss) \o FlattenSeq(tt)
           P == {tt \in Seq(V) : Splits(tt)}
<1>0. ss \in Seq(V) /\ FlattenSeq(ss) \in Seq(S) /\ \A tt \in Seq(V) : FlattenSeq(tt) \in Seq(S)
  BY FlattenType
<1>1. <<>> \in P
  <2>1. ss \o <<>> = ss /\ <<>> \in Seq(V)
    <3> HIDE DEF V
    <3> QED BY <1>0, ConcatEmptySeq, EmptySeq
  <2>2. FlattenSeq(ss) \o <<>> = FlattenSeq(ss)
    BY <1>0, ConcatEmptySeq
  <2> QED BY <2>1, <2>2, FlattenEmpty
<1>2. ASSUME NEW tt \in Seq(V), NEW e \in V, tt \in P PROVE Append(tt, e) \in P
  <2> DEFINE u == ss \o tt
  <2>1. /\ Append(tt, e) \in Seq(V) /\ u \in Seq(V) /\ Append(tt, e) = tt \o <<e>> /\ <<e>> \in Seq(V)
        /\ Append(u, e) = u \o <<e>> /\ u \o <<e>> = ss \o (tt \o <<e>>)
    <3> HIDE DEF V
    <3>1. u \in Seq(V) /\ <<e>> \in Seq(V)
      BY <1>0, ConcatProperties
    <3>2. u \o <<e>> = ss \o (tt \o <<e>>)
      <4>1. Associates(ss, tt, <<e>>)
        BY <1>0, <3>1, Associative
      <4> QED BY <4>1, Zenon DEF Associates
    <3>3. Append(u, e) = u \o <<e>>
      <4> HIDE DEF u
      <4> QED BY <3>1, AppendIsConcat
    <3> QED BY <3>1, <3>2, <3>3, AppendProperties, AppendIsConcat
  <2>2. FlattenSeq(u) = FlattenSeq(ss) \o FlattenSeq(tt)
    BY <1>2
  <2>3. FlattenSeq(Append(u, e)) = FlattenSeq(u) \o e
    <3> HIDE DEF u
    <3> QED BY <2>1, FlattenAppend
  <2>4. FlattenSeq(Append(tt, e)) = FlattenSeq(tt) \o e
    BY FlattenAppend
  <2>5. (FlattenSeq(ss) \o FlattenSeq(tt)) \o e = FlattenSeq(ss) \o (FlattenSeq(tt) \o e)
    <3>1. FlattenSeq(ss) \in Seq(S) /\ FlattenSeq(tt) \in Seq(S) /\ e \in Seq(S)
      BY <1>0
    <3>2. Associates(FlattenSeq(ss), FlattenSeq(tt), e)
      BY <3>1, Associative
    <3> QED BY <3>2, Zenon DEF Associates
  <2>6. ss \o Append(tt, e) = Append(u, e)
    BY <2>1, Zenon
  <2>7. FlattenSeq(ss \o Append(tt, e)) = (FlattenSeq(ss) \o FlattenSeq(tt)) \o e
    BY <2>2, <2>3, <2>6, Zenon
  <2>8. FlattenSeq(ss \o Append(tt, e)) = FlattenSeq(ss) \o FlattenSeq(Append(tt, e))
    BY <2>4, <2>5, <2>7, Zenon
  <2>9. Append(tt, e) \in Seq(V)
    BY <2>1
  <2>10. Splits(Append(tt, e))
    BY <2>8, Zenon
  <2> HIDE DEF Splits, V
  <2> QED BY <2>9, <2>10
<1>3. Seq(V) \subseteq P
  <2> HIDE DEF P, V
  <2> QED BY <1>1, <1>2, SeqInduction
<1> QED BY <1>3

(* An interval with one more number.                                       *)
LEMMA IntervalNext ==
  ASSUME NEW j \in Nat, NEW k, k # j + 1
  PROVE  k \in 1 .. j + 1 <=> k \in 1 .. j
PROOF
<1>1. 1 .. j + 1 = (1 .. j) \cup {j + 1}
  OBVIOUS
<1> QED BY <1>1

(* Flattening sequences of which all but one are empty gives that one.     *)
LEMMA FlattenOne ==
  ASSUME NEW S, NEW ss \in Seq(Seq(S)), NEW k, \A j \in 1 .. Len(ss) : j # k => ss[j] = <<>>
  PROVE  FlattenSeq(ss) = IF k \in 1 .. Len(ss) THEN ss[k] ELSE <<>>
PROOF
<1> DEFINE n == Len(ss)
<1>1. n \in Nat /\ \A j \in 1 .. n : ss[j] \in Seq(S)
  BY LenProperties, ElementOfSeq
<1>2. PICK g \in [0 .. n -> Seq(S)] : Flattens(g, ss) /\ FlattenSeq(ss) = g[n]
  BY FlattenDef
<1>3. g[0] = <<>> /\ \A j \in 1 .. n : g[j] = g[j - 1] \o ss[j]
  BY <1>2 DEF Flattens
<1> DEFINE P == {j \in 0 .. n : g[j] = IF k \in 1 .. j THEN ss[k] ELSE <<>>}
<1> HIDE DEF n
<1>4. 0 \in P
  BY <1>1, <1>3
<1>5. \A j \in 0 .. n - 1 : j \in P => j + 1 \in P
  <2> SUFFICES ASSUME NEW j \in 0 .. n - 1, j \in P PROVE j + 1 \in P
    OBVIOUS
  <2>1. j + 1 \in 1 .. n /\ (j + 1) - 1 = j
    BY <1>1
  <2>2. g[j + 1] = g[j] \o ss[j + 1] /\ g[j] = IF k \in 1 .. j THEN ss[k] ELSE <<>>
    BY <1>3, <2>1
  <2>3. CASE j + 1 = k
    <3>1. g[j] = <<>>
      BY <2>1, <2>2, <2>3
    <3>2. <<>> \o ss[k] = ss[k]
      <4>1. ss[k] \in Seq(S)
        BY <1>1, <2>1, <2>3
      <4> QED BY <4>1, ConcatEmptySeq
    <3>3. g[j + 1] = g[j] \o ss[k]
      BY <2>2, <2>3
    <3>4. g[j + 1] = ss[k]
      BY <3>1, <3>2, <3>3
    <3>5. k \in 1 .. k /\ k \in 0 .. n
      <4>1. k \in 1 .. n
        BY <2>1, <2>3
      <4> QED BY <1>1, <4>1
    <3> QED BY <2>3, <3>4, <3>5
  <2>4. CASE j + 1 # k
    <3>1. ss[j + 1] = <<>>
      BY <2>1, <2>4 DEF n
    <3>2. g[j] \o <<>> = g[j]
      BY <1>2, <2>1, ConcatEmptySeq
    <3>3. k \in 1 .. j + 1 <=> k \in 1 .. j
      <4>1. j \in Nat
        BY <1>1
      <4> QED BY <2>4, <4>1, IntervalNext
    <3>4. g[j + 1] = g[j]
      BY <2>2, <3>1, <3>2
    <3>5. j + 1 \in 0 .. n
      BY <1>1, <2>1
    <3> QED BY <2>2, <3>3, <3>4, <3>5
  <2> QED BY <2>3, <2>4
<1>6. 0 .. n \subseteq P
  <2> HIDE DEF P
  <2> QED BY <1>1, <1>4, <1>5, BoundedInduction
<1>7. n \in P
  BY <1>1, <1>6
<1> QED BY <1>2, <1>7 DEF n

(* A sequence is a prefix of each of its extensions.                       *)
LEMMA PrefixConcat ==
  ASSUME NEW S, NEW s \in Seq(S), NEW t \in Seq(S)
  PROVE  IsPrefix(s, s \o t)
PROOF
<1>1. /\ s \o t \in Seq(S) /\ Len(s \o t) = Len(s) + Len(t) /\ Len(s) \in Nat /\ Len(t) \in Nat
      /\ \A i \in 1 .. Len(s) : (s \o t)[i] = s[i]
  BY ConcatProperties, LenProperties
<1>2. /\ SubSeq(s, 1, Len(s)) \in Seq(S) /\ SubSeq(s \o t, 1, Len(s)) \in Seq(S)
      /\ Len(SubSeq(s, 1, Len(s))) = Len(s) /\ Len(SubSeq(s \o t, 1, Len(s))) = Len(s)
      /\ \A i \in 1 .. Len(s) : SubSeq(s, 1, Len(s))[i] = s[i] /\ SubSeq(s \o t, 1, Len(s))[i] = (s \o t)[i]
  <2>1. \A i \in 1 .. Len(s) : s[i] \in S /\ (s \o t)[i] \in S
    BY <1>1, ElementOfSeq
  <2>2. \A u : (\A i \in 1 .. Len(s) : u[i] \in S) =>
                 /\ SubSeq(u, 1, Len(s)) \in Seq(S) /\ Len(SubSeq(u, 1, Len(s))) = Len(s)
                 /\ \A i \in 1 .. Len(s) : SubSeq(u, 1, Len(s))[i] = u[i]
    <3> SUFFICES ASSUME NEW u, \A i \in 1 .. Len(s) : u[i] \in S
                 PROVE /\ SubSeq(u, 1, Len(s)) \in Seq(S) /\ Len(SubSeq(u, 1, Len(s))) = Len(s)
                       /\ \A i \in 1 .. Len(s) : SubSeq(u, 1, Len(s))[i] = u[i]
      OBVIOUS
    <3> QED BY <1>1, SubSeqProperties
  <2> QED BY <2>1, <2>2
<1>3. SubSeq(s, 1, Len(s)) = SubSeq(s \o t, 1, Len(s))
  BY <1>1, <1>2, SeqEqual
<1> QED BY <1>1, <1>3 DEF IsPrefix

-----------------------------------------------------------------------------
(* A non-empty set of naturals has a least element.                        *)
LEMMA LeastNumber ==
  ASSUME NEW S, S \subseteq Nat, S # {}
  PROVE  \E x \in S : \A y \in S : x <= y
PROOF
<1>1. PICK x \in S : \A y \in S : ~(<<y, x>> \in OpToRel(<, Nat))
  BY NatLessThanWellFounded, WFMin
<1>2. ASSUME NEW y \in S PROVE x <= y
  <2>1. x \in Nat /\ y \in Nat
    OBVIOUS
  <2>2. ~(y < x)
    BY <1>1, <2>1 DEF OpToRel
  <2> QED BY <2>1, <2>2
<1> QED BY <1>2

(* A non-empty set of numbers below a bound has a greatest element.        *)
LEMMA GreatestNumber ==
  ASSUME NEW n \in Nat, NEW S, S \subseteq 0 .. n, S # {}
  PROVE  \E x \in S : \A y \in S : y <= x
PROOF
<1> DEFINE T == {n - k : k \in S}
<1>1. T \subseteq Nat /\ T # {}
  <2>1. \A k \in S : n - k \in Nat
    OBVIOUS
  <2> QED BY <2>1
<1>2. \E x \in T : \A y \in T : x <= y
  <2> HIDE DEF T
  <2> QED BY <1>1, LeastNumber
<1>3. PICK k \in S : \A y \in T : n - k <= y
  BY <1>2
<1>4. \A j \in S : n - k <= n - j
  BY <1>3
<1>5. \A j \in S : j <= k
  BY <1>4
<1> QED BY <1>5

(* Min and Max are the extreme numbers of a set that has them.             *)
LEMMA MinOf ==
  ASSUME NEW S, S \subseteq Nat, S # {}
  PROVE  Min(S) \in S /\ \A y \in S : Min(S) <= y
PROOF
<1>1. \E x \in S : \A y \in S : x <= y
  BY LeastNumber
<1> QED BY <1>1 DEF Min

(* And a set of numbers up to a bound has a greatest one.                  *)
LEMMA MaxOf ==
  ASSUME NEW n \in Nat, NEW S, S \subseteq 0 .. n, S # {}
  PROVE  Max(S) \in S /\ \A y \in S : y <= Max(S)
PROOF
<1>1. PICK x \in S : \A y \in S : y <= x
  BY GreatestNumber
<1>2. \A y \in S : x >= y
  BY <1>1
<1>3. Max(S) \in S /\ \A y \in S : Max(S) >= y
  BY <1>2 DEF Max
<1>4. \A y \in S : y \in Int
  OBVIOUS
<1> QED BY <1>3, <1>4
-----------------------------------------------------------------------------
(* Keeping numbers in their order, and mapping before flattening.          *)

(* The numbers from 1 to n.                                                *)
Numbers(n) == [i \in 1 .. n |-> i]

(* Where no element passes the test nothing is kept.                       *)
LEMMA KeepNone ==
  ASSUME NEW S, NEW s \in Seq(S), NEW T, Range(s) \cap T = {}
  PROVE  Keep(s, T) = <<>>
PROOF
<1> DEFINE k == Keep(s, T)
<1>1. k \in Seq(S) /\ Range(k) = {}
  BY KeepSeq, KeepRange
<1> HIDE DEF k
<1>2. Len(k) \in Nat /\ \A i \in 1 .. Len(k) : k[i] \in Range(k)
  BY <1>1 DEF Range
<1>3. Len(k) = 0
  BY <1>1, <1>2
<1>4. k = <<>>
  BY <1>1, <1>3
<1> QED BY <1>4 DEF k

(* Something in front of a sequence stays there when it grows.             *)
InFront(x, s) == <<x>> \o s

(* Appending leaves it in front.                                           *)
LEMMA FrontAppend ==
  ASSUME NEW S, NEW x \in S, NEW s \in Seq(S), NEW e \in S
  PROVE  Append(InFront(x, s), e) = InFront(x, Append(s, e))
PROOF BY DEF InFront

(* Of the numbers up to N, the least that passes the test is kept first.   *)
LEMMA KeepFirst ==
  ASSUME NEW N \in Nat, NEW q \in 1 .. N, NEW T, \A k \in 1 .. N : k \in T => q < k
  PROVE  Keep(Numbers(N), T \cup {q}) = <<q>> \o Keep(Numbers(N), T)
PROOF
<1> DEFINE s == Numbers(N)
           U == T \cup {q}
           D == 1 .. N
<1>1. s \in Seq(D) /\ Len(s) = N /\ \A i \in 1 .. N : s[i] = i
  BY DEF Numbers
<1> HIDE DEF s, U, D
<1>2. PICK g \in [0 .. N -> Seq(D)] : KeepSteps(g, s, U) /\ Keep(s, U) = g[N]
  BY <1>1, KeepDef
<1>3. PICK h \in [0 .. N -> Seq(D)] : KeepSteps(h, s, T) /\ Keep(s, T) = h[N]
  BY <1>1, KeepDef
<1>4. g[0] = <<>> /\ \A n \in 1 .. N : g[n] = IF n \in U THEN Append(g[n - 1], n) ELSE g[n - 1]
  BY <1>1, <1>2 DEF KeepSteps
<1>5. h[0] = <<>> /\ \A n \in 1 .. N : h[n] = IF n \in T THEN Append(h[n - 1], n) ELSE h[n - 1]
  BY <1>1, <1>3 DEF KeepSteps
<1> DEFINE I == {n \in 0 .. N : IF n < q THEN g[n] = <<>> /\ h[n] = <<>> ELSE g[n] = <<q>> \o h[n]}
<1>6. 0 \in I
  BY <1>4, <1>5
<1>7. ASSUME NEW n \in 0 .. N - 1, n \in I PROVE n + 1 \in I
  <2>1. /\ n + 1 \in 1 .. N /\ (n + 1) - 1 = n
        /\ g[n + 1] = IF n + 1 \in U THEN Append(g[n], n + 1) ELSE g[n]
        /\ h[n + 1] = IF n + 1 \in T THEN Append(h[n], n + 1) ELSE h[n]
    <3> DEFINE m == n + 1
    <3>1. m \in 1 .. N /\ m - 1 = n
      OBVIOUS
    <3> HIDE DEF m
    <3>2. g[m] = (IF m \in U THEN Append(g[n], m) ELSE g[n])
      BY <1>4, <3>1
    <3>3. h[m] = (IF m \in T THEN Append(h[n], m) ELSE h[n])
      BY <1>5, <3>1
    <3> QED BY <3>1, <3>2, <3>3 DEF m
  <2>2. CASE n + 1 < q
    <3>1. n + 1 \notin U /\ n + 1 \notin T
      BY <2>1, <2>2 DEF U
    <3> QED BY <1>7, <2>1, <2>2, <3>1
  <2>3. CASE n + 1 = q
    <3>1. n + 1 \in U /\ n + 1 \notin T
      BY <2>1, <2>3 DEF U
    <3>2. n < q
      BY <2>3
    <3>3. g[n] = <<>> /\ h[n] = <<>>
      BY <1>7, <3>2
    <3>4. g[n + 1] = Append(<<>>, q) /\ h[n + 1] = <<>>
      BY <2>1, <2>3, <3>1, <3>3
    <3>5. Append(<<>>, q) = <<q>> \o <<>>
      OBVIOUS
    <3>6. g[n + 1] = <<q>> \o h[n + 1]
      BY <3>4, <3>5, Zenon
    <3>7. n + 1 \in 0 .. N /\ ~(n + 1 < q)
      BY <2>1, <2>3
    <3> QED BY <3>6, <3>7
  <2>4. CASE n + 1 > q
    <3>1. n + 1 \in U <=> n + 1 \in T
      BY <2>1, <2>4 DEF U
    <3>2. ~(n < q)
      BY <2>4
    <3>3. h[n] \in Seq(D) /\ q \in D /\ n + 1 \in D
      BY <1>3, <2>1 DEF D
    <3>4. Append(<<q>> \o h[n], n + 1) = <<q>> \o Append(h[n], n + 1)
      <4> DEFINE x == h[n]
      <4> HIDE DEF x
      <4>1. x \in Seq(D)
        BY <3>3 DEF x
      <4>2. Append(<<q>> \o x, n + 1) = <<q>> \o Append(x, n + 1)
        <5> DEFINE e == n + 1
        <5>1. e \in D /\ q \in D
          BY <3>3
        <5> HIDE DEF e
        <5>2. Append(InFront(q, x), e) = InFront(q, Append(x, e))
          BY <4>1, <5>1, FrontAppend
        <5> QED BY <5>2 DEF e, InFront
      <4> QED BY <4>2 DEF x
    <3>5. g[n] = <<q>> \o h[n]
      BY <1>7, <3>2
    <3>6. g[n + 1] = <<q>> \o h[n + 1]
      BY <2>1, <3>1, <3>4, <3>5, Zenon
    <3>7. n + 1 \in 0 .. N /\ ~(n + 1 < q)
      BY <2>1, <2>4
    <3> QED BY <3>6, <3>7
  <2>5. n + 1 < q \/ n + 1 = q \/ n + 1 > q
    OBVIOUS
  <2> QED BY <2>2, <2>3, <2>4, <2>5, Zenon
<1> HIDE DEF I
<1>8. 0 .. N \subseteq I
  BY <1>6, <1>7, BoundedInduction
<1>9. N \in I
  BY <1>8
<1>10. g[N] = <<q>> \o h[N]
  BY <1>9 DEF I
<1> QED BY <1>2, <1>3, <1>10 DEF s, U

(* What f gives for the elements of s, one after the other.                *)
Maps(S, V)    == [S -> V]
Along(f, s)   == [n \in DOMAIN s |-> f[s[n]]]
FlatMap(f, s) == FlattenSeq(Along(f, s))

(* The values of f along a sequence.                                       *)
LEMMA Mapped ==
  ASSUME NEW S, NEW V, NEW f \in Maps(S, V), NEW s \in Seq(S)
  PROVE  Along(f, s) \in Seq(V) /\ Len(Along(f, s)) = Len(s)
PROOF
<1>1. DOMAIN s = 1 .. Len(s) /\ Len(s) \in Nat /\ \A n \in 1 .. Len(s) : s[n] \in S
  OBVIOUS
<1>2. \A n \in 1 .. Len(s) : f[s[n]] \in V
  BY <1>1 DEF Maps
<1> QED BY <1>1, <1>2 DEF Along

(* And where the values are sequences.                                     *)
LEMMA SequencesMapped ==
  \A S, V : \A f \in Maps(S, Seq(V)) : \A s \in Seq(S) :
    Along(f, s) \in Seq(Seq(V)) /\ Len(Along(f, s)) = Len(s)
PROOF
<1> SUFFICES ASSUME NEW S, NEW V, NEW f \in Maps(S, Seq(V)), NEW s \in Seq(S)
             PROVE  Along(f, s) \in Seq(Seq(V)) /\ Len(Along(f, s)) = Len(s)
  OBVIOUS
<1> DEFINE W == Seq(V)
<1>1. f \in Maps(S, W)
  OBVIOUS
<1> HIDE DEF W
<1>2. Along(f, s) \in Seq(W) /\ Len(Along(f, s)) = Len(s)
  BY <1>1, Mapped
<1> QED BY <1>2 DEF W

(* It is a sequence.                                                       *)
LEMMA FlatMapType ==
  ASSUME NEW S, NEW V, NEW f \in Maps(S, Seq(V))
  PROVE  \A s \in Seq(S) : FlatMap(f, s) \in Seq(V)
PROOF
<1> SUFFICES ASSUME NEW s \in Seq(S) PROVE FlatMap(f, s) \in Seq(V)
  OBVIOUS
<1> DEFINE ss == Along(f, s)
<1>1. ss \in Seq(Seq(V))
  BY SequencesMapped
<1> HIDE DEF ss
<1>2. FlattenSeq(ss) \in Seq(V)
  BY <1>1, FlattenType
<1> QED BY <1>2 DEF FlatMap, ss

(* Of nothing, it is nothing.                                              *)
LEMMA FlatMapEmpty == \A f : FlatMap(f, <<>>) = <<>>
PROOF
<1> SUFFICES ASSUME NEW f PROVE FlatMap(f, <<>>) = <<>>
  OBVIOUS
<1>1. Along(f, <<>>) = <<>>
  BY DEF Along
<1> QED BY <1>1, FlattenEmpty DEF FlatMap

(* It goes on at the end.                                                  *)
LEMMA FlatMapAppend ==
  ASSUME NEW S, NEW V, NEW f \in Maps(S, Seq(V)), NEW s \in Seq(S), NEW e \in S
  PROVE  FlatMap(f, Append(s, e)) = FlatMap(f, s) \o f[e]
PROOF
<1> DEFINE ss == Along(f, s)
           t  == Append(s, e)
           tt == Along(f, t)
<1>1. ss \in Seq(Seq(V)) /\ Len(ss) = Len(s)
  BY SequencesMapped
<1>2. t \in Seq(S) /\ Len(t) = Len(s) + 1 /\ t[Len(s) + 1] = e /\ Len(s) \in Nat
      /\ \A n \in 1 .. Len(s) : t[n] = s[n]
  OBVIOUS
<1>3. tt \in Seq(Seq(V)) /\ Len(tt) = Len(s) + 1
  <2> HIDE DEF t
  <2>1. tt \in Seq(Seq(V)) /\ Len(tt) = Len(t)
    BY <1>2, SequencesMapped
  <2> HIDE DEF tt
  <2> QED BY <1>2, <2>1
<1>4. DOMAIN t = 1 .. Len(s) + 1 /\ DOMAIN s = 1 .. Len(s) /\ f[e] \in Seq(V)
  <2> HIDE DEF t
  <2> QED BY <1>2 DEF Maps
<1>5. /\ \A n \in 1 .. Len(s) : tt[n] = ss[n]
      /\ tt[Len(s) + 1] = f[e]
  BY <1>2, <1>4 DEF Along
<1> HIDE DEF ss, t, tt
<1>6. tt = Append(ss, f[e])
  <2>1. /\ Append(ss, f[e]) \in Seq(Seq(V)) /\ Len(Append(ss, f[e])) = Len(s) + 1
        /\ Append(ss, f[e])[Len(s) + 1] = f[e] /\ \A n \in 1 .. Len(s) : Append(ss, f[e])[n] = ss[n]
    BY <1>1, <1>2, <1>4
  <2>2. \A n \in 1 .. Len(s) + 1 : n \in 1 .. Len(s) \/ n = Len(s) + 1
    BY <1>2
  <2>3. \A n \in 1 .. Len(s) + 1 : tt[n] = Append(ss, f[e])[n]
    BY <1>5, <2>1, <2>2
  <2>4. ASSUME NEW a \in Seq(Seq(V)), NEW b \in Seq(Seq(V)), NEW k \in Nat, Len(a) = k, Len(b) = k,
               \A n \in 1 .. k : a[n] = b[n]
        PROVE  a = b
    BY <2>4
  <2> QED BY <1>2, <1>3, <2>1, <2>3, <2>4
<1>7. FlattenSeq(tt) = FlattenSeq(ss) \o f[e]
  BY <1>1, <1>4, <1>6, FlattenAppend
<1> QED BY <1>7 DEF FlatMap, tt, ss, t

(* It goes on from the first element.                                      *)
LEMMA FlatMapHead ==
  ASSUME NEW S, NEW V, NEW f \in Maps(S, Seq(V)), NEW s \in Seq(S), s # <<>>
  PROVE  FlatMap(f, s) = f[Head(s)] \o FlatMap(f, Tail(s))
PROOF
<1> DEFINE a  == <<f[Head(s)]>>
           t  == Tail(s)
           tt == Along(f, t)
           ss == Along(f, s)
<1>1. t \in Seq(S) /\ Len(t) = Len(s) - 1 /\ Len(s) \in Nat \ {0} /\ Head(s) = s[1] /\ Head(s) \in S
      /\ \A n \in 1 .. Len(s) - 1 : t[n] = s[n + 1]
  OBVIOUS
<1>2. f[Head(s)] \in Seq(V)
  BY <1>1 DEF Maps
<1>3. a \in Seq(Seq(V)) /\ Len(a) = 1 /\ a[1] = f[Head(s)]
  BY <1>2
<1>4. ss \in Seq(Seq(V)) /\ Len(ss) = Len(s)
  BY SequencesMapped
<1>5. tt \in Seq(Seq(V)) /\ Len(tt) = Len(s) - 1
  <2> HIDE DEF t
  <2>1. tt \in Seq(Seq(V)) /\ Len(tt) = Len(t)
    BY <1>1, SequencesMapped
  <2> HIDE DEF tt
  <2> QED BY <1>1, <2>1
<1>6. DOMAIN t = 1 .. Len(s) - 1 /\ DOMAIN s = 1 .. Len(s)
  <2> HIDE DEF t
  <2> QED BY <1>1
<1>7. ss[1] = f[Head(s)] /\ \A n \in 1 .. Len(s) - 1 : tt[n] = ss[n + 1]
  BY <1>1, <1>6 DEF Along
<1> HIDE DEF a, t, tt, ss
<1>8. ss = a \o tt
  <2>1. /\ a \o tt \in Seq(Seq(V)) /\ Len(a \o tt) = Len(s)
        /\ \A n \in 1 .. Len(s) : (a \o tt)[n] = IF n <= Len(a) THEN a[n] ELSE tt[n - Len(a)]
    <3>1. /\ a \o tt \in Seq(Seq(V)) /\ Len(a \o tt) = Len(a) + Len(tt)
          /\ \A n \in 1 .. Len(a) + Len(tt) : (a \o tt)[n] = IF n <= Len(a) THEN a[n] ELSE tt[n - Len(a)]
      BY <1>3, <1>5, ConcatProperties
    <3>2. Len(a) + Len(tt) = Len(s)
      BY <1>1, <1>3, <1>5
    <3> QED BY <1>3, <3>1, <3>2, Zenon
  <2>2. \A n \in 1 .. Len(s) : n = 1 \/ (n - 1 \in 1 .. Len(s) - 1 /\ (n - 1) + 1 = n /\ ~(n <= 1))
    BY <1>1
  <2>3. \A n \in 1 .. Len(s) : ss[n] = (a \o tt)[n]
    <3> DEFINE c == a \o tt
    <3>1. \A n \in 1 .. Len(s) : c[n] = IF n <= Len(a) THEN a[n] ELSE tt[n - Len(a)]
      BY <2>1
    <3> HIDE DEF c
    <3>2. \A n \in 1 .. Len(s) : ss[n] = c[n]
      <4> SUFFICES ASSUME NEW n \in 1 .. Len(s) PROVE ss[n] = c[n]
        OBVIOUS
      <4>1. CASE n = 1
        BY <1>3, <1>7, <3>1, <4>1
      <4>2. CASE n # 1
        BY <1>1, <1>3, <1>7, <2>2, <3>1, <4>2
      <4> QED BY <4>1, <4>2
    <3> QED BY <3>2 DEF c
  <2>4. ASSUME NEW x \in Seq(Seq(V)), NEW y \in Seq(Seq(V)), NEW k \in Nat, Len(x) = k, Len(y) = k,
               \A n \in 1 .. k : x[n] = y[n]
        PROVE  x = y
    BY <2>4
  <2> QED BY <1>1, <1>4, <2>1, <2>3, <2>4
<1>9. FlattenSeq(a) = f[Head(s)]
  <2> DEFINE e == f[Head(s)]
  <2> HIDE DEF e
  <2>1. e \in Seq(V)
    BY <1>2 DEF e
  <2>2. <<>> \in Seq(Seq(V)) /\ Append(<<>>, e) = <<e>> /\ <<>> \o e = e
    BY <2>1
  <2>3. FlattenSeq(<<e>>) = FlattenSeq(<<>>) \o e
    BY <2>1, <2>2, FlattenAppend
  <2>4. FlattenSeq(<<e>>) = e
    BY <2>2, <2>3, FlattenEmpty
  <2> QED BY <2>4 DEF e, a
<1>10. FlattenSeq(ss) = FlattenSeq(a) \o FlattenSeq(tt)
  BY <1>3, <1>5, <1>8, FlattenConcat
<1> QED BY <1>9, <1>10 DEF FlatMap, ss, tt, t
-----------------------------------------------------------------------------
(* Sums.                                                                   *)

(* They are numbers, each the one before it and the next number of f.      *)
LEMMA SumsAre ==
  ASSUME NEW f \in Seq(Int)
  PROVE  /\ Sums(f)[0] = 0
         /\ \A k \in 0 .. Len(f) : Sums(f)[k] \in Int
         /\ \A k \in 1 .. Len(f) : Sums(f)[k] = Sums(f)[k - 1] + f[k]
PROOF
<1> DEFINE N == Len(f)
           step == [n \in 1 .. N |-> [v \in Int |-> v + f[n]]]
           Is(s) == s = [k \in 0 .. N |-> IF k = 0 THEN 0 ELSE s[k - 1] + f[k]]
<1>1. N \in Nat /\ \A n \in 1 .. N : f[n] \in Int
  OBVIOUS
<1>2. step \in [1 .. N -> [Int -> Int]]
  BY <1>1
<1>3. PICK g \in [0 .. N -> Int] : g[0] = 0 /\ \A i \in 1 .. N : g[i] = step[i][g[i - 1]]
  <2> DEFINE base == 0
             V == Int
  <2>1. N \in Nat /\ base \in V /\ step \in StepFunctions(N, V)
    BY <1>1, <1>2 DEF StepFunctions
  <2> HIDE DEF N, step, base, V
  <2>2. \E g : Solution(N, V, base, step, g)
    BY <2>1, Recursion
  <2> QED BY <2>2 DEF base, V, Solution
<1>4. \A i \in 1 .. N : g[i] = g[i - 1] + f[i]
  <2> SUFFICES ASSUME NEW i \in 1 .. N PROVE g[i] = g[i - 1] + f[i]
    OBVIOUS
  <2>1. g[i - 1] \in Int
    BY <1>1
  <2>2. step[i][g[i - 1]] = g[i - 1] + f[i]
    BY <2>1
  <2> QED BY <1>3, <2>2
<1>5. Is(g)
  BY <1>1, <1>3, <1>4
<1> DEFINE sum == CHOOSE s : Is(s)
<1>6. Is(sum)
  <2> HIDE DEF Is
  <2> QED BY <1>5
<1>7. Sums(f) = sum
  BY DEF Sums
<1> HIDE DEF sum
<1>8. sum[0] = 0 /\ \A k \in 1 .. N : sum[k] = sum[k - 1] + f[k]
  <2>1. sum = [k \in 0 .. N |-> IF k = 0 THEN 0 ELSE sum[k - 1] + f[k]]
    BY <1>6
  <2>2. 0 \in 0 .. N /\ \A k \in 1 .. N : k \in 0 .. N /\ k # 0
    BY <1>1
  <2> HIDE DEF N
  <2> QED BY <2>1, <2>2
<1> DEFINE I == {k \in 0 .. N : sum[k] \in Int}
<1>9. 0 \in I
  BY <1>1, <1>8
<1>10. ASSUME NEW n \in 0 .. N - 1, n \in I PROVE n + 1 \in I
  <2>1. n + 1 \in 1 .. N /\ (n + 1) - 1 = n /\ n + 1 \in 0 .. N
    BY <1>1
  <2>2. sum[n + 1] = sum[n] + f[n + 1]
    BY <1>8, <2>1
  <2> QED BY <1>1, <1>10, <2>1, <2>2
<1>11. 0 .. N \subseteq I
  <2> HIDE DEF I, N
  <2> QED BY <1>1, <1>9, <1>10, BoundedInduction
<1> QED BY <1>7, <1>8, <1>11

(* Sums of naturals are naturals and never fall.                           *)
LEMMA SumsGrow ==
  ASSUME NEW f \in Seq(Nat)
  PROVE  /\ \A k \in 0 .. Len(f) : Sums(f)[k] \in Nat
         /\ \A j, k \in 0 .. Len(f) : j <= k => Sums(f)[j] <= Sums(f)[k]
PROOF
<1> DEFINE s == Sums(f)
           N == Len(f)
<1>1. N \in Nat /\ f \in Seq(Int) /\ \A k \in 1 .. N : f[k] \in Nat
  OBVIOUS
<1>2. s[0] = 0 /\ \A k \in 1 .. N : s[k] = s[k - 1] + f[k]
  BY <1>1, SumsAre
<1> HIDE DEF s, N
<1> DEFINE I == {k \in 0 .. N : s[k] \in Nat /\ \A j \in 0 .. k : s[j] <= s[k]}
<1>3. 0 \in I
  BY <1>1, <1>2
<1>4. ASSUME NEW n \in 0 .. N - 1, n \in I PROVE n + 1 \in I
  <2>1. n + 1 \in 1 .. N /\ (n + 1) - 1 = n /\ n + 1 \in 0 .. N
    BY <1>1
  <2>2. s[n + 1] = s[n] + f[n + 1] /\ f[n + 1] \in Nat
    BY <1>1, <1>2, <2>1
  <2>3. s[n + 1] \in Nat /\ s[n] <= s[n + 1]
    BY <1>4, <2>2
  <2>4. ASSUME NEW j \in 0 .. n + 1 PROVE s[j] <= s[n + 1]
    <3>1. j \in 0 .. n \/ j = n + 1
      BY <1>1
    <3>2. ASSUME j \in 0 .. n PROVE s[j] <= s[n] /\ s[j] \in Int
      <4>1. s[j] <= s[n]
        BY <1>4, <3>2
      <4>2. j \in 0 .. Len(f)
        BY <1>1, <3>2 DEF N
      <4>3. s[j] \in Int
        BY <1>1, <4>2, SumsAre DEF s
      <4> QED BY <4>1, <4>3
    <3> QED BY <1>4, <2>3, <3>1, <3>2
  <2> QED BY <2>1, <2>3, <2>4
<1>5. 0 .. N \subseteq I
  <2> HIDE DEF I
  <2> QED BY <1>1, <1>3, <1>4, BoundedInduction
<1>6. \A k \in 0 .. N : s[k] \in Nat /\ \A j \in 0 .. k : s[j] <= s[k]
  BY <1>5
<1>7. \A j, k \in 0 .. N : j <= k => j \in 0 .. k
  BY <1>1
<1>8. \A j, k \in 0 .. N : j <= k => s[j] <= s[k]
  BY <1>6, <1>7
<1> QED BY <1>6, <1>8 DEF s, N
=============================================================================
