--------------------------- MODULE BoundedInduction ---------------------------
(***************************************************************************)
(* Induction over a bounded range of numbers, stated for a set of numbers   *)
(* and not for a predicate: the proofs use it for what a loop over a        *)
(* sequence has computed after each of its elements, and first of all for   *)
(* Picked.                                                                  *)
(***************************************************************************)
EXTENDS Picking, WellFoundedInduction, TLAPS

(* A set of naturals that is not empty has a least element. *)
LEMMA LeastNatural ==
  ASSUME NEW T \in SUBSET Nat, T # {}
  PROVE  \E m \in T : \A k \in T : m <= k
<1> DEFINE R == {ss \in Nat \X Nat : ss[1] < ss[2]}
<1>1. IsWellFoundedOn(R, Nat)
  BY NatLessThanWellFounded DEF OpToRel
<1>2. \A k, m \in Nat : <<k, m>> \notin R => m <= k
  OBVIOUS
<1> HIDE DEF R
<1>3. \E m \in T : \A k \in T : <<k, m>> \notin R
  BY <1>1, WFMin
<1>4. QED
  BY <1>2, <1>3

(* What holds at first, and after a step if it held before, holds at last. *)
LEMMA InductionUpTo ==
  ASSUME NEW n \in Nat, NEW T, 0 \in T,
         \A i \in 1..n : i - 1 \in T => i \in T
  PROVE  0..n \subseteq T
<1> SUFFICES ASSUME (0..n) \ T # {} PROVE FALSE
  OBVIOUS
<1>1. (0..n) \ T \in SUBSET Nat
  OBVIOUS
<1>2. PICK m \in (0..n) \ T : \A k \in (0..n) \ T : m <= k
  BY <1>1, LeastNatural
<1>3. m \in 1..n /\ m - 1 \in 0..n /\ ~ (m <= m - 1)
  BY <1>2
<1>4. m - 1 \in T
  BY <1>2, <1>3
<1>5. QED
  BY <1>2, <1>3, <1>4

(* What a loop of n steps computes: its state after each of them. *)
Loops(n, S, start, step) ==
  {f \in [0..n -> S] : \A i \in 0..n : f[i] = IF i = 0 THEN start ELSE step[<<f[i - 1], i>>]}

(* A loop whose steps lead from good states to good states computes       *)
(* something: recursive functions over 0..n have a value.                  *)
LEMMA LoopDefined ==
  ASSUME NEW n \in Nat, NEW S, NEW start \in S, NEW step \in [S \X (1..n) -> S]
  PROVE  Loops(n, S, start, step) # {}
<1> DEFINE Runs(k) == Loops(k, S, start, step)
           T == {k \in 0..n : \E f \in Runs(k) : TRUE}
<1>1. 0 \in T
  <2>1. [i \in 0..0 |-> start] \in [0..0 -> S] /\ \A i \in 0..0 : i = 0
    OBVIOUS
  <2>2. [i \in 0..0 |-> start] \in Runs(0)
    BY <2>1 DEF Loops
  <2>3. QED
    BY <2>2
<1>2. ASSUME NEW k \in 1..n, k - 1 \in T PROVE k \in T
  <2>1. PICK f \in Runs(k - 1) : TRUE
    BY <1>2
  <2> DEFINE g == [i \in 0..k |-> IF i = k THEN step[<<f[k - 1], k>>] ELSE f[i]]
  <2>2. k - 1 \in 0..k - 1 /\ 0..k = (0..k - 1) \cup {k} /\ k \notin 0..k - 1 /\ k # 0 /\ k \in 0..n
    OBVIOUS
  <2>3. f \in [0..k - 1 -> S] /\ \A i \in 0..k - 1 : f[i] = IF i = 0 THEN start ELSE step[<<f[i - 1], i>>]
    BY <2>1 DEF Loops
  <2>4. step[<<f[k - 1], k>>] \in S
    BY <2>2, <2>3
  <2>5. g \in [0..k -> S] /\ g[k] = step[<<f[k - 1], k>>] /\ \A i \in 0..k - 1 : g[i] = f[i]
    BY <2>2, <2>3, <2>4
  <2> HIDE DEF g
  <2>6. ASSUME NEW i \in 0..k PROVE g[i] = IF i = 0 THEN start ELSE step[<<g[i - 1], i>>]
    <3>1. CASE i = k
      BY <2>2, <2>5, <3>1
    <3>2. CASE i # k
      <4>1. i \in 0..k - 1 /\ (i # 0 => i - 1 \in 0..k - 1)
        BY <3>2
      <4>2. QED
        BY <2>3, <2>5, <4>1
    <3>3. QED
      BY <3>1, <3>2
  <2>7. g \in Runs(k)
    BY <2>5, <2>6 DEF Loops
  <2>8. QED
    BY <2>2, <2>7
<1>3. n \in T
  <2> HIDE DEF T
  <2>1. 0..n \subseteq T
    BY <1>1, <1>2, InductionUpTo
  <2>2. QED
    BY <2>1
<1>4. QED
  BY <1>3
-----------------------------------------------------------------------------
(* What is picked from a sequence *)

(* picked is the loop of Picked, all the way along s. *)
PicksAll(s, I, picked) ==
  \A i \in 0..Len(s) : picked[i] = IF i = 0 THEN <<>>
                                   ELSE IF i \in I THEN Append(picked[i - 1], s[i]) ELSE picked[i - 1]

LEMMA PickedLoop ==
  ASSUME NEW S, NEW s \in Seq(S), NEW I
  PROVE  \E picked \in [0..Len(s) -> Seq(S)] : PicksAll(s, I, picked) /\ Picked(s, I) = picked[Len(s)]
<1> DEFINE n == Len(s)
           Q == Seq(S)
           step == [x \in Q \X (1..n) |-> IF x[2] \in I THEN Append(x[1], s[x[2]]) ELSE x[1]]
           Is(f) == f = [i \in 0..n |-> IF i = 0 THEN <<>>
                                        ELSE IF i \in I THEN Append(f[i - 1], s[i]) ELSE f[i - 1]]
           loop == CHOOSE f : Is(f)
<1>1. n \in Nat /\ <<>> \in Q /\ \A i \in 1..n : s[i] \in S
  OBVIOUS
<1>2. ASSUME NEW q \in Q, NEW i \in 1..n PROVE Append(q, s[i]) \in Q
  BY <1>1
<1>3. step \in [Q \X (1..n) -> Q]
  <2> HIDE DEF Q
  <2>1. \A x \in Q \X (1..n) : x[1] \in Q /\ x[2] \in 1..n
    OBVIOUS
  <2>2. QED
    BY <1>2, <2>1
<1>4. PICK f \in [0..n -> Q] : \A i \in 0..n : f[i] = IF i = 0 THEN <<>> ELSE step[<<f[i - 1], i>>]
  <2> HIDE DEF step, Q
  <2>1. Loops(n, Q, <<>>, step) # {}
    BY <1>1, <1>3, LoopDefined
  <2>2. QED
    BY <2>1 DEF Loops
<1>5. Is(f)
  <2>1. ASSUME NEW i \in 0..n
        PROVE  f[i] = IF i = 0 THEN <<>> ELSE IF i \in I THEN Append(f[i - 1], s[i]) ELSE f[i - 1]
    <3> HIDE DEF Q
    <3>1. i # 0 => i \in 1..n /\ f[i - 1] \in Q
      BY <1>1, <1>4
    <3>2. i # 0 => step[<<f[i - 1], i>>] = IF i \in I THEN Append(f[i - 1], s[i]) ELSE f[i - 1]
      BY <3>1
    <3> HIDE DEF step
    <3>3. QED
      BY <1>4, <3>2
  <2>2. f = [i \in 0..n |-> f[i]]
    BY <1>4
  <2>3. QED
    BY <2>1, <2>2
<1>6. Is(loop)
  BY <1>5
<1>7. Picked(s, I) = loop[n]
  BY DEF Picked
<1>8. PicksAll(s, I, loop) /\ loop = [i \in 0..n |-> loop[i]]
  <2> HIDE DEF loop
  <2>1. \A i \in 0..n : loop[i] = IF i = 0 THEN <<>>
                                  ELSE IF i \in I THEN Append(loop[i - 1], s[i]) ELSE loop[i - 1]
    BY <1>6
  <2>2. loop = [i \in 0..n |-> loop[i]]
    BY <1>6
  <2>3. QED
    BY <2>1, <2>2 DEF PicksAll
<1>9. \A i \in 0..n : loop[i] \in Q
  <2> HIDE DEF loop, Q
  <2> DEFINE T == {i \in 0..n : loop[i] \in Q}
  <2>1. 0 \in T
    BY <1>1, <1>8 DEF PicksAll
  <2>2. ASSUME NEW i \in 1..n, i - 1 \in T PROVE i \in T
    <3>1. i \in 0..n /\ i # 0 /\ loop[i - 1] \in Q
      BY <2>2
    <3>2. loop[i] = IF i \in I THEN Append(loop[i - 1], s[i]) ELSE loop[i - 1]
      BY <1>8, <3>1 DEF PicksAll
    <3>3. QED
      BY <1>2, <3>1, <3>2
  <2>3. 0..n \subseteq T
    <3> HIDE DEF T
    <3>1. QED
      BY <1>1, <2>1, <2>2, InductionUpTo
  <2>4. QED
    BY <2>3
<1>10. QED
  <2> HIDE DEF loop
  <2>1. loop \in [0..n -> Q]
    BY <1>8, <1>9
  <2>2. QED
    BY <1>7, <1>8, <2>1

(* q holds the first n elements of s that are at positions in I, in their   *)
(* order: k says where each one is from.                                    *)
IsPick(s, I, n, q) ==
  \E k \in [1..Len(q) -> 1..n] :
    /\ \A a \in 1..Len(q) : k[a] \in I /\ q[a] = s[k[a]]
    /\ \A a, b \in 1..Len(q) : a < b => k[a] < k[b]
    /\ \A i \in 1..n : i \in I => \E a \in 1..Len(q) : k[a] = i

LEMMA PickedFacts ==
  ASSUME NEW S, NEW s \in Seq(S), NEW I
  PROVE  Picked(s, I) \in Seq(S) /\ IsPick(s, I, Len(s), Picked(s, I))
<1>1. PICK picked \in [0..Len(s) -> Seq(S)] : PicksAll(s, I, picked) /\ Picked(s, I) = picked[Len(s)]
  BY PickedLoop
<1> DEFINE n == Len(s)
           T == {i \in 0..n : IsPick(s, I, i, picked[i])}
<1>2. n \in Nat
  OBVIOUS
<1>3. 0 \in T
  <2>1. picked[0] = <<>> /\ Len(<<>>) = 0 /\ 1..0 = {}
    BY <1>1, <1>2 DEF PicksAll
  <2>2. [a \in 1..0 |-> 0] \in [1..0 -> 1..0]
    BY <2>1
  <2>3. QED
    BY <1>2, <2>1, <2>2 DEF IsPick
<1>4. ASSUME NEW i \in 1..n, i - 1 \in T PROVE i \in T
  <2> DEFINE q == picked[i - 1]
             m == Len(q)
             r == picked[i]
  <2>1. /\ i - 1 \in 0..n /\ i \in 0..n /\ i # 0
        /\ r = IF i \in I THEN Append(q, s[i]) ELSE q
        /\ q \in Seq(S) /\ m \in Nat /\ s[i] \in S
        /\ 1..i = (1..i - 1) \cup {i} /\ i \notin 1..i - 1 /\ \A j \in 1..i - 1 : j < i /\ j \in 1..i
    <3>1. i - 1 \in 0..n /\ i \in 0..n /\ i # 0 /\ i \in 1..n
      BY <1>2
    <3>2. r = IF i \in I THEN Append(q, s[i]) ELSE q
      BY <1>1, <3>1 DEF PicksAll
    <3>3. q \in Seq(S) /\ m \in Nat /\ s[i] \in S
      BY <1>1, <3>1
    <3>4. 1..i = (1..i - 1) \cup {i} /\ i \notin 1..i - 1 /\ \A j \in 1..i - 1 : j < i /\ j \in 1..i
      BY <1>2
    <3>5. QED
      BY <3>1, <3>2, <3>3, <3>4
  <2>2. PICK k \in [1..m -> 1..i - 1] :
          /\ \A a \in 1..m : k[a] \in I /\ q[a] = s[k[a]]
          /\ \A a, b \in 1..m : a < b => k[a] < k[b]
          /\ \A j \in 1..i - 1 : j \in I => \E a \in 1..m : k[a] = j
    BY <1>4 DEF IsPick
  <2> HIDE DEF q, r
  <2>3. CASE i \notin I
    <3>1. r = q /\ k \in [1..m -> 1..i]
      BY <2>1, <2>2, <2>3
    <3>2. \A j \in 1..i : j \in I => j \in 1..i - 1
      BY <2>1, <2>3
    <3>3. /\ \A a \in 1..m : k[a] \in I /\ r[a] = s[k[a]]
          /\ \A a, b \in 1..m : a < b => k[a] < k[b]
          /\ \A j \in 1..i : j \in I => \E a \in 1..m : k[a] = j
      BY <2>2, <3>1, <3>2
    <3>4. Len(r) = m
      BY <3>1
    <3> HIDE DEF m
    <3>5. IsPick(s, I, i, r)
      BY <3>1, <3>3, <3>4 DEF IsPick
    <3>6. QED
      BY <2>1, <3>5 DEF r
  <2>4. CASE i \in I
    <3> DEFINE g == [a \in 1..m + 1 |-> IF a = m + 1 THEN i ELSE k[a]]
    <3>1. /\ r = Append(q, s[i]) /\ Len(r) = m + 1 /\ r[m + 1] = s[i] /\ \A a \in 1..m : r[a] = q[a]
          /\ 1..m + 1 = (1..m) \cup {m + 1} /\ m + 1 \notin 1..m
          /\ \A a \in 1..m : a < m + 1 /\ ~ (m + 1 < a)
          /\ ~ (m + 1 < m + 1)
      BY <2>1, <2>4
    <3>2. /\ g \in [1..m + 1 -> 1..i] /\ g[m + 1] = i /\ \A a \in 1..m : g[a] = k[a] /\ g[a] < i
      BY <2>1, <2>2, <3>1
    <3> HIDE DEF g, m
    <3>3. \A a \in 1..m + 1 : g[a] \in I /\ r[a] = s[g[a]]
      BY <2>2, <2>4, <3>1, <3>2
    <3>4. ASSUME NEW a \in 1..m + 1, NEW b \in 1..m + 1, a < b PROVE g[a] < g[b]
      <4>1. a \in 1..m
        BY <3>1, <3>4
      <4>2. CASE b = m + 1
        BY <3>2, <4>1, <4>2
      <4>3. CASE b # m + 1
        <5>1. b \in 1..m
          BY <3>1, <4>3
        <5>2. QED
          BY <2>2, <3>2, <3>4, <4>1, <5>1
      <4>4. QED
        BY <4>2, <4>3
    <3>5. \A j \in 1..i : j \in I => \E a \in 1..m + 1 : g[a] = j
      <4>1. ASSUME NEW j \in 1..i, j \in I PROVE \E a \in 1..m + 1 : g[a] = j
        <5>1. CASE j = i
          BY <3>1, <3>2, <5>1
        <5>2. CASE j # i
          <6>1. PICK a \in 1..m : k[a] = j
            BY <2>1, <2>2, <4>1, <5>2
          <6>2. QED
            BY <3>1, <3>2, <6>1
        <5>3. QED
          BY <5>1, <5>2
      <4>2. QED
        BY <4>1
    <3>6. IsPick(s, I, i, r)
      <4>1. 1..Len(r) = 1..m + 1
        BY <3>1
      <4>2. /\ g \in [1..Len(r) -> 1..i]
            /\ \A a \in 1..Len(r) : g[a] \in I /\ r[a] = s[g[a]]
            /\ \A a, b \in 1..Len(r) : a < b => g[a] < g[b]
            /\ \A j \in 1..i : j \in I => \E a \in 1..Len(r) : g[a] = j
        BY <3>2, <3>3, <3>4, <3>5, <4>1
      <4>3. QED
        BY <4>2 DEF IsPick
    <3>7. QED
      BY <2>1, <3>6 DEF r
  <2>5. QED
    BY <2>3, <2>4
<1>5. 0..n \subseteq T
  <2> HIDE DEF T
  <2>1. QED
    BY <1>2, <1>3, <1>4, InductionUpTo
<1>6. n \in T
  BY <1>2, <1>5
<1>7. QED
  BY <1>1, <1>6
=============================================================================
