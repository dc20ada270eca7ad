-------------------------- MODULE DexProviderProofs --------------------------
(***************************************************************************)
(* Proofs about DexProvider for any callers, addresses, capacity of the     *)
(* cache and failures.                                                      *)
(***************************************************************************)
EXTENDS DexProvider, BoundedInduction, SequenceTheorems, FiniteSetTheorems

(* The cache as a sequence *)

LEMMA IndexFacts ==
  ASSUME NEW ch, NEW a, Cached(ch, a)
  PROVE  IndexOf(ch, a) \in DOMAIN ch /\ EntryOf(ch, a) = ch[IndexOf(ch, a)] /\ EntryOf(ch, a)[1] = a
BY DEF Cached, IndexOf, EntryOf

LEMMA CachedEntry ==
  ASSUME NEW ch, NEW a
  PROVE  Cached(ch, a) <=> \E e \in EntriesOf(ch) : e[1] = a
BY DEF Cached, EntriesOf

LEMMA RemoveAtFacts ==
  ASSUME NEW S, NEW s \in Seq(S), NEW i \in 1..Len(s)
  PROVE  /\ RemoveAt(s, i) \in Seq(S) /\ Len(RemoveAt(s, i)) = Len(s) - 1
         /\ \A j \in 1..Len(s) - 1 : RemoveAt(s, i)[j] = IF j < i THEN s[j] ELSE s[j + 1]
<1> DEFINE a == SubSeq(s, 1, i - 1)
           b == SubSeq(s, i + 1, Len(s))
<1>0. Len(s) \in Nat /\ i \in Nat /\ 1 <= i /\ i <= Len(s) /\ \A j \in 1..Len(s) : s[j] \in S
  BY LenProperties, ElementOfSeq
<1>1. a \in Seq(S) /\ Len(a) = i - 1 /\ \A j \in 1..i - 1 : a[j] = s[j]
  <2>1. \A j \in 1..i - 1 : s[j] \in S
    BY <1>0
  <2>2. /\ a \in Seq(S) /\ Len(a) = IF 1 <= i - 1 THEN i - 1 - 1 + 1 ELSE 0
        /\ \A j \in 1..i - 1 - 1 + 1 : a[j] = s[1 + j - 1]
    BY <1>0, <2>1, SubSeqProperties
  <2> HIDE DEF a
  <2>3. QED
    BY <1>0, <2>2
<1>2. b \in Seq(S) /\ Len(b) = Len(s) - i /\ \A j \in 1..Len(s) - i : b[j] = s[i + j]
  <2>1. \A j \in i + 1..Len(s) : s[j] \in S
    BY <1>0
  <2>2. /\ b \in Seq(S) /\ Len(b) = IF i + 1 <= Len(s) THEN Len(s) - (i + 1) + 1 ELSE 0
        /\ \A j \in 1..Len(s) - (i + 1) + 1 : b[j] = s[i + 1 + j - 1]
    BY <1>0, <2>1, SubSeqProperties
  <2> HIDE DEF b
  <2>3. QED
    BY <1>0, <2>2
<1>3. RemoveAt(s, i) = a \o b
  BY DEF RemoveAt
<1> HIDE DEF a, b
<1>4. /\ a \o b \in Seq(S) /\ Len(a \o b) = Len(a) + Len(b)
      /\ \A j \in 1..Len(a) + Len(b) : (a \o b)[j] = IF j <= Len(a) THEN a[j] ELSE b[j - Len(a)]
  BY <1>1, <1>2, ConcatProperties
<1>5. ASSUME NEW j \in 1..Len(s) - 1 PROVE (a \o b)[j] = IF j < i THEN s[j] ELSE s[j + 1]
  <2>1. CASE j < i
    BY <1>0, <1>1, <1>2, <1>4, <2>1
  <2>2. CASE ~ (j < i)
    <3>1. (a \o b)[j] = b[j - (i - 1)] /\ j - (i - 1) \in 1..Len(s) - i
      BY <1>0, <1>1, <1>2, <1>4, <2>2
    <3>2. i + (j - (i - 1)) = j + 1
      BY <1>0
    <3>3. QED
      BY <1>2, <2>2, <3>1, <3>2
  <2>3. QED
    BY <2>1, <2>2
<1>6. QED
  BY <1>0, <1>1, <1>2, <1>3, <1>4, <1>5

(* A lookup changes the order of the cache, and nothing else. *)
LEMMA TouchFacts ==
  ASSUME NEW V, NEW ch \in Seq(Addrs \X V), OneEntryEach(ch), NEW a, Cached(ch, a)
  PROVE  /\ Touch(ch, a) \in Seq(Addrs \X V) /\ Len(Touch(ch, a)) = Len(ch)
         /\ OneEntryEach(Touch(ch, a)) /\ EntriesOf(Touch(ch, a)) = EntriesOf(ch)
<1> DEFINE i == IndexOf(ch, a)
           r == RemoveAt(ch, i)
           t == Touch(ch, a)
           n == Len(ch)
           from == [j \in 1..n |-> IF j < i THEN j ELSE IF j < n THEN j + 1 ELSE i]
<1>1. n \in Nat /\ DOMAIN ch = 1..n /\ i \in 1..n /\ ch[i] \in Addrs \X V /\ t = Append(r, ch[i])
  <2>1. n \in Nat /\ DOMAIN ch = 1..n
    BY LenProperties
  <2>2. i \in 1..n /\ EntryOf(ch, a) = ch[i]
    BY <2>1, IndexFacts
  <2>3. QED
    BY <2>1, <2>2, ElementOfSeq DEF Touch
<1>2. r \in Seq(Addrs \X V) /\ Len(r) = n - 1 /\ \A j \in 1..n - 1 : r[j] = IF j < i THEN ch[j] ELSE ch[j + 1]
  BY <1>1, RemoveAtFacts
<1> HIDE DEF r, t, i, n
<1>3. t \in Seq(Addrs \X V) /\ Len(t) = n /\ t[n] = ch[i] /\ \A j \in 1..n - 1 : t[j] = r[j]
  <2>1. /\ t \in Seq(Addrs \X V) /\ Len(t) = Len(r) + 1 /\ t[Len(r) + 1] = ch[i]
        /\ \A j \in 1..Len(r) : t[j] = r[j]
    BY <1>1, <1>2, AppendProperties
  <2>2. Len(r) + 1 = n
    BY <1>1, <1>2
  <2>3. QED
    BY <1>2, <2>1, <2>2
<1>4. DOMAIN t = 1..n
  BY <1>3, LenProperties
<1>5. \A j \in 1..n : from[j] \in 1..n /\ t[j] = ch[from[j]]
  <2>1. ASSUME NEW j \in 1..n, j < n PROVE from[j] \in 1..n /\ t[j] = ch[from[j]]
    <3>1. j \in 1..n - 1
      BY <1>1, <2>1
    <3>2. QED
      BY <1>1, <1>2, <1>3, <2>1, <3>1
  <2>2. n \in 1..n => from[n] = i
    BY <1>1
  <2>3. \A j \in 1..n : j < n \/ j = n
    BY <1>1
  <2>4. QED
    BY <1>1, <1>3, <2>1, <2>2, <2>3
<1>6. \A j, k \in 1..n : from[j] = from[k] => j = k
  BY <1>1
<1>7. \A k \in 1..n : \E j \in 1..n : from[j] = k
  <2>1. ASSUME NEW k \in 1..n, k < i PROVE from[k] = k
    BY <2>1
  <2>2. ASSUME NEW k \in 1..n, k > i PROVE k - 1 \in 1..n /\ from[k - 1] = k
    BY <1>1, <2>2
  <2>3. n \in 1..n /\ from[n] = i
    BY <1>1
  <2>4. \A k \in 1..n : k < i \/ k > i \/ k = i
    BY <1>1
  <2>5. QED
    BY <2>1, <2>2, <2>3, <2>4
<1> HIDE DEF from
<1>8. OneEntryEach(t)
  BY <1>1, <1>4, <1>5, <1>6 DEF OneEntryEach
<1>9. EntriesOf(t) = EntriesOf(ch)
  <2>1. \A e \in EntriesOf(t) : e \in EntriesOf(ch)
    BY <1>1, <1>4, <1>5 DEF EntriesOf
  <2>2. ASSUME NEW e \in EntriesOf(ch) PROVE e \in EntriesOf(t)
    <3>1. PICK k \in 1..n : e = ch[k]
      BY <1>1 DEF EntriesOf
    <3>2. PICK j \in 1..n : from[j] = k
      BY <1>7
    <3>3. t[j] = e
      BY <1>5, <3>1, <3>2
    <3>4. QED
      BY <1>4, <3>3 DEF EntriesOf
  <2>3. QED
    BY <2>1, <2>2
<1>10. QED
  BY <1>3, <1>8, <1>9 DEF t, n

LEMMA EntryTyped ==
  ASSUME NEW V, NEW ch \in Seq(Addrs \X V), NEW e \in EntriesOf(ch)
  PROVE  e \in Addrs \X V
<1>1. DOMAIN ch = 1..Len(ch)
  BY LenProperties
<1>2. QED
  BY <1>1, ElementOfSeq DEF EntriesOf

(* Without its least recently used entry. *)
LEMMA TailFacts ==
  ASSUME NEW V, NEW ch \in Seq(Addrs \X V), OneEntryEach(ch), ch # <<>>
  PROVE  /\ Tail(ch) \in Seq(Addrs \X V) /\ Len(Tail(ch)) = Len(ch) - 1
         /\ OneEntryEach(Tail(ch)) /\ EntriesOf(Tail(ch)) \subseteq EntriesOf(ch)
<1> DEFINE t == Tail(ch)
           n == Len(ch)
<1>1. /\ t \in Seq(Addrs \X V) /\ Len(t) = n - 1
      /\ \A j \in 1..Len(t) : t[j] = ch[j + 1]
  BY HeadTailProperties
<1>2. n \in Nat /\ DOMAIN ch = 1..n /\ DOMAIN t = 1..Len(t)
  BY <1>1, LenProperties
<1> HIDE DEF t, n
<1>3. \A j \in DOMAIN t : j \in Nat /\ j + 1 \in DOMAIN ch /\ t[j] = ch[j + 1]
  BY <1>1, <1>2
<1>4. OneEntryEach(t)
  <2>1. ASSUME NEW i \in DOMAIN t, NEW j \in DOMAIN t, t[i][1] = t[j][1] PROVE i = j
    <3>1. i + 1 = j + 1
      BY <1>3, <2>1 DEF OneEntryEach
    <3>2. QED
      BY <1>3, <3>1
  <2>2. QED
    BY <2>1 DEF OneEntryEach
<1>5. EntriesOf(t) \subseteq EntriesOf(ch)
  BY <1>3 DEF EntriesOf
<1>6. QED
  BY <1>1, <1>4, <1>5 DEF t, n

(* With an entry for a new address. *)
LEMMA AppendFacts ==
  ASSUME NEW V, NEW ch \in Seq(Addrs \X V), OneEntryEach(ch), NEW a \in Addrs, NEW v \in V,
         ~ Cached(ch, a)
  PROVE  LET t == Append(ch, <<a, v>>)
         IN  /\ t \in Seq(Addrs \X V) /\ Len(t) = Len(ch) + 1
             /\ OneEntryEach(t) /\ EntriesOf(t) = EntriesOf(ch) \cup {<<a, v>>}
<1> DEFINE t == Append(ch, <<a, v>>)
           n == Len(ch)
<1>1. /\ t \in Seq(Addrs \X V) /\ Len(t) = n + 1 /\ t[n + 1] = <<a, v>>
      /\ \A j \in 1..n : t[j] = ch[j]
  BY AppendProperties
<1>2. n \in Nat /\ DOMAIN ch = 1..n /\ DOMAIN t = 1..Len(t)
  BY <1>1, LenProperties
<1> HIDE DEF t, n
<1>3. DOMAIN t = DOMAIN ch \cup {n + 1} /\ n + 1 \notin DOMAIN ch
  BY <1>1, <1>2
<1>4. \A j \in DOMAIN ch : t[j] = ch[j] /\ ch[j][1] # a
  BY <1>1, <1>2 DEF Cached
<1>5. OneEntryEach(t)
  BY <1>1, <1>3, <1>4 DEF OneEntryEach
<1>6. EntriesOf(t) = EntriesOf(ch) \cup {<<a, v>>}
  <2>1. EntriesOf(t) = {t[j] : j \in DOMAIN ch} \cup {t[n + 1]}
    BY <1>3 DEF EntriesOf
  <2>2. {t[j] : j \in DOMAIN ch} = {ch[j] : j \in DOMAIN ch}
    BY <1>4
  <2>3. QED
    BY <1>1, <2>1, <2>2 DEF EntriesOf
<1>7. QED
  BY <1>1, <1>5, <1>6 DEF t, n

(* A new entry, and perhaps the oldest one less. *)
LEMMA PutFacts ==
  ASSUME NEW V, NEW ch \in Seq(Addrs \X V), OneEntryEach(ch), Len(ch) <= Capacity,
         NEW a \in Addrs, NEW v \in V, ~ Cached(ch, a)
  PROVE  /\ Put(ch, a, v) \in Seq(Addrs \X V) /\ Len(Put(ch, a, v)) <= Capacity
         /\ OneEntryEach(Put(ch, a, v))
         /\ EntriesOf(Put(ch, a, v)) \subseteq EntriesOf(ch) \cup {<<a, v>>}
         /\ Len(ch) < Capacity => EntriesOf(Put(ch, a, v)) = EntriesOf(ch) \cup {<<a, v>>}
<1>1. Len(ch) \in Nat /\ Capacity \in Nat \ {0} /\ DOMAIN ch = 1..Len(ch)
  BY LenProperties, CapacityAssumption
<1>2. CASE Len(ch) = Capacity
  <2> DEFINE t == Tail(ch)
  <2>1. /\ t \in Seq(Addrs \X V) /\ Len(t) = Len(ch) - 1 /\ OneEntryEach(t)
        /\ EntriesOf(t) \subseteq EntriesOf(ch)
    <3>1. ch # <<>>
      BY <1>1, <1>2
    <3>2. QED
      BY <3>1, TailFacts
  <2>2. Put(ch, a, v) = Append(t, <<a, v>>)
    BY <1>2 DEF Put
  <2> HIDE DEF t
  <2>3. ~ Cached(t, a)
    BY <2>1 DEF EntriesOf, Cached
  <2>4. /\ Put(ch, a, v) \in Seq(Addrs \X V) /\ Len(Put(ch, a, v)) = Len(t) + 1
        /\ OneEntryEach(Put(ch, a, v)) /\ EntriesOf(Put(ch, a, v)) = EntriesOf(t) \cup {<<a, v>>}
    BY <2>1, <2>2, <2>3, AppendFacts
  <2>5. Len(t) + 1 <= Capacity /\ ~ (Len(ch) < Capacity)
    BY <1>1, <1>2, <2>1
  <2>6. QED
    BY <2>1, <2>4, <2>5
<1>3. CASE Len(ch) # Capacity
  <2>1. Put(ch, a, v) = Append(ch, <<a, v>>)
    BY <1>3 DEF Put
  <2>2. /\ Put(ch, a, v) \in Seq(Addrs \X V) /\ Len(Put(ch, a, v)) = Len(ch) + 1
        /\ OneEntryEach(Put(ch, a, v)) /\ EntriesOf(Put(ch, a, v)) = EntriesOf(ch) \cup {<<a, v>>}
    <3> DEFINE t == Append(ch, <<a, v>>)
    <3>1. /\ t \in Seq(Addrs \X V) /\ Len(t) = Len(ch) + 1
          /\ OneEntryEach(t) /\ EntriesOf(t) = EntriesOf(ch) \cup {<<a, v>>}
      BY AppendFacts
    <3> HIDE DEF t
    <3>2. QED
      BY <2>1, <3>1 DEF t
  <2>3. Len(ch) + 1 <= Capacity
    <3> DEFINE n == Len(ch)
    <3>1. n \in Nat /\ n <= Capacity /\ n # Capacity
      BY <1>1, <1>3
    <3> HIDE DEF n
    <3>2. n + 1 <= Capacity
      BY <1>1, <3>1
    <3>3. QED
      BY <3>2 DEF n
  <2>4. QED
    BY <2>2, <2>3
<1>4. QED
  BY <1>2, <1>3

(* A cache with room for every address never evicts one. *)
LEMMA RoomForAll ==
  ASSUME NEW V, NEW ch \in Seq(Addrs \X V), OneEntryEach(ch), NEW a \in Addrs, ~ Cached(ch, a),
         Cardinality(Addrs) <= Capacity
  PROVE  Len(ch) < Capacity
<1> DEFINE S == 1..Len(ch)
           T == Addrs \ {a}
           f == [i \in S |-> ch[i][1]]
<1>1. Len(ch) \in Nat /\ DOMAIN ch = S /\ \A i \in S : ch[i] \in Addrs \X V
  BY LenProperties, ElementOfSeq
<1>2. IsFiniteSet(T) /\ Cardinality(T) = Cardinality(Addrs) - 1 /\ Cardinality(Addrs) \in Nat
  BY AddrsAssumption, FS_RemoveElement, FS_CardinalityType
<1>3. f \in Injection(S, T)
  <2>1. \A i \in S : ch[i][1] \in T
    BY <1>1 DEF Cached
  <2>2. f \in [S -> T]
    BY <2>1
  <2>3. \A i, j \in S : f[i] = f[j] => i = j
    BY <1>1 DEF OneEntryEach
  <2>4. QED
    BY <2>2, <2>3 DEF Injection, IsInjective
<1>4. Cardinality(S) <= Cardinality(T)
  <2> HIDE DEF S, T, f
  <2>1. QED
    BY <1>2, <1>3, FS_Injection
<1>5. Cardinality(S) = Len(ch)
  <2> DEFINE size == IF 1 > Len(ch) THEN 0 ELSE Len(ch) - 1 + 1
  <2>1. size = Len(ch) /\ 1 \in Int /\ Len(ch) \in Int
    BY <1>1
  <2>2. Cardinality(1..Len(ch)) = size
    BY <2>1, FS_Interval
  <2>3. QED
    BY <2>1, <2>2
<1>6. QED
  BY <1>1, <1>2, <1>4, <1>5, CapacityAssumption

Entered == {a \in Addrs : Cached(cache, a)}

IsCache(ch, V) == ch \in Seq(Addrs \X V) /\ OneEntryEach(ch)

(* Setting the values only reorders the cache. *)
LEMMA TouchedFacts ==
  ASSUME NEW V, IsCache(cache, V),
         NEW order, NEW n \in Nat, Len(order) = n, \A i \in 1..n : order[i] \in Entered
  PROVE  /\ IsCache(Touched(order), V) /\ Len(Touched(order)) = Len(cache)
         /\ EntriesOf(Touched(order)) = EntriesOf(cache)
<1> DEFINE S == {ch \in Seq(Addrs \X V) :
                   Len(ch) = Len(cache) /\ OneEntryEach(ch) /\ EntriesOf(ch) = EntriesOf(cache)}
           step == [p \in S \X (1..n) |-> Touch(p[1], order[p[2]])]
           Is(f) == f = [i \in 0..n |-> IF i = 0 THEN cache ELSE Touch(f[i - 1], order[i])]
           loop == CHOOSE f : Is(f)
           T == {i \in 0..n : loop[i] \in S}
<1>1. ASSUME NEW ch \in S, NEW i \in 1..n PROVE Touch(ch, order[i]) \in S
  <2>1. Cached(ch, order[i])
    <3>1. EntriesOf(ch) = EntriesOf(cache) /\ Cached(cache, order[i])
      BY DEF Entered
    <3> HIDE DEF S
    <3>2. QED
      BY <3>1, CachedEntry
  <2>2. /\ Touch(ch, order[i]) \in Seq(Addrs \X V) /\ Len(Touch(ch, order[i])) = Len(ch)
        /\ OneEntryEach(Touch(ch, order[i])) /\ EntriesOf(Touch(ch, order[i])) = EntriesOf(ch)
    BY <2>1, TouchFacts
  <2>3. QED
    BY <2>2
<1>2. cache \in S /\ step \in [S \X (1..n) -> S]
  <2>1. ASSUME NEW p \in S \X (1..n) PROVE Touch(p[1], order[p[2]]) \in S
    <3>1. p[1] \in S /\ p[2] \in 1..n
      OBVIOUS
    <3> HIDE DEF S
    <3>2. QED
      BY <1>1, <3>1
  <2>2. cache \in S
    BY DEF IsCache
  <2> HIDE DEF S
  <2>3. QED
    BY <2>1, <2>2
<1> HIDE DEF S
<1>3. PICK f \in [0..n -> S] : \A i \in 0..n : f[i] = IF i = 0 THEN cache ELSE step[<<f[i - 1], i>>]
  <2> HIDE DEF step
  <2>1. Loops(n, S, cache, step) # {}
    BY <1>2, LoopDefined
  <2>2. QED
    BY <2>1 DEF Loops
<1>4. Is(f)
  <2>1. ASSUME NEW i \in 0..n PROVE f[i] = IF i = 0 THEN cache ELSE Touch(f[i - 1], order[i])
    <3>1. i # 0 => i \in 1..n /\ f[i - 1] \in S
      BY <1>3
    <3>2. i # 0 => step[<<f[i - 1], i>>] = Touch(f[i - 1], order[i])
      BY <3>1
    <3> HIDE DEF step
    <3>3. QED
      BY <1>3, <3>2
  <2>2. f = [i \in 0..n |-> f[i]]
    BY <1>3
  <2>3. QED
    BY <2>1, <2>2
<1>5. Is(loop)
  BY <1>4
<1>6. Touched(order) = loop[n]
  BY DEF Touched
<1>7. 0..n \subseteq T
  <2> HIDE DEF loop
  <2>1. \A i \in 0..n : loop[i] = IF i = 0 THEN cache ELSE Touch(loop[i - 1], order[i])
    BY <1>5
  <2>2. 0 \in T
    BY <1>2, <2>1
  <2>3. ASSUME NEW i \in 1..n, i - 1 \in T PROVE i \in T
    <3>1. i \in 0..n /\ i # 0 /\ loop[i - 1] \in S
      BY <2>3
    <3>2. loop[i] \in S
      BY <1>1, <2>1, <3>1
    <3>3. QED
      BY <3>1, <3>2
  <2> HIDE DEF T
  <2>4. QED
    BY <2>2, <2>3, InductionUpTo
<1>8. Touched(order) \in S
  <2> HIDE DEF loop
  <2>1. QED
    BY <1>6, <1>7
<1>9. QED
  BY <1>8 DEF S, IsCache

(* The loop over the inputs of a call *)

LEMMA WiderSeq ==
  ASSUME NEW S, NEW T, S \subseteq T, NEW s \in Seq(S)
  PROVE  s \in Seq(T)
OBVIOUS

SearchStates ==
  [cache : Seq(Addrs \X Nat), sent : Seq(Nat), own : SUBSET Addrs,
   waits : SUBSET (Addrs \X Nat), got : SUBSET Addrs]

(* What the loop has done to the cache and the values: no value of before   *)
(* is set, and each new one is there for an address that the call fetches.  *)
SearchInv(s, A) ==
  /\ s.cache \in Seq(Addrs \X DOMAIN s.sent) /\ Len(s.cache) <= Capacity /\ OneEntryEach(s.cache)
  /\ Len(sent) <= Len(s.sent)
  /\ \A v \in DOMAIN s.sent : s.sent[v] = IF v \in Values THEN sent[v] ELSE 0
  /\ s.own \subseteq A /\ s.got \subseteq A \cap Valid /\ s.waits \subseteq A \X DOMAIN s.sent
  /\ \A e \in EntriesOf(s.cache) : e \in EntriesOf(cache) \/ (e[2] \notin Values /\ e[1] \in s.own)
  /\ Cardinality(Addrs) <= Capacity =>
       /\ EntriesOf(cache) \subseteq EntriesOf(s.cache)
       /\ \A a \in s.own : Cached(s.cache, a) /\ ~ Cached(cache, a)

Searches(A) == {s \in SearchStates : SearchInv(s, A)}

(* The call has an address, fetches it, or waits for it; what is no pair    *)
(* may also be known to be none.                                            *)
Accounts(s, a) == a \in Valid => a \in s.own \cup s.got \/ \E w \in s.waits : w[1] = a

Extends(r, s) == s.own \subseteq r.own /\ s.waits \subseteq r.waits /\ s.got \subseteq r.got

LEMMA MissFacts ==
  ASSUME TypeOK, NEW A \in SUBSET Addrs, NEW s \in Searches(A), NEW a \in A, ~ Cached(s.cache, a)
  PROVE  Miss(s, a) \in Searches(A) /\ Accounts(Miss(s, a), a) /\ Extends(Miss(s, a), s)
<1> DEFINE r == Miss(s, a)
           n == Len(s.sent)
           ch == s.cache
           p == Put(ch, a, n + 1)
<1>1. s \in SearchStates /\ SearchInv(s, A)
  BY DEF Searches
<1>2. n \in Nat /\ DOMAIN s.sent = 1..n /\ s.sent \in Seq(Nat)
  BY <1>1, LenProperties DEF SearchStates
<1>3. /\ r.cache = p /\ r.sent = Append(s.sent, 0) /\ r.own = s.own \cup {a}
      /\ r.waits = s.waits /\ r.got = s.got
      /\ r = [cache |-> p, sent |-> Append(s.sent, 0), own |-> s.own \cup {a},
              waits |-> s.waits, got |-> s.got]
  <2>1. r = [s EXCEPT !.cache = p, !.sent = Append(s.sent, 0), !.own = s.own \cup {a}]
    BY DEF Miss
  <2>2. s = [cache |-> s.cache, sent |-> s.sent, own |-> s.own, waits |-> s.waits, got |-> s.got]
    BY <1>1 DEF SearchStates
  <2> HIDE DEF r, p
  <2>3. QED
    BY <2>1, <2>2
<1> HIDE DEF p, r
<1>4. /\ r.sent \in Seq(Nat) /\ Len(r.sent) = n + 1 /\ r.sent[n + 1] = 0 /\ DOMAIN r.sent = 1..n + 1
      /\ \A v \in 1..n : r.sent[v] = s.sent[v]
  <2>1. r.sent \in Seq(Nat) /\ Len(r.sent) = n + 1 /\ r.sent[n + 1] = 0
        /\ \A v \in 1..n : r.sent[v] = s.sent[v]
    BY <1>2, <1>3, AppendProperties
  <2>2. QED
    BY <2>1, LenProperties
<1>5. ch \in Seq(Addrs \X (1..n + 1)) /\ Len(ch) <= Capacity /\ OneEntryEach(ch) /\ a \in Addrs
  <2>1. ch \in Seq(Addrs \X (1..n)) /\ Len(ch) <= Capacity /\ OneEntryEach(ch)
    BY <1>1, <1>2 DEF SearchInv
  <2>2. Addrs \X (1..n) \subseteq Addrs \X (1..n + 1)
    BY <1>2
  <2>3. QED
    BY <2>1, <2>2, WiderSeq
<1>6. /\ p \in Seq(Addrs \X (1..n + 1)) /\ Len(p) <= Capacity /\ OneEntryEach(p)
      /\ EntriesOf(p) \subseteq EntriesOf(ch) \cup {<<a, n + 1>>}
      /\ Len(ch) < Capacity => EntriesOf(p) = EntriesOf(ch) \cup {<<a, n + 1>>}
  <2>1. n + 1 \in 1..n + 1
    BY <1>2
  <2> HIDE DEF n, ch
  <2>2. ~ Cached(ch, a)
    BY DEF ch
  <2>3. QED
    BY <1>5, <2>1, <2>2, PutFacts DEF p
<1>7. r \in SearchStates
  <2>1. p \in Seq(Addrs \X Nat)
    <3>1. Addrs \X (1..n + 1) \subseteq Addrs \X Nat
      BY <1>2
    <3>2. QED
      BY <1>6, <3>1, WiderSeq
  <2>2. /\ r.sent \in Seq(Nat) /\ s.own \cup {a} \in SUBSET Addrs /\ s.waits \in SUBSET (Addrs \X Nat)
        /\ s.got \in SUBSET Addrs
    BY <1>1, <1>4, <1>5 DEF SearchStates
  <2>3. QED
    BY <1>3, <2>1, <2>2 DEF SearchStates
<1>8. Values \subseteq 1..n /\ n + 1 \notin Values
  <2>1. Len(sent) <= n /\ Values = 1..Len(sent) /\ Len(sent) \in Nat
    BY <1>1, LenProperties DEF SearchInv, TypeOK, Values
  <2>2. QED
    BY <1>2, <2>1
<1>9. SearchInv(r, A)
  <2>1. r.cache \in Seq(Addrs \X DOMAIN r.sent) /\ Len(r.cache) <= Capacity /\ OneEntryEach(r.cache)
    BY <1>3, <1>4, <1>6
  <2>2. Len(sent) <= Len(r.sent)
    <3>1. Len(sent) <= n /\ Len(sent) \in Nat
      BY <1>1, LenProperties DEF SearchInv, TypeOK
    <3> HIDE DEF n
    <3>2. QED
      BY <1>2, <1>4, <3>1
  <2>3. \A v \in DOMAIN r.sent : r.sent[v] = IF v \in Values THEN sent[v] ELSE 0
    <3>1. \A v \in 1..n : s.sent[v] = IF v \in Values THEN sent[v] ELSE 0
      BY <1>1, <1>2 DEF SearchInv
    <3>2. \A v \in 1..n + 1 : v \in 1..n \/ v = n + 1
      BY <1>2
    <3>3. QED
      BY <1>4, <1>8, <3>1, <3>2
  <2>4. r.own \subseteq A /\ r.got \subseteq A \cap Valid
    BY <1>1, <1>3 DEF SearchInv
  <2>5. r.waits \subseteq A \X DOMAIN r.sent
    <3>1. s.waits \subseteq A \X (1..n)
      BY <1>1, <1>2 DEF SearchInv
    <3>2. 1..n \subseteq 1..n + 1
      BY <1>2
    <3>3. QED
      BY <1>3, <1>4, <3>1, <3>2
  <2>6. \A e \in EntriesOf(r.cache) : e \in EntriesOf(cache) \/ (e[2] \notin Values /\ e[1] \in r.own)
    <3>1. \A e \in EntriesOf(ch) : e \in EntriesOf(cache) \/ (e[2] \notin Values /\ e[1] \in s.own)
      BY <1>1 DEF SearchInv
    <3>2. QED
      BY <1>3, <1>6, <1>8, <3>1
  <2>7. ASSUME Cardinality(Addrs) <= Capacity
        PROVE  /\ EntriesOf(cache) \subseteq EntriesOf(r.cache)
               /\ \A b \in r.own : Cached(r.cache, b) /\ ~ Cached(cache, b)
    <3>1. EntriesOf(p) = EntriesOf(ch) \cup {<<a, n + 1>>}
      <4>1. Len(ch) < Capacity
        <5> HIDE DEF n, ch
        <5>1. ~ Cached(ch, a)
          BY DEF ch
        <5>2. QED
          BY <1>5, <2>7, <5>1, RoomForAll
      <4>2. QED
        BY <1>6, <4>1
    <3>2. /\ EntriesOf(cache) \subseteq EntriesOf(ch)
          /\ \A b \in s.own : Cached(ch, b) /\ ~ Cached(cache, b)
      BY <1>1, <2>7 DEF SearchInv
    <3> HIDE DEF ch
    <3>3. ~ Cached(ch, a)
      BY DEF ch
    <3>4. ~ Cached(cache, a)
      BY <3>2, <3>3, CachedEntry
    <3>5. \A b \in r.own : Cached(p, b)
      <4>1. ASSUME NEW b \in s.own PROVE Cached(p, b)
        <5>1. Cached(ch, b)
          BY <3>2
        <5>2. QED
          BY <3>1, <5>1, CachedEntry
      <4>2. <<a, n + 1>> \in EntriesOf(p) /\ <<a, n + 1>>[1] = a
        BY <3>1
      <4>3. Cached(p, a)
        BY <4>2, CachedEntry
      <4>4. QED
        BY <1>3, <4>1, <4>3
    <3>6. QED
      BY <1>3, <3>1, <3>2, <3>4, <3>5
  <2>8. QED
    BY <2>1, <2>2, <2>3, <2>4, <2>5, <2>6, <2>7 DEF SearchInv
<1>10. Accounts(r, a) /\ Extends(r, s)
  BY <1>3 DEF Accounts, Extends
<1>11. QED
  BY <1>7, <1>9, <1>10 DEF r, Searches

LEMMA HitFacts ==
  ASSUME TypeOK, NEW A \in SUBSET Addrs, NEW s \in Searches(A), NEW a \in A, Cached(s.cache, a)
  PROVE  Hit(s, a) \in Searches(A) /\ Accounts(Hit(s, a), a) /\ Extends(Hit(s, a), s)
<1> DEFINE r == Hit(s, a)
           ch == s.cache
           V == DOMAIN s.sent
           v == EntryOf(ch, a)[2]
           more == IF s.sent[v] = 0 THEN s.waits \cup {<<a, v>>} ELSE s.waits
           have == IF s.sent[v] > 0 /\ a \in Valid THEN s.got \cup {a} ELSE s.got
           t == Touch(ch, a)
<1>1. s \in SearchStates /\ SearchInv(s, A)
  BY DEF Searches
<1>2. r = [cache |-> t, sent |-> s.sent, own |-> s.own, waits |-> more, got |-> have]
  <2>1. r = [s EXCEPT !.cache = t, !.waits = more, !.got = have]
    BY DEF Hit
  <2>2. s = [cache |-> s.cache, sent |-> s.sent, own |-> s.own, waits |-> s.waits, got |-> s.got]
    BY <1>1 DEF SearchStates
  <2> HIDE DEF r, t, more, have
  <2>3. QED
    BY <2>1, <2>2
<1>3. v \in V /\ V \subseteq Nat /\ s.sent[v] \in Nat
  <2>1. ch \in Seq(Addrs \X V) /\ s.sent \in Seq(Nat)
    BY <1>1 DEF SearchInv, SearchStates
  <2>2. DOMAIN ch = 1..Len(ch) /\ V = 1..Len(s.sent) /\ Len(s.sent) \in Nat
    BY <2>1, LenProperties
  <2>3. EntryOf(ch, a) \in Addrs \X V
    <3> HIDE DEF ch, V, v
    <3>1. Cached(ch, a)
      BY DEF ch
    <3>2. IndexOf(ch, a) \in DOMAIN ch /\ EntryOf(ch, a) = ch[IndexOf(ch, a)]
      BY <3>1, IndexFacts
    <3>3. QED
      BY <2>1, <2>2, <3>2, ElementOfSeq
  <2>4. v \in V
    BY <2>3
  <2>5. QED
    BY <2>1, <2>2, <2>4, ElementOfSeq
<1>4. ch \in Seq(Addrs \X V) /\ Len(ch) <= Capacity /\ OneEntryEach(ch)
  BY <1>1 DEF SearchInv
<1> HIDE DEF v, ch, t, r, V
<1>5. t \in Seq(Addrs \X V) /\ Len(t) = Len(ch) /\ OneEntryEach(t) /\ EntriesOf(t) = EntriesOf(ch)
  <2>1. Cached(ch, a)
    BY DEF ch
  <2>2. QED
    BY <1>4, <2>1, TouchFacts DEF t
<1>6. /\ more \subseteq s.waits \cup {<<a, v>>} /\ s.waits \subseteq more
      /\ have \subseteq s.got \cup {a} /\ s.got \subseteq have /\ (a \notin Valid => have = s.got)
      /\ a \in Valid => <<a, v>> \in more \/ a \in have
  BY <1>3
<1> HIDE DEF more, have
<1>7. r.cache = t /\ r.sent = s.sent /\ r.own = s.own /\ r.waits = more /\ r.got = have
  BY <1>2
<1>8. r \in SearchStates
  <2>1. t \in Seq(Addrs \X Nat)
    <3>1. Addrs \X V \subseteq Addrs \X Nat
      BY <1>3
    <3>2. QED
      BY <1>5, <3>1, WiderSeq
  <2>2. more \in SUBSET (Addrs \X Nat) /\ have \in SUBSET Addrs /\ s.sent \in Seq(Nat) /\ s.own \in SUBSET Addrs
    BY <1>1, <1>3, <1>6 DEF SearchStates
  <2>3. QED
    BY <1>2, <2>1, <2>2 DEF SearchStates
<1>9. SearchInv(r, A)
  <2>1. r.cache \in Seq(Addrs \X DOMAIN r.sent) /\ Len(r.cache) <= Capacity /\ OneEntryEach(r.cache)
    BY <1>4, <1>5, <1>7 DEF V
  <2>2. Len(sent) <= Len(r.sent) /\ \A u \in DOMAIN r.sent : r.sent[u] = IF u \in Values THEN sent[u] ELSE 0
    BY <1>1, <1>7 DEF SearchInv
  <2>3. r.own \subseteq A /\ r.got \subseteq A \cap Valid /\ r.waits \subseteq A \X DOMAIN r.sent
    <3>1. s.own \subseteq A /\ s.got \subseteq A \cap Valid /\ s.waits \subseteq A \X V
      BY <1>1 DEF SearchInv, V
    <3>2. <<a, v>> \in A \X V
      BY <1>3
    <3>3. more \subseteq A \X V /\ have \subseteq A \cap Valid
      BY <1>6, <3>1, <3>2
    <3>4. QED
      BY <1>7, <3>1, <3>3 DEF V
  <2>4. /\ \A e \in EntriesOf(r.cache) : e \in EntriesOf(cache) \/ (e[2] \notin Values /\ e[1] \in r.own)
        /\ Cardinality(Addrs) <= Capacity =>
             /\ EntriesOf(cache) \subseteq EntriesOf(r.cache)
             /\ \A b \in r.own : Cached(r.cache, b) /\ ~ Cached(cache, b)
    <3>1. EntriesOf(r.cache) = EntriesOf(s.cache) /\ \A b : Cached(r.cache, b) <=> Cached(s.cache, b)
      BY <1>5, <1>7, CachedEntry DEF ch
    <3>2. QED
      BY <1>1, <1>7, <3>1 DEF SearchInv
  <2>5. QED
    BY <2>1, <2>2, <2>3, <2>4 DEF SearchInv
<1>10. Accounts(r, a) /\ Extends(r, s)
  BY <1>6, <1>7 DEF Accounts, Extends
<1>11. QED
  BY <1>8, <1>9, <1>10 DEF r, Searches

LEMMA LookupFacts ==
  ASSUME TypeOK, NEW A \in SUBSET Addrs, NEW s \in Searches(A), NEW a \in A
  PROVE  Lookup(s, a) \in Searches(A) /\ Accounts(Lookup(s, a), a) /\ Extends(Lookup(s, a), s)
<1>1. CASE Cached(s.cache, a)
  BY <1>1, HitFacts DEF Lookup
<1>2. CASE ~ Cached(s.cache, a)
  BY <1>2, MissFacts DEF Lookup
<1>3. QED
  BY <1>1, <1>2

SearchStart == [cache |-> cache, sent |-> sent, own |-> {}, waits |-> {}, got |-> {}]

LEMMA StartFacts ==
  ASSUME TypeOK, NEW A \in SUBSET Addrs
  PROVE  SearchStart \in Searches(A)
<1>1. /\ SearchStart.cache = cache /\ SearchStart.sent = sent /\ SearchStart.own = {}
      /\ SearchStart.waits = {} /\ SearchStart.got = {}
  BY DEF SearchStart
<1>2. /\ cache \in Seq(Addrs \X Values) /\ Len(cache) <= Capacity /\ OneEntryEach(cache)
      /\ sent \in Seq(Nat) /\ Values = DOMAIN sent
  BY DEF TypeOK, OneEntryEach, Values
<1>3. Len(sent) \in Nat /\ Values = 1..Len(sent)
  BY <1>2, LenProperties
<1>4. cache \in Seq(Addrs \X Nat)
  <2>1. Addrs \X Values \subseteq Addrs \X Nat
    BY <1>3
  <2>2. QED
    BY <1>2, <2>1, WiderSeq
<1>5. SearchStart \in SearchStates
  BY <1>2, <1>4 DEF SearchStart, SearchStates
<1>6. SearchInv(SearchStart, A)
  BY <1>1, <1>2, <1>3 DEF SearchInv
<1>7. QED
  BY <1>5, <1>6 DEF Searches

LEMMA FoundFacts ==
  ASSUME TypeOK, NEW A \in SUBSET Addrs,
         NEW inputs, NEW n \in Nat, Len(inputs) = n, \A i \in 1..n : inputs[i] \in A
  PROVE  Found(inputs) \in Searches(A) /\ \A i \in 1..n : Accounts(Found(inputs), inputs[i])
<1> DEFINE S == Searches(A)
           step == [p \in S \X (1..n) |-> Lookup(p[1], inputs[p[2]])]
           Is(f) == f = [i \in 0..n |-> IF i = 0 THEN SearchStart ELSE Lookup(f[i - 1], inputs[i])]
           loop == CHOOSE f : Is(f)
           T == {i \in 0..n : loop[i] \in S /\ \A j \in 1..i : Accounts(loop[i], inputs[j])}
<1>1. ASSUME NEW s \in S, NEW i \in 1..n
      PROVE  /\ Lookup(s, inputs[i]) \in S /\ Accounts(Lookup(s, inputs[i]), inputs[i])
             /\ Extends(Lookup(s, inputs[i]), s)
  BY LookupFacts
<1>2. SearchStart \in S
  BY StartFacts
<1> HIDE DEF S
<1>3. step \in [S \X (1..n) -> S]
  <2>1. ASSUME NEW p \in S \X (1..n) PROVE Lookup(p[1], inputs[p[2]]) \in S
    <3>1. p[1] \in S /\ p[2] \in 1..n
      OBVIOUS
    <3>2. QED
      BY <1>1, <3>1
  <2>2. QED
    BY <2>1
<1>4. PICK f \in [0..n -> S] : \A i \in 0..n : f[i] = IF i = 0 THEN SearchStart ELSE step[<<f[i - 1], i>>]
  <2> HIDE DEF step
  <2>1. Loops(n, S, SearchStart, step) # {}
    BY <1>2, <1>3, LoopDefined
  <2>2. QED
    BY <2>1 DEF Loops
<1>5. Is(f)
  <2>1. ASSUME NEW i \in 0..n PROVE f[i] = IF i = 0 THEN SearchStart ELSE Lookup(f[i - 1], inputs[i])
    <3>1. i # 0 => i \in 1..n /\ f[i - 1] \in S
      BY <1>4
    <3>2. i # 0 => step[<<f[i - 1], i>>] = Lookup(f[i - 1], inputs[i])
      BY <3>1
    <3> HIDE DEF step
    <3>3. QED
      BY <1>4, <3>2
  <2>2. f = [i \in 0..n |-> f[i]]
    BY <1>4
  <2>3. QED
    BY <2>1, <2>2
<1>6. Is(loop)
  BY <1>5
<1>7. Found(inputs) = loop[n]
  BY DEF Found, SearchStart
<1>8. 0..n \subseteq T
  <2> HIDE DEF loop
  <2>1. \A i \in 0..n : loop[i] = IF i = 0 THEN SearchStart ELSE Lookup(loop[i - 1], inputs[i])
    BY <1>6
  <2>2. 0 \in T
    BY <1>2, <2>1
  <2>3. ASSUME NEW i \in 1..n, i - 1 \in T PROVE i \in T
    <3>1. /\ i \in 0..n /\ i # 0 /\ loop[i - 1] \in S
          /\ \A j \in 1..i - 1 : Accounts(loop[i - 1], inputs[j])
      BY <2>3
    <3>2. loop[i] = Lookup(loop[i - 1], inputs[i])
      BY <2>1, <3>1
    <3>3. loop[i] \in S /\ Accounts(loop[i], inputs[i]) /\ Extends(loop[i], loop[i - 1])
      BY <1>1, <3>1, <3>2
    <3>4. \A j \in 1..i - 1 : Accounts(loop[i], inputs[j])
      BY <3>1, <3>3 DEF Accounts, Extends
    <3>5. \A j \in 1..i : j \in 1..i - 1 \/ j = i
      OBVIOUS
    <3>6. QED
      BY <3>1, <3>3, <3>4, <3>5
  <2> HIDE DEF T
  <2>4. QED
    BY <2>2, <2>3, InductionUpTo
<1>9. QED
  <2> HIDE DEF loop
  <2>1. n \in T
    BY <1>8
  <2>2. QED
    BY <1>7, <2>1 DEF S

(* The steps *)

LEMMA SetToSeqsFacts ==
  ASSUME NEW S, IsFiniteSet(S), NEW s \in SetToSeqs(S)
  PROVE  LET n == Len(s) IN n \in Nat /\ DOMAIN s = 1..n /\ \A i \in 1..n : s[i] \in S
<1>1. s \in [1..Cardinality(S) -> S] /\ Cardinality(S) \in Nat
  BY FS_CardinalityType DEF SetToSeqs
<1>2. s \in Seq(S)
  BY <1>1
<1>3. QED
  BY <1>2, LenProperties, ElementOfSeq

LEMMA BeginFacts ==
  ASSUME TypeOK, NEW c \in Callers, NEW S \in SUBSET Addrs, NEW inputs \in SetToSeqs(S), Begin(c, inputs)
  PROVE  /\ wants'[c] \in SUBSET Addrs
         /\ \E r \in Searches(wants'[c]) :
              /\ cache' = r.cache /\ sent' = r.sent
              /\ own' = [own EXCEPT ![c] = r.own] /\ waits' = [waits EXCEPT ![c] = r.waits]
              /\ got' = [got EXCEPT ![c] = r.got]
              /\ \A a \in wants'[c] : Accounts(r, a)
         /\ owner' \in [Values' -> Callers] /\ Values \subseteq Values'
         /\ \A v \in Values' : owner'[v] = IF v \in Values THEN owner[v] ELSE c
<1> DEFINE n == Len(inputs)
           A == ToSet(inputs)
           r == Found(inputs)
<1>1. n \in Nat /\ DOMAIN inputs = 1..n /\ \A i \in 1..n : inputs[i] \in S
  <2>1. IsFiniteSet(S)
    BY AddrsAssumption, FS_Subset
  <2>2. QED
    BY <2>1, SetToSeqsFacts
<1>2. A \in SUBSET Addrs /\ \A i \in 1..n : inputs[i] \in A
  BY <1>1 DEF ToSet
<1>3. wants'[c] = A
  BY DEF Begin, TypeOK
<1>4. r \in Searches(A) /\ \A i \in 1..n : Accounts(r, inputs[i])
  <2> HIDE DEF n, A
  <2>1. Len(inputs) = n
    BY DEF n
  <2>2. QED
    BY <1>1, <1>2, <2>1, FoundFacts
<1>5. \A a \in A : Accounts(r, a)
  BY <1>1, <1>4 DEF ToSet
<1>6. /\ cache' = r.cache /\ sent' = r.sent
      /\ own' = [own EXCEPT ![c] = r.own] /\ waits' = [waits EXCEPT ![c] = r.waits]
      /\ got' = [got EXCEPT ![c] = r.got]
      /\ owner' = owner \o [v \in 1..Len(r.sent) - Len(sent) |-> c]
  BY DEF Begin
<1> HIDE DEF r, A, n
<1>7. /\ owner' \in [Values' -> Callers] /\ Values \subseteq Values'
      /\ \A v \in Values' : owner'[v] = IF v \in Values THEN owner[v] ELSE c
  <2> DEFINE m == Len(sent)
             k == Len(r.sent)
             new == [v \in 1..k - m |-> c]
  <2>1. r.sent \in Seq(Nat) /\ m <= k /\ sent \in Seq(Nat)
    BY <1>4 DEF Searches, SearchStates, SearchInv, TypeOK
  <2>2. m \in Nat /\ k \in Nat /\ Values = 1..m /\ Values' = 1..k
    BY <1>6, <2>1, LenProperties DEF Values
  <2>3. owner \in [1..m -> Callers]
    BY <2>2 DEF TypeOK
  <2> HIDE DEF m, k
  <2>4. owner \in Seq(Callers) /\ Len(owner) = m
    BY <2>2, <2>3
  <2>5. new \in Seq(Callers) /\ Len(new) = k - m /\ \A v \in 1..k - m : new[v] = c
    <3>1. k - m \in Nat
      BY <2>1, <2>2 DEF m, k
    <3>2. QED
      BY <3>1
  <2>6. owner' = owner \o new
    BY <1>6 DEF m, k
  <2> HIDE DEF new
  <2>7. /\ owner' \in Seq(Callers) /\ Len(owner') = m + (k - m)
        /\ \A v \in 1..m + (k - m) : owner'[v] = IF v <= m THEN owner[v] ELSE new[v - m]
    BY <2>4, <2>5, <2>6, ConcatProperties
  <2>8. m + (k - m) = k /\ m <= k
    BY <2>1, <2>2 DEF m, k
  <2>9. owner' \in [1..k -> Callers]
    BY <2>7, <2>8, LenProperties
  <2>10. ASSUME NEW v \in 1..k PROVE owner'[v] = IF v \in 1..m THEN owner[v] ELSE c
    <3>1. v \in 1..m <=> v <= m
      BY <2>2
    <3>2. ~ (v <= m) => v - m \in 1..k - m
      BY <2>2
    <3>3. QED
      BY <2>5, <2>7, <2>8, <3>1, <3>2
  <2>11. 1..m \subseteq 1..k
    BY <2>2, <2>8
  <2>12. QED
    BY <2>2, <2>9, <2>10, <2>11
<1>8. QED
  BY <1>2, <1>3, <1>4, <1>5, <1>6, <1>7

LEMMA BeginKeeps ==
  ASSUME DexInv, NEW c \in Callers, NEW S \in SUBSET Addrs, NEW inputs \in SetToSeqs(S), Begin(c, inputs)
  PROVE  DexInv'
<1>1. TypeOK /\ PlaceholdersOwned /\ Accounted
  BY DEF DexInv
<1> DEFINE A == wants'[c]
<1>2. A \in SUBSET Addrs
  BY <1>1, BeginFacts
<1>3. PICK r \in Searches(A) :
        /\ cache' = r.cache /\ sent' = r.sent
        /\ own' = [own EXCEPT ![c] = r.own] /\ waits' = [waits EXCEPT ![c] = r.waits]
        /\ got' = [got EXCEPT ![c] = r.got]
        /\ \A a \in A : Accounts(r, a)
  BY <1>1, BeginFacts
<1>4. /\ owner' \in [Values' -> Callers] /\ Values \subseteq Values'
      /\ \A v \in Values' : owner'[v] = IF v \in Values THEN owner[v] ELSE c
  BY <1>1, BeginFacts
<1>5. /\ pc[c] = "start" /\ pc' = [pc EXCEPT ![c] = "join"]
      /\ wants' = [wants EXCEPT ![c] = A] /\ calls' = [calls EXCEPT ![c] = TRUE]
  BY <1>1 DEF Begin, TypeOK
<1> HIDE DEF A
<1>6. r \in SearchStates /\ SearchInv(r, A) /\ Values' = DOMAIN r.sent
  BY <1>3 DEF Searches, Values
<1>7. TypeOK'
  <2>1. /\ cache' \in Seq(Addrs \X Values') /\ Len(cache') <= Capacity
        /\ \A i, j \in DOMAIN cache' : cache'[i][1] = cache'[j][1] => i = j
        /\ sent' \in Seq(Nat)
    BY <1>3, <1>6 DEF SearchStates, SearchInv, OneEntryEach
  <2>2. pc' \in [Callers -> {"start", "join", "ok", "err"}] /\ calls' \in [Callers -> BOOLEAN]
    BY <1>1, <1>5 DEF TypeOK
  <2>3. /\ wants' \in [Callers -> SUBSET Addrs] /\ own' \in [Callers -> SUBSET Addrs]
        /\ got' \in [Callers -> SUBSET Addrs]
    <3>1. r.own \in SUBSET Addrs /\ r.got \in SUBSET Addrs
      BY <1>6 DEF SearchStates
    <3>2. QED
      BY <1>1, <1>2, <1>3, <1>5, <3>1 DEF TypeOK
  <2>4. waits' \in [Callers -> SUBSET (Addrs \X Values')]
    <3>1. r.waits \in SUBSET (Addrs \X Values')
      BY <1>2, <1>6 DEF SearchInv
    <3>2. SUBSET (Addrs \X Values) \subseteq SUBSET (Addrs \X Values')
      BY <1>4
    <3>3. QED
      BY <1>1, <1>3, <3>1, <3>2 DEF TypeOK
  <2>5. QED
    BY <1>4, <2>1, <2>2, <2>3, <2>4 DEF TypeOK
<1>8. PlaceholdersOwned'
  <2>1. ASSUME NEW e \in EntriesOf(cache'), sent'[e[2]] = 0
        PROVE  pc'[owner'[e[2]]] \in {"join", "err"} /\ e[1] \in own'[owner'[e[2]]]
    <3>1. e \in EntriesOf(cache) \/ (e[2] \notin Values /\ e[1] \in r.own)
      BY <1>3, <1>6 DEF SearchInv
    <3>2. e[2] \in Values'
      <4>1. cache' \in Seq(Addrs \X Values')
        BY <1>7 DEF TypeOK
      <4>2. e \in Addrs \X Values'
        BY <4>1, EntryTyped
      <4>3. QED
        BY <4>2
    <3>3. CASE e[2] \in Values
      <4>1. sent[e[2]] = 0 /\ owner'[e[2]] = owner[e[2]] /\ owner[e[2]] \in Callers
        BY <1>1, <1>3, <1>4, <1>6, <2>1, <3>2, <3>3 DEF SearchInv, TypeOK
      <4>2. pc[owner[e[2]]] \in {"join", "err"} /\ e[1] \in own[owner[e[2]]]
        BY <1>1, <3>1, <3>3, <4>1 DEF PlaceholdersOwned
      <4>3. owner[e[2]] # c
        BY <1>5, <4>2
      <4>4. QED
        BY <1>1, <1>3, <1>5, <4>1, <4>2, <4>3 DEF TypeOK
    <3>4. CASE e[2] \notin Values
      <4>1. owner'[e[2]] = c
        BY <1>4, <3>2, <3>4
      <4>2. e[1] \in r.own
        <5>1. ASSUME e \in EntriesOf(cache) PROVE FALSE
          <6>1. cache \in Seq(Addrs \X Values)
            BY <1>1 DEF TypeOK
          <6>2. e \in Addrs \X Values
            BY <5>1, <6>1, EntryTyped
          <6>3. QED
            BY <3>4, <6>2
        <5>2. QED
          BY <3>1, <5>1
      <4>3. QED
        BY <1>1, <1>3, <1>5, <4>1, <4>2 DEF TypeOK
    <3>5. QED
      BY <3>3, <3>4
  <2>2. QED
    BY <2>1 DEF PlaceholdersOwned
<1>9. Accounted'
  <2>1. ASSUME NEW d \in Callers
        PROVE  /\ own'[d] \subseteq wants'[d] /\ got'[d] \subseteq wants'[d] \cap Valid
               /\ \A w \in waits'[d] : w[1] \in wants'[d]
               /\ pc'[d] = "join" => \A a \in wants'[d] \cap Valid :
                    a \in own'[d] \cup got'[d] \/ \E w \in waits'[d] : w[1] = a
               /\ pc'[d] = "ok" => got'[d] = wants'[d] \cap Valid
    <3>1. CASE d = c
      <4>1. /\ own'[d] = r.own /\ got'[d] = r.got /\ waits'[d] = r.waits /\ wants'[d] = A
            /\ pc'[d] = "join"
        BY <1>1, <1>3, <1>5, <3>1 DEF TypeOK
      <4>2. r.own \subseteq A /\ r.got \subseteq A \cap Valid /\ r.waits \subseteq A \X DOMAIN r.sent
        BY <1>6 DEF SearchInv
      <4>3. \A a \in A \cap Valid : a \in r.own \cup r.got \/ \E w \in r.waits : w[1] = a
        BY <1>3 DEF Accounts
      <4>4. QED
        BY <4>1, <4>2, <4>3
    <3>2. CASE d # c
      <4>1. /\ own'[d] = own[d] /\ got'[d] = got[d] /\ waits'[d] = waits[d] /\ wants'[d] = wants[d]
            /\ pc'[d] = pc[d]
        BY <1>1, <1>3, <1>5, <3>2 DEF TypeOK
      <4>2. QED
        BY <1>1, <4>1 DEF Accounted
    <3>3. QED
      BY <3>1, <3>2
  <2>2. QED
    BY <2>1 DEF Accounted
<1>10. QED
  BY <1>7, <1>8, <1>9 DEF DexInv

(* A call gets on, or gives up, and nothing it shares with others changes. *)
LEMMA LocalKeeps ==
  ASSUME DexInv, NEW c \in Callers, UNCHANGED <<cache, sent, owner, wants, own>>,
         pc' = pc \/ (pc[c] = "join" /\ pc' = [pc EXCEPT ![c] = "err"]),
         calls' \in [Callers -> BOOLEAN],
         waits' \in [Callers -> SUBSET (Addrs \X Values)], \A d \in Callers : waits'[d] \subseteq waits[d],
         got' \in [Callers -> SUBSET Addrs],
         \A d \in Callers : got'[d] \subseteq wants[d] \cap Valid,
         \A d \in Callers : pc[d] = "ok" => got'[d] = got[d],
         \A d \in Callers : pc'[d] = "join" =>
           got[d] \subseteq got'[d] /\ \A w \in waits[d] \ waits'[d] : w[1] \in Valid => w[1] \in got'[d]
  PROVE  DexInv'
<1>1. TypeOK /\ PlaceholdersOwned /\ Accounted /\ Values' = Values
  BY DEF DexInv, Values
<1>2. TypeOK'
  BY <1>1 DEF TypeOK
<1>3. pc' \in [Callers -> {"start", "join", "ok", "err"}] /\ pc \in [Callers -> {"start", "join", "ok", "err"}]
  BY <1>1, <1>2 DEF TypeOK
<1>4. PlaceholdersOwned'
  <2>1. ASSUME NEW e \in EntriesOf(cache), sent[e[2]] = 0
        PROVE  pc'[owner[e[2]]] \in {"join", "err"} /\ e[1] \in own[owner[e[2]]]
    <3>1. pc[owner[e[2]]] \in {"join", "err"} /\ e[1] \in own[owner[e[2]]]
      BY <1>1, <2>1 DEF PlaceholdersOwned
    <3>2. owner[e[2]] \in Callers
      <4>1. cache \in Seq(Addrs \X Values) /\ owner \in [Values -> Callers]
        BY <1>1 DEF TypeOK
      <4>2. e \in Addrs \X Values
        BY <4>1, EntryTyped
      <4>3. QED
        BY <4>1, <4>2
    <3>3. QED
      BY <1>3, <3>1, <3>2
  <2>2. QED
    BY <2>1 DEF PlaceholdersOwned
<1>5. Accounted'
  <2>1. ASSUME NEW d \in Callers
        PROVE  /\ own[d] \subseteq wants[d] /\ got'[d] \subseteq wants[d] \cap Valid
               /\ \A w \in waits'[d] : w[1] \in wants[d]
               /\ pc'[d] = "join" => \A a \in wants[d] \cap Valid :
                    a \in own[d] \cup got'[d] \/ \E w \in waits'[d] : w[1] = a
               /\ pc'[d] = "ok" => got'[d] = wants[d] \cap Valid
    <3>1. /\ own[d] \subseteq wants[d] /\ got'[d] \subseteq wants[d] \cap Valid
          /\ \A w \in waits'[d] : w[1] \in wants[d]
      BY <1>1 DEF Accounted
    <3>2. ASSUME pc'[d] = "join", NEW a \in wants[d] \cap Valid
          PROVE  a \in own[d] \cup got'[d] \/ \E w \in waits'[d] : w[1] = a
      <4>1. pc[d] = "join"
        BY <1>3, <3>2
      <4>2. a \in own[d] \cup got[d] \/ \E w \in waits[d] : w[1] = a
        BY <1>1, <3>2, <4>1 DEF Accounted
      <4>3. got[d] \subseteq got'[d] /\ \A w \in waits[d] \ waits'[d] : w[1] \in Valid => w[1] \in got'[d]
        BY <3>2
      <4>4. QED
        BY <4>2, <4>3
    <3>3. ASSUME pc'[d] = "ok" PROVE got'[d] = wants[d] \cap Valid
      <4>1. pc[d] = "ok"
        BY <1>3, <3>3
      <4>2. QED
        BY <1>1, <4>1 DEF Accounted
    <3>4. QED
      BY <3>1, <3>2, <3>3
  <2>2. QED
    BY <2>1 DEF Accounted
<1>6. QED
  BY <1>2, <1>4, <1>5 DEF DexInv

LEMMA MulticallOkKeeps ==
  ASSUME DexInv, NEW c \in Callers, MulticallOk(c)
  PROVE  DexInv'
<1>1. TypeOK /\ Accounted
  BY DEF DexInv
<1>2. /\ UNCHANGED <<cache, sent, owner, wants, own>> /\ pc' = pc
      /\ waits' = waits /\ got' = got /\ calls' \in [Callers -> BOOLEAN]
  BY <1>1 DEF MulticallOk, TypeOK
<1>3. /\ waits \in [Callers -> SUBSET (Addrs \X Values)] /\ got \in [Callers -> SUBSET Addrs]
      /\ \A d \in Callers : got[d] \subseteq wants[d] \cap Valid
  BY <1>1 DEF TypeOK, Accounted
<1>4. QED
  BY <1>2, <1>3, LocalKeeps

LEMMA GiveUpKeeps ==
  ASSUME DexInv, NEW c \in Callers, pc[c] = "join", GiveUp(c)
  PROVE  DexInv'
<1>1. TypeOK /\ Accounted
  BY DEF DexInv
<1>2. /\ UNCHANGED <<cache, sent, owner, wants, own>> /\ pc' = [pc EXCEPT ![c] = "err"]
      /\ waits' = waits /\ got' = got /\ calls' = calls
  BY DEF GiveUp
<1>3. /\ waits \in [Callers -> SUBSET (Addrs \X Values)] /\ got \in [Callers -> SUBSET Addrs]
      /\ calls \in [Callers -> BOOLEAN] /\ \A d \in Callers : got[d] \subseteq wants[d] \cap Valid
  BY <1>1 DEF TypeOK, Accounted
<1>4. QED
  BY <1>2, <1>3, LocalKeeps

LEMMA RecvKeeps ==
  ASSUME DexInv, NEW c \in Callers, NEW w \in waits[c], Recv(c, w)
  PROVE  DexInv'
<1>1. TypeOK /\ Accounted
  BY DEF DexInv
<1>2. /\ UNCHANGED <<cache, sent, owner, wants, own>> /\ pc' = pc /\ calls' = calls /\ pc[c] = "join"
      /\ waits' = [waits EXCEPT ![c] = @ \ {w}]
      /\ got' = [got EXCEPT ![c] = IF w[1] \in Valid THEN @ \cup {w[1]} ELSE @]
  BY DEF Recv
<1>3. /\ waits \in [Callers -> SUBSET (Addrs \X Values)] /\ got \in [Callers -> SUBSET Addrs]
      /\ calls' \in [Callers -> BOOLEAN] /\ w[1] \in wants[c] /\ w[1] \in Addrs
      /\ \A d \in Callers : got[d] \subseteq wants[d] \cap Valid
  <2>1. /\ waits \in [Callers -> SUBSET (Addrs \X Values)] /\ got \in [Callers -> SUBSET Addrs]
        /\ calls \in [Callers -> BOOLEAN]
    BY <1>1 DEF TypeOK
  <2>2. w[1] \in wants[c] /\ \A d \in Callers : got[d] \subseteq wants[d] \cap Valid
    BY <1>1 DEF Accounted
  <2>3. w \in Addrs \X Values
    BY <2>1
  <2>4. QED
    BY <1>2, <2>1, <2>2, <2>3
<1>4. /\ waits'[c] = waits[c] \ {w}
      /\ got'[c] = IF w[1] \in Valid THEN got[c] \cup {w[1]} ELSE got[c]
      /\ \A d \in Callers \ {c} : waits'[d] = waits[d] /\ got'[d] = got[d]
  BY <1>2, <1>3
<1>5. /\ waits' \in [Callers -> SUBSET (Addrs \X Values)] /\ \A d \in Callers : waits'[d] \subseteq waits[d]
      /\ got' \in [Callers -> SUBSET Addrs]
  <2>1. waits[c] \ {w} \in SUBSET (Addrs \X Values)
    BY <1>3
  <2>2. (IF w[1] \in Valid THEN got[c] \cup {w[1]} ELSE got[c]) \in SUBSET Addrs
    BY <1>3
  <2>3. QED
    BY <1>2, <1>3, <1>4, <2>1, <2>2
<1>6. /\ \A d \in Callers : got'[d] \subseteq wants[d] \cap Valid
      /\ \A d \in Callers : pc[d] = "ok" => got'[d] = got[d]
      /\ \A d \in Callers : got[d] \subseteq got'[d]
      /\ \A d \in Callers : \A x \in waits[d] \ waits'[d] : x[1] \in Valid => x[1] \in got'[d]
  <2>1. ASSUME NEW d \in Callers
        PROVE  /\ got'[d] \subseteq wants[d] \cap Valid
               /\ pc[d] = "ok" => got'[d] = got[d]
               /\ got[d] \subseteq got'[d]
               /\ \A x \in waits[d] \ waits'[d] : x[1] \in Valid => x[1] \in got'[d]
    <3>1. CASE d = c
      BY <1>2, <1>3, <1>4, <3>1
    <3>2. CASE d # c
      BY <1>3, <1>4, <3>2
    <3>3. QED
      BY <3>1, <3>2
  <2>2. QED
    BY <2>1
<1>7. QED
  BY <1>2, <1>3, <1>5, <1>6, LocalKeeps

(* Whoever sets values sets every one that was its to set. *)
LEMMA ReturnFacts ==
  ASSUME TypeOK, NEW c \in Callers, NEW order \in SetToSeqs(Present(c)), Return(c, order)
  PROVE  /\ cache' \in Seq(Addrs \X Values) /\ Len(cache') <= Capacity /\ OneEntryEach(cache')
         /\ EntriesOf(cache') = EntriesOf(cache)
         /\ sent' \in [Values -> Nat] /\ Len(sent') = Len(sent) /\ sent' \in Seq(Nat) /\ Values' = Values
         /\ \A v \in Values : sent'[v] = 0 => sent[v] = 0
         /\ \A e \in EntriesOf(cache) : e[1] \in own[c] => sent'[e[2]] > 0
<1>1. /\ cache \in Seq(Addrs \X Values) /\ Len(cache) <= Capacity /\ OneEntryEach(cache)
      /\ sent \in Seq(Nat) /\ own[c] \in SUBSET Addrs
  BY DEF TypeOK, OneEntryEach
<1> DEFINE n == Len(order)
<1>2. n \in Nat /\ \A i \in 1..n : order[i] \in Entered
  <2>1. Present(c) \subseteq Addrs /\ IsFiniteSet(Present(c))
    <3>1. Present(c) \subseteq Addrs
      BY <1>1 DEF Present, Published
    <3>2. QED
      BY <3>1, AddrsAssumption, FS_Subset
  <2>2. n \in Nat /\ \A i \in 1..n : order[i] \in Present(c)
    BY <2>1, SetToSeqsFacts
  <2>3. Present(c) \subseteq Entered
    BY <2>1 DEF Present, Entered
  <2>4. QED
    BY <2>2, <2>3
<1>3. /\ cache' \in Seq(Addrs \X Values) /\ Len(cache') = Len(cache) /\ OneEntryEach(cache')
      /\ EntriesOf(cache') = EntriesOf(cache)
  <2>1. /\ Touched(order) \in Seq(Addrs \X Values) /\ Len(Touched(order)) = Len(cache)
        /\ OneEntryEach(Touched(order)) /\ EntriesOf(Touched(order)) = EntriesOf(cache)
    <3>1. Len(order) = n
      OBVIOUS
    <3> HIDE DEF n
    <3>2. IsCache(cache, Values)
      BY <1>1 DEF IsCache
    <3>3. /\ IsCache(Touched(order), Values) /\ Len(Touched(order)) = Len(cache)
          /\ EntriesOf(Touched(order)) = EntriesOf(cache)
      BY <1>2, <3>1, <3>2, TouchedFacts
    <3>4. QED
      BY <3>3 DEF IsCache
  <2>2. cache' = Touched(order)
    BY DEF Return
  <2>3. QED
    BY <2>1, <2>2
<1>4. Values = 1..Len(sent) /\ Len(sent) \in Nat /\ \A v \in Values : sent[v] \in Nat
  BY <1>1, LenProperties, ElementOfSeq DEF Values
<1>5. sent' = [v \in Values |-> IF \E a \in Present(c) : EntryOf(cache, a)[2] = v
                                THEN sent[v] + 1 ELSE sent[v]]
  BY DEF Return
<1>6. sent' \in [Values -> Nat] /\ \A v \in Values : sent'[v] = 0 => sent[v] = 0
  BY <1>4, <1>5
<1>7. sent' \in Seq(Nat) /\ Len(sent') = Len(sent) /\ Values' = Values
  <2>1. sent' \in Seq(Nat) /\ Len(sent') = Len(sent)
    BY <1>4, <1>6
  <2>2. QED
    BY <1>6, <2>1 DEF Values
<1>8. ASSUME NEW e \in EntriesOf(cache), e[1] \in own[c] PROVE sent'[e[2]] > 0
  <2>1. Cached(cache, e[1])
    BY CachedEntry
  <2>2. e[1] \in Present(c)
    BY <1>8, <2>1 DEF Present, Published
  <2>3. EntryOf(cache, e[1]) = e
    <3>1. PICK i \in DOMAIN cache : e = cache[i]
      BY DEF EntriesOf
    <3>2. /\ IndexOf(cache, e[1]) \in DOMAIN cache /\ EntryOf(cache, e[1]) = cache[IndexOf(cache, e[1])]
          /\ EntryOf(cache, e[1])[1] = e[1]
      BY <2>1, IndexFacts
    <3>3. QED
      BY <1>1, <3>1, <3>2 DEF OneEntryEach
  <2>4. e[2] \in Values
    BY <1>1, EntryTyped
  <2>5. sent'[e[2]] = sent[e[2]] + 1
    BY <1>5, <2>2, <2>3, <2>4
  <2>6. QED
    BY <1>4, <2>4, <2>5
<1>9. QED
  BY <1>1, <1>3, <1>6, <1>7, <1>8

LEMMA ReturnKeeps ==
  ASSUME DexInv, NEW c \in Callers, NEW order \in SetToSeqs(Present(c)), Return(c, order)
  PROVE  DexInv'
<1>1. TypeOK /\ PlaceholdersOwned /\ Accounted
  BY DEF DexInv
<1>2. /\ cache' \in Seq(Addrs \X Values) /\ Len(cache') <= Capacity /\ OneEntryEach(cache')
      /\ EntriesOf(cache') = EntriesOf(cache) /\ sent' \in Seq(Nat) /\ Values' = Values
      /\ \A v \in Values : sent'[v] = 0 => sent[v] = 0
      /\ \A e \in EntriesOf(cache) : e[1] \in own[c] => sent'[e[2]] > 0
  BY <1>1, ReturnFacts
<1>3. /\ pc[c] = "join" /\ waits[c] = {} /\ pc' = [pc EXCEPT ![c] = "ok"]
      /\ got' = [got EXCEPT ![c] = @ \cup (own[c] \cap Valid)]
      /\ UNCHANGED <<owner, wants, own, calls, waits>>
  BY DEF Return
<1>4. TypeOK'
  <2>1. \A i, j \in DOMAIN cache' : cache'[i][1] = cache'[j][1] => i = j
    BY <1>2 DEF OneEntryEach
  <2>2. pc' \in [Callers -> {"start", "join", "ok", "err"}] /\ got' \in [Callers -> SUBSET Addrs]
    BY <1>1, <1>3 DEF TypeOK
  <2>3. QED
    BY <1>1, <1>2, <1>3, <2>1, <2>2 DEF TypeOK
<1>5. PlaceholdersOwned'
  <2>1. ASSUME NEW e \in EntriesOf(cache), sent'[e[2]] = 0
        PROVE  pc'[owner[e[2]]] \in {"join", "err"} /\ e[1] \in own[owner[e[2]]]
    <3>1. cache \in Seq(Addrs \X Values) /\ owner \in [Values -> Callers]
      BY <1>1 DEF TypeOK
    <3>2. e[2] \in Values /\ owner[e[2]] \in Callers
      BY <3>1, EntryTyped
    <3>3. pc[owner[e[2]]] \in {"join", "err"} /\ e[1] \in own[owner[e[2]]]
      BY <1>1, <1>2, <2>1, <3>2 DEF PlaceholdersOwned
    <3>4. owner[e[2]] # c
      <4>1. e[1] \notin own[c]
        BY <1>2, <2>1
      <4>2. QED
        BY <3>3, <4>1
    <3>5. QED
      BY <1>1, <1>3, <3>2, <3>3, <3>4 DEF TypeOK
  <2>2. QED
    BY <1>2, <1>3, <2>1 DEF PlaceholdersOwned
<1>6. Accounted'
  <2>1. ASSUME NEW d \in Callers
        PROVE  /\ own[d] \subseteq wants[d] /\ got'[d] \subseteq wants[d] \cap Valid
               /\ \A w \in waits[d] : w[1] \in wants[d]
               /\ pc'[d] = "join" => \A a \in wants[d] \cap Valid :
                    a \in own[d] \cup got'[d] \/ \E w \in waits[d] : w[1] = a
               /\ pc'[d] = "ok" => got'[d] = wants[d] \cap Valid
    <3>1. /\ own[d] \subseteq wants[d] /\ got[d] \subseteq wants[d] \cap Valid
          /\ \A w \in waits[d] : w[1] \in wants[d]
          /\ pc[d] = "join" => \A a \in wants[d] \cap Valid :
               a \in own[d] \cup got[d] \/ \E w \in waits[d] : w[1] = a
          /\ pc[d] = "ok" => got[d] = wants[d] \cap Valid
      BY <1>1 DEF Accounted
    <3>2. CASE d = c
      <4>1. pc'[d] = "ok" /\ got'[d] = got[d] \cup (own[d] \cap Valid)
        BY <1>1, <1>3, <3>2 DEF TypeOK
      <4>2. \A a \in wants[d] \cap Valid : a \in own[d] \cup got[d]
        BY <1>3, <3>1, <3>2
      <4>3. QED
        BY <3>1, <4>1, <4>2
    <3>3. CASE d # c
      <4>1. pc'[d] = pc[d] /\ got'[d] = got[d]
        BY <1>1, <1>3, <3>3 DEF TypeOK
      <4>2. QED
        BY <3>1, <4>1
    <3>4. QED
      BY <3>2, <3>3
  <2>2. QED
    BY <1>3, <2>1 DEF Accounted
<1>7. QED
  BY <1>4, <1>5, <1>6 DEF DexInv

LEMMA StutterKeeps ==
  ASSUME DexInv, UNCHANGED vars
  PROVE  DexInv'
<1>1. TypeOK' /\ PlaceholdersOwned' /\ Accounted'
  BY DEF DexInv, TypeOK, PlaceholdersOwned, Accounted, Values, vars, callVars
<1>2. QED
  BY <1>1 DEF DexInv

LEMMA CallStepKeeps ==
  ASSUME DexInv, NEW c \in Callers, CallStep(c)
  PROVE  DexInv'
<1>1. CASE MulticallOk(c)
  BY <1>1, MulticallOkKeeps
<1>2. CASE Fails(c)
  BY <1>2, GiveUpKeeps DEF Fails
<1>3. ASSUME NEW w \in waits[c], Recv(c, w) PROVE DexInv'
  BY <1>3, RecvKeeps
<1>4. ASSUME NEW w \in waits[c], RecvErr(c, w) PROVE DexInv'
  BY <1>4, GiveUpKeeps DEF RecvErr, Unresolved
<1>5. ASSUME NEW order \in SetToSeqs(Present(c)), Return(c, order) PROVE DexInv'
  BY <1>5, ReturnKeeps
<1>6. QED
  BY <1>1, <1>2, <1>3, <1>4, <1>5 DEF CallStep

LEMMA NextKeeps ==
  ASSUME DexInv, [Next]_vars
  PROVE  DexInv'
<1>1. CASE Start
  <2>1. PICK c \in Callers, S \in (SUBSET Addrs) \ {{}} : \E inputs \in SetToSeqs(S) : Begin(c, inputs)
    BY <1>1 DEF Start
  <2>2. QED
    BY <2>1, BeginKeeps
<1>2. CASE \E c \in Callers : CallStep(c)
  BY <1>2, CallStepKeeps
<1>3. CASE Parked \/ Done \/ UNCHANGED vars
  BY <1>3, StutterKeeps DEF Parked, Done
<1>4. QED
  BY <1>1, <1>2, <1>3 DEF Next

LEMMA InitHolds == Init => DexInv
<1> SUFFICES ASSUME Init PROVE DexInv
  OBVIOUS
<1>1. TypeOK
  <2>1. Len(cache) = 0 /\ DOMAIN cache = {} /\ Values = {}
    BY DEF Init, Values
  <2>2. cache \in Seq(Addrs \X Values) /\ sent \in Seq(Nat) /\ owner \in [Values -> Callers]
    BY <2>1 DEF Init
  <2>3. Len(cache) <= Capacity
    BY <2>1, CapacityAssumption
  <2>4. /\ pc \in [Callers -> {"start", "join", "ok", "err"}] /\ wants \in [Callers -> SUBSET Addrs]
        /\ own \in [Callers -> SUBSET Addrs] /\ calls \in [Callers -> BOOLEAN]
        /\ waits \in [Callers -> SUBSET (Addrs \X Values)] /\ got \in [Callers -> SUBSET Addrs]
    BY DEF Init
  <2>5. QED
    BY <2>1, <2>2, <2>3, <2>4 DEF TypeOK
<1>2. PlaceholdersOwned
  BY DEF Init, PlaceholdersOwned, EntriesOf
<1>3. Accounted
  BY DEF Init, Accounted
<1>4. QED
  BY <1>1, <1>2, <1>3 DEF DexInv

(* The inductive invariant of the cache and the calls that share it: every  *)
(* AsyncValue that is not set is one that get_pairs still is fetching for,  *)
(* or failed to, and every call still knows what becomes of each address.   *)
THEOREM DexInvariant == Spec => []DexInv
<1>1. Init => DexInv
  BY InitHolds
<1>2. DexInv /\ [Next]_vars => DexInv'
  BY NextKeeps
<1>3. QED
  BY <1>1, <1>2, PTL DEF Spec

(* The types, with a cache that never grows past its capacity and has one   *)
(* entry for an address, however lookups, puts and evictions interleave.    *)
THEOREM DexTypeCorrect == Spec => []TypeOK
<1>1. DexInv => TypeOK
  BY DEF DexInv
<1>2. QED
  BY <1>1, DexInvariant, PTL

(* A call of get_pairs that succeeds has a pair for exactly those of its    *)
(* addresses that are pairs, whatever was shared, evicted or failed.        *)
THEOREM ResultsAreComplete == Spec => []ResultComplete
<1>1. DexInv => ResultComplete
  BY DEF DexInv, Accounted, ResultComplete
<1>2. QED
  BY <1>1, DexInvariant, PTL

(* Nobody waits in get_pairs for a value that no call is going to send,     *)
(* unless the call that was to send it failed.                              *)
THEOREM WaitsAreServed == Spec => []WaitsServed
<1>1. ASSUME DexInv PROVE WaitsServed
  <2>1. ASSUME NEW c \in Callers, NEW w \in waits[c]
        PROVE  \/ sent[w[2]] > 0 \/ ~ Alive(w)
               \/ pc[owner[w[2]]] \in {"join", "err"} /\ w[1] \in own[owner[w[2]]]
    <3>1. sent[w[2]] \in Nat
      <4>1. sent \in Seq(Nat) /\ w \in Addrs \X Values
        BY <1>1 DEF DexInv, TypeOK
      <4>2. Values = 1..Len(sent) /\ w[2] \in Values
        BY <4>1, LenProperties DEF Values
      <4>3. QED
        BY <4>1, <4>2, ElementOfSeq
    <3>2. Alive(w) => w \in EntriesOf(cache)
      BY DEF Alive, EntriesOf
    <3>3. QED
      BY <1>1, <3>1, <3>2 DEF DexInv, PlaceholdersOwned
  <2>2. QED
    BY <2>1 DEF WaitsServed
<1>2. QED
  BY <1>1, DexInvariant, PTL

(* Where the cache has room for every address *)

LEMMA BeginShares ==
  ASSUME Cardinality(Addrs) <= Capacity, DexInv, FetchedStay, SingleFlight,
         NEW c \in Callers, NEW S \in SUBSET Addrs, NEW inputs \in SetToSeqs(S), Begin(c, inputs)
  PROVE  FetchedStay' /\ SingleFlight'
<1>1. TypeOK
  BY DEF DexInv
<1>2. PICK r \in Searches(wants'[c]) : cache' = r.cache /\ own' = [own EXCEPT ![c] = r.own]
  BY <1>1, BeginFacts
<1>3. /\ EntriesOf(cache) \subseteq EntriesOf(cache')
      /\ \A a \in r.own : Cached(cache', a) /\ ~ Cached(cache, a)
  BY <1>2 DEF Searches, SearchInv
<1>4. own'[c] = r.own /\ \A d \in Callers \ {c} : own'[d] = own[d]
  BY <1>1, <1>2 DEF TypeOK
<1>5. FetchedStay'
  <2>1. ASSUME NEW d \in Callers, NEW a \in own'[d] PROVE Cached(cache', a)
    <3>1. CASE d = c
      BY <1>3, <1>4, <2>1, <3>1
    <3>2. CASE d # c
      <4>1. Cached(cache, a)
        BY <1>4, <2>1, <3>2 DEF FetchedStay
      <4>2. QED
        BY <1>3, <4>1, CachedEntry
    <3>3. QED
      BY <3>1, <3>2
  <2>2. QED
    BY <2>1 DEF FetchedStay
<1>6. SingleFlight'
  <2>1. \A d \in Callers \ {c} : own[d] \cap r.own = {}
    BY <1>3 DEF FetchedStay
  <2>2. QED
    BY <1>4, <2>1 DEF SingleFlight
<1>7. QED
  BY <1>5, <1>6

(* No pair is fetched by two calls, as long as nothing is evicted: whoever  *)
(* misses an address leaves an entry that every later call finds.           *)
THEOREM OneCallFetches ==
  ASSUME Cardinality(Addrs) <= Capacity
  PROVE  Spec => []SingleFlight
<1> DEFINE Inv == DexInv /\ FetchedStay /\ SingleFlight
<1>1. Init => Inv
  <2>1. Init => FetchedStay /\ SingleFlight
    BY DEF Init, FetchedStay, SingleFlight
  <2>2. QED
    BY <2>1, InitHolds
<1>2. ASSUME Inv, [Next]_vars PROVE Inv'
  <2>1. DexInv'
    BY <1>2, NextKeeps
  <2>2. FetchedStay' /\ SingleFlight'
    <3>1. CASE Start
      <4>1. PICK c \in Callers, S \in (SUBSET Addrs) \ {{}} : \E inputs \in SetToSeqs(S) : Begin(c, inputs)
        BY <3>1 DEF Start
      <4>2. QED
        BY <1>2, <4>1, BeginShares
    <3>2. ASSUME own' = own, EntriesOf(cache') = EntriesOf(cache) PROVE FetchedStay' /\ SingleFlight'
      <4>1. \A a : Cached(cache, a) => Cached(cache', a)
        BY <3>2, CachedEntry
      <4>2. QED
        BY <1>2, <3>2, <4>1 DEF FetchedStay, SingleFlight
    <3>3. ASSUME NEW c \in Callers, CallStep(c) PROVE FetchedStay' /\ SingleFlight'
      <4>1. CASE MulticallOk(c)
        BY <3>2, <4>1 DEF MulticallOk
      <4>2. CASE Fails(c)
        BY <3>2, <4>2 DEF Fails, GiveUp
      <4>3. ASSUME NEW w \in waits[c], Recv(c, w) \/ RecvErr(c, w) PROVE FetchedStay' /\ SingleFlight'
        BY <3>2, <4>3 DEF Recv, RecvErr, Unresolved, GiveUp
      <4>4. ASSUME NEW order \in SetToSeqs(Present(c)), Return(c, order) PROVE FetchedStay' /\ SingleFlight'
        <5>1. EntriesOf(cache') = EntriesOf(cache)
          BY <1>2, <4>4, ReturnFacts DEF DexInv
        <5>2. own' = own
          BY <4>4 DEF Return
        <5>3. QED
          BY <3>2, <5>1, <5>2
      <4>5. QED
        BY <3>3, <4>1, <4>2, <4>3, <4>4 DEF CallStep
    <3>4. CASE Parked \/ Done \/ UNCHANGED vars
      BY <3>2, <3>4 DEF Parked, Done, vars, callVars
    <3>5. QED
      BY <1>2, <3>1, <3>3, <3>4 DEF Next
  <2>3. QED
    BY <2>1, <2>2
<1>3. Inv => SingleFlight
  OBVIOUS
<1> HIDE DEF Inv
<1>4. QED
  BY <1>1, <1>2, <1>3, PTL DEF Spec
=============================================================================
