----------------------------- MODULE ListProofs -----------------------------
(***************************************************************************)
(* Lists of any length: what the order slices and the eviction loop do,    *)
(* for any limit, then induction over numbers and places, and what is      *)
(* joined, gathered and flattened.                                         *)
(***************************************************************************)
EXTENDS BoundedOrder, FiniteSetTheorems, SequenceTheorems, WellFoundedInduction, TLAPS

\* What dropping the first k places of a sequence leaves.
LEMMA SuffixProperties ==
  ASSUME NEW S, NEW seq \in Seq(S), NEW k \in 0 .. Len(seq)
  PROVE  /\ SubSeq(seq, k + 1, Len(seq)) \in Seq(S)
         /\ Len(SubSeq(seq, k + 1, Len(seq))) = Len(seq) - k
         /\ \A i \in 1 .. Len(seq) - k : SubSeq(seq, k + 1, Len(seq))[i] = seq[k + i]
PROOF
<1>1. Len(seq) \in Nat
  BY LenProperties
<1>2. \A i \in k + 1 .. Len(seq) : seq[i] \in S
  BY <1>1, ElementOfSeq
<1> QED BY <1>1, <1>2, SubSeqProperties

\* What removing one place of a sequence leaves.
LEMMA RemoveAtProperties ==
  ASSUME NEW S, NEW seq \in Seq(S), NEW n \in 1 .. Len(seq)
  PROVE  /\ RemoveAt(seq, n) \in Seq(S)
         /\ Len(RemoveAt(seq, n)) = Len(seq) - 1
         /\ \A i \in 1 .. Len(seq) - 1 :
              RemoveAt(seq, n)[i] = IF i < n THEN seq[i] ELSE seq[i + 1]
PROOF
<1> DEFINE before == SubSeq(seq, 1, n - 1)
           after == SubSeq(seq, n + 1, Len(seq))
           joined == before \o after
<1>1. RemoveAt(seq, n) = joined
  BY DEF RemoveAt
<1>2. Len(seq) \in Nat /\ n \in Nat
  BY LenProperties
<1>3. /\ before \in Seq(S)
      /\ Len(before) = n - 1
      /\ \A i \in 1 .. n - 1 : before[i] = seq[i]
  <2>1. \A i \in 1 .. n - 1 : seq[i] \in S
    BY <1>2, ElementOfSeq
  <2> QED BY <1>2, <2>1, SubSeqProperties
<1>4. /\ after \in Seq(S)
      /\ Len(after) = Len(seq) - n
      /\ \A i \in 1 .. Len(seq) - n : after[i] = seq[n + i]
  <2>1. \A i \in n + 1 .. Len(seq) : seq[i] \in S
    BY <1>2, ElementOfSeq
  <2> QED BY <1>2, <2>1, SubSeqProperties
<1> HIDE DEF before, after
<1>5. /\ joined \in Seq(S)
      /\ Len(joined) = Len(before) + Len(after)
      /\ \A i \in 1 .. Len(before) + Len(after) :
           joined[i] = IF i <= Len(before) THEN before[i] ELSE after[i - Len(before)]
  <2>1. before \in Seq(S) /\ after \in Seq(S)
    BY <1>3, <1>4
  <2> QED BY <2>1, ConcatProperties, Zenon
<1> HIDE DEF joined
<1>6. ASSUME NEW i \in 1 .. Len(seq) - 1
      PROVE  joined[i] = IF i < n THEN seq[i] ELSE seq[i + 1]
  <2>1. CASE i < n
    <3>1. /\ i \in 1 .. n - 1 /\ i <= Len(before)
          /\ i \in 1 .. Len(before) + Len(after)
      BY <1>2, <1>3, <1>4, <2>1
    <3> QED BY <1>3, <1>5, <2>1, <3>1
  <2>2. CASE i >= n
    <3>1. /\ ~(i < n) /\ ~(i <= Len(before)) /\ i - Len(before) = i - n + 1
          /\ i \in 1 .. Len(before) + Len(after)
      BY <1>2, <1>3, <1>4, <2>2
    <3>2. joined[i] = after[i - n + 1]
      BY <1>5, <3>1
    <3>3. i - n + 1 \in 1 .. Len(seq) - n /\ n + (i - n + 1) = i + 1
      BY <1>2, <2>2
    <3>4. after[i - n + 1] = seq[n + (i - n + 1)]
      BY <1>4, <3>3
    <3> QED BY <3>1, <3>2, <3>3, <3>4
  <2> QED BY <1>2, <2>1, <2>2
<1>7. Len(joined) = Len(seq) - 1
  BY <1>2, <1>3, <1>4, <1>5
<1> QED BY <1>1, <1>5, <1>6, <1>7

LEMMA ForgetMissing ==
  ASSUME NEW S, NEW order \in Seq(S), NEW id, id \notin ToSet(order)
  PROVE  Forget(order, id) = order
PROOF BY DEF Forget, RemoveFirst, ToSet

\* Where the forgotten key was, the later keys move down by one.
LEMMA ForgetPresent ==
  ASSUME NEW S, NEW order \in Seq(S),
         \A i, j \in 1 .. Len(order) : order[i] = order[j] => i = j,
         NEW n \in 1 .. Len(order)
  PROVE  /\ Forget(order, order[n]) \in Seq(S)
         /\ Len(Forget(order, order[n])) = Len(order) - 1
         /\ \A i \in 1 .. Len(order) - 1 :
              Forget(order, order[n])[i] = IF i < n THEN order[i] ELSE order[i + 1]
PROOF
<1>1. {i \in 1 .. Len(order) : order[i] = order[n]} = {n}
  OBVIOUS
<1>2. SelectInSeq(order, LAMBDA v : v = order[n]) = n
  <2>1. Min({n}) = n
    BY DEF Min
  <2> QED BY <1>1, <2>1 DEF SelectInSeq
<1> DEFINE removed == RemoveAt(order, n)
<1>3. Forget(order, order[n]) = removed
  BY <1>2 DEF Forget, RemoveFirst
<1>4. /\ removed \in Seq(S) /\ Len(removed) = Len(order) - 1
      /\ \A i \in 1 .. Len(order) - 1 :
           removed[i] = IF i < n THEN order[i] ELSE order[i + 1]
  BY RemoveAtProperties
<1> HIDE DEF removed
<1> QED BY <1>3, <1>4

LEMMA ForgetInStep ==
  ASSUME NEW S, NEW order \in Seq(S), NEW keys, InStep(order, keys), NEW id
  PROVE  /\ Forget(order, id) \in Seq(S)
         /\ InStep(Forget(order, id), keys \ {id})
PROOF
<1>1. CASE id \notin keys
  BY <1>1, ForgetMissing DEF InStep
<1>2. CASE id \in keys
  <2> DEFINE shorter == Forget(order, id)
  <2>1. Len(order) \in Nat /\ DOMAIN order = 1 .. Len(order)
    BY LenProperties
  <2>2. PICK n \in 1 .. Len(order) : order[n] = id
    BY <1>2, <2>1 DEF InStep, ToSet
  <2>3. /\ shorter \in Seq(S)
        /\ Len(shorter) = Len(order) - 1
        /\ \A i \in 1 .. Len(order) - 1 :
             shorter[i] = IF i < n THEN order[i] ELSE order[i + 1]
    BY <2>2, ForgetPresent DEF InStep
  <2>4. DOMAIN shorter = 1 .. Len(order) - 1
    BY <2>3, LenProperties
  <2> HIDE DEF shorter
  <2>5. \A i, j \in 1 .. Len(shorter) : shorter[i] = shorter[j] => i = j
    <3> SUFFICES ASSUME NEW i \in 1 .. Len(shorter), NEW j \in 1 .. Len(shorter), i # j
                 PROVE  shorter[i] # shorter[j]
      OBVIOUS
    <3> DEFINE From(k) == IF k < n THEN k ELSE k + 1
    <3>1. /\ From(i) \in 1 .. Len(order) /\ From(j) \in 1 .. Len(order)
          /\ From(i) # From(j)
      BY <2>1, <2>3
    <3>2. shorter[i] = order[From(i)] /\ shorter[j] = order[From(j)]
      BY <2>1, <2>3
    <3> QED BY <3>1, <3>2 DEF InStep
  <2>6. ToSet(shorter) = keys \ {id}
    <3>1. ASSUME NEW i \in DOMAIN shorter PROVE shorter[i] \in keys \ {id}
      <4>1. PICK m \in 1 .. Len(order) : m # n /\ shorter[i] = order[m]
        <5>1. CASE i < n
          BY <2>1, <2>3, <2>4, <5>1
        <5>2. CASE ~(i < n)
          <6>1. i + 1 \in 1 .. Len(order) /\ i + 1 # n /\ shorter[i] = order[i + 1]
            BY <2>1, <2>2, <2>3, <2>4, <5>2
          <6> QED BY <6>1
        <5> QED BY <5>1, <5>2
      <4>2. order[m] # id /\ order[m] \in keys
        BY <2>1, <2>2, <4>1 DEF InStep, ToSet
      <4> QED BY <4>1, <4>2
    <3>2. ASSUME NEW k \in keys \ {id} PROVE \E i \in DOMAIN shorter : shorter[i] = k
      <4>1. PICK m \in 1 .. Len(order) : order[m] = k
        BY <2>1 DEF InStep, ToSet
      <4>2. CASE m < n
        BY <2>1, <2>2, <2>3, <2>4, <4>1, <4>2
      <4>3. CASE m > n
        <5>1. /\ m - 1 \in DOMAIN shorter
              /\ shorter[m - 1] = order[m]
          BY <2>1, <2>2, <2>3, <2>4, <4>3
        <5> QED BY <4>1, <5>1
      <4> QED BY <2>1, <2>2, <4>1, <4>2, <4>3
    <3> QED BY <3>1, <3>2 DEF ToSet
  <2> QED BY <2>3, <2>5, <2>6 DEF InStep, shorter
<1> QED BY <1>1, <1>2

LEMMA RememberInStep ==
  ASSUME NEW S, NEW order \in Seq(S), NEW keys, InStep(order, keys), NEW id \in S
  PROVE  /\ Remember(order, id) \in Seq(S)
         /\ InStep(Remember(order, id), keys \cup {id})
PROOF
<1> DEFINE rest == Forget(order, id)
<1>1. rest \in Seq(S) /\ InStep(rest, keys \ {id})
  BY ForgetInStep
<1> HIDE DEF rest
<1>2. /\ Append(rest, id) \in Seq(S)
      /\ Len(Append(rest, id)) = Len(rest) + 1
      /\ \A i \in 1 .. Len(rest) : Append(rest, id)[i] = rest[i]
      /\ Append(rest, id)[Len(rest) + 1] = id
      /\ DOMAIN Append(rest, id) = 1 .. Len(rest) + 1
  BY <1>1, AppendProperties, LenProperties
<1>3. Len(rest) \in Nat /\ DOMAIN rest = 1 .. Len(rest)
  BY <1>1, LenProperties
<1>4. \A i \in 1 .. Len(rest) : rest[i] \in keys \ {id}
  BY <1>1, <1>3 DEF InStep, ToSet
<1> DEFINE longer == Append(rest, id)
<1>5. \A i, j \in 1 .. Len(longer) : longer[i] = longer[j] => i = j
  BY <1>1, <1>2, <1>3, <1>4 DEF InStep
<1>6. ToSet(longer) = keys \cup {id}
  <2>1. ToSet(rest) = keys \ {id}
    BY <1>1 DEF InStep
  <2>2. ToSet(longer) = ToSet(rest) \cup {id}
    BY <1>2, <1>3 DEF ToSet
  <2> QED BY <2>1, <2>2
<1> QED BY <1>2, <1>5, <1>6 DEF Remember, rest, InStep

-----------------------------------------------------------------------------

\* The k oldest keys are the first k of the order, and the others as many as
\* the rest of the order is long.
LEMMA OldestKeys ==
  ASSUME NEW S, NEW order \in Seq(S), NEW keys, InStep(order, keys),
         NEW k \in 0 .. Len(order)
  PROVE  /\ keys \ Oldest(order, k) = {order[i] : i \in k + 1 .. Len(order)}
         /\ IsFiniteSet(keys \ Oldest(order, k))
         /\ Cardinality(keys \ Oldest(order, k)) = Len(order) - k
PROOF
<1> DEFINE later == {order[i] : i \in k + 1 .. Len(order)}
           first == SubSeq(order, 1, k)
           at == [i \in k + 1 .. Len(order) |-> order[i]]
<1>1. Len(order) \in Nat /\ k \in Nat /\ k <= Len(order) /\ DOMAIN order = 1 .. Len(order)
  BY LenProperties
<1>2. /\ first \in Seq(S)
      /\ Len(first) = k
      /\ \A i \in 1 .. k : first[i] = order[i]
  <2>1. \A i \in 1 .. k : order[i] \in S
    BY <1>1, ElementOfSeq
  <2> QED BY <1>1, <2>1, SubSeqProperties
<1>3. DOMAIN first = 1 .. k
  BY <1>2, LenProperties
<1> HIDE DEF first
<1>4. ToSet(first) = {order[i] : i \in 1 .. k}
  BY <1>2, <1>3 DEF ToSet
<1>5. keys \ ToSet(first) = later
  <2>1. keys = {order[i] : i \in 1 .. Len(order)}
    BY <1>1 DEF InStep, ToSet
  <2>2. ASSUME NEW i \in 1 .. Len(order), order[i] \notin {order[j] : j \in 1 .. k}
        PROVE  order[i] \in later
    <3>1. i \in k + 1 .. Len(order)
      BY <1>1, <2>2
    <3> QED BY <3>1
  <2>3. ASSUME NEW i \in k + 1 .. Len(order)
        PROVE  order[i] \in keys /\ order[i] \notin {order[j] : j \in 1 .. k}
    <3>1. i \in 1 .. Len(order) /\ \A j \in 1 .. k : j # i /\ j \in 1 .. Len(order)
      BY <1>1, <2>3
    <3> QED BY <2>1, <3>1 DEF InStep
  <2> QED BY <1>4, <2>1, <2>2, <2>3
<1>6. IsFiniteSet(later) /\ Cardinality(later) = Len(order) - k
  <2>1. at \in Bijection(k + 1 .. Len(order), later)
    <3>1. at \in [k + 1 .. Len(order) -> later]
      OBVIOUS
    <3>2. \A i, j \in k + 1 .. Len(order) : at[i] = at[j] => i = j
      BY <1>1 DEF InStep
    <3>3. \A e \in later : \E i \in k + 1 .. Len(order) : at[i] = e
      OBVIOUS
    <3> HIDE DEF at, later
    <3>4. DOMAIN at = k + 1 .. Len(order)
      BY DEF at
    <3> QED BY <3>1, <3>2, <3>3, <3>4 DEF Bijection, Injection, Surjection, IsInjective
  <2>2. ExistsBijection(k + 1 .. Len(order), later)
    BY <2>1 DEF ExistsBijection
  <2>3. /\ IsFiniteSet(k + 1 .. Len(order))
        /\ Cardinality(k + 1 .. Len(order)) = Len(order) - k
    <3>1. k + 1 \in Int /\ Len(order) \in Int
      BY <1>1
    <3>2. /\ IsFiniteSet(k + 1 .. Len(order))
          /\ Cardinality(k + 1 .. Len(order)) =
               IF k + 1 > Len(order) THEN 0 ELSE Len(order) - (k + 1) + 1
      BY <3>1, FS_Interval, Zenon
    <3>3. (IF k + 1 > Len(order) THEN 0 ELSE Len(order) - (k + 1) + 1) = Len(order) - k
      <4>1. \A a, n \in Nat :
              a <= n => (IF a + 1 > n THEN 0 ELSE n - (a + 1) + 1) = n - a
        OBVIOUS
      <4> QED BY <1>1, <4>1
    <3> QED BY <3>2, <3>3
  <2> QED BY <2>2, <2>3, FS_Bijection
<1> QED BY <1>5, <1>6 DEF Oldest, first

\* The loop pops exactly the excess over a positive limit.
LEMMA EvictCountIsExcess ==
  ASSUME NEW S, NEW order \in Seq(S), NEW keys, InStep(order, keys),
         NEW max \in Nat
  PROVE  EvictCount(order, keys, max) =
           IF max = 0 \/ Len(order) <= max THEN 0 ELSE Len(order) - max
PROOF
<1> DEFINE excess == IF max = 0 \/ Len(order) <= max THEN 0 ELSE Len(order) - max
<1>1. Len(order) \in Nat
  BY LenProperties
<1>2. \A k \in 0 .. Len(order) :
        EvictionStops(order, keys, max, k) <=> max = 0 \/ Len(order) - k <= max
  <2>1. ASSUME NEW k \in 0 .. Len(order)
        PROVE  Cardinality(keys \ Oldest(order, k)) = Len(order) - k
    BY OldestKeys
  <2> QED BY <1>1, <2>1 DEF EvictionStops
<1>3. excess \in 0 .. Len(order)
  BY <1>1
<1>4. \A k \in 0 .. Len(order) :
        /\ (max = 0 \/ Len(order) - k <= max) <=> k >= excess
        /\ EvictionStops(order, keys, max, k) <=> k >= excess
  BY <1>1, <1>2
<1> HIDE DEF excess
<1>5. \A k \in 0 .. Len(order) :
        /\ EvictionStops(order, keys, max, k)
        /\ \A j \in 0 .. (k - 1) : ~EvictionStops(order, keys, max, j)
        <=> k = excess
  BY <1>1, <1>3, <1>4
<1>6. EvictCount(order, keys, max) = excess
  BY <1>3, <1>5 DEF EvictCount
<1> QED BY <1>6 DEF excess

LEMMA EvictionInStep ==
  ASSUME NEW S, NEW order \in Seq(S), NEW keys, InStep(order, keys),
         NEW max \in Nat
  PROVE  /\ AfterEviction(order, keys, max) \in Seq(S)
         /\ InStep(AfterEviction(order, keys, max),
                   keys \ Evicted(order, keys, max))
         /\ IsFiniteSet(keys \ Evicted(order, keys, max))
         /\ max > 0 => Cardinality(keys \ Evicted(order, keys, max)) <= max
PROOF
<1> DEFINE k == EvictCount(order, keys, max)
           rest == SubSeq(order, k + 1, Len(order))
<1>1. Len(order) \in Nat /\ DOMAIN order = 1 .. Len(order)
  BY LenProperties
<1>2. k = IF max = 0 \/ Len(order) <= max THEN 0 ELSE Len(order) - max
  BY EvictCountIsExcess
<1> HIDE DEF k, rest
<1>3. k \in 0 .. Len(order) /\ (max > 0 => Len(order) - k <= max)
  <2>1. CASE max = 0 \/ Len(order) <= max
    <3>1. k = 0
      BY <1>2, <2>1
    <3> QED BY <1>1, <2>1, <3>1
  <2>2. CASE ~(max = 0 \/ Len(order) <= max)
    BY <1>1, <1>2, <2>2
  <2> QED BY <2>1, <2>2
<1>4. keys \ Evicted(order, keys, max) = keys \ Oldest(order, k)
  BY DEF Evicted, k
<1>5. /\ keys \ Oldest(order, k) = {order[i] : i \in k + 1 .. Len(order)}
      /\ IsFiniteSet(keys \ Oldest(order, k))
      /\ Cardinality(keys \ Oldest(order, k)) = Len(order) - k
  BY <1>3, OldestKeys
<1>6. /\ rest \in Seq(S)
      /\ Len(rest) = Len(order) - k
      /\ \A i \in 1 .. Len(order) - k : rest[i] = order[k + i]
  BY <1>3, SuffixProperties DEF rest
<1>7. DOMAIN rest = 1 .. Len(order) - k
  BY <1>6, LenProperties
<1>8. \A i, j \in 1 .. Len(rest) : rest[i] = rest[j] => i = j
  BY <1>1, <1>3, <1>6 DEF InStep
<1>9. ToSet(rest) = {order[i] : i \in k + 1 .. Len(order)}
  <2>1. ASSUME NEW i \in k + 1 .. Len(order)
        PROVE  i - k \in DOMAIN rest /\ rest[i - k] = order[i]
    BY <1>1, <1>3, <1>6, <1>7
  <2>2. ASSUME NEW i \in DOMAIN rest
        PROVE  k + i \in k + 1 .. Len(order) /\ rest[i] = order[k + i]
    BY <1>1, <1>3, <1>6, <1>7
  <2> QED BY <2>1, <2>2 DEF ToSet
<1> QED BY <1>3, <1>4, <1>5, <1>6, <1>8, <1>9 DEF AfterEviction, InStep, k, rest

------------------------------------------------------------------------------
(* The table that a map and its order slice represent: what RecentMap says *)
(* of saving, deleting and evicting, of tables of any length.              *)

WithoutKey(table, k) ==
  IF \E i \in 1 .. Len(table) : table[i].key = k
  THEN RemoveAt(table, CHOOSE i \in 1 .. Len(table) : table[i].key = k)
  ELSE table

NewestOf(table, limit) ==
  IF limit = 0 \/ Len(table) <= limit
  THEN table
  ELSE SubSeq(table, Len(table) - limit + 1, Len(table))

\* The maps have the same values for all keys but these.
Agree(m, new, keys, but) == \A k \in keys \ but : new[k] = m[k]

EntrySet(S, m) == [key : S, value : {m[k] : k \in S}]

LEMMA EntriesProperties ==
  ASSUME NEW S, NEW order \in Seq(S), NEW m
  PROVE  /\ Entries(order, m) \in Seq(EntrySet(S, m))
         /\ Len(Entries(order, m)) = Len(order)
         /\ \A i \in 1 .. Len(order) :
              /\ Entries(order, m)[i] = [key |-> order[i], value |-> m[order[i]]]
              /\ Entries(order, m)[i].key = order[i]
              /\ Entries(order, m)[i].value = m[order[i]]
PROOF
<1>1. Len(order) \in Nat /\ \A i \in 1 .. Len(order) : order[i] \in S
  BY LenProperties, ElementOfSeq
<1> QED BY <1>1 DEF Entries, EntrySet

\* Deleting a key from order and map removes its entry from the table.
LEMMA EntriesForget ==
  ASSUME NEW S, NEW order \in Seq(S), NEW keys, InStep(order, keys), NEW k,
         NEW m, NEW new, Agree(m, new, keys, {k})
  PROVE  Entries(Forget(order, k), new) = WithoutKey(Entries(order, m), k)
PROOF
<1> DEFINE table == Entries(order, m)
           T == EntrySet(S, m)
<1>1. /\ table \in Seq(T) /\ Len(table) = Len(order)
      /\ \A i \in 1 .. Len(order) :
           /\ table[i] = [key |-> order[i], value |-> m[order[i]]]
           /\ table[i].key = order[i]
  BY EntriesProperties
<1>2. /\ Len(order) \in Nat /\ DOMAIN order = 1 .. Len(order)
      /\ \A i \in 1 .. Len(order) : order[i] \in keys
      /\ \A i, j \in 1 .. Len(order) : order[i] = order[j] => i = j
  BY LenProperties DEF InStep, ToSet
<1> HIDE DEF table, T
<1>3. CASE k \notin keys
  <2>1. Forget(order, k) = order
    BY <1>3, ForgetMissing DEF InStep
  <2>2. WithoutKey(table, k) = table
    <3>1. ASSUME NEW i \in 1 .. Len(table) PROVE table[i].key # k
      <4>1. i \in 1 .. Len(order)
        BY <1>1
      <4>2. table[i].key = order[i] /\ order[i] \in keys
        BY <1>1, <1>2, <4>1, Zenon
      <4> QED BY <1>3, <4>2
    <3> QED BY <3>1 DEF WithoutKey
  <2>3. Entries(order, new) = Entries(order, m)
    BY <1>2, <1>3 DEF Entries, Agree
  <2> QED BY <2>1, <2>2, <2>3 DEF table
<1>4. CASE k \in keys
  <2>1. PICK n \in 1 .. Len(order) : order[n] = k
    BY <1>2, <1>4 DEF InStep, ToSet
  <2> DEFINE shorter == Forget(order, k)
             removed == RemoveAt(table, n)
  <2>2. WithoutKey(table, k) = removed
    <3>1. ASSUME NEW i \in 1 .. Len(table) PROVE table[i].key = k <=> i = n
      <4>1. i \in 1 .. Len(order)
        BY <1>1
      <4>2. table[i].key = order[i]
        BY <1>1, <4>1, Zenon
      <4> QED BY <1>2, <2>1, <4>1, <4>2
    <3>2. n \in 1 .. Len(table)
      BY <1>1
    <3>3. (CHOOSE i \in 1 .. Len(table) : table[i].key = k) = n
      BY <3>1, <3>2
    <3> QED BY <3>1, <3>2, <3>3 DEF WithoutKey
  <2>3. /\ shorter \in Seq(S) /\ Len(shorter) = Len(order) - 1
        /\ \A i \in 1 .. Len(order) - 1 :
             shorter[i] = IF i < n THEN order[i] ELSE order[i + 1]
    BY <1>2, <2>1, ForgetPresent
  <2>4. /\ removed \in Seq(T) /\ Len(removed) = Len(order) - 1
        /\ \A i \in 1 .. Len(order) - 1 :
             removed[i] = IF i < n THEN table[i] ELSE table[i + 1]
    BY <1>1, RemoveAtProperties
  <2> HIDE DEF shorter, removed
  <2>5. ASSUME NEW i \in 1 .. Len(order) - 1
        PROVE  removed[i] = [key |-> shorter[i], value |-> new[shorter[i]]]
    <3>1. PICK j \in 1 .. Len(order) :
            j # n /\ shorter[i] = order[j] /\ removed[i] = table[j]
      <4>1. CASE i < n
        <5>1. i \in 1 .. Len(order) /\ i # n
          BY <1>2, <4>1
        <5>2. shorter[i] = order[i] /\ removed[i] = table[i]
          BY <2>3, <2>4, <4>1
        <5> QED BY <5>1, <5>2
      <4>2. CASE ~(i < n)
        <5>1. i + 1 \in 1 .. Len(order) /\ i + 1 # n
          BY <1>2, <4>2
        <5> QED BY <2>3, <2>4, <4>2, <5>1
      <4> QED BY <4>1, <4>2
    <3>2. order[j] \in keys \ {k}
      BY <1>2, <2>1, <3>1
    <3>3. table[j] = [key |-> order[j], value |-> new[order[j]]]
      BY <1>1, <3>2 DEF Agree
    <3> QED BY <3>1, <3>3
  <2>6. DOMAIN removed = 1 .. Len(order) - 1
    BY <2>4, LenProperties
  <2>7. removed = [i \in 1 .. Len(order) - 1 |-> removed[i]]
    BY <2>4, <2>6, LenProperties
  <2>8. Entries(shorter, new) = removed
    BY <2>3, <2>5, <2>7 DEF Entries
  <2> QED BY <2>2, <2>8 DEF shorter, table
<1> QED BY <1>3, <1>4 DEF table

\* Saving a key removes its old entry and adds one at the end.
LEMMA EntriesSave ==
  ASSUME NEW S, NEW order \in Seq(S), NEW keys, InStep(order, keys), NEW k \in S,
         NEW m, keys \subseteq DOMAIN m, NEW v
  PROVE  Entries(Remember(order, k), Put(m, k, v))
           = Append(WithoutKey(Entries(order, m), k), [key |-> k, value |-> v])
PROOF
<1> DEFINE rest == Forget(order, k)
           new == Put(m, k, v)
           entry == [key |-> k, value |-> v]
           longer == Append(rest, k)
           table == Entries(rest, new)
<1>1. rest \in Seq(S) /\ InStep(rest, keys \ {k})
  BY ForgetInStep
<1>2. new[k] = v /\ Agree(m, new, keys, {k})
  BY DEF Put, Agree
<1> HIDE DEF new, rest
<1>3. table = WithoutKey(Entries(order, m), k)
  BY <1>2, EntriesForget DEF rest
<1>4. /\ longer \in Seq(S) /\ Len(longer) = Len(rest) + 1
      /\ \A i \in 1 .. Len(rest) : longer[i] = rest[i]
      /\ longer[Len(rest) + 1] = k /\ Len(rest) \in Nat
  BY <1>1, AppendProperties, LenProperties
<1>5. /\ Len(table) = Len(rest)
      /\ \A i \in 1 .. Len(rest) : table[i] = [key |-> rest[i], value |-> new[rest[i]]]
      /\ table \in Seq(EntrySet(S, new))
  BY <1>1, EntriesProperties
<1> HIDE DEF longer, table
<1>6. /\ Len(Append(table, entry)) = Len(rest) + 1
      /\ \A i \in 1 .. Len(rest) : Append(table, entry)[i] = table[i]
      /\ Append(table, entry)[Len(rest) + 1] = entry
      /\ Append(table, entry) = [i \in 1 .. Len(rest) + 1 |-> Append(table, entry)[i]]
  <2> DEFINE T == EntrySet(S, new)
  <2>1. table \in Seq(T) /\ entry \in T
    BY <1>2, <1>5 DEF EntrySet
  <2> HIDE DEF T, entry
  <2> DEFINE appended == Append(table, entry)
  <2>2. /\ appended \in Seq(T) /\ Len(appended) = Len(table) + 1
        /\ \A i \in 1 .. Len(table) : appended[i] = table[i]
        /\ appended[Len(table) + 1] = entry
    BY <2>1, AppendProperties
  <2> HIDE DEF appended
  <2>3. appended = [i \in 1 .. Len(rest) + 1 |-> appended[i]]
    BY <1>5, <2>2, LenProperties
  <2> QED BY <1>5, <2>2, <2>3 DEF appended
<1>7. ASSUME NEW i \in 1 .. Len(rest) + 1
      PROVE  Append(table, entry)[i] = [key |-> longer[i], value |-> new[longer[i]]]
  BY <1>2, <1>4, <1>5, <1>6
<1>8. Entries(longer, new) = Append(table, entry)
  BY <1>4, <1>6, <1>7 DEF Entries
<1> QED BY <1>3, <1>8 DEF Remember, longer, rest, new

\* The eviction loop leaves the newest entries of the table.
LEMMA EntriesEvict ==
  ASSUME NEW S, NEW order \in Seq(S), NEW keys, InStep(order, keys), NEW max \in Nat,
         NEW m, NEW new, Agree(m, new, keys, Evicted(order, keys, max))
  PROVE  Entries(AfterEviction(order, keys, max), new) = NewestOf(Entries(order, m), max)
PROOF
<1> DEFINE k == EvictCount(order, keys, max)
           rest == AfterEviction(order, keys, max)
           table == Entries(order, m)
           T == EntrySet(S, m)
<1>1. Len(order) \in Nat /\ DOMAIN order = 1 .. Len(order)
  BY LenProperties
<1>2. k = IF max = 0 \/ Len(order) <= max THEN 0 ELSE Len(order) - max
  BY EvictCountIsExcess
<1>3. /\ table \in Seq(T) /\ Len(table) = Len(order)
      /\ \A i \in 1 .. Len(order) : table[i] = [key |-> order[i], value |-> m[order[i]]]
  BY EntriesProperties
<1>4. rest \in Seq(S) /\ InStep(rest, keys \ Evicted(order, keys, max))
  BY EvictionInStep
<1> DEFINE later == SubSeq(order, k + 1, Len(order))
<1>5. rest = later
  BY DEF AfterEviction
<1> HIDE DEF k, rest, table, T
<1>6. k \in 0 .. Len(order)
  <2>1. CASE max = 0 \/ Len(order) <= max
    <3>1. k = 0
      BY <1>2, <2>1
    <3> QED BY <1>1, <3>1
  <2>2. CASE ~(max = 0 \/ Len(order) <= max)
    BY <1>1, <1>2, <2>2
  <2> QED BY <2>1, <2>2
<1>7. Len(rest) = Len(order) - k /\ \A i \in 1 .. Len(order) - k : rest[i] = order[k + i]
  <2>1. /\ later \in Seq(S) /\ Len(later) = Len(order) - k
        /\ \A i \in 1 .. Len(order) - k : later[i] = order[k + i]
    BY <1>6, SuffixProperties
  <2> HIDE DEF later
  <2> QED BY <1>5, <2>1
<1> HIDE DEF later
<1> DEFINE newest == SubSeq(table, k + 1, Len(table))
<1>8. NewestOf(table, max) = newest
  <2>1. CASE max = 0 \/ Len(order) <= max
    <3>1. k = 0
      BY <1>2, <2>1
    <3> QED BY <1>3, <2>1, <3>1, SubSeqFull DEF NewestOf
  <2>2. CASE ~(max = 0 \/ Len(order) <= max)
    <3>1. k = Len(order) - max
      BY <1>2, <2>2
    <3> QED BY <1>3, <2>2, <3>1 DEF NewestOf
  <2> QED BY <2>1, <2>2
<1>9. /\ newest \in Seq(T) /\ Len(newest) = Len(order) - k
      /\ \A i \in 1 .. Len(order) - k : newest[i] = table[k + i]
  <2>1. /\ newest \in Seq(T) /\ Len(newest) = Len(table) - k
        /\ \A i \in 1 .. Len(table) - k : newest[i] = table[k + i]
    <3>1. table \in Seq(T) /\ k \in 0 .. Len(table)
      BY <1>3, <1>6
    <3> QED BY <3>1, SuffixProperties
  <2> HIDE DEF newest
  <2>2. Len(table) = Len(order)
    BY <1>3
  <2> QED BY <2>1, <2>2
<1> HIDE DEF newest
<1>10. ASSUME NEW i \in 1 .. Len(order) - k
       PROVE  newest[i] = [key |-> rest[i], value |-> new[rest[i]]]
  <2>1. rest[i] \in keys \ Evicted(order, keys, max)
    BY <1>4, <1>7, LenProperties DEF InStep, ToSet
  <2>2. k + i \in 1 .. Len(order)
    BY <1>1, <1>6
  <2>3. rest[i] = order[k + i] /\ newest[i] = table[k + i]
    BY <1>7, <1>9
  <2>4. table[k + i] = [key |-> order[k + i], value |-> m[order[k + i]]]
    BY <1>3, <2>2
  <2>5. new[rest[i]] = m[rest[i]]
    BY <2>1 DEF Agree
  <2> QED BY <2>3, <2>4, <2>5
<1>11. newest = [i \in 1 .. Len(order) - k |-> newest[i]]
  BY <1>9, LenProperties
<1>12. Entries(rest, new) = newest
  BY <1>7, <1>10, <1>11 DEF Entries
<1> QED BY <1>8, <1>12 DEF rest, table

\* A save, with the eviction after it.
LEMMA EntriesSaveAndEvict ==
  ASSUME NEW S, NEW order \in Seq(S), NEW m, InStep(order, DOMAIN m), NEW k \in S, NEW v,
         NEW max \in Nat, NEW longer, longer = Remember(order, k),
         NEW keys, keys = DOMAIN m \cup {k},
         NEW new, Agree(Put(m, k, v), new, keys, Evicted(longer, keys, max))
  PROVE  Entries(AfterEviction(longer, keys, max), new)
           = NewestOf(Append(WithoutKey(Entries(order, m), k), [key |-> k, value |-> v]), max)
PROOF
<1>1. longer \in Seq(S) /\ InStep(longer, keys)
  BY RememberInStep
<1>2. Entries(longer, Put(m, k, v))
        = Append(WithoutKey(Entries(order, m), k), [key |-> k, value |-> v])
  BY EntriesSave
<1>3. Entries(AfterEviction(longer, keys, max), new)
        = NewestOf(Entries(longer, Put(m, k, v)), max)
  BY <1>1, EntriesEvict
<1> QED BY <1>2, <1>3

HasEntry(table, k, v) == \E i \in 1 .. Len(table) : table[i].key = k /\ table[i].value = v

WithEntry(table, k, v) ==
  [i \in 1 .. Len(table) |-> IF table[i].key = k THEN [key |-> k, value |-> v] ELSE table[i]]

LEMMA EntriesHave ==
  ASSUME NEW S, NEW order \in Seq(S), NEW m, InStep(order, DOMAIN m), NEW k \in DOMAIN m
  PROVE  HasEntry(Entries(order, m), k, m[k])
PROOF
<1> DEFINE table == Entries(order, m)
<1>1. PICK n \in 1 .. Len(order) : order[n] = k
  BY LenProperties DEF InStep, ToSet
<1>2. /\ Len(table) = Len(order)
      /\ \A i \in 1 .. Len(order) :
           /\ table[i] = [key |-> order[i], value |-> m[order[i]]]
           /\ table[i].key = order[i]
  BY EntriesProperties
<1> HIDE DEF table
<1>3. n \in 1 .. Len(table) /\ table[n].key = k /\ table[n].value = m[k]
  <2>1. n \in 1 .. Len(table) /\ table[n] = [key |-> k, value |-> m[k]]
    BY <1>1, <1>2, Zenon
  <2> QED BY <2>1
<1>4. HasEntry(table, k, m[k])
  BY <1>3 DEF HasEntry
<1> QED BY <1>4 DEF table

Updates(m, new, k, v) == new = [m EXCEPT ![k] = v]

\* An update changes one entry in its place.
LEMMA EntriesUpdate ==
  ASSUME NEW S, NEW order \in Seq(S), NEW m, InStep(order, DOMAIN m), NEW k \in DOMAIN m,
         NEW v, NEW new, Updates(m, new, k, v)
  PROVE  Entries(order, new) = WithEntry(Entries(order, m), k, v)
PROOF
<1> DEFINE table == Entries(order, m)
<1>1. /\ Len(table) = Len(order)
      /\ \A i \in 1 .. Len(order) :
           /\ table[i] = [key |-> order[i], value |-> m[order[i]]]
           /\ table[i].key = order[i]
  BY EntriesProperties
<1>2. \A i \in 1 .. Len(order) : order[i] \in DOMAIN m
  BY LenProperties DEF InStep, ToSet
<1> HIDE DEF table
<1>3. ASSUME NEW i \in 1 .. Len(order)
      PROVE  [key |-> order[i], value |-> new[order[i]]]
               = IF table[i].key = k THEN [key |-> k, value |-> v] ELSE table[i]
  BY <1>1, <1>2 DEF Updates
<1>4. Entries(order, new) = WithEntry(table, k, v)
  BY <1>1, <1>3 DEF Entries, WithEntry
<1> QED BY <1>4 DEF table

------------------------------------------------------------------------------
(* Induction over numbers, and functions that are defined by their values  *)
(* before or after.                                                        *)

\* NaturalsInduction takes an operator; a set of numbers does as well.
LEMMA LeastNumber ==
  ASSUME NEW T, T \subseteq Nat, T # {}
  PROVE  \E n \in T : \A m \in T : n <= m
PROOF
<1> DEFINE R == {pair \in Nat \X Nat : pair[1] < pair[2]}
<1>1. IsWellFoundedOn(R, Nat)
  BY NatLessThanWellFounded, Zenon DEF OpToRel
<1> HIDE DEF R
<1>2. \E n \in T : \A m \in T : ~(<<m, n>> \in R)
  BY <1>1, WFMin
<1>3. \A m, n \in Nat : ~(<<m, n>> \in R) => n <= m
  BY DEF R
<1> QED BY <1>2, <1>3

\* T has the numbers up to n.
LEMMA UpTo ==
  ASSUME NEW n \in Nat, NEW T, 0 \in T, \A i \in 0 .. n : i \in T /\ i < n => i + 1 \in T
  PROVE  \A i \in 0 .. n : i \in T
PROOF
<1> DEFINE others == {i \in 0 .. n : i \notin T}
<1> SUFFICES ASSUME others # {} PROVE FALSE
  OBVIOUS
<1>1. others \subseteq Nat
  OBVIOUS
<1> HIDE DEF others
<1>2. PICK m \in others : \A i \in others : m <= i
  BY <1>1, LeastNumber
<1> USE DEF others
<1>3. m \in 0 .. n /\ m \notin T /\ m # 0
  BY <1>2
<1>4. m - 1 \in 0 .. n /\ m - 1 < n /\ (m - 1) + 1 = m
  BY <1>3
<1>5. m - 1 \in T
  BY <1>2, <1>3, <1>4
<1> QED BY <1>3, <1>4, <1>5

\* T has all numbers up to n + 1 if it has the last one and each that all after it are
\* in.
LEMMA DownTo ==
  ASSUME NEW n \in Nat, NEW T, n + 1 \in T,
         \A i \in 1 .. n : (\A j \in (i + 1) .. (n + 1) : j \in T) => i \in T
  PROVE  \A i \in 1 .. (n + 1) : i \in T
PROOF
<1> DEFINE others == {k \in 0 .. n : (n + 1) - k \notin T}
<1> SUFFICES ASSUME NEW i \in 1 .. (n + 1), i \notin T PROVE FALSE
  OBVIOUS
<1>1. others \subseteq Nat /\ (n + 1) - i \in others
  <2>1. (n + 1) - i \in 0 .. n /\ (n + 1) - ((n + 1) - i) = i
    OBVIOUS
  <2> QED BY <2>1
<1> HIDE DEF others
<1>2. PICK k \in others : \A m \in others : k <= m
  BY <1>1, LeastNumber
<1>3. k \in 0 .. n /\ (n + 1) - k \notin T
  BY <1>2 DEF others
<1>4. k # 0
  BY <1>3
<1>5. (n + 1) - k \in 1 .. n
  BY <1>3, <1>4
<1>6. ASSUME NEW j \in ((n + 1) - k + 1) .. (n + 1) PROVE j \in T
  <2>1. (n + 1) - j \in 0 .. n /\ (n + 1) - ((n + 1) - j) = j /\ ~(k <= (n + 1) - j)
    BY <1>3, <1>5
  <2> QED BY <1>2, <2>1 DEF others
<1> QED BY <1>3, <1>5, <1>6

\* A function can be defined by its first value and by each from the one before.
Iterates(f, m, S, start, step) ==
  /\ f \in [0 .. m -> S] /\ f[0] = start
  /\ \A i \in 1 .. m : f[i] = step[i][f[i - 1]]

LEMMA Iteration ==
  ASSUME NEW S, NEW n \in Nat, NEW start \in S, NEW step \in [1 .. n -> [S -> S]]
  PROVE  \E f : Iterates(f, n, S, start, step)
PROOF
<1> DEFINE Is(f, m) == Iterates(f, m, S, start, step)
           T == {m \in 0 .. n : \E f : Is(f, m)}
<1>1. 0 \in T
  <2> DEFINE f == [i \in 0 .. 0 |-> start]
  <2>1. Is(f, 0) /\ 0 \in 0 .. n
    BY DEF Iterates
  <2> HIDE DEF f, Is
  <2> QED BY <2>1
<1>2. ASSUME NEW m \in 0 .. n, m \in T, m < n PROVE m + 1 \in T
  <2>1. PICK f : Is(f, m)
    BY <1>2
  <2>2. /\ m + 1 \in 1 .. n /\ m + 1 \in 0 .. n /\ (m + 1) - 1 = m
        /\ \A i \in 0 .. m + 1 : i = m + 1 \/ i \in 0 .. m
        /\ \A i \in 1 .. m + 1 : i = m + 1 \/ (i \in 1 .. m /\ i # m + 1)
        /\ \A i \in 1 .. m + 1 : i - 1 \in 0 .. m /\ i - 1 # m + 1 /\ i - 1 \in 0 .. m + 1
    BY <1>2
  <2> DEFINE last == step[m + 1][f[m]]
             g == [i \in 0 .. m + 1 |-> IF i = m + 1 THEN last ELSE f[i]]
  <2>3. f[m] \in S /\ step[m + 1] \in [S -> S]
    BY <2>1, <2>2 DEF Iterates
  <2>4. last \in S
    BY <2>3
  <2>5. g \in [0 .. m + 1 -> S] /\ g[0] = start
    BY <2>1, <2>2, <2>4 DEF Iterates
  <2>6. ASSUME NEW i \in 1 .. m + 1 PROVE g[i] = step[i][g[i - 1]]
    <3>1. g[i - 1] = f[i - 1]
      BY <2>2
    <3>2. CASE i = m + 1
      BY <2>2, <3>1, <3>2
    <3>3. CASE i # m + 1
      <4>1. i \in 1 .. m /\ g[i] = f[i]
        BY <2>2, <3>3
      <4> QED BY <2>1, <3>1, <4>1 DEF Iterates
    <3> QED BY <3>2, <3>3
  <2> HIDE DEF g
  <2>7. Is(g, m + 1)
    BY <2>5, <2>6 DEF Iterates
  <2> QED BY <2>2, <2>7
<1> HIDE DEF T
<1>3. \A m \in 0 .. n : m \in T /\ m < n => m + 1 \in T
  BY <1>2
<1>4. \A m \in 0 .. n : m \in T
  BY <1>1, <1>3, UpTo
<1>5. n \in T
  BY <1>4
<1> QED BY <1>5 DEF T

\* From the place m on, h has what M adds to what h has where N leads.
Filled(h, n, m, R, M, N) ==
  /\ h \in [1 .. (n + 1) -> Seq(R)] /\ h[n + 1] = <<>>
  /\ \A i \in m .. n : h[i] = M[i] \o h[N[i]]

LEMMA Filling ==
  ASSUME NEW R, NEW n \in Nat, NEW M \in [1 .. n -> Seq(R)], NEW N \in [1 .. n -> 1 .. (n + 1)],
         \A i \in 1 .. n : N[i] > i
  PROVE  \E h : Filled(h, n, 1, R, M, N)
PROOF
<1> DEFINE T == {m \in 1 .. (n + 1) : \E h : Filled(h, n, m, R, M, N)}
<1>1. n + 1 \in T
  <2> DEFINE h == [i \in 1 .. (n + 1) |-> <<>>]
             last == n + 1
  <2>1. last \in 1 .. (n + 1) /\ \A i \in last .. n : FALSE
    OBVIOUS
  <2>2. <<>> \in Seq(R)
    OBVIOUS
  <2>3. h \in [1 .. (n + 1) -> Seq(R)] /\ h[n + 1] = <<>>
    BY <2>2
  <2> HIDE DEF h, last
  <2>4. Filled(h, n, last, R, M, N)
    BY <2>1, <2>3 DEF Filled
  <2>5. last \in T
    BY <2>1, <2>4
  <2> QED BY <2>5 DEF last
<1>2. ASSUME NEW m \in 1 .. n, \A j \in (m + 1) .. (n + 1) : j \in T PROVE m \in T
  <2> DEFINE after == m + 1
  <2>1. after \in (m + 1) .. (n + 1)
    OBVIOUS
  <2> HIDE DEF T
  <2>2. after \in T
    BY <1>2, <2>1
  <2> HIDE DEF after
  <2>10. PICK h : Filled(h, n, after, R, M, N)
    BY <2>2 DEF T
  <2> DEFINE new == M[m] \o h[N[m]]
             g == [h EXCEPT ![m] = new]
  <2>3. /\ h \in [1 .. (n + 1) -> Seq(R)] /\ h[n + 1] = <<>>
        /\ \A i \in (m + 1) .. n : h[i] = M[i] \o h[N[i]]
    BY <2>10 DEF Filled, after
  <2>4. M[m] \in Seq(R) /\ h[N[m]] \in Seq(R)
    BY <2>3
  <2>5. new \in Seq(R)
    BY <2>4
  <2> HIDE DEF new
  <2>6. /\ g \in [1 .. (n + 1) -> Seq(R)] /\ g[m] = new
        /\ \A i \in 1 .. (n + 1) : i # m => g[i] = h[i]
    BY <2>3, <2>5
  <2> HIDE DEF g
  <2>7. g[n + 1] = <<>>
    BY <2>3, <2>6
  <2>8. ASSUME NEW i \in m .. n PROVE g[i] = M[i] \o g[N[i]]
    <3>1. i \in 1 .. n /\ N[i] > i /\ N[i] \in 1 .. (n + 1) /\ N[i] # m
      BY <2>8
    <3>2. g[N[i]] = h[N[i]]
      BY <2>6, <3>1
    <3>3. CASE i = m
      BY <2>6, <3>2, <3>3 DEF new
    <3>4. CASE i # m
      <4>1. i \in (m + 1) .. n /\ i \in 1 .. (n + 1)
        BY <2>8, <3>4
      <4>2. g[i] = h[i]
        BY <2>6, <3>4, <4>1
      <4> QED BY <2>3, <3>2, <4>1, <4>2
    <3> QED BY <3>3, <3>4
  <2>9. m \in 1 .. (n + 1)
    OBVIOUS
  <2>11. Filled(g, n, m, R, M, N)
    BY <2>6, <2>7, <2>8, Zenon DEF Filled
  <2> QED BY <2>9, <2>11 DEF T
<1> HIDE DEF T
<1>3. \A i \in 1 .. (n + 1) : i \in T
  BY <1>1, <1>2, DownTo
<1>4. 1 \in T
  BY <1>3
<1> QED BY <1>4 DEF T

------------------------------------------------------------------------------
(* Parts of a list, and lists that are joined.                             *)

LEMMA SeqWithin ==
  ASSUME NEW S, NEW M, S \subseteq M, NEW list \in Seq(S)
  PROVE  list \in Seq(M)
PROOF
<1>1. \A k \in 1 .. Len(list) : list[k] \in M
  OBVIOUS
<1> QED BY <1>1

\* The items from a place up to another one, but for that.
Span(list, from, to) == SubSeq(list, from, to - 1)

SpanOf(span, M, list, from, to) ==
  /\ span \in Seq(M) /\ Len(span) = to - from
  /\ \A k \in 1 .. (to - from) : span[k] = list[from + k - 1]

LEMMA SpanTypes ==
  ASSUME NEW M, NEW list \in Seq(M), NEW from \in 1 .. (Len(list) + 1),
         NEW to \in from .. (Len(list) + 1)
  PROVE  SpanOf(Span(list, from, to), M, list, from, to)
PROOF
<1> DEFINE n == Len(list)
           span == Span(list, from, to)
<1>1. n \in Nat /\ from \in Nat /\ to \in Nat /\ from >= 1 /\ from <= to /\ to <= n + 1
  OBVIOUS
<1>2. span = [k \in 1 .. (to - from) |-> list[from + k - 1]]
  <2>1. (to - 1) - from + 1 = to - from
    BY <1>1
  <2> QED BY <1>1, <2>1 DEF Span
<1>3. \A k \in 1 .. (to - from) : from + k - 1 \in 1 .. n
  BY <1>1
<1>4. \A k \in 1 .. (to - from) : list[from + k - 1] \in M
  BY <1>3
<1>5. to - from \in Nat
  BY <1>1
<1> HIDE DEF span
<1> QED BY <1>2, <1>4, <1>5 DEF SpanOf, span

SpansJoin(abc, ab, bc) == abc = ab \o bc

LEMMA SpanJoins ==
  ASSUME NEW M, NEW list \in Seq(M), NEW a \in 1 .. (Len(list) + 1),
         NEW b \in a .. (Len(list) + 1), NEW c \in b .. (Len(list) + 1)
  PROVE  SpansJoin(Span(list, a, c), Span(list, a, b), Span(list, b, c))
PROOF
<1> DEFINE n == Len(list)
           ab == Span(list, a, b)
           bc == Span(list, b, c)
           ac == Span(list, a, c)
<1>1. /\ n \in Nat /\ a \in 1 .. (n + 1) /\ b \in a .. (n + 1) /\ c \in b .. (n + 1)
      /\ b \in 1 .. (n + 1) /\ c \in a .. (n + 1)
  OBVIOUS
<1>2. SpanOf(ab, M, list, a, b) /\ SpanOf(bc, M, list, b, c) /\ SpanOf(ac, M, list, a, c)
  BY <1>1, SpanTypes
<1>3. /\ ab \in Seq(M) /\ bc \in Seq(M) /\ ac \in Seq(M)
      /\ Len(ab) = b - a /\ Len(bc) = c - b /\ Len(ac) = c - a
      /\ \A k \in 1 .. (b - a) : ab[k] = list[a + k - 1]
      /\ \A k \in 1 .. (c - b) : bc[k] = list[b + k - 1]
      /\ \A k \in 1 .. (c - a) : ac[k] = list[a + k - 1]
  BY <1>2 DEF SpanOf
<1> HIDE DEF ab, bc, ac, n
<1> DEFINE both == ab \o bc
<1>4. /\ both \in Seq(M) /\ Len(both) = (b - a) + (c - b)
      /\ \A k \in 1 .. (b - a) : both[k] = ab[k]
      /\ \A k \in 1 .. (c - b) : both[(b - a) + k] = bc[k]
  <2> DEFINE p == b - a
             q == c - b
  <2>1. p \in Nat /\ q \in Nat /\ Len(ab) = p /\ Len(bc) = q
    BY <1>1, <1>3
  <2>7. ab \in Seq(M) /\ bc \in Seq(M)
    BY <1>3
  <2>8. /\ both \in Seq(M) /\ Len(both) = Len(ab) + Len(bc)
        /\ \A k \in 1 .. Len(ab) + Len(bc) :
             both[k] = IF k <= Len(ab) THEN ab[k] ELSE bc[k - Len(ab)]
    BY <2>7, ConcatProperties, Zenon
  <2> HIDE DEF p, q, both
  <2>2. /\ both \in Seq(M) /\ Len(both) = p + q
        /\ \A k \in 1 .. (p + q) : both[k] = IF k <= p THEN ab[k] ELSE bc[k - p]
    BY <2>1, <2>8
  <2>3. \A k \in 1 .. p : k \in 1 .. (p + q) /\ k <= p
    BY <2>1
  <2>4. \A k \in 1 .. q : p + k \in 1 .. (p + q) /\ ~(p + k <= p) /\ (p + k) - p = k
    BY <2>1
  <2>5. \A k \in 1 .. p : both[k] = ab[k]
    BY <2>2, <2>3
  <2>6. \A k \in 1 .. q : both[p + k] = bc[k]
    BY <2>2, <2>4
  <2> QED BY <2>2, <2>5, <2>6 DEF p, q
<1> HIDE DEF both
<1>5. ASSUME NEW k \in 1 .. Len(ac) PROVE both[k] = ac[k]
  <2>1. k \in 1 .. (c - a)
    BY <1>3
  <2>2. CASE k \in 1 .. (b - a)
    BY <1>3, <1>4, <2>1, <2>2
  <2>3. CASE ~(k \in 1 .. (b - a))
    <3> DEFINE q == k - (b - a)
    <3>1. q \in 1 .. (c - b) /\ (b - a) + q = k /\ b + q - 1 = a + k - 1
      BY <1>1, <2>1, <2>3
    <3> HIDE DEF q
    <3>2. both[k] = bc[q] /\ bc[q] = list[b + q - 1]
      BY <1>3, <1>4, <3>1
    <3> QED BY <1>3, <2>1, <3>1, <3>2
  <2> QED BY <2>2, <2>3
<1>6. Len(both) = Len(ac)
  <2>1. (b - a) + (c - b) = c - a
    BY <1>1
  <2> QED BY <1>3, <1>4, <2>1, Zenon
<1>7. both \in Seq(M) /\ ac \in Seq(M) /\ \A k \in 1 .. Len(both) : both[k] = ac[k]
  BY <1>3, <1>4, <1>5, <1>6
<1>8. both = ac
  BY <1>6, <1>7, SeqEqual, Zenon
<1> QED BY <1>8 DEF SpansJoin, both, ab, bc, ac

LEMMA AppendJoins ==
  ASSUME NEW M, NEW a \in Seq(M), NEW x \in M, NEW ax, ax = Append(a, x), NEW one, one = <<x>>
  PROVE  SpansJoin(ax, a, one)
BY DEF SpansJoin

LEMMA ThreeJoin ==
  ASSUME NEW R, NEW x \in Seq(R), NEW y \in Seq(R), NEW z \in Seq(R),
         NEW xy, xy = x \o y, NEW yz, yz = y \o z, NEW xyz, xyz = x \o yz
  PROVE  SpansJoin(xyz, xy, z)
BY SMTT(30) DEF SpansJoin

ElementsOfBoth(ab, a, b) == ToSet(ab) = ToSet(a) \cup ToSet(b)

LEMMA SetOfJoined ==
  ASSUME NEW T, NEW a \in Seq(T), NEW b \in Seq(T), NEW ab, ab = a \o b
  PROVE  ElementsOfBoth(ab, a, b)
PROOF
<1> DEFINE p == Len(a)
           q == Len(b)
<1>1. /\ p \in Nat /\ q \in Nat /\ DOMAIN a = 1 .. p /\ DOMAIN b = 1 .. q
  OBVIOUS
<1>2. /\ ab \in Seq(T) /\ Len(ab) = Len(a) + Len(b)
      /\ \A k \in 1 .. Len(a) + Len(b) : ab[k] = IF k <= Len(a) THEN a[k] ELSE b[k - Len(a)]
  BY ConcatProperties, Zenon
<1>3. DOMAIN ab = 1 .. (p + q)
  BY <1>2
<1>4. \A k \in 1 .. (p + q) : ab[k] = IF k <= p THEN a[k] ELSE b[k - p]
  BY <1>2
<1> HIDE DEF p, q
<1>5. \A k \in 1 .. p : k \in 1 .. (p + q) /\ k <= p
  BY <1>1
<1>6. \A k \in 1 .. q : p + k \in 1 .. (p + q) /\ ~(p + k <= p) /\ (p + k) - p = k
  BY <1>1
<1>7. \A k \in 1 .. (p + q) : IF k <= p THEN k \in 1 .. p ELSE k - p \in 1 .. q
  BY <1>1
<1>8. ASSUME NEW x \in ToSet(ab) PROVE x \in ToSet(a) \cup ToSet(b)
  <2>1. PICK k \in 1 .. (p + q) : x = ab[k]
    BY <1>3 DEF ToSet
  <2> QED BY <1>1, <1>4, <1>7, <2>1 DEF ToSet
<1>9. ASSUME NEW x \in ToSet(a) PROVE x \in ToSet(ab)
  <2>1. PICK k \in 1 .. p : x = a[k]
    BY <1>1 DEF ToSet
  <2> QED BY <1>3, <1>4, <1>5, <2>1 DEF ToSet
<1>10. ASSUME NEW x \in ToSet(b) PROVE x \in ToSet(ab)
  <2>1. PICK k \in 1 .. q : x = b[k]
    BY <1>1 DEF ToSet
  <2>2. p + k \in 1 .. (p + q) /\ ab[p + k] = b[k]
    BY <1>4, <1>6
  <2> QED BY <1>3, <2>1, <2>2 DEF ToSet
<1> QED BY <1>8, <1>9, <1>10 DEF ElementsOfBoth

------------------------------------------------------------------------------
(* What is gathered and flattened.                                         *)

\* What is flattened of a list up to each of its places.
Flattening(f, seqs, T) ==
  /\ f \in [0 .. Len(seqs) -> Seq(T)] /\ f[0] = <<>>
  /\ \A i \in 1 .. Len(seqs) : f[i] = f[i - 1] \o seqs[i]

LEMMA FlatteningExists ==
  ASSUME NEW T, NEW seqs \in Seq(Seq(T))
  PROVE  \E f : Flattening(f, seqs, T) /\ FlattenSeq(seqs) = f[Len(seqs)]
PROOF
<1> DEFINE n == Len(seqs)
           step == [i \in 1 .. n |-> [s \in Seq(T) |-> s \o seqs[i]]]
<1>1. n \in Nat /\ \A i \in 1 .. n : seqs[i] \in Seq(T)
  BY LenProperties, ElementOfSeq
<1> HIDE DEF n
<1>2. step \in [1 .. n -> [Seq(T) -> Seq(T)]]
  BY <1>1
<1>3. \A i \in 1 .. n, s \in Seq(T) : step[i][s] = s \o seqs[i]
  OBVIOUS
<1> HIDE DEF step
<1>4. PICK f \in [0 .. n -> Seq(T)] : f[0] = <<>> /\ \A i \in 1 .. n : f[i] = step[i][f[i - 1]]
  <2> DEFINE S == Seq(T)
             start == <<>>
  <2>1. start \in S
    OBVIOUS
  <2>2. step \in [1 .. n -> [S -> S]]
    BY <1>2
  <2> HIDE DEF S, start
  <2>3. \E f : Iterates(f, n, S, start, step)
    BY <1>1, <2>1, <2>2, Iteration
  <2> QED BY <2>3 DEF Iterates, S, start
<1>5. ASSUME NEW i \in 1 .. n
      PROVE  f[i - 1] \in Seq(T) /\ f[i] = f[i - 1] \o seqs[i]
  <2>1. i - 1 \in 0 .. n
    BY <1>1
  <2>2. f[i - 1] \in Seq(T)
    BY <1>4, <2>1
  <2>3. f[i] = step[i][f[i - 1]]
    BY <1>4
  <2> QED BY <1>3, <2>2, <2>3
<1>6. Flattening(f, seqs, T)
  BY <1>4, <1>5 DEF Flattening, n
<1>7. FlattenSeq(seqs) = f[n]
  <2>1. CASE n = 0
    BY <1>4, <2>1, EmptySeq DEF FlattenSeq, n
  <2>2. CASE n # 0
    <3> DEFINE Body(h) == [i \in 1 .. n |-> IF i = 1 THEN seqs[i] ELSE h[i - 1] \o seqs[i]]
               g == [i \in 1 .. n |-> f[i]]
               flatten == CHOOSE h : h = Body(h)
    <3>1. FlattenSeq(seqs) = flatten[n]
      BY <2>2 DEF FlattenSeq, n
    <3>2. ASSUME NEW i \in 1 .. n
          PROVE  f[i] = IF i = 1 THEN seqs[i] ELSE f[i - 1] \o seqs[i]
      <4>1. f[i] = f[i - 1] \o seqs[i] /\ seqs[i] \in Seq(T)
        BY <1>1, <1>5
      <4>2. CASE i = 1
        <5>1. i - 1 = 0
          BY <4>2
        <5>2. f[i] = <<>> \o seqs[i]
          BY <1>4, <4>1, <5>1
        <5>3. <<>> \o seqs[i] = seqs[i]
          BY <4>1
        <5> QED BY <4>2, <5>2, <5>3
      <4> QED BY <4>1, <4>2
    <3>10. g = Body(g)
      <4>1. ASSUME NEW i \in 1 .. n
            PROVE  f[i] = IF i = 1 THEN seqs[i] ELSE g[i - 1] \o seqs[i]
        <5>1. CASE i = 1
          BY <3>2, <5>1
        <5>2. CASE i # 1
          <6>1. i - 1 \in 1 .. n
            BY <1>1, <5>2
          <6> QED BY <3>2, <5>2, <6>1
        <5> QED BY <5>1, <5>2
      <4> QED BY <4>1
    <3>3. flatten = Body(flatten)
      BY <3>10, Zenon
    <3> HIDE DEF flatten
    <3> DEFINE P == {i \in 0 .. n : i = 0 \/ flatten[i] = f[i]}
    <3>4. \A i \in 1 .. n : flatten[i] = IF i = 1 THEN seqs[i] ELSE flatten[i - 1] \o seqs[i]
      BY <3>3
    <3>5. ASSUME NEW i \in 0 .. n, i \in P, i < n PROVE i + 1 \in P
      <4>1. i + 1 \in 1 .. n /\ i + 1 \in 0 .. n /\ (i + 1) - 1 = i
        BY <1>1, <3>5
      <4>2. CASE i = 0
        <5>1. flatten[1] = seqs[1] /\ f[1] = seqs[1]
          BY <3>2, <3>4, <4>1, <4>2
        <5> QED BY <4>1, <4>2, <5>1
      <4>3. CASE i # 0
        <5>1. i + 1 # 1 /\ flatten[i] = f[i]
          BY <3>5, <4>3
        <5>2. flatten[i + 1] = flatten[i] \o seqs[i + 1]
          BY <3>4, <4>1, <5>1
        <5>3. f[i + 1] = f[i] \o seqs[i + 1]
          BY <1>5, <4>1
        <5> QED BY <4>1, <5>1, <5>2, <5>3
      <4> QED BY <4>2, <4>3
    <3>6. 0 \in P
      BY <1>1
    <3> HIDE DEF P
    <3>7. \A i \in 0 .. n : i \in P /\ i < n => i + 1 \in P
      BY <3>5
    <3>8. \A i \in 0 .. n : i \in P
      BY <1>1, <3>6, <3>7, UpTo
    <3>9. n \in P
      BY <1>1, <3>8
    <3> QED BY <2>2, <3>1, <3>9 DEF P
  <2> QED BY <2>1, <2>2
<1> QED BY <1>6, <1>7 DEF n

LEMMA FlattenTypes ==
  ASSUME NEW T
  PROVE  /\ FlattenSeq(<<>>) = <<>>
         /\ \A seqs \in Seq(Seq(T)) : FlattenSeq(seqs) \in Seq(T)
PROOF
<1>1. FlattenSeq(<<>>) = <<>>
  BY EmptySeq DEF FlattenSeq
<1>2. ASSUME NEW seqs \in Seq(Seq(T)) PROVE FlattenSeq(seqs) \in Seq(T)
  <2>1. PICK f : Flattening(f, seqs, T) /\ FlattenSeq(seqs) = f[Len(seqs)]
    BY FlatteningExists
  <2>2. Len(seqs) \in 0 .. Len(seqs)
    BY LenProperties
  <2> QED BY <2>1, <2>2 DEF Flattening
<1> QED BY <1>1, <1>2

\* c is the list a and then the list b.
Follows(c, a, b) ==
  /\ Len(c) = Len(a) + Len(b)
  /\ \A k \in 1 .. Len(a) : c[k] = a[k]
  /\ \A k \in 1 .. Len(b) : c[Len(a) + k] = b[k]

LEMMA FlattenFollows ==
  ASSUME NEW T, NEW a \in Seq(Seq(T)), NEW b \in Seq(Seq(T)), NEW c \in Seq(Seq(T)),
         Follows(c, a, b)
  PROVE  FlattenSeq(c) = FlattenSeq(a) \o FlattenSeq(b)
PROOF
<1> DEFINE n == Len(a)
           m == Len(b)
<1>1. /\ n \in Nat /\ m \in Nat /\ Len(c) = n + m
      /\ \A k \in 1 .. n : c[k] = a[k]
      /\ \A k \in 1 .. m : c[n + k] = b[k] /\ b[k] \in Seq(T)
  BY LenProperties, ElementOfSeq DEF Follows
<1>2. PICK f : Flattening(f, a, T) /\ FlattenSeq(a) = f[n]
  BY FlatteningExists
<1>3. PICK g : Flattening(g, b, T) /\ FlattenSeq(b) = g[m]
  BY FlatteningExists
<1>4. PICK h : Flattening(h, c, T) /\ FlattenSeq(c) = h[n + m]
  BY <1>1, FlatteningExists
<1>5. /\ f[0] = <<>> /\ \A k \in 1 .. n : f[k] = f[k - 1] \o a[k]
      /\ g[0] = <<>> /\ \A k \in 1 .. m : g[k] = g[k - 1] \o b[k]
      /\ \A k \in 0 .. n : f[k] \in Seq(T)
      /\ \A k \in 0 .. m : g[k] \in Seq(T)
  BY <1>2, <1>3 DEF Flattening
<1>6. h[0] = <<>> /\ \A k \in 1 .. n + m : h[k] = h[k - 1] \o c[k]
  BY <1>1, <1>4 DEF Flattening
<1> HIDE DEF n, m
<1>7. h[n] = f[n]
  <2> DEFINE P == {k \in 0 .. n : h[k] = f[k]}
  <2>1. 0 \in P
    BY <1>1, <1>5, <1>6
  <2>2. ASSUME NEW k \in 0 .. n, k \in P, k < n PROVE k + 1 \in P
    <3>1. k + 1 \in 0 .. n /\ k + 1 \in 1 .. n /\ k + 1 \in 1 .. n + m /\ (k + 1) - 1 = k
      BY <1>1, <2>2
    <3>2. h[k + 1] = h[k] \o c[k + 1] /\ f[k + 1] = f[k] \o a[k + 1] /\ c[k + 1] = a[k + 1]
      BY <1>1, <1>5, <1>6, <3>1
    <3>3. h[k] = f[k]
      BY <2>2
    <3>4. h[k + 1] = f[k + 1]
      BY <3>2, <3>3
    <3> QED BY <3>1, <3>4
  <2> HIDE DEF P
  <2>3. \A k \in 0 .. n : k \in P /\ k < n => k + 1 \in P
    BY <2>2
  <2>4. \A k \in 0 .. n : k \in P
    BY <1>1, <2>1, <2>3, UpTo
  <2>5. n \in P
    BY <1>1, <2>4
  <2> QED BY <2>5 DEF P
<1>8. h[n + m] = f[n] \o g[m]
  <2> DEFINE P == {k \in 0 .. m : h[n + k] = f[n] \o g[k]}
  <2>1. 0 \in P
    <3>1. f[n] \in Seq(T) /\ n + 0 = n
      BY <1>1, <1>5
    <3>2. f[n] \o <<>> = f[n]
      BY <3>1
    <3>3. 0 \in 0 .. m
      BY <1>1
    <3> QED BY <1>5, <1>7, <3>1, <3>2, <3>3
  <2>2. ASSUME NEW k \in 0 .. m, k \in P, k < m PROVE k + 1 \in P
    <3>1. /\ k + 1 \in 0 .. m /\ k + 1 \in 1 .. m /\ (k + 1) - 1 = k
          /\ n + (k + 1) \in 1 .. n + m /\ (n + (k + 1)) - 1 = n + k
      BY <1>1, <2>2
    <3>2. h[n + (k + 1)] = h[n + k] \o c[n + (k + 1)]
      BY <1>6, <3>1
    <3>3. c[n + (k + 1)] = b[k + 1] /\ b[k + 1] \in Seq(T)
      BY <1>1, <3>1
    <3>4. g[k + 1] = g[k] \o b[k + 1]
      BY <1>5, <3>1
    <3>5. h[n + k] = f[n] \o g[k]
      BY <2>2
    <3>6. f[n] \in Seq(T) /\ g[k] \in Seq(T)
      BY <1>1, <1>5
    <3>7. (f[n] \o g[k]) \o b[k + 1] = f[n] \o (g[k] \o b[k + 1])
      <4> DEFINE x == f[n]
                 y == g[k]
                 z == b[k + 1]
      <4>1. x \in Seq(T) /\ y \in Seq(T) /\ z \in Seq(T)
        BY <3>3, <3>6
      <4> HIDE DEF x, y, z
      <4>2. (x \o y) \o z = x \o (y \o z)
        BY <4>1, SMTT(30)
      <4> QED BY <4>2 DEF x, y, z
    <3>8. h[n + (k + 1)] = f[n] \o g[k + 1]
      BY <3>2, <3>3, <3>4, <3>5, <3>7, Zenon
    <3> QED BY <3>1, <3>8
  <2> HIDE DEF P
  <2>3. \A k \in 0 .. m : k \in P /\ k < m => k + 1 \in P
    BY <2>2
  <2>4. \A k \in 0 .. m : k \in P
    BY <1>1, <2>1, <2>3, UpTo
  <2>5. m \in P
    BY <1>1, <2>4
  <2> QED BY <2>5 DEF P
<1> QED BY <1>2, <1>3, <1>4, <1>8

LEMMA FlattenOne ==
  ASSUME NEW T, NEW seqs \in Seq(Seq(T)), Len(seqs) = 1
  PROVE  FlattenSeq(seqs) = seqs[1]
PROOF
<1>1. PICK f : Flattening(f, seqs, T) /\ FlattenSeq(seqs) = f[1]
  BY FlatteningExists
<1>2. 1 \in 1 .. 1 /\ 1 - 1 = 0
  OBVIOUS
<1>3. seqs[1] \in Seq(T)
  BY <1>2, ElementOfSeq
<1>4. f[1] = <<>> \o seqs[1]
  BY <1>1, <1>2 DEF Flattening
<1>5. <<>> \o seqs[1] = seqs[1]
  BY <1>3
<1> QED BY <1>1, <1>4, <1>5

\* c is the list a and one more.
OneMore(c, a, x) ==
  /\ Len(c) = Len(a) + 1 /\ c[Len(a) + 1] = x
  /\ \A k \in 1 .. Len(a) : c[k] = a[k]

LEMMA FlattenOneMore ==
  ASSUME NEW T, NEW a \in Seq(Seq(T)), NEW x \in Seq(T), NEW c \in Seq(Seq(T)),
         OneMore(c, a, x)
  PROVE  FlattenSeq(c) = FlattenSeq(a) \o x
PROOF
<1> DEFINE b == <<x>>
<1>1. b \in Seq(Seq(T)) /\ Len(b) = 1 /\ b[1] = x
  OBVIOUS
<1> HIDE DEF b
<1>2. Follows(c, a, b)
  BY <1>1 DEF OneMore, Follows
<1>3. FlattenSeq(b) = x
  BY <1>1, FlattenOne
<1>4. FlattenSeq(c) = FlattenSeq(a) \o FlattenSeq(b)
  BY <1>1, <1>2, FlattenFollows
<1> QED BY <1>3, <1>4

\* What a field tells, gathered from a list.
Gather(F, list) == FlattenSeq([k \in 1 .. Len(list) |-> F[list[k]]])

Gathers(F, M, T) == F \in [M -> Seq(T)]
GathersBoth(F, ab, a, b) == Gather(F, ab) = Gather(F, a) \o Gather(F, b)
GathersMore(F, am, a, m) == Gather(F, am) = Gather(F, a) \o F[m]

LEMMA GatherTypes ==
  ASSUME NEW M, NEW T, NEW F, Gathers(F, M, T)
  PROVE  /\ Gather(F, <<>>) = <<>>
         /\ \A list \in Seq(M) : Gather(F, list) \in Seq(T)
PROOF
<1>1. Gather(F, <<>>) = <<>>
  <2>1. [k \in 1 .. Len(<<>>) |-> F[<<>>[k]]] = <<>>
    OBVIOUS
  <2> QED BY <2>1, FlattenTypes DEF Gather
<1>2. ASSUME NEW list \in Seq(M) PROVE Gather(F, list) \in Seq(T)
  <2> DEFINE c == [k \in 1 .. Len(list) |-> F[list[k]]]
  <2>1. c \in Seq(Seq(T))
    BY DEF Gathers
  <2> HIDE DEF c
  <2>2. FlattenSeq(c) \in Seq(T)
    BY <2>1, FlattenTypes
  <2> QED BY <2>2 DEF Gather, c
<1> QED BY <1>1, <1>2

LEMMA GatherConcat ==
  ASSUME NEW M, NEW T, NEW F, Gathers(F, M, T), NEW a \in Seq(M), NEW b \in Seq(M),
         NEW ab \in Seq(M), ab = a \o b
  PROVE  GathersBoth(F, ab, a, b)
PROOF
<1> DEFINE fa == [k \in 1 .. Len(a) |-> F[a[k]]]
           fb == [k \in 1 .. Len(b) |-> F[b[k]]]
           fab == [k \in 1 .. Len(ab) |-> F[ab[k]]]
<1>1. fa \in Seq(Seq(T)) /\ fb \in Seq(Seq(T))
  BY DEF Gathers
<1>2. ab \in Seq(M) /\ Len(ab) = Len(a) + Len(b)
  OBVIOUS
<1>3. /\ \A k \in 1 .. Len(a) : ab[k] = a[k]
      /\ \A k \in 1 .. Len(b) : ab[Len(a) + k] = b[k]
  OBVIOUS
<1>4. fab \in Seq(Seq(T))
  BY <1>2 DEF Gathers
<1>5. Follows(fab, fa, fb)
  <2>1. Len(fa) = Len(a) /\ Len(fb) = Len(b) /\ Len(fab) = Len(a) + Len(b)
    BY <1>2
  <2>2. ASSUME NEW k \in 1 .. Len(a) PROVE fab[k] = fa[k]
    <3>1. k \in 1 .. Len(ab)
      BY <1>2
    <3> QED BY <1>3, <3>1
  <2>3. ASSUME NEW k \in 1 .. Len(b) PROVE fab[Len(a) + k] = fb[k]
    <3>1. Len(a) + k \in 1 .. Len(ab)
      BY <1>2
    <3> QED BY <1>3, <3>1
  <2> HIDE DEF fa, fb, fab
  <2> QED BY <2>1, <2>2, <2>3 DEF Follows
<1> HIDE DEF fa, fb, fab
<1>6. FlattenSeq(fab) = FlattenSeq(fa) \o FlattenSeq(fb)
  BY <1>1, <1>4, <1>5, FlattenFollows
<1> QED BY <1>6 DEF GathersBoth, Gather, fa, fb, fab

LEMMA GatherOneMore ==
  ASSUME NEW M, NEW T, NEW F, Gathers(F, M, T), NEW a \in Seq(M), NEW m \in M,
         NEW am \in Seq(M), am = Append(a, m)
  PROVE  GathersMore(F, am, a, m)
PROOF
<1> DEFINE fa == [k \in 1 .. Len(a) |-> F[a[k]]]
           fam == [k \in 1 .. Len(am) |-> F[am[k]]]
<1>1. fa \in Seq(Seq(T)) /\ F[m] \in Seq(T)
  BY DEF Gathers
<1>2. am \in Seq(M) /\ Len(am) = Len(a) + 1 /\ am[Len(a) + 1] = m
  OBVIOUS
<1>3. \A k \in 1 .. Len(a) : am[k] = a[k]
  OBVIOUS
<1>4. fam \in Seq(Seq(T))
  BY <1>2 DEF Gathers
<1>5. OneMore(fam, fa, F[m])
  BY <1>2, <1>3 DEF OneMore
<1> HIDE DEF fa, fam
<1> DEFINE x == F[m]
<1>6. x \in Seq(T) /\ OneMore(fam, fa, x)
  BY <1>1, <1>5
<1> HIDE DEF x
<1>7. FlattenSeq(fam) = FlattenSeq(fa) \o x
  BY <1>1, <1>4, <1>6, FlattenOneMore
<1> QED BY <1>7 DEF GathersMore, Gather, fa, fam, x

\* Gathering from lists joined is gathering from each and joining that.
LEMMA GatherFlatten ==
  ASSUME NEW M, NEW T, NEW F, Gathers(F, M, T), NEW lists \in Seq(Seq(M))
  PROVE  Gather(F, FlattenSeq(lists))
           = FlattenSeq([k \in 1 .. Len(lists) |-> Gather(F, lists[k])])
PROOF
<1> DEFINE n == Len(lists)
           gathered == [k \in 1 .. n |-> Gather(F, lists[k])]
<1>1. n \in Nat /\ \A k \in 1 .. n : lists[k] \in Seq(M)
  BY LenProperties, ElementOfSeq
<1>2. \A k \in 1 .. n : Gather(F, lists[k]) \in Seq(T)
  BY <1>1, GatherTypes
<1>3. PICK f : Flattening(f, lists, M) /\ FlattenSeq(lists) = f[n]
  BY FlatteningExists
<1>4. /\ \A k \in 0 .. n : f[k] \in Seq(M)
      /\ f[0] = <<>> /\ \A k \in 1 .. n : f[k] = f[k - 1] \o lists[k]
  BY <1>3 DEF Flattening
<1> HIDE DEF n
<1>5. gathered \in Seq(Seq(T)) /\ Len(gathered) = n
  BY <1>1, <1>2
<1>6. \A k \in 1 .. n : gathered[k] = Gather(F, lists[k])
  OBVIOUS
<1> HIDE DEF gathered
<1>7. PICK g : Flattening(g, gathered, T) /\ FlattenSeq(gathered) = g[n]
  BY <1>5, FlatteningExists
<1>8. g[0] = <<>> /\ \A k \in 1 .. n : g[k] = g[k - 1] \o gathered[k]
  BY <1>5, <1>7 DEF Flattening
<1> DEFINE P == {k \in 0 .. n : Gather(F, f[k]) = g[k]}
<1>9. 0 \in P
  BY <1>1, <1>4, <1>8, GatherTypes
<1>10. ASSUME NEW k \in 0 .. n, k \in P, k < n PROVE k + 1 \in P
  <2>1. k + 1 \in 1 .. n /\ k + 1 \in 0 .. n /\ (k + 1) - 1 = k
    BY <1>1, <1>10
  <2> DEFINE a == f[k]
             b == lists[k + 1]
             ab == f[k + 1]
  <2>2. a \in Seq(M) /\ b \in Seq(M) /\ ab \in Seq(M) /\ ab = a \o b
    BY <1>1, <1>4, <2>1
  <2>3. Gather(F, a) = g[k] /\ g[k + 1] = g[k] \o Gather(F, b)
    BY <1>6, <1>8, <1>10, <2>1
  <2> HIDE DEF a, b, ab
  <2>4. GathersBoth(F, ab, a, b)
    BY <2>2, GatherConcat
  <2>5. Gather(F, f[k + 1]) = g[k + 1]
    BY <2>3, <2>4 DEF GathersBoth, ab
  <2> QED BY <2>1, <2>5
<1> HIDE DEF P
<1>11. \A k \in 0 .. n : k \in P /\ k < n => k + 1 \in P
  BY <1>10
<1>12. \A k \in 0 .. n : k \in P
  BY <1>1, <1>9, <1>11, UpTo
<1>13. n \in P
  BY <1>1, <1>12
<1>14. Gather(F, FlattenSeq(lists)) = FlattenSeq(gathered)
  BY <1>3, <1>7, <1>13 DEF P, n
<1> QED BY <1>14 DEF gathered, n

\* Nothing is left only of lists of nothing.
LEMMA NothingFlattened ==
  ASSUME NEW T, NEW seqs \in Seq(Seq(T)), FlattenSeq(seqs) = <<>>
  PROVE  \A k \in 1 .. Len(seqs) : seqs[k] = <<>>
PROOF
<1> DEFINE n == Len(seqs)
<1>1. n \in Nat /\ \A k \in 1 .. n : seqs[k] \in Seq(T)
  BY LenProperties, ElementOfSeq
<1>2. PICK f : Flattening(f, seqs, T) /\ FlattenSeq(seqs) = f[n]
  BY FlatteningExists
<1>3. /\ \A k \in 0 .. n : f[k] \in Seq(T)
      /\ \A k \in 1 .. n : f[k] = f[k - 1] \o seqs[k]
      /\ f[n] = <<>>
  BY <1>2 DEF Flattening
<1> HIDE DEF n
<1>4. ASSUME NEW k \in 1 .. n, f[k] = <<>> PROVE f[k - 1] = <<>> /\ seqs[k] = <<>>
  <2> DEFINE a == f[k - 1]
             b == seqs[k]
  <2>1. k - 1 \in 0 .. n
    BY <1>1
  <2>2. a \in Seq(T) /\ b \in Seq(T) /\ a \o b = <<>>
    BY <1>1, <1>3, <1>4, <2>1
  <2> HIDE DEF a, b
  <2>3. Len(a \o b) = Len(a) + Len(b) /\ Len(a) \in Nat /\ Len(b) \in Nat
    BY <2>2
  <2>4. Len(a) = 0 /\ Len(b) = 0
    BY <2>2, <2>3
  <2>5. a = <<>> /\ b = <<>>
    BY <2>2, <2>4, EmptySeq
  <2> QED BY <2>5 DEF a, b
<1> DEFINE P == {i \in 0 .. n : f[n - i] = <<>>}
<1>5. 0 \in P
  BY <1>1, <1>3
<1>6. ASSUME NEW i \in 0 .. n, i \in P, i < n PROVE i + 1 \in P
  <2>1. n - i \in 1 .. n /\ (n - i) - 1 = n - (i + 1) /\ i + 1 \in 0 .. n
    BY <1>1, <1>6
  <2>2. f[n - i] = <<>>
    BY <1>6
  <2>3. f[(n - i) - 1] = <<>>
    BY <1>4, <2>1, <2>2
  <2> QED BY <2>1, <2>3
<1> HIDE DEF P
<1>7. \A i \in 0 .. n : i \in P /\ i < n => i + 1 \in P
  BY <1>6
<1>8. \A i \in 0 .. n : i \in P
  BY <1>1, <1>5, <1>7, UpTo
<1>9. ASSUME NEW k \in 1 .. n PROVE seqs[k] = <<>>
  <2>1. n - k \in 0 .. n /\ n - (n - k) = k
    BY <1>1
  <2>2. n - k \in P
    BY <1>8, <2>1
  <2>3. f[k] = <<>>
    BY <2>1, <2>2 DEF P
  <2> QED BY <1>4, <2>3
<1> QED BY <1>9 DEF n

\* Lists of one element each, and lists of none.
LEMMA FlattenSingles ==
  ASSUME NEW T, NEW s \in Seq(T)
  PROVE  FlattenSeq([k \in 1 .. Len(s) |-> <<s[k]>>]) = s
PROOF
<1> DEFINE n == Len(s)
           singles == [k \in 1 .. n |-> <<s[k]>>]
<1>1. n \in Nat /\ \A k \in 1 .. n : s[k] \in T
  BY LenProperties, ElementOfSeq
<1>2. singles \in Seq(Seq(T)) /\ Len(singles) = n /\ \A k \in 1 .. n : singles[k] = <<s[k]>>
  OBVIOUS
<1> HIDE DEF singles
<1>3. PICK f : Flattening(f, singles, T) /\ FlattenSeq(singles) = f[n]
  BY <1>2, FlatteningExists
<1>4. /\ \A k \in 0 .. n : f[k] \in Seq(T)
      /\ f[0] = <<>> /\ \A k \in 1 .. n : f[k] = f[k - 1] \o <<s[k]>>
  BY <1>2, <1>3 DEF Flattening
<1> HIDE DEF n
<1> DEFINE P == {k \in 0 .. n : Len(f[k]) = k /\ \A j \in 1 .. k : f[k][j] = s[j]}
<1>5. 0 \in P
  BY <1>1, <1>4
<1>6. ASSUME NEW k \in 0 .. n, k \in P, k < n PROVE k + 1 \in P
  <2>1. k + 1 \in 1 .. n /\ k + 1 \in 0 .. n /\ (k + 1) - 1 = k
    BY <1>1, <1>6
  <2> DEFINE a == f[k]
             x == s[k + 1]
             b == f[k + 1]
  <2>2. a \in Seq(T) /\ x \in T /\ b = a \o <<x>>
    BY <1>1, <1>4, <2>1
  <2>3. Len(a) = k /\ \A j \in 1 .. k : a[j] = s[j]
    BY <1>6
  <2> HIDE DEF a, b
  <2>4. Len(b) = k + 1 /\ \A j \in 1 .. k + 1 : b[j] = IF j = k + 1 THEN x ELSE a[j]
    BY <2>2, <2>3
  <2>5. \A j \in 1 .. k + 1 : j = k + 1 \/ j \in 1 .. k
    OBVIOUS
  <2>6. \A j \in 1 .. k + 1 : b[j] = s[j]
    BY <2>3, <2>4, <2>5
  <2> QED BY <2>1, <2>4, <2>6 DEF b
<1> HIDE DEF P
<1>7. \A k \in 0 .. n : k \in P /\ k < n => k + 1 \in P
  BY <1>6
<1>8. \A k \in 0 .. n : k \in P
  BY <1>1, <1>5, <1>7, UpTo
<1>9. n \in P /\ n \in 0 .. n
  BY <1>1, <1>8
<1> DEFINE a == f[n]
<1>10. a \in Seq(T) /\ Len(a) = Len(s) /\ \A j \in 1 .. Len(a) : a[j] = s[j]
  BY <1>4, <1>9 DEF P, n
<1> HIDE DEF a
<1>11. a = s
  BY <1>10, SeqEqual
<1> QED BY <1>3, <1>11 DEF a, singles, n

LEMMA FlattenNothing ==
  ASSUME NEW T, NEW seqs \in Seq(Seq(T)), \A k \in 1 .. Len(seqs) : seqs[k] = <<>>
  PROVE  FlattenSeq(seqs) = <<>>
PROOF
<1> DEFINE n == Len(seqs)
<1>1. PICK f : Flattening(f, seqs, T) /\ FlattenSeq(seqs) = f[n]
  BY FlatteningExists
<1>2. n \in Nat
  BY LenProperties
<1> DEFINE P == {k \in 0 .. n : f[k] = <<>>}
<1>3. 0 \in P
  BY <1>1, <1>2 DEF Flattening
<1>4. ASSUME NEW k \in 0 .. n, k \in P, k < n PROVE k + 1 \in P
  <2>1. k + 1 \in 1 .. n /\ k + 1 \in 0 .. n /\ (k + 1) - 1 = k
    BY <1>2, <1>4
  <2>2. f[k + 1] = f[k] \o seqs[k + 1] /\ f[k] = <<>> /\ seqs[k + 1] = <<>>
    BY <1>1, <1>4, <2>1 DEF Flattening
  <2>3. f[k + 1] = <<>>
    BY <2>2
  <2> QED BY <2>1, <2>3
<1> HIDE DEF P, n
<1>5. \A k \in 0 .. n : k \in P /\ k < n => k + 1 \in P
  BY <1>4
<1>6. \A k \in 0 .. n : k \in P
  BY <1>2, <1>3, <1>5, UpTo
<1>7. n \in P
  BY <1>2, <1>6
<1> QED BY <1>1, <1>7 DEF P

\* An element of what is gathered comes from one of the list.
LEMMA GatherElements ==
  ASSUME NEW M, NEW T, NEW F, Gathers(F, M, T), NEW list \in Seq(M),
         NEW x \in ToSet(Gather(F, list))
  PROVE  \E k \in 1 .. Len(list) : x \in ToSet(F[list[k]])
PROOF
<1> DEFINE n == Len(list)
           Prefix(k) == [q \in 1 .. k |-> list[q]]
           From(k) == UNION {ToSet(F[list[q]]) : q \in 1 .. k}
           P == {k \in 0 .. n : ToSet(Gather(F, Prefix(k))) \subseteq From(k)}
<1>1. n \in Nat /\ \A q \in 1 .. n : list[q] \in M
  OBVIOUS
<1>2. ASSUME NEW k \in 0 .. n PROVE Prefix(k) \in Seq(M)
  BY <1>1
<1>3. 0 \in P
  <2> DEFINE none == Prefix(0)
  <2>1. none = <<>>
    OBVIOUS
  <2> HIDE DEF none
  <2>2. Gather(F, none) = <<>>
    BY <2>1, GatherTypes
  <2>3. ToSet(<<>>) = {}
    BY DEF ToSet
  <2>4. ToSet(Gather(F, none)) \subseteq From(0)
    BY <2>2, <2>3
  <2> QED BY <1>1, <2>4 DEF none
<1>4. ASSUME NEW k \in 0 .. n, k \in P, k < n PROVE k + 1 \in P
  <2> DEFINE shorter == Prefix(k)
             longer == Prefix(k + 1)
             m == list[k + 1]
             a == Gather(F, shorter)
             b == F[m]
             ab == Gather(F, longer)
  <2>1. k + 1 \in 1 .. n /\ k + 1 \in 0 .. n
    BY <1>1, <1>4
  <2>2. m \in M /\ shorter \in Seq(M) /\ longer \in Seq(M)
    BY <1>1, <1>2, <2>1
  <2>3. longer = Append(shorter, m)
    BY <1>1, <2>1
  <2>4. ToSet(a) \subseteq From(k)
    BY <1>4
  <2>5. ToSet(b) \subseteq From(k + 1) /\ From(k) \subseteq From(k + 1)
    <3>1. k + 1 \in 1 .. (k + 1) /\ \A q \in 1 .. k : q \in 1 .. (k + 1)
      BY <2>1
    <3> QED BY <3>1
  <2> HIDE DEF shorter, longer, m, P, From
  <2>6. GathersMore(F, longer, shorter, m)
    BY <2>2, <2>3, GatherOneMore
  <2>7. ab = a \o b
    BY <2>6 DEF GathersMore
  <2>8. a \in Seq(T) /\ b \in Seq(T)
    BY <2>2, GatherTypes DEF Gathers
  <2> HIDE DEF a, b, ab
  <2>9. ElementsOfBoth(ab, a, b)
    BY <2>7, <2>8, SetOfJoined
  <2>10. ToSet(ab) \subseteq From(k + 1)
    BY <2>4, <2>5, <2>9 DEF ElementsOfBoth
  <2> QED BY <2>1, <2>10 DEF P, ab, longer
<1> HIDE DEF P
<1>5. \A k \in 0 .. n : k \in P /\ k < n => k + 1 \in P
  BY <1>4
<1>6. \A k \in 0 .. n : k \in P
  BY <1>1, <1>3, <1>5, UpTo
<1>7. n \in P
  BY <1>1, <1>6
<1>8. Prefix(n) = list
  OBVIOUS
<1>9. x \in From(n)
  BY <1>7, <1>8 DEF P
<1> QED BY <1>9

=============================================================================
