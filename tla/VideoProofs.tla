----------------------------- MODULE VideoProofs -----------------------------
(***************************************************************************)
(* Proofs about the player's video frames, for every bound and every       *)
(* capacity.  VideoAssembler: frames come out in order, every gap is       *)
(* reported, and every loss that is reported is real.  VideoRepair: what   *)
(* the network loses the host repairs before the deadline, and for all     *)
(* times it implements VideoAssembler.                                     *)
(***************************************************************************)
EXTENDS MCVideoDelivery, FiniteSetTheorems, TLAPS

-----------------------------------------------------------------------------
(* VideoAssembler: finite sets of sequence numbers in order. *)

(* InOrder lists a finite set of integers, strictly increasing.            *)
LEMMA InOrderLists ==
  ASSUME NEW S \in SUBSET Int, IsFiniteSet(S)
  PROVE  /\ InOrder(S) \in Seq(S)
         /\ Len(InOrder(S)) = Cardinality(S) /\ Cardinality(S) \in Nat
         /\ \A i, j \in 1..Cardinality(S) : i < j => InOrder(S)[i] < InOrder(S)[j]
         /\ \A s \in S : \E i \in 1..Cardinality(S) : InOrder(S)[i] = s
<1> DEFINE n == Cardinality(S)
           below(s) == {t \in S : t < s}
           rank == [s \in S |-> Cardinality(below(s))]
<1>1. n \in Nat
  BY FS_CardinalityType
<1>2. \A s \in S : rank[s] \in 0..(n - 1)
  <2> TAKE s \in S
  <2>1. IsFiniteSet(below(s)) /\ Cardinality(below(s)) <= n /\ (n = Cardinality(below(s)) => S = below(s))
    <3> below(s) \in SUBSET S
      OBVIOUS
    <3> QED BY FS_Subset
  <2>2. s \notin below(s)
    <3> s \in Int /\ ~(s < s)
      OBVIOUS
    <3> QED OBVIOUS
  <2>3. Cardinality(below(s)) \in Nat
    BY <2>1, FS_CardinalityType
  <2> HIDE DEF n, below
  <2>4. Cardinality(below(s)) # n
    BY <2>1, <2>2
  <2> QED BY <1>1, <2>1, <2>3, <2>4
<1>3. \A s, t \in S : s < t => rank[s] < rank[t]
  <2> TAKE s, t \in S
  <2> HAVE s < t
  <2>0. \A x \in S : x < s => x < t
    <3> s \in Int /\ t \in Int /\ \A x \in S : x \in Int
      OBVIOUS
    <3> QED OBVIOUS
  <2>1. below(t) \in SUBSET S /\ below(s) \in SUBSET below(t)
    BY <2>0
  <2>2. s \in below(t) /\ s \notin below(s)
    OBVIOUS
  <2>3. IsFiniteSet(below(t)) /\ IsFiniteSet(below(s))
    BY <2>1, FS_Subset
  <2> HIDE DEF below
  <2>4. Cardinality(below(s)) <= Cardinality(below(t)) /\ Cardinality(below(s)) # Cardinality(below(t))
    BY <2>1, <2>2, <2>3, FS_Subset
  <2>5. Cardinality(below(s)) \in Nat /\ Cardinality(below(t)) \in Nat
    BY <2>3, FS_CardinalityType
  <2> QED BY <2>4, <2>5
<1>4. rank \in Injection(S, 0..(n - 1))
  <2> HIDE DEF n
  <2>1. rank \in [S -> 0..(n - 1)]
    <3> HIDE DEF below
    <3> QED BY <1>2
  <2>2. \A s, t \in S : rank[s] = rank[t] => s = t
    <3> TAKE s, t \in S
    <3> HIDE DEF rank
    <3>1. s < t \/ s = t \/ t < s
      OBVIOUS
    <3>2. rank[s] \in Int /\ rank[t] \in Int
      BY <1>1, <1>2
    <3> QED BY <1>3, <3>1, <3>2
  <2> HIDE DEF rank, n
  <2> QED BY <2>1, <2>2 DEF Injection, IsInjective
<1>5. rank \in Surjection(S, 0..(n - 1))
  <2>1. IsFiniteSet(0..(n - 1)) /\ Cardinality(0..(n - 1)) = n
    <3> HIDE DEF n
    <3> QED BY <1>1, FS_Interval
  <2> HIDE DEF rank
  <2> QED BY <1>4, <2>1, FS_Injection
<1>6. \A i \in 1..n : InOrder(S)[i] \in S /\ rank[InOrder(S)[i]] = i - 1
  <2> TAKE i \in 1..n
  <2>1. PICK s \in S : rank[s] = i - 1
    <3> HIDE DEF rank, n
    <3> QED BY <1>1, <1>5 DEF Surjection
  <2>2. InOrder(S)[i] = CHOOSE t \in S : rank[t] = i - 1
    BY DEF InOrder
  <2> HIDE DEF rank
  <2> QED BY <2>1, <2>2
<1>7. InOrder(S) \in Seq(S) /\ Len(InOrder(S)) = n
  <2> DEFINE elements == InOrder(S)
  <2>1. elements = [i \in 1..n |-> elements[i]]
    BY SMTT(30) DEF InOrder
  <2> HIDE DEF elements, n
  <2>2. elements \in [1..n -> S]
    BY <1>6, <2>1 DEF elements
  <2>3. elements \in Seq(S)
    BY <1>1, <2>2
  <2>4. Len(elements) = n
    BY <1>1, <2>1, <2>3
  <2> QED BY <2>3, <2>4 DEF elements
<1>8. \A i, j \in 1..n : i < j => InOrder(S)[i] < InOrder(S)[j]
  <2> TAKE i, j \in 1..n
  <2> HAVE i < j
  <2> DEFINE a == InOrder(S)[i]
             b == InOrder(S)[j]
  <2>1. a \in S /\ b \in S /\ rank[a] = i - 1 /\ rank[b] = j - 1
    BY <1>6
  <2> HIDE DEF rank, a, b
  <2>2. ~(b < a) /\ a # b
    BY <1>1, <1>3, <2>1
  <2>3. i - 1 < j - 1
    BY <1>1
  <2>4. a \in Int /\ b \in Int
    BY <2>1
  <2>5. a < b
    BY <2>2, <2>4
  <2> QED BY <2>5 DEF a, b
<1>9. \A s \in S : \E i \in 1..n : InOrder(S)[i] = s
  <2> TAKE s \in S
  <2> DEFINE i == rank[s] + 1
             a == InOrder(S)[i]
  <2>1. i \in 1..n
    <3> HIDE DEF rank, n
    <3> QED BY <1>1, <1>2
  <2>2. a \in S /\ rank[a] = rank[s]
    <3> HIDE DEF rank
    <3> rank[s] \in Int
      BY <1>1, <1>2
    <3> QED BY <1>6, <2>1
  <2> HIDE DEF rank
  <2>3. a = s
    <3> HIDE DEF a
    <3>1. a < s \/ a = s \/ s < a
      BY <2>2
    <3>2. rank[s] \in Int
      BY <1>1, <1>2
    <3> QED BY <1>3, <2>2, <3>1, <3>2
  <2> QED BY <2>1, <2>3
<1> QED BY <1>1, <1>7, <1>8, <1>9

(* A finite, non-empty set of integers has a least and a largest element.  *)
LEMMA Extremes ==
  ASSUME NEW S \in SUBSET Int, IsFiniteSet(S), S # {}
  PROVE  /\ Min(S) \in S /\ \A s \in S : Min(S) <= s
         /\ Max(S) \in S /\ \A s \in S : s <= Max(S)
<1> DEFINE n == Cardinality(S)
           elements == InOrder(S)
<1>1. /\ n \in Nat
      /\ elements \in Seq(S) /\ Len(elements) = n
      /\ \A i, j \in 1..n : i < j => elements[i] < elements[j]
      /\ \A s \in S : \E i \in 1..n : elements[i] = s
  BY InOrderLists
<1> HIDE DEF n, elements
<1>2. n >= 1 /\ elements[1] \in S /\ elements[n] \in S
  <2>1. PICK s \in S : TRUE
    OBVIOUS
  <2>2. \E i \in 1..n : elements[i] = s
    BY <1>1
  <2>3. n >= 1
    BY <1>1, <2>2
  <2>4. \A i \in 1..n : elements[i] \in S
    BY <1>1
  <2> QED BY <1>1, <2>3, <2>4
<1>3. \A s \in S : elements[1] <= s /\ s <= elements[n]
  <2> TAKE s \in S
  <2>1. PICK i \in 1..n : elements[i] = s
    BY <1>1
  <2>2. (i = 1 \/ 1 < i) /\ (i = n \/ i < n) /\ 1 \in 1..n /\ n \in 1..n
    BY <1>1
  <2>5. elements[1] \in Int /\ elements[n] \in Int /\ s \in Int
    BY <1>2
  <2>3. elements[1] <= s
    BY <1>1, <2>1, <2>2, <2>5
  <2>4. s <= elements[n]
    BY <1>1, <2>1, <2>2, <2>5
  <2> QED BY <2>3, <2>4
<1>4. \E x \in S : \A y \in S : x =< y
  BY <1>2, <1>3
<1>5. \E x \in S : \A y \in S : x >= y
  BY <1>2, <1>3
<1>6. Min(S) \in S /\ \A s \in S : Min(S) <= s
  BY <1>4 DEF Min
<1>7. Max(S) \in S /\ \A s \in S : s <= Max(S)
  <2>1. Max(S) \in S /\ \A s \in S : Max(S) >= s
    BY <1>5 DEF Max
  <2> QED BY <2>1
<1> QED BY <1>6, <1>7

-----------------------------------------------------------------------------
(* One call of push, with the calls of next_ready after it. *)

(* What waits and what is awaited are new and apart, and a keyframe among  *)
(* what waits is the first of all.                                         *)
Ordered(waiting, pending) ==
  /\ waiting \subseteq Sequence /\ pending \subseteq Sequence
  /\ \A w \in waiting : w > completed /\ w \notin pending
  /\ \A t \in pending : t > completed
  /\ \A k \in waiting \intersect Keyframes : \A s \in waiting \union pending : k <= s

(* The batch is what of waiting comes before all of pending, in order.     *)
Release(batch, waiting, pending) ==
  /\ batch \in Seq(waiting)
  /\ \A i, j \in DOMAIN batch : i < j => batch[i] < batch[j]
  /\ \A w \in waiting : (\A t \in pending : w <= t) => \E i \in DOMAIN batch : batch[i] = w
  /\ \A i \in DOMAIN batch : \A t \in pending : batch[i] < t
  /\ \A i \in DOMAIN batch : batch[i] \in Keyframes => i = 1

(* The frame u is missing, and a decoder that was given out needs it.      *)
Missing(u, out, keep) ==
  /\ u \in Sequence /\ u \notin out \union keep
  /\ \A k \in out \intersect Keyframes : k < u

LEMMA SequenceIsFinite ==
  ASSUME NEW S \in SUBSET Sequence
  PROVE  IsFiniteSet(S) /\ S \subseteq Int
<1>1. IsFiniteSet(0..MaxSequence)
  <2>1. MaxSequence \in Int
    BY ConstantsAssumption
  <2> QED BY <2>1, FS_Interval
<1>2. IsFiniteSet(S)
  BY <1>1, FS_Subset DEF Sequence
<1> QED BY <1>2, ConstantsAssumption DEF Sequence

LEMMA ReleasableReleases ==
  ASSUME NEW waiting, NEW pending, Ordered(waiting, pending), resend
  PROVE  Release(Releasable(waiting, pending), waiting, pending)
<1> DEFINE first == {s \in waiting : \A t \in pending : s <= t}
           batch == InOrder(first)
<1>1. waiting \subseteq Int /\ pending \subseteq Int /\ first \subseteq waiting /\ first \in SUBSET Int
  <2>1. waiting \subseteq Sequence /\ pending \subseteq Sequence
    BY DEF Ordered
  <2>2. waiting \subseteq Int /\ pending \subseteq Int
    BY <2>1, SequenceIsFinite
  <2> QED BY <2>2
<1>2. IsFiniteSet(first)
  BY SequenceIsFinite DEF Ordered
<1>3. Releasable(waiting, pending) = batch
  BY DEF Releasable
<1>4. /\ batch \in Seq(first) /\ DOMAIN batch = 1..Len(batch) /\ Len(batch) \in Nat
      /\ \A i, j \in DOMAIN batch : i < j => batch[i] < batch[j]
      /\ \A s \in first : \E i \in DOMAIN batch : batch[i] = s
  <2> HIDE DEF first
  <2>1. /\ batch \in Seq(first) /\ Len(batch) = Cardinality(first) /\ Cardinality(first) \in Nat
        /\ \A i, j \in 1..Cardinality(first) : i < j => batch[i] < batch[j]
        /\ \A s \in first : \E i \in 1..Cardinality(first) : batch[i] = s
    BY <1>1, <1>2, InOrderLists
  <2> HIDE DEF batch
  <2>2. DOMAIN batch = 1..Len(batch) /\ Len(batch) \in Nat
    BY <2>1
  <2> QED BY <2>1, <2>2
<1> HIDE DEF batch
<1>5. \A i \in DOMAIN batch : batch[i] \in first
  BY <1>4
<1>6. batch \in Seq(waiting)
  <2>1. batch = [i \in 1..Len(batch) |-> batch[i]] /\ \A i \in 1..Len(batch) : batch[i] \in waiting
    BY <1>4, <1>5
  <2> QED BY <1>4, <2>1
<1>7. \A i \in DOMAIN batch : \A t \in pending : batch[i] < t
  <2> TAKE i \in DOMAIN batch
  <2> TAKE t \in pending
  <2>1. batch[i] \in waiting /\ batch[i] <= t
    BY <1>5
  <2>2. batch[i] # t
    BY <2>1 DEF Ordered
  <2>3. batch[i] \in Int /\ t \in Int
    BY <1>1, <2>1
  <2> QED BY <2>1, <2>2, <2>3
<1>8. \A i \in DOMAIN batch : batch[i] \in Keyframes => i = 1
  <2> TAKE i \in DOMAIN batch
  <2> HAVE batch[i] \in Keyframes
  <2>1. batch[i] \in waiting /\ 1 \in DOMAIN batch /\ batch[1] \in waiting
    BY <1>4, <1>5
  <2>2. batch[i] <= batch[1]
    BY <2>1 DEF Ordered
  <2>3. ~(1 < i)
    BY <1>1, <1>4, <2>1, <2>2
  <2> QED BY <1>4, <2>3
<1> QED BY <1>3, <1>4, <1>6, <1>7, <1>8 DEF Release

(* What a call of push finds: what was handed out is not newer than the    *)
(* last one, and an owed loss is of a frame that is missing.               *)
History ==
  /\ resend \in BOOLEAN /\ owed \in BOOLEAN /\ completed \in Sequence \union {None}
  /\ handed \subseteq Sequence /\ \A h \in handed : h <= completed
OwedReal == owed => \E u \in Sequence : u < completed /\ Missing(u, handed, {})

(* Afterwards as well, and what is left is newer than what is out.         *)
LEMMA HandOutKeepsOrder ==
  ASSUME NEW lost, NEW waiting, NEW pending, Ordered(waiting, pending), History, resend,
         HandOut(lost, waiting, pending)
  PROVE  /\ completed' \in Int /\ completed' >= completed
         /\ completed' = completed \/ completed' \in waiting
         /\ handed' \subseteq Sequence /\ \A h \in handed' : h <= completed'
         /\ held' \subseteq waiting /\ held' \intersect Keyframes = {}
         /\ \A s \in held' \union pending : s > completed'
         /\ \A h \in handed' : h \in handed \/ h \in waiting
         /\ \A w \in waiting : w \in held' \/ w \in handed'
         /\ owed' \in BOOLEAN
<1> DEFINE batch == Releasable(waiting, pending)
<1>1. Release(batch, waiting, pending)
  BY ReleasableReleases
<1>2. /\ completed' = IF batch = <<>> THEN completed ELSE batch[Len(batch)]
      /\ held' = waiting \ {batch[i] : i \in DOMAIN batch}
      /\ handed' = handed \union {batch[i] : i \in DOMAIN batch}
      /\ owed' = LossAfter(batch, 2, Len(batch), FALSE)
  BY DEF HandOut, ToSet, Last
<1> HIDE DEF batch
<1>3. waiting \subseteq Sequence /\ pending \subseteq Sequence /\ Sequence \subseteq Int
  BY ConstantsAssumption DEF Ordered, Sequence
<1>0. completed \in Int
  BY <1>3 DEF History, None
<1>4. /\ Len(batch) \in Nat /\ DOMAIN batch = 1..Len(batch)
      /\ \A i \in DOMAIN batch : batch[i] \in waiting
      /\ batch # <<>> => Len(batch) >= 1
  BY <1>1 DEF Release
<1>7. owed' \in BOOLEAN
  BY <1>2 DEF LossAfter
<1>5. CASE batch = <<>>
  <2>1. DOMAIN batch = {} /\ completed' = completed /\ held' = waiting /\ handed' = handed
    BY <1>2, <1>4, <1>5
  <2>2. held' \intersect Keyframes = {}
    <3> SUFFICES ASSUME NEW k \in waiting \intersect Keyframes PROVE FALSE
      BY <2>1
    <3>1. \A t \in pending : k <= t
      BY DEF Ordered
    <3> QED BY <1>1, <2>1, <3>1 DEF Release
  <2>3. handed' \subseteq Sequence /\ \A h \in handed' : h <= completed'
    BY <2>1 DEF History
  <2>4. \A s \in held' \union pending : s > completed'
    BY <2>1 DEF Ordered
  <2>5. completed' \in Int /\ completed' >= completed
    BY <1>0, <2>1
  <2> QED BY <1>7, <2>1, <2>2, <2>3, <2>4, <2>5
<1>6. CASE batch # <<>>
  <2> DEFINE n == Len(batch)
  <2>1. n \in DOMAIN batch /\ completed' = batch[n] /\ batch[n] \in waiting
    BY <1>2, <1>4, <1>6
  <2>2. \A i \in DOMAIN batch : batch[i] <= batch[n]
    <3> TAKE i \in DOMAIN batch
    <3>1. batch[i] \in Int /\ batch[n] \in Int
      BY <1>3, <1>4, <2>1
    <3>2. i = n \/ i < n
      BY <1>4
    <3> QED BY <1>1, <2>1, <3>1, <3>2 DEF Release
  <2>3. completed' \in Int /\ completed' > completed
    BY <1>3, <2>1 DEF Ordered
  <2>4. \A h \in handed' : h <= completed'
    <3> TAKE h \in handed'
    <3>1. CASE h \in handed
      BY <1>3, <2>3, <3>1 DEF History
    <3>2. CASE h \in {batch[i] : i \in DOMAIN batch}
      BY <2>1, <2>2, <3>2
    <3> QED BY <1>2, <3>1, <3>2
  <2>5. \A t \in pending : t > completed'
    BY <1>1, <2>1 DEF Release
  <2>6. \A s \in held' : s > completed'
    <3> TAKE s \in held'
    <3>1. s \in waiting /\ \A i \in DOMAIN batch : batch[i] # s
      BY <1>2
    <3>2. PICK t \in pending : ~(s <= t)
      BY <1>1, <3>1 DEF Release
    <3> QED BY <1>3, <2>3, <2>5, <3>1, <3>2
  <2>7. held' \intersect Keyframes = {}
    <3> SUFFICES ASSUME NEW k \in held' \intersect Keyframes PROVE FALSE
      OBVIOUS
    <3>1. k \in waiting /\ \A i \in DOMAIN batch : batch[i] # k
      BY <1>2
    <3>2. \A t \in pending : k <= t
      BY <3>1 DEF Ordered
    <3> QED BY <1>1, <3>1, <3>2 DEF Release
  <2>8. completed' >= completed
    BY <1>0, <2>3
  <2> QED BY <1>2, <1>3, <1>4, <2>1, <2>3, <2>4, <2>5, <2>6, <2>7, <2>8, <1>7 DEF History
<1> QED BY <1>5, <1>6

(* A gap in what is handed out is a missing frame.                         *)
LEMMA GapIsMissing ==
  ASSUME NEW batch, NEW waiting, NEW pending, Ordered(waiting, pending), History,
         Release(batch, waiting, pending),
         NEW i \in DOMAIN batch, Skipped(Before(batch, i), batch[i]), batch[i] \notin Keyframes
  PROVE  \E u \in Sequence :
           /\ u < batch[i]
           /\ Missing(u, handed \union {batch[j] : j \in DOMAIN batch}, waiting)
<1> DEFINE u == batch[i] - 1
           previous == Before(batch, i)
<1>1. waiting \subseteq Sequence /\ pending \subseteq Sequence /\ Sequence \subseteq Nat
  BY ConstantsAssumption DEF Ordered, Sequence
<1>2. /\ Len(batch) \in Nat /\ DOMAIN batch = 1..Len(batch)
      /\ \A j \in DOMAIN batch : batch[j] \in waiting
      /\ \A j \in DOMAIN batch : batch[j] \in Nat /\ batch[j] > completed
  <2>1. /\ Len(batch) \in Nat /\ DOMAIN batch = 1..Len(batch)
        /\ \A j \in DOMAIN batch : batch[j] \in waiting
    BY DEF Release
  <2> QED BY <1>1, <2>1 DEF Ordered
<1>3. completed \in Int /\ completed >= -1 /\ (i = 1 => previous = completed)
      /\ (i # 1 => i - 1 \in DOMAIN batch /\ previous = batch[i - 1])
  BY <1>1, <1>2 DEF History, None, Before
<1>4. previous \in Int /\ previous >= 0 /\ previous >= completed
  <2>1. CASE i = 1
    <3>1. previous # -1
      BY DEF Skipped, None
    <3> HIDE DEF previous
    <3> QED BY <1>3, <2>1, <3>1
  <2>2. CASE i # 1
    <3> HIDE DEF previous
    <3> QED BY <1>2, <1>3, <2>2
  <2> QED BY <2>1, <2>2
<1>5. batch[i] > previous + 1
  BY DEF Skipped
<1> HIDE DEF previous
<1>6. u \in Nat /\ u > previous /\ u < batch[i] /\ u \in Sequence
  <2>1. u \in Nat /\ u > previous /\ u < batch[i]
    BY <1>2, <1>4, <1>5
  <2>2. batch[i] \in 0..MaxSequence
    BY <1>1, <1>2 DEF Sequence
  <2> QED BY <2>1, <2>2, ConstantsAssumption DEF Sequence
<1>7. \A j \in DOMAIN batch : j < i => batch[j] <= previous
  <2> TAKE j \in DOMAIN batch
  <2> HAVE j < i
  <2>1. i # 1 /\ i - 1 \in DOMAIN batch /\ (j = i - 1 \/ j < i - 1)
    BY <1>2, <1>3
  <2>2. batch[j] \in Int /\ batch[i - 1] \in Int /\ previous = batch[i - 1]
    BY <1>2, <1>3, <2>1
  <2> QED BY <2>1, <2>2 DEF Release
<1>8. \A j \in DOMAIN batch : i < j => batch[i] < batch[j]
  BY DEF Release
<1> HIDE DEF u
<1>9. u \notin waiting
  <2> SUFFICES ASSUME u \in waiting PROVE FALSE
    OBVIOUS
  <2>1. \A t \in pending : u <= t
    <3> TAKE t \in pending
    <3>1. batch[i] < t /\ t \in Int
      BY <1>1 DEF Release
    <3> QED BY <1>2, <1>6, <3>1
  <2>2. PICK j \in DOMAIN batch : batch[j] = u
    BY <2>1 DEF Release
  <2>3. ~(i < j) /\ i # j
    BY <1>2, <1>6, <1>8, <2>2
  <2>4. ~(j < i)
    BY <1>4, <1>6, <1>7, <2>2
  <2> QED BY <1>2, <2>3, <2>4
<1>10. u \notin handed
  <2> SUFFICES ASSUME u \in handed PROVE FALSE
    OBVIOUS
  <2>1. u <= completed
    BY DEF History
  <2> QED BY <1>3, <1>4, <1>6, <2>1
<1>11. \A k \in Keyframes : k \in handed \union {batch[j] : j \in DOMAIN batch} => k < u
  <2> TAKE k \in Keyframes
  <2> HAVE k \in handed \union {batch[j] : j \in DOMAIN batch}
  <2>1. CASE k \in handed
    <3>1. k <= completed /\ k \in Int
      BY <1>1, <2>1 DEF History
    <3> QED BY <1>3, <1>4, <1>6, <3>1
  <2>2. ASSUME NEW j \in DOMAIN batch, k = batch[j] PROVE k < u
    <3>1. j = 1 /\ j # i
      BY <2>2 DEF Release
    <3>2. j < i
      BY <1>2, <3>1
    <3>3. k <= previous /\ k \in Int
      BY <1>2, <1>7, <2>2, <3>2
    <3> QED BY <1>4, <1>6, <3>3
  <2> QED BY <2>1, <2>2
<1>12. u \notin {batch[j] : j \in DOMAIN batch}
  BY <1>2, <1>9
<1> QED BY <1>6, <1>9, <1>10, <1>11, <1>12 DEF Missing

(* A loss that stays owed, or that is reported without another reason, is  *)
(* of a frame that is missing, older than what is out.                     *)
LEMMA HandOutLossIsReal ==
  ASSUME NEW lost \in BOOLEAN, NEW waiting, NEW pending, Ordered(waiting, pending), History, resend,
         OwedReal, HandOut(lost, waiting, pending)
  PROVE  /\ owed' => \E u \in Sequence : u < completed' /\ Missing(u, handed', held')
         /\ result'.lost => lost \/ \E u \in Sequence : u < completed' /\ Missing(u, handed', held')
<1> DEFINE batch == Releasable(waiting, pending)
           n == Len(batch)
           out == {batch[j] : j \in DOMAIN batch}
<1>1. Release(batch, waiting, pending)
  BY ReleasableReleases
<1>2. /\ completed' = IF batch = <<>> THEN completed ELSE batch[n]
      /\ held' = waiting \ out
      /\ handed' = handed \union out
      /\ owed' = LossAfter(batch, 2, n, FALSE)
      /\ result'.lost = (lost \/ LossAfter(batch, 1, Least(1, n), owed))
  BY DEF HandOut, ToSet, Last
<1> HIDE DEF batch
<1>3. waiting \subseteq Sequence /\ Sequence \subseteq Int /\ completed \in Int
  BY ConstantsAssumption DEF Ordered, Sequence, History, None
<1>4. /\ n \in Nat /\ DOMAIN batch = 1..n
      /\ \A i \in DOMAIN batch : batch[i] \in waiting /\ batch[i] \in Int /\ batch[i] > completed
      /\ batch = <<>> <=> n = 0
  <2>1. n \in Nat /\ DOMAIN batch = 1..n /\ (batch = <<>> <=> n = 0)
        /\ \A i \in DOMAIN batch : batch[i] \in waiting
    BY <1>1 DEF Release
  <2> QED BY <1>3, <2>1 DEF Ordered
<1>5. \A i \in DOMAIN batch : batch[i] <= completed'
  <2> TAKE i \in DOMAIN batch
  <2>1. n \in DOMAIN batch /\ completed' = batch[n] /\ (i = n \/ i < n)
    BY <1>2, <1>4
  <2>2. batch[i] \in Int /\ batch[n] \in Int
    BY <1>4, <2>1
  <2> QED BY <1>1, <2>1, <2>2 DEF Release
<1>6. \A s \in held' \union out : s > completed
  BY <1>2, <1>4 DEF Ordered
<1>7. completed' \in Int /\ completed' >= completed
  BY <1>2, <1>3, <1>4
<1>8. ASSUME NEW i \in DOMAIN batch, Skipped(Before(batch, i), batch[i]), batch[i] \notin Keyframes
      PROVE  \E u \in Sequence : u < completed' /\ Missing(u, handed', held')
  <2>1. PICK u \in Sequence : u < batch[i] /\ Missing(u, handed \union out, waiting)
    BY <1>1, <1>8, GapIsMissing
  <2>2. batch[i] <= completed' /\ batch[i] \in Int /\ u \in Int
    BY <1>3, <1>4, <1>5
  <2>3. u < completed'
    BY <1>7, <2>1, <2>2
  <2>4. Missing(u, handed', held')
    BY <1>2, <2>1 DEF Missing
  <2> QED BY <2>3, <2>4
<1>9. ASSUME owed, \A i \in DOMAIN batch : batch[i] \notin Keyframes
      PROVE  \E u \in Sequence : u < completed' /\ Missing(u, handed', held')
  <2>1. PICK u \in Sequence : u < completed /\ Missing(u, handed, {})
    BY <1>9 DEF OwedReal
  <2>2. u < completed' /\ u \in Int
    BY <1>3, <1>7, <2>1
  <2>3. u \notin held' \union out
    BY <1>3, <1>6, <2>1, <2>2
  <2>4. handed' \intersect Keyframes \subseteq handed
    BY <1>2, <1>9
  <2>5. Missing(u, handed', held')
    BY <1>2, <2>1, <2>3, <2>4 DEF Missing
  <2> QED BY <2>2, <2>5
<1>10. owed' => \E u \in Sequence : u < completed' /\ Missing(u, handed', held')
  <2> HAVE owed'
  <2>1. PICK i \in 2..n : Skipped(Before(batch, i), batch[i]) /\ \A j \in i..n : batch[j] \notin Keyframes
    BY <1>2 DEF LossAfter
  <2>2. i \in DOMAIN batch /\ i \in i..n
    BY <1>4
  <2> QED BY <1>8, <2>1, <2>2
<1>11. ASSUME result'.lost, ~lost
       PROVE  \E u \in Sequence : u < completed' /\ Missing(u, handed', held')
  <2>1. LossAfter(batch, 1, Least(1, n), owed)
    BY <1>2, <1>11
  <2>2. CASE n = 0
    <3>1. Least(1, n) = 0 /\ DOMAIN batch = {}
      BY <1>4, <2>2 DEF Least
    <3>2. owed
      BY <2>1, <3>1 DEF LossAfter
    <3> QED BY <1>9, <3>1, <3>2
  <2>3. CASE n >= 1
    <3>1. Least(1, n) = 1 /\ 1 \in DOMAIN batch /\ 1..1 = {1}
      BY <1>4, <2>3 DEF Least
    <3>2. /\ batch[1] \notin Keyframes
          /\ owed \/ Skipped(Before(batch, 1), batch[1])
      BY <2>1, <3>1 DEF LossAfter
    <3>3. \A i \in DOMAIN batch : batch[i] \notin Keyframes
      BY <1>1, <3>2 DEF Release
    <3> QED BY <1>8, <1>9, <3>1, <3>2, <3>3
  <2> QED BY <1>4, <2>2, <2>3
<1> QED BY <1>10, <1>11

(* And no gap goes unreported.                                             *)
LEMMA HandOutReportsSkips ==
  ASSUME NEW lost \in BOOLEAN, NEW waiting, NEW pending, Ordered(waiting, pending), History, resend,
         HandOut(lost, waiting, pending)
  PROVE  SkipsReported
<1> DEFINE batch == Releasable(waiting, pending)
           n == Len(batch)
<1>1. Release(batch, waiting, pending)
  BY ReleasableReleases
<1>2. /\ owed' = LossAfter(batch, 2, n, FALSE)
      /\ result'.lost = (lost \/ LossAfter(batch, 1, Least(1, n), owed))
      /\ result'.frames = batch
  BY DEF HandOut
<1> HIDE DEF batch
<1>3. waiting \subseteq Int /\ completed \in Int
  BY ConstantsAssumption DEF Ordered, Sequence, History, None
<1>4. n \in Nat /\ DOMAIN batch = 1..n /\ \A i \in DOMAIN batch : batch[i] \in waiting
  BY <1>1 DEF Release
<1> SUFFICES ASSUME NEW i \in DOMAIN batch
             PROVE  /\ batch[i] > Before(batch, i)
                    /\ Skipped(Before(batch, i), batch[i]) =>
                         \/ result'.lost \/ owed'
                         \/ \E j \in i..n : batch[j] \in Keyframes
  BY <1>2 DEF SkipsReported
<1>5. CASE i = 1
  <2>1. Least(1, n) = 1 /\ 1..1 = {1} /\ 1 \in i..n
    BY <1>4, <1>5 DEF Least
  <2>2. batch[i] > Before(batch, i)
    BY <1>4, <1>5 DEF Before, Ordered
  <2>3. ASSUME Skipped(Before(batch, i), batch[i]), batch[1] \notin Keyframes
        PROVE  result'.lost
    BY <1>2, <1>5, <2>1, <2>3 DEF LossAfter
  <2> QED BY <1>5, <2>1, <2>2, <2>3
<1>6. CASE i # 1
  <2>1. i \in 2..n /\ i - 1 \in DOMAIN batch /\ Before(batch, i) = batch[i - 1]
    BY <1>4, <1>6 DEF Before
  <2>2. batch[i - 1] < batch[i]
    BY <1>1, <1>4, <2>1 DEF Release
  <2>3. batch[i] > Before(batch, i)
    BY <1>3, <1>4, <2>1, <2>2
  <2>4. ASSUME Skipped(Before(batch, i), batch[i]), \A j \in i..n : batch[j] \notin Keyframes
        PROVE  owed'
    BY <1>2, <2>1, <2>4 DEF LossAfter
  <2> QED BY <2>3, <2>4
<1> QED BY <1>5, <1>6

-----------------------------------------------------------------------------
(* The invariant. *)

(* Every variable has its type; an open frame has some of its chunks and   *)
(* not all of them.                                                        *)
Types ==
  /\ resend \in BOOLEAN /\ owed \in BOOLEAN /\ silence \in Nat
  /\ newest \in Sequence \union {None} /\ completed \in Sequence \union {None}
  /\ held \subseteq Sequence /\ handed \subseteq Sequence
  /\ DOMAIN partial \subseteq Sequence
  /\ \A s \in DOMAIN partial :
       partial[s] \in PartialFrame(s) /\ partial[s].got # {} /\ partial[s].got # Chunks[s]
  /\ DOMAIN unseen \subseteq Sequence /\ \A s \in DOMAIN unseen : unseen[s] \in Nat

(* With resends, what is out, what is held and what is awaited are apart:  *)
(* nothing that is awaited or held is older than what is out.  No keyframe *)
(* waits, and a loss that is owed is of a missing frame.                   *)
Apart ==
  /\ \A t \in DOMAIN partial \union DOMAIN unseen : completed < t /\ t <= newest /\ t \notin held
  /\ \A s \in held : completed < s /\ s <= newest /\ s \notin Keyframes
  /\ \A h \in handed : h <= completed
  /\ completed <= newest
  /\ OwedReal

AssemblerInv == Types /\ (resend => Apart)

LEMMA NewestKeyframeFollows ==
  ASSUME NEW out \in SUBSET Sequence, NEW u \in Sequence, \A k \in out \intersect Keyframes : k < u
  PROVE  Max((out \intersect Keyframes) \union {None}) \in Int
         /\ Max((out \intersect Keyframes) \union {None}) < u
<1> DEFINE S == (out \intersect Keyframes) \union {None}
<1>1. S \in SUBSET Int /\ S # {} /\ \A k \in S : k < u
  BY ConstantsAssumption DEF Sequence, None
<1>2. IsFiniteSet(S)
  <2>1. IsFiniteSet(-1..MaxSequence)
    <3>1. MaxSequence \in Int
      BY ConstantsAssumption
    <3> QED BY <3>1, FS_Interval
  <2>2. S \in SUBSET (-1..MaxSequence)
    BY ConstantsAssumption DEF Sequence, None
  <2> HIDE DEF S
  <2> QED BY <2>1, <2>2, FS_Subset
<1> HIDE DEF S
<1>3. Max(S) \in S
  BY <1>1, <1>2, Extremes
<1> QED BY <1>1, <1>3 DEF S

(* A missing frame t justifies the loss that push reports by itself.       *)
Justifies(t, waiting) ==
  /\ t \in Sequence /\ completed < t /\ t <= newest'
  /\ t \notin handed \union waiting \/ t \in Overdue

(* What the parts of push establish, whatever they do to the open frames.  *)
LEMMA HandOutKeepsApart ==
  ASSUME AssemblerInv, resend, NEW lost \in BOOLEAN, NEW waiting, NEW pending,
         HandOut(lost, waiting, pending), Ordered(waiting, pending),
         pending = DOMAIN partial' \union DOMAIN unseen',
         newest' \in Sequence \union {None}, newest' >= newest,
         \A s \in waiting \union pending : s <= newest',
         lost => /\ waiting \intersect Keyframes = {}
                 /\ \E t \in Sequence : Justifies(t, waiting)
  PROVE  Apart' /\ LossIsReal /\ SkipsReported
<1>1. History /\ OwedReal /\ Apart
  BY DEF AssemblerInv, Types, Apart, History
<1>2. Sequence \subseteq Int /\ completed \in Int /\ newest \in Int /\ newest' \in Int
      /\ waiting \subseteq Sequence /\ pending \subseteq Sequence
  BY ConstantsAssumption DEF Sequence, AssemblerInv, Types, None, Ordered
<1>3. /\ completed' \in Int /\ completed' >= completed
      /\ completed' = completed \/ completed' \in waiting
      /\ handed' \subseteq Sequence /\ \A h \in handed' : h <= completed'
      /\ held' \subseteq waiting /\ held' \intersect Keyframes = {}
      /\ \A s \in held' \union pending : s > completed'
      /\ \A h \in handed' : h \in handed \/ h \in waiting
      /\ \A w \in waiting : w \in held' \/ w \in handed'
  BY <1>1, HandOutKeepsOrder
<1>4. /\ owed' => \E u \in Sequence : u < completed' /\ Missing(u, handed', held')
      /\ result'.lost => lost \/ \E u \in Sequence : u < completed' /\ Missing(u, handed', held')
  BY <1>1, HandOutLossIsReal
<1>5. completed' <= newest'
  <2>1. CASE completed' = completed
    BY <1>1, <1>2, <2>1 DEF Apart
  <2>2. CASE completed' \in waiting
    BY <2>2
  <2> QED BY <1>3, <2>1, <2>2
<1>6. OwedReal'
  <2> SUFFICES ASSUME owed' PROVE \E u \in Sequence : u < completed' /\ Missing(u, handed', {})
    BY DEF OwedReal, Missing, Sequence
  <2>1. PICK u \in Sequence : u < completed' /\ Missing(u, handed', held')
    BY <1>4
  <2> QED BY <2>1 DEF Missing
<1>7. Apart'
  <2>1. \A t \in pending : completed' < t /\ t <= newest' /\ t \notin held'
    <3> TAKE t \in pending
    <3>1. t \notin held'
      BY <1>3 DEF Ordered
    <3> QED BY <1>2, <1>3, <3>1
  <2>2. \A s \in held' : completed' < s /\ s <= newest' /\ s \notin Keyframes
    BY <1>2, <1>3
  <2> QED BY <1>3, <1>5, <1>6, <2>1, <2>2 DEF Apart
<1>8. LossIsReal
  <2> SUFFICES ASSUME result'.lost
               PROVE  \E s \in (NewestKeyframe' + 1)..newest' :
                        s \notin handed' \union held' \/ s \in Overdue
    BY DEF LossIsReal
  <2>1. ASSUME NEW u \in Sequence, u <= newest', \A k \in handed' \intersect Keyframes : k < u
        PROVE  u \in (NewestKeyframe' + 1)..newest'
    <3>1. NewestKeyframe' \in Int /\ NewestKeyframe' < u
      BY <1>3, <2>1, NewestKeyframeFollows DEF NewestKeyframe, None
    <3>2. \A a, b \in Int : a < u /\ u <= b => u \in (a + 1)..b
      BY <1>2
    <3>3. u <= newest'
      BY <2>1
    <3> HIDE DEF NewestKeyframe
    <3> QED BY <1>2, <3>1, <3>2, <3>3
  <2>2. CASE lost
    <3>1. PICK t \in Sequence : Justifies(t, waiting)
      BY <2>2
    <3>2. \A k \in handed' \intersect Keyframes : k < t
      <4> TAKE k \in handed' \intersect Keyframes
      <4>1. k \in handed /\ k \in Int
        BY <1>2, <1>3, <2>2
      <4>2. k <= completed
        BY <1>1, <4>1 DEF Apart
      <4> QED BY <1>2, <3>1, <4>1, <4>2 DEF Justifies
    <3>3. t \notin handed' \union held' \/ t \in Overdue
      BY <1>3, <3>1 DEF Justifies
    <3>4. t \in (NewestKeyframe' + 1)..newest'
      BY <2>1, <3>1, <3>2 DEF Justifies
    <3> QED BY <3>3, <3>4
  <2>3. CASE ~lost
    <3>1. PICK u \in Sequence : u < completed' /\ Missing(u, handed', held')
      BY <1>4, <2>3
    <3>2. u <= newest'
      BY <1>2, <1>3, <1>5, <3>1
    <3>3. u \in (NewestKeyframe' + 1)..newest'
      BY <2>1, <3>1, <3>2 DEF Missing
    <3> QED BY <3>1, <3>3 DEF Missing
  <2> QED BY <2>2, <2>3
<1>9. SkipsReported
  BY <1>1, HandOutReportsSkips
<1> QED BY <1>7, <1>8, <1>9

-----------------------------------------------------------------------------
(* What every datagram does first. *)

OpenFrame(s, frame) == frame \in PartialFrame(s) /\ frame.got # {} /\ frame.got # Chunks[s]

LEMMA ConstantTypes ==
  /\ Window \in Nat \ {0} /\ Budget \in Nat \ {0} /\ SilenceSpan \in Nat \ {0}
  /\ MaxSequence \in Nat /\ MaxSilence \in Nat /\ Sequence \subseteq Nat
BY ConstantsAssumption DEF Sequence

LEMMA Numbers ==
  ASSUME Types
  PROVE  /\ None = -1 /\ newest \in Int /\ completed \in Int
         /\ held \subseteq Sequence /\ held \subseteq Int /\ Sequence \subseteq Int
<1>1. Sequence \subseteq Int
  BY ConstantTypes
<1>2. newest \in Sequence \union {-1} /\ completed \in Sequence \union {-1} /\ held \subseteq Sequence
  BY DEF Types, None
<1> QED BY <1>1, <1>2 DEF None

(* A deadline may be extended; the chunks stay.                            *)
LEMMA ExtendedKeeps ==
  ASSUME Types, NEW s, NEW frame, OpenFrame(s, frame)
  PROVE  OpenFrame(s, Extended(frame)) /\ Extended(frame).got = frame.got
<1>1. frame \in [got : SUBSET Chunks[s], left : Int, age : Nat]
  BY DEF OpenFrame, PartialFrame
<1>2. \A x \in Int : [frame EXCEPT !.left = x] \in [got : SUBSET Chunks[s], left : Int, age : Nat]
                     /\ [frame EXCEPT !.left = x].got = frame.got
  BY <1>1
<1>3. silence \in Nat /\ frame.left + silence \in Int
      /\ Least(frame.left + silence, 2 * Budget - frame.age) \in Int
  BY <1>1, ConstantTypes DEF Types, Least
<1>4. Extended(frame) = frame \/ \E x \in Int : Extended(frame) = [frame EXCEPT !.left = x]
  BY <1>3 DEF Extended
<1>5. Extended(frame) \in PartialFrame(s) /\ Extended(frame).got = frame.got
  BY <1>1, <1>2, <1>4 DEF PartialFrame
<1> QED BY <1>5 DEF OpenFrame

LEMMA LiveFacts ==
  ASSUME Types
  PROVE  /\ DOMAIN LivePartial \subseteq DOMAIN partial
         /\ \A s \in DOMAIN LivePartial : OpenFrame(s, LivePartial[s])
         /\ DOMAIN LiveUnseen \subseteq DOMAIN unseen
         /\ \A s \in DOMAIN LiveUnseen : LiveUnseen[s] \in Nat
         /\ \A s \in DOMAIN unseen : s \in DOMAIN LiveUnseen \/ s \in Overdue
<1> DEFINE extended == [s \in DOMAIN partial |-> Extended(partial[s])]
           live == {s \in DOMAIN partial : extended[s].left > 0}
<1>1. LivePartial = [s \in live |-> extended[s]]
  BY DEF LivePartial, Restrict
<1>2. \A s \in DOMAIN partial : OpenFrame(s, extended[s])
  BY ExtendedKeeps DEF Types, OpenFrame
<1>3. LiveUnseen = [s \in {t \in DOMAIN unseen : unseen[t] > 0} |-> unseen[s]]
  BY DEF LiveUnseen, Restrict
<1>4. DOMAIN LivePartial = live /\ \A s \in live : LivePartial[s] = extended[s]
  <2> HIDE DEF extended
  <2> QED BY <1>1
<1>5. /\ DOMAIN LiveUnseen \subseteq DOMAIN unseen
      /\ \A s \in DOMAIN LiveUnseen : LiveUnseen[s] \in Nat
  BY <1>3 DEF Types
<1>6. \A s \in DOMAIN unseen : s \in DOMAIN LiveUnseen \/ s \in Overdue
  <2> TAKE s \in DOMAIN unseen
  <2>1. unseen[s] \in Nat
    BY DEF Types
  <2>2. unseen[s] > 0 => s \in DOMAIN LiveUnseen
    BY <1>3
  <2> QED BY <2>1, <2>2 DEF Overdue
<1> QED BY <1>2, <1>4, <1>5, <1>6

(* The frame that the datagram belongs to, with its chunk.                 *)
LEMMA WithChunkFacts ==
  ASSUME Types, NEW s \in Sequence, NEW c \in Chunks[s]
  PROVE  /\ WithChunk(s, c) \in PartialFrame(s) /\ WithChunk(s, c).got # {}
         /\ s \notin DOMAIN LivePartial => WithChunk(s, c).got = {c}
<1>1. CASE s \in DOMAIN LivePartial
  <2> DEFINE f == LivePartial[s]
  <2>1. f \in [got : SUBSET Chunks[s], left : Int, age : Nat]
    BY <1>1, LiveFacts DEF OpenFrame, PartialFrame
  <2>2. WithChunk(s, c) = [f EXCEPT !.got = f.got \union {c}]
    BY <1>1 DEF WithChunk
  <2> HIDE DEF f
  <2>3. WithChunk(s, c) \in [got : SUBSET Chunks[s], left : Int, age : Nat]
        /\ WithChunk(s, c).got = f.got \union {c}
    BY <2>1, <2>2
  <2> QED BY <1>1, <2>3 DEF PartialFrame
<1>2. CASE s \notin DOMAIN LivePartial
  <2>1. WithChunk(s, c) = [got |-> {c}, left |-> Budget, age |-> 0]
    BY <1>2 DEF WithChunk
  <2> QED BY <2>1, ConstantTypes DEF PartialFrame
<1> QED BY <1>1, <1>2

LEMMA RoomForFacts ==
  ASSUME Types, NEW s
  PROVE  /\ DOMAIN RoomFor(s) \subseteq DOMAIN LivePartial
         /\ \A t \in DOMAIN RoomFor(s) : RoomFor(s)[t] = LivePartial[t]
         /\ Overflows(s) => \E t \in DOMAIN partial : t # s
<1>1. DOMAIN RoomFor(s) \subseteq DOMAIN LivePartial
      /\ \A t \in DOMAIN RoomFor(s) : RoomFor(s)[t] = LivePartial[t]
  BY DEF RoomFor, Restrict
<1>2. ASSUME Overflows(s) PROVE \E t \in DOMAIN partial : t # s
  <2>1. s \notin DOMAIN LivePartial /\ Cardinality(DOMAIN LivePartial) >= Window
    BY <1>2 DEF Overflows
  <2>2. DOMAIN LivePartial # {}
    BY <2>1, ConstantTypes, FS_EmptySet
  <2> QED BY <2>1, <2>2, LiveFacts
<1> QED BY <1>1, <1>2

(* The swallowed frames after a chunk of frame s.                          *)
LEMMA UnseenFacts ==
  ASSUME Types, NEW s \in Sequence, resend
  PROVE  /\ DOMAIN UnseenAfter(s) \subseteq Sequence
         /\ \A t \in DOMAIN UnseenAfter(s) : UnseenAfter(s)[t] \in Nat
         /\ \A t \in DOMAIN UnseenAfter(s) : t # s
         /\ \A t \in DOMAIN UnseenAfter(s) : t \in DOMAIN unseen \/ (newest < t /\ t < s)
<1> DEFINE after == (DOMAIN LiveUnseen \ {s}) \union SwallowedBefore(s)
           left(t) == IF t \in SwallowedBefore(s) THEN Budget ELSE LiveUnseen[t]
<1>1. UnseenAfter(s) = [t \in after |-> left(t)]
  BY DEF UnseenAfter
<1>2. \A t \in SwallowedBefore(s) : t \in Sequence /\ newest < t /\ t < s
  <2> SUFFICES ASSUME NEW t \in SwallowedBefore(s) PROVE t \in Sequence /\ newest < t /\ t < s
    OBVIOUS
  <2>1. newest # None /\ t \in (newest + 1)..(s - 1)
    BY DEF SwallowedBefore
  <2>2. newest \in 0..MaxSequence /\ s \in 0..MaxSequence
    BY <2>1 DEF Types, Sequence
  <2> QED BY <2>1, <2>2, ConstantTypes DEF Sequence
<1>3. /\ DOMAIN LiveUnseen \subseteq DOMAIN unseen /\ DOMAIN unseen \subseteq Sequence
      /\ \A t \in DOMAIN LiveUnseen : LiveUnseen[t] \in Nat
  BY LiveFacts DEF Types
<1>4. \A t \in after : left(t) \in Nat
  BY <1>3, ConstantTypes
<1>5. \A t \in after : t \in Sequence /\ t # s /\ (t \in DOMAIN unseen \/ (newest < t /\ t < s))
  <2> TAKE t \in after
  <2>1. CASE t \in DOMAIN LiveUnseen \ {s}
    BY <1>3, <2>1
  <2>2. CASE t \in SwallowedBefore(s)
    <3>1. t \in Sequence /\ newest < t /\ t < s
      BY <1>2, <2>2
    <3>2. t \in Nat /\ s \in Nat
      BY <3>1, ConstantTypes
    <3>3. t # s
      BY <3>1, <3>2
    <3> QED BY <3>1, <3>3
  <2> QED BY <2>1, <2>2
<1> HIDE DEF after, left
<1>6. DOMAIN UnseenAfter(s) = after /\ \A t \in after : UnseenAfter(s)[t] = left(t)
  BY <1>1
<1> QED BY <1>4, <1>5, <1>6

-----------------------------------------------------------------------------
(* Why push reports a loss. *)

LEMMA AwaitedIsMissing ==
  ASSUME AssemblerInv, resend, NEW t \in DOMAIN partial \union DOMAIN unseen
  PROVE  t \in Sequence /\ completed < t /\ t <= newest /\ t \notin held /\ t \notin handed
<1>1. Types /\ Apart
  BY DEF AssemblerInv
<1>2. t \in Sequence /\ completed < t /\ t <= newest /\ t \notin held
  BY <1>1 DEF Types, Apart
<1>3. t \in Int /\ completed \in Int
  BY <1>1, <1>2, Numbers
<1>4. t \notin handed
  <2> SUFFICES ASSUME t \in handed PROVE FALSE
    OBVIOUS
  <2>1. t <= completed
    BY <1>1 DEF Apart
  <2> QED BY <1>2, <1>3, <2>1
<1> QED BY <1>2, <1>4

LEMMA AwaitedJustifies ==
  ASSUME AssemblerInv, resend, newest' \in Int, newest' >= newest, NEW waiting,
         NEW t \in DOMAIN partial \union DOMAIN unseen, t \notin waiting \/ t \in Overdue
  PROVE  Justifies(t, waiting)
<1>1. t \in Sequence /\ completed < t /\ t <= newest /\ t \notin held /\ t \notin handed
  BY AwaitedIsMissing
<1>2. t \in Int /\ newest \in Int
  BY <1>1, Numbers DEF AssemblerInv
<1> QED BY <1>1, <1>2 DEF Justifies

(* A frame that was open and expired is not completed by one chunk.        *)
LEMMA ExpiredJustifies ==
  ASSUME AssemblerInv, resend, newest' \in Int, newest' >= newest, Expired,
         NEW s \in Sequence, NEW c \in Chunks[s], NEW waiting,
         \/ waiting \subseteq held
         \/ waiting \subseteq held \union {s} /\ WithChunk(s, c).got = Chunks[s]
  PROVE  \E t \in Sequence : Justifies(t, waiting)
<1>1. Types
  BY DEF AssemblerInv
<1>2. CASE DOMAIN LivePartial # DOMAIN partial
  <2>1. PICK t \in DOMAIN partial : t \notin DOMAIN LivePartial
    BY <1>1, <1>2, LiveFacts
  <2>2. t \in Sequence /\ t \notin held
    BY AwaitedIsMissing
  <2>3. t \notin waiting
    <3> SUFFICES ASSUME t \in waiting PROVE FALSE
      OBVIOUS
    <3>1. t = s /\ WithChunk(s, c).got = Chunks[s]
      BY <2>2
    <3>2. Chunks[s] = {c}
      BY <1>1, <2>1, <3>1, WithChunkFacts
    <3>3. partial[s].got \in SUBSET Chunks[s] /\ partial[s].got # {} /\ partial[s].got # Chunks[s]
      BY <1>1, <2>1, <3>1 DEF Types, PartialFrame
    <3> QED BY <3>2, <3>3
  <2> QED BY <2>1, <2>2, <2>3, AwaitedJustifies
<1>3. CASE DOMAIN LiveUnseen # DOMAIN unseen
  <2>1. PICK t \in DOMAIN unseen : t \in Overdue
    BY <1>1, <1>3, LiveFacts
  <2>2. t \in Sequence
    BY AwaitedIsMissing
  <2> QED BY <2>1, <2>2, AwaitedJustifies
<1> QED BY <1>2, <1>3 DEF Expired

LEMMA OverflowJustifies ==
  ASSUME AssemblerInv, resend, newest' \in Int, newest' >= newest,
         NEW s \in Sequence, Overflows(s), NEW waiting, waiting \subseteq held \union {s}
  PROVE  \E t \in Sequence : Justifies(t, waiting)
<1>1. PICK t \in DOMAIN partial : t # s
  BY RoomForFacts DEF AssemblerInv
<1>2. t \in Sequence /\ t \notin held
  BY AwaitedIsMissing
<1> QED BY <1>1, <1>2, AwaitedJustifies

-----------------------------------------------------------------------------
(* The steps. *)

OpenFrames(open) == DOMAIN open \subseteq Sequence /\ \A s \in DOMAIN open : OpenFrame(s, open[s])
AwaitedFrames(times) == DOMAIN times \subseteq Sequence /\ \A s \in DOMAIN times : times[s] \in Nat

(* Without resends nothing is handed out here.                             *)
LEMMA HandOutWithoutResend ==
  ASSUME NEW lost, NEW waiting, NEW pending, HandOut(lost, waiting, pending), ~resend
  PROVE  /\ completed' = completed /\ held' = waiting /\ handed' = handed /\ owed' \in BOOLEAN
         /\ LossIsReal /\ SkipsReported
<1>1. Releasable(waiting, pending) = <<>> /\ DOMAIN <<>> = {} /\ ToSet(<<>>) = {}
  BY DEF Releasable, ToSet
<1>2. /\ completed' = completed /\ held' = waiting /\ handed' = handed
      /\ owed' = LossAfter(<<>>, 2, Len(<<>>), FALSE)
      /\ result'.frames = <<>>
  BY <1>1 DEF HandOut
<1>3. owed' \in BOOLEAN
  BY <1>2 DEF LossAfter
<1> QED BY <1>1, <1>2, <1>3 DEF LossIsReal, SkipsReported

(* What is left to show of a step of push that hands frames out.           *)
LEMMA HandOutKeepsInv ==
  ASSUME AssemblerInv, NEW lost \in BOOLEAN, NEW waiting,
         HandOut(lost, waiting, DOMAIN partial' \union DOMAIN unseen'),
         resend' = resend, silence' = 0,
         newest' \in Sequence \union {None}, newest' >= newest,
         OpenFrames(partial'), AwaitedFrames(unseen'), waiting \subseteq Sequence,
         resend => /\ Ordered(waiting, DOMAIN partial' \union DOMAIN unseen')
                   /\ \A s \in waiting \union (DOMAIN partial' \union DOMAIN unseen') : s <= newest'
                   /\ lost => /\ waiting \intersect Keyframes = {}
                              /\ \E t \in Sequence : Justifies(t, waiting)
  PROVE  AssemblerInv' /\ LossIsReal /\ SkipsReported
<1>1. Types
  BY DEF AssemblerInv
<1>2. CASE resend
  <2>1. History
    BY <1>2 DEF AssemblerInv, Types, Apart, History
  <2>2. Apart' /\ LossIsReal /\ SkipsReported
    BY <1>2, HandOutKeepsApart
  <2>3. /\ completed' = completed \/ completed' \in waiting
        /\ handed' \subseteq Sequence /\ held' \subseteq waiting /\ owed' \in BOOLEAN
    BY <1>2, <2>1, HandOutKeepsOrder
  <2>4. completed' \in Sequence \union {None} /\ held' \subseteq Sequence
    BY <1>1, <2>3 DEF Types
  <2>5. Types'
    BY <1>1, <2>3, <2>4 DEF Types, OpenFrames, AwaitedFrames, OpenFrame
  <2> QED BY <2>2, <2>5 DEF AssemblerInv
<1>3. CASE ~resend
  <2>1. /\ completed' = completed /\ held' = waiting /\ handed' = handed /\ owed' \in BOOLEAN
        /\ LossIsReal /\ SkipsReported
    BY <1>3, HandOutWithoutResend
  <2>2. Types'
    BY <1>1, <2>1 DEF Types, OpenFrames, AwaitedFrames, OpenFrame
  <2> QED BY <1>3, <2>1, <2>2 DEF AssemblerInv
<1> QED BY <1>2, <1>3

LEMMA HeldIsOrdered ==
  ASSUME AssemblerInv, resend, NEW pending \in SUBSET Sequence,
         \A t \in pending : completed < t /\ t \notin held
  PROVE  Ordered(held, pending) /\ held \intersect Keyframes = {}
<1>1. \A s \in held : s \in Sequence /\ completed < s /\ s \notin Keyframes
  BY DEF AssemblerInv, Types, Apart
<1>2. Sequence \subseteq Int /\ completed \in Int
  BY Numbers DEF AssemblerInv
<1> QED BY <1>1, <1>2 DEF Ordered

LEMMA LiveIsOpen ==
  ASSUME Types
  PROVE  OpenFrames(LivePartial) /\ AwaitedFrames(LiveUnseen)
BY LiveFacts DEF OpenFrames, AwaitedFrames, Types

(* The chunk of a frame that is out, held or too old changes nothing but   *)
(* what has expired.                                                       *)
LEMMA LateChunkKeepsInv ==
  ASSUME AssemblerInv, NEW s \in Sequence, NEW c \in Chunks[s], NEW lost \in BOOLEAN,
         partial' = LivePartial, unseen' = LiveUnseen, newest' = newest,
         resend' = resend, silence' = 0,
         HandOut(lost, held, DOMAIN partial' \union DOMAIN unseen'),
         lost => Expired \/ (Wanted(s) /\ TooOld(s))
  PROVE  AssemblerInv' /\ LossIsReal /\ SkipsReported
<1> DEFINE pending == DOMAIN partial' \union DOMAIN unseen'
<1>1. Types /\ held \subseteq Sequence /\ newest' \in Sequence \union {None} /\ newest' \in Int /\ newest' >= newest
  <2>1. Types
    BY DEF AssemblerInv
  <2>2. newest \in Int /\ held \subseteq Sequence
    BY <2>1, Numbers
  <2>3. newest' \in Sequence \union {None}
    BY <2>1 DEF Types
  <2> QED BY <2>1, <2>2, <2>3
<1>2. OpenFrames(partial') /\ AwaitedFrames(unseen')
  BY <1>1, LiveIsOpen
<1>3. ASSUME resend
      PROVE  /\ Ordered(held, pending)
             /\ \A t \in held \union pending : t <= newest'
             /\ lost => /\ held \intersect Keyframes = {}
                        /\ \E t \in Sequence : Justifies(t, held)
  <2>1. \A t \in pending : t \in Sequence /\ completed < t /\ t <= newest /\ t \notin held
    <3> SUFFICES ASSUME NEW t \in pending
                 PROVE  t \in Sequence /\ completed < t /\ t <= newest /\ t \notin held
      OBVIOUS
    <3>1. t \in DOMAIN partial \union DOMAIN unseen
      BY <1>1, LiveFacts
    <3> QED BY <1>3, <3>1, AwaitedIsMissing
  <2>2. Ordered(held, pending) /\ held \intersect Keyframes = {}
    <3> HIDE DEF pending
    <3>1. pending \in SUBSET Sequence
      BY <2>1
    <3> QED BY <1>3, <2>1, <3>1, HeldIsOrdered
  <2>3. \A t \in held : t <= newest
    BY <1>3 DEF AssemblerInv, Apart
  <2>4. CASE Expired
    <3>1. \E t \in Sequence : Justifies(t, held)
      BY <1>1, <1>3, <2>4, ExpiredJustifies
    <3> QED BY <2>1, <2>2, <2>3, <3>1
  <2>5. CASE Wanted(s) /\ TooOld(s)
    <3>1. s > completed /\ s \notin held /\ s + Window < newest
      BY <2>5 DEF Wanted, TooOld
    <3>2. s \in Int /\ completed \in Int /\ newest \in Int /\ Window \in Nat
      BY <1>1, Numbers, ConstantTypes
    <3>3. s \notin handed
      <4> SUFFICES ASSUME s \in handed PROVE FALSE
        OBVIOUS
      <4>1. s <= completed
        BY <1>3 DEF AssemblerInv, Apart
      <4> QED BY <3>1, <3>2, <4>1
    <3>4. completed < s /\ s <= newest
      BY <3>1, <3>2
    <3>5. Justifies(s, held)
      BY <3>1, <3>3, <3>4 DEF Justifies
    <3> QED BY <2>1, <2>2, <2>3, <3>5
  <2> QED BY <2>1, <2>2, <2>3, <2>4, <2>5
<1> QED BY <1>1, <1>2, <1>3, HandOutKeepsInv

LEMMA NewestGrows ==
  ASSUME AssemblerInv, NEW s \in Sequence, newest' = IF s > newest THEN s ELSE newest
  PROVE  newest' \in Sequence /\ newest' \in Int /\ newest' >= newest /\ s <= newest'
<1>1. newest \in Sequence \union {None} /\ newest \in Int /\ s \in Nat /\ None = -1
  <2>1. Types
    BY DEF AssemblerInv
  <2> QED BY <2>1, Numbers, ConstantTypes DEF Types
<1> QED BY <1>1, ConstantTypes

(* What is awaited after a chunk of a wanted frame s, other than s.        *)
LEMMA OthersAwaited ==
  ASSUME AssemblerInv, resend, NEW s \in Sequence, Wanted(s),
         NEW t, t \in DOMAIN RoomFor(s) \/ t \in DOMAIN UnseenAfter(s),
         newest' = IF s > newest THEN s ELSE newest
  PROVE  t \in Sequence /\ completed < t /\ t <= newest' /\ t \notin held
<1>1. Types /\ Apart
  BY DEF AssemblerInv
<1>2. newest' \in Int /\ newest' >= newest /\ s <= newest'
  BY NewestGrows
<1>3. newest \in Int /\ completed \in Int /\ s \in Int
  BY <1>1, Numbers
<1>4. CASE t \in DOMAIN partial \union DOMAIN unseen
  <2>1. t \in Sequence /\ completed < t /\ t <= newest /\ t \notin held
    BY <1>4, AwaitedIsMissing
  <2>2. t \in Int
    BY <2>1, ConstantTypes
  <2> QED BY <1>2, <1>3, <2>1, <2>2
<1>5. CASE t \in DOMAIN UnseenAfter(s) /\ newest < t /\ t < s
  <2>1. t \in Sequence /\ t \in Int
    <3> t \in Sequence
      BY <1>1, <1>5, UnseenFacts
    <3> QED BY ConstantTypes
  <2>2. completed < t /\ t <= newest'
    <3>1. completed <= newest
      BY <1>1 DEF Apart
    <3> QED BY <1>2, <1>3, <1>5, <2>1, <3>1
  <2>3. t \notin held
    <3> SUFFICES ASSUME t \in held PROVE FALSE
      OBVIOUS
    <3>1. t <= newest
      BY <1>1 DEF Apart
    <3> QED BY <1>3, <1>5, <2>1, <3>1
  <2> QED BY <2>1, <2>2, <2>3
<1> QED BY <1>1, <1>4, <1>5, RoomForFacts, LiveFacts, UnseenFacts

LEMMA AddChunkKeepsInv ==
  ASSUME AssemblerInv, NEW s \in Sequence, NEW c \in Chunks[s], AddChunk(s, c),
         resend' = resend, silence' = 0
  PROVE  AssemblerInv' /\ LossIsReal /\ SkipsReported
<1> DEFINE pending == DOMAIN partial' \union DOMAIN unseen'
           lost == Expired \/ Overflows(s)
<1>1. Types /\ held \subseteq Sequence
  BY DEF AssemblerInv, Types
<1>2. /\ Wanted(s) /\ WithChunk(s, c).got # Chunks[s]
      /\ partial' = [t \in {s} \union DOMAIN RoomFor(s) |->
                       IF t = s THEN WithChunk(s, c) ELSE RoomFor(s)[t]]
      /\ unseen' = UnseenAfter(s)
      /\ newest' = IF s > newest THEN s ELSE newest
      /\ HandOut(lost, held, pending)
  BY DEF AddChunk
<1>3. newest' \in Sequence /\ newest' \in Int /\ newest' >= newest /\ s <= newest'
  BY <1>2, NewestGrows
<1>4. DOMAIN partial' = {s} \union DOMAIN RoomFor(s)
      /\ \A t \in DOMAIN partial' : partial'[t] = IF t = s THEN WithChunk(s, c) ELSE RoomFor(s)[t]
  BY <1>2
<1>5. OpenFrames(partial')
  <2> SUFFICES ASSUME NEW t \in DOMAIN partial' PROVE t \in Sequence /\ OpenFrame(t, partial'[t])
    BY DEF OpenFrames
  <2>1. CASE t = s
    BY <1>1, <1>2, <1>4, <2>1, WithChunkFacts DEF OpenFrame
  <2>2. CASE t # s
    <3>1. t \in DOMAIN LivePartial /\ partial'[t] = LivePartial[t]
      BY <1>1, <1>4, <2>2, RoomForFacts
    <3> QED BY <1>1, <3>1, LiveIsOpen DEF OpenFrames
  <2> QED BY <2>1, <2>2
<1>6. AwaitedFrames(unseen')
  <2>1. CASE resend
    BY <1>1, <1>2, <2>1, UnseenFacts DEF AwaitedFrames
  <2>2. CASE ~resend
    <3> unseen' = <<>> /\ DOMAIN <<>> = {}
      BY <1>2, <2>2 DEF UnseenAfter
    <3> QED BY DEF AwaitedFrames
  <2> QED BY <2>1, <2>2
<1>7. ASSUME resend
      PROVE  /\ Ordered(held, pending)
             /\ \A t \in held \union pending : t <= newest'
             /\ lost => /\ held \intersect Keyframes = {}
                        /\ \E t \in Sequence : Justifies(t, held)
  <2>1. \A t \in pending : t \in Sequence /\ completed < t /\ t <= newest' /\ t \notin held
    <3> SUFFICES ASSUME NEW t \in pending
                 PROVE  t \in Sequence /\ completed < t /\ t <= newest' /\ t \notin held
      OBVIOUS
    <3>1. CASE t = s
      <4>1. s > completed /\ s \notin held /\ completed \in Int /\ s \in Int
        BY <1>1, <1>2, Numbers DEF Wanted
      <4> QED BY <1>3, <3>1, <4>1
    <3>2. CASE t # s
      BY <1>2, <1>4, <1>7, <3>2, OthersAwaited
    <3> QED BY <3>1, <3>2
  <2>2. Ordered(held, pending) /\ held \intersect Keyframes = {}
    <3> HIDE DEF pending
    <3>1. pending \in SUBSET Sequence
      BY <2>1
    <3> QED BY <1>7, <2>1, <3>1, HeldIsOrdered
  <2>3. \A t \in held : t <= newest'
    <3>1. \A t \in held : t <= newest /\ t \in Int
      BY <1>1, <1>7, Numbers DEF AssemblerInv, Apart
    <3>2. newest \in Int
      BY <1>1, Numbers
    <3> QED BY <1>3, <3>1, <3>2
  <2>4. lost => \E t \in Sequence : Justifies(t, held)
    BY <1>3, <1>7, ExpiredJustifies, OverflowJustifies
  <2> QED BY <2>1, <2>2, <2>3, <2>4
<1>8. lost \in BOOLEAN
  BY DEF Expired, Overflows
<1> HIDE DEF lost
<1> QED BY <1>1, <1>2, <1>3, <1>5, <1>6, <1>7, <1>8, HandOutKeepsInv

LEMMA OthersFacts ==
  ASSUME Types, NEW s
  PROVE  /\ OpenFrames(Others(s))
         /\ DOMAIN Others(s) \subseteq DOMAIN RoomFor(s) /\ s \notin DOMAIN Others(s)
<1>1. DOMAIN Others(s) = DOMAIN RoomFor(s) \ {s} /\ \A t \in DOMAIN Others(s) : Others(s)[t] = RoomFor(s)[t]
  BY DEF Others, Restrict
<1>2. \A t \in DOMAIN Others(s) : t \in DOMAIN LivePartial /\ Others(s)[t] = LivePartial[t]
  BY <1>1, RoomForFacts
<1> QED BY <1>1, <1>2, LiveIsOpen DEF OpenFrames

(* A keyframe leaves only what is newer.                                   *)
LEMMA StillAwaitedFacts ==
  ASSUME NEW s, NEW f
  PROVE  /\ DOMAIN StillAwaited(s, f) \subseteq DOMAIN f
         /\ \A t \in DOMAIN StillAwaited(s, f) : StillAwaited(s, f)[t] = f[t]
         /\ s \in Keyframes => \A t \in DOMAIN StillAwaited(s, f) : t >= s
BY DEF StillAwaited, From, Restrict

LEMMA CompleteHeldFrameKeepsInv ==
  ASSUME AssemblerInv, NEW s \in Sequence, NEW c \in Chunks[s], CompleteHeldFrame(s, c),
         resend' = resend, silence' = 0
  PROVE  AssemblerInv' /\ LossIsReal /\ SkipsReported
<1> DEFINE pending == DOMAIN partial' \union DOMAIN unseen'
           waiting == {s} \union {t \in held : s \in Keyframes => t >= s}
           lost == LossBefore(s)
<1>1. Types /\ Apart /\ held \subseteq Sequence /\ Sequence \subseteq Int
  <2>1. Types /\ Apart
    BY DEF AssemblerInv, CompleteHeldFrame
  <2> QED BY <2>1, Numbers
<1>2. /\ resend /\ Wanted(s) /\ WithChunk(s, c).got = Chunks[s]
      /\ partial' = StillAwaited(s, Others(s))
      /\ unseen' = StillAwaited(s, UnseenAfter(s))
      /\ newest' = IF s > newest THEN s ELSE newest
      /\ HandOut(lost, waiting, pending)
  BY DEF CompleteHeldFrame
<1>3. newest' \in Sequence /\ newest' \in Int /\ newest' >= newest /\ s <= newest'
  BY <1>2, NewestGrows
<1>4. OpenFrames(partial') /\ AwaitedFrames(unseen')
  <2>1. OpenFrames(partial')
    BY <1>1, <1>2, OthersFacts, StillAwaitedFacts DEF OpenFrames
  <2>2. \A t \in DOMAIN unseen' : t \in DOMAIN UnseenAfter(s) /\ unseen'[t] = UnseenAfter(s)[t]
    BY <1>2, StillAwaitedFacts
  <2>3. AwaitedFrames(unseen')
    BY <1>1, <1>2, <2>2, UnseenFacts DEF AwaitedFrames
  <2> QED BY <2>1, <2>3
<1>5. waiting \subseteq Sequence /\ waiting \subseteq held \union {s}
  BY <1>1
<1>6. s > completed /\ s \notin held /\ completed \in Int /\ newest \in Int
  BY <1>1, <1>2, Numbers DEF Wanted
<1>7. \A t \in pending : t \in Sequence /\ completed < t /\ t <= newest' /\ t \notin held /\ t # s
  <2> SUFFICES ASSUME NEW t \in pending
               PROVE  t \in Sequence /\ completed < t /\ t <= newest' /\ t \notin held /\ t # s
    OBVIOUS
  <2>1. t \in DOMAIN Others(s) \/ t \in DOMAIN UnseenAfter(s)
    BY <1>2, StillAwaitedFacts
  <2>2. t \in DOMAIN RoomFor(s) \/ t \in DOMAIN UnseenAfter(s)
    BY <1>1, <2>1, OthersFacts
  <2>3. t # s
    BY <1>1, <1>2, <2>1, OthersFacts, UnseenFacts
  <2> QED BY <1>2, <2>2, <2>3, OthersAwaited
<1>8. s \in Keyframes => \A t \in waiting \union pending : s <= t
  <2> SUFFICES ASSUME s \in Keyframes, NEW t \in waiting \union pending PROVE s <= t
    OBVIOUS
  <2>1. CASE t \in waiting
    BY <1>1, <2>1
  <2>2. CASE t \in pending
    <3>1. t >= s
      BY <1>2, <2>2, StillAwaitedFacts
    <3>2. t \in Int /\ s \in Int
      BY <1>1, <1>7, <2>2
    <3> QED BY <3>1, <3>2
  <2> QED BY <2>1, <2>2
<1>9. \A w \in waiting : w > completed /\ w <= newest' /\ w \notin pending /\ (w \in Keyframes => w = s)
  <2> SUFFICES ASSUME NEW w \in waiting
               PROVE  w > completed /\ w <= newest' /\ w \notin pending /\ (w \in Keyframes => w = s)
    OBVIOUS
  <2>1. w \notin pending
    BY <1>5, <1>7
  <2>2. CASE w = s
    BY <1>3, <1>6, <2>1, <2>2
  <2>3. CASE w \in held
    <3>1. completed < w /\ w <= newest /\ w \notin Keyframes
      BY <1>1, <2>3 DEF Apart
    <3>2. w \in Int
      BY <1>1, <2>3
    <3> QED BY <1>3, <1>6, <2>1, <3>1, <3>2
  <2> QED BY <2>2, <2>3
<1> HIDE DEF pending, waiting
<1>10. Ordered(waiting, pending)
  <2>1. pending \subseteq Sequence /\ \A t \in pending : t > completed
    BY <1>1, <1>6, <1>7
  <2> QED BY <1>5, <1>8, <1>9, <2>1 DEF Ordered
<1>11. \A t \in waiting \union pending : t <= newest'
  BY <1>7, <1>9
<1>12. lost => /\ waiting \intersect Keyframes = {}
               /\ \E t \in Sequence : Justifies(t, waiting)
  <2> SUFFICES ASSUME s \notin Keyframes, Expired \/ Overflows(s)
               PROVE  /\ waiting \intersect Keyframes = {}
                      /\ \E t \in Sequence : Justifies(t, waiting)
    BY DEF LossBefore
  <2>1. waiting \intersect Keyframes = {}
    BY <1>9
  <2> QED BY <1>2, <1>3, <1>5, <2>1, ExpiredJustifies, OverflowJustifies
<1>13. lost \in BOOLEAN
  BY DEF LossBefore, Expired, Overflows
<1> HIDE DEF lost
<1> QED BY <1>2, <1>3, <1>4, <1>5, <1>10, <1>11, <1>12, <1>13, HandOutKeepsInv DEF pending

(* Without resends a frame goes out as soon as it is complete.             *)
LEMMA CompleteFrameKeepsInv ==
  ASSUME AssemblerInv, NEW s \in Sequence, NEW c \in Chunks[s], CompleteFrame(s, c),
         resend' = resend, silence' = 0
  PROVE  AssemblerInv' /\ LossIsReal /\ SkipsReported
<1>1. /\ ~resend /\ Wanted(s)
      /\ partial' = Others(s)
      /\ newest' = IF s > newest THEN s ELSE newest
      /\ completed' = s /\ handed' = handed \union {s}
      /\ result' = [frames |-> <<s>>, lost |-> LossBefore(s) \/ LossAfter(<<s>>, 1, 1, FALSE)]
      /\ unseen' = unseen /\ held' = held /\ owed' = owed
  BY DEF CompleteFrame
<1>2. Types /\ newest' \in Sequence
  BY <1>1, NewestGrows DEF AssemblerInv
<1>3. Types'
  <2>1. OpenFrames(partial')
    BY <1>1, <1>2, OthersFacts
  <2> QED BY <1>1, <1>2, <2>1 DEF Types, OpenFrames, OpenFrame
<1>4. SkipsReported
  <2>1. DOMAIN result'.frames = {1} /\ result'.frames[1] = s /\ Len(result'.frames) = 1
    BY <1>1
  <2>2. Before(result'.frames, 1) = completed
    BY DEF Before
  <2>3. s > completed
    BY <1>1 DEF Wanted
  <2>4. Skipped(completed, s) /\ s \notin Keyframes => result'.lost
    <3> SUFFICES ASSUME Skipped(completed, s), s \notin Keyframes PROVE LossAfter(<<s>>, 1, 1, FALSE)
      BY <1>1
    <3>1. Before(<<s>>, 1) = completed /\ <<s>>[1] = s /\ 1..1 = {1}
      BY DEF Before
    <3> QED BY <3>1 DEF LossAfter
  <2> QED BY <2>1, <2>2, <2>3, <2>4 DEF SkipsReported
<1>5. LossIsReal
  BY <1>1 DEF LossIsReal
<1> QED BY <1>1, <1>3, <1>4, <1>5 DEF AssemblerInv

LEMMA TickKeepsInv ==
  ASSUME AssemblerInv, Tick
  PROVE  AssemblerInv' /\ LossIsReal /\ SkipsReported
<1>1. /\ silence' = silence + 1
      /\ partial' = [s \in DOMAIN partial |->
                       [partial[s] EXCEPT !.left = @ - 1, !.age = Least(@ + 1, 2 * Budget)]]
      /\ unseen' = [s \in DOMAIN unseen |-> IF unseen[s] = 0 THEN 0 ELSE unseen[s] - 1]
      /\ UNCHANGED <<resend, newest, completed, held, owed, result, handed>>
  BY DEF Tick
<1>2. silence \in Nat /\ Types
  BY DEF AssemblerInv, Types
<1>3. \A s \in DOMAIN partial : OpenFrame(s, partial'[s])
  <2> TAKE s \in DOMAIN partial
  <2> DEFINE f == partial[s]
  <2>1. f \in [got : SUBSET Chunks[s], left : Int, age : Nat] /\ f.got # {} /\ f.got # Chunks[s]
    BY <1>2 DEF Types, PartialFrame
  <2>2. partial'[s] = [f EXCEPT !.left = f.left - 1, !.age = Least(f.age + 1, 2 * Budget)]
    BY <1>1
  <2> HIDE DEF f
  <2>3. f.left - 1 \in Int /\ Least(f.age + 1, 2 * Budget) \in Nat
    BY <2>1, ConstantTypes DEF Least
  <2>4. partial'[s] \in [got : SUBSET Chunks[s], left : Int, age : Nat] /\ partial'[s].got = f.got
    BY <2>1, <2>2, <2>3
  <2> QED BY <2>1, <2>4 DEF OpenFrame, PartialFrame
<1>4. DOMAIN partial' = DOMAIN partial /\ DOMAIN unseen' = DOMAIN unseen
  BY <1>1
<1>5. \A s \in DOMAIN unseen : unseen'[s] \in Nat
  <2> TAKE s \in DOMAIN unseen
  <2>1. unseen[s] \in Nat /\ unseen'[s] = IF unseen[s] = 0 THEN 0 ELSE unseen[s] - 1
    BY <1>1, <1>2 DEF Types
  <2> QED BY <2>1
<1>6. Types'
  <2>1. silence' \in Nat
    <3>1. silence' = silence + 1
      BY <1>1
    <3>2. silence \in Nat
      BY <1>2
    <3> QED BY <3>1, <3>2
  <2>2. /\ resend' = resend /\ newest' = newest /\ completed' = completed /\ held' = held
        /\ owed' = owed /\ handed' = handed
    BY <1>1
  <2> QED BY <1>2, <1>3, <1>4, <1>5, <2>1, <2>2 DEF Types, OpenFrame
<1>7. Apart => Apart'
  BY <1>1, <1>4 DEF Apart, OwedReal, Missing
<1>8. silence' # 0
  <2> silence' = silence + 1
    BY <1>1
  <2> QED BY <1>2
<1> QED BY <1>1, <1>6, <1>7, <1>8 DEF AssemblerInv, LossIsReal, SkipsReported

(* The invariant is inductive, and every step it allows reports truly.     *)
LEMMA AssemblerInvHolds ==
  /\ Init => AssemblerInv
  /\ AssemblerInv /\ [Next]_vars => AssemblerInv' /\ [LossIsReal /\ SkipsReported]_vars
<1>1. Init => AssemblerInv
  <2> HAVE Init
  <2>1. DOMAIN partial = {} /\ DOMAIN unseen = {} /\ held = {} /\ handed = {} /\ owed = FALSE
        /\ newest = -1 /\ completed = -1 /\ silence = 0 /\ resend \in BOOLEAN
    BY DEF Init, None
  <2>2. Types
    BY <2>1 DEF Types, None
  <2>3. Apart
    BY <2>1 DEF Apart, OwedReal
  <2> QED BY <2>2, <2>3 DEF AssemblerInv
<1>2. ASSUME AssemblerInv, [Next]_vars
      PROVE  AssemblerInv' /\ [LossIsReal /\ SkipsReported]_vars
  <2>1. CASE Tick
    BY <1>2, <2>1, TickKeepsInv
  <2>2. ASSUME NEW s \in Sequence, NEW c \in Chunks[s], Push(s, c)
        PROVE  AssemblerInv' /\ LossIsReal /\ SkipsReported
    <3>1. resend' = resend /\ silence' = 0
      BY <2>2 DEF Push
    <3>2. CASE IgnoreChunk(s)
      <4>1. Expired \in BOOLEAN
        BY DEF Expired
      <4> QED BY <1>2, <3>1, <3>2, <4>1, LateChunkKeepsInv DEF IgnoreChunk
    <3>3. CASE RefuseLateChunk(s)
      BY <1>2, <3>1, <3>3, LateChunkKeepsInv DEF RefuseLateChunk
    <3>4. CASE AddChunk(s, c)
      BY <1>2, <3>1, <3>4, AddChunkKeepsInv
    <3>5. CASE CompleteHeldFrame(s, c)
      BY <1>2, <3>1, <3>5, CompleteHeldFrameKeepsInv
    <3>6. CASE CompleteFrame(s, c)
      BY <1>2, <3>1, <3>6, CompleteFrameKeepsInv
    <3> QED BY <2>2, <3>2, <3>3, <3>4, <3>5, <3>6 DEF Push
  <2>3. CASE UNCHANGED vars
    BY <1>2, <2>3 DEF vars, AssemblerInv, Types, Apart, OwedReal, Missing
  <2> QED BY <1>2, <2>1, <2>2, <2>3 DEF Next
<1> QED BY <1>1, <1>2

(* With resends a loss is reported only when a frame is missing that the   *)
(* decoder can still need, or arrives when its time has just passed        *)
(* (video_datagram.rs, push_chunk and next_ready).                         *)
THEOREM LossesAlwaysReal == Spec => LossesAreReal
<1>1. AssemblerInv /\ [Next]_vars => [LossIsReal]_vars
  BY AssemblerInvHolds
<1> QED BY <1>1, AssemblerInvHolds, PTL DEF Spec, LossesAreReal

(* Frames come out in order, and no gap goes unreported.                   *)
THEOREM LossesAlwaysReported == Spec => LossesReported
<1>1. AssemblerInv /\ [Next]_vars => [SkipsReported]_vars
  BY AssemblerInvHolds
<1> QED BY <1>1, AssemblerInvHolds, PTL DEF Spec, LossesReported

-----------------------------------------------------------------------------
(* VideoRepair: every frame is repaired in time. *)

(* The chunks that a request asks for, and a credit that covers it.        *)
Requested(ask) == IF ask.chunks = {} THEN Chunks[ask.seq] ELSE ask.chunks
CreditSuffices == surroundings = "host" => \A ask \in asks : Cardinality(Requested(ask)) <= credit

(* The time that n unanswered requests take.                               *)
Rounds(n) == IF n <= 0 THEN 0 ELSE n * Retry

(* A frame of more than two chunks may be asked for twice before all of it *)
(* is known to be sent.                                                    *)
Late == IF \A s \in 0..LastFrame : LastChunk(s) <= 2 THEN 0 ELSE Retry

(* The longest that a frame is repaired after it is open, and the longest  *)
(* from when it is sent.                                                   *)
Repairing == Delay + TailQuiet + Rounds(MaxLosses - 1) + 2 * Delay + Late
Longest == FramePeriod + 2 * Delay + 2 + Repairing

(* The times between which repair always works: a datagram is faster than  *)
(* the next frame, a chunk that is repaired arrives before it is asked for *)
(* again, the deadline leaves time for every loss, and no frame is so late *)
(* that the window or the host has left it behind.                         *)
Timing ==
  /\ Delay < FramePeriod /\ FramePeriod <= Retry
  /\ 2 * Delay + TailQuiet <= Retry
  /\ Repairing < Budget
  /\ Longest < Window * FramePeriod
  /\ MaxLosses <= Window
  /\ Window < RecentFrames

LEMMA RepairConstants ==
  /\ FramePeriod \in Nat \ {0} /\ Retry \in Nat \ {0} /\ TailQuiet \in Nat \ {0}
  /\ AnnouncementDelay \in Nat \ {0} /\ RecentFrames \in Nat \ {0}
  /\ Delay \in Nat /\ MaxLosses \in Nat /\ FirstFrame \in Nat
  /\ Window \in Nat \ {0} /\ Budget \in Nat \ {0}
  /\ LastFrame \in Nat /\ LastFrame <= MaxSequence /\ MaxSequence \in Nat
  /\ None = -1
BY RepairAssumption, ConstantsAssumption DEF None

LEMMA ChunksAreNumbered ==
  ASSUME NEW s \in Int, 0 <= s, s <= LastFrame
  PROVE  /\ s \in Sequence
         /\ Chunks[s] # {} /\ LastChunk(s) \in Chunks[s]
         /\ LastChunk(s) \in Nat /\ 1 <= LastChunk(s)
         /\ \A c : c \in Chunks[s] <=> c \in Int /\ 1 <= c /\ c <= LastChunk(s)
<1>0. s \in 0..LastFrame /\ s \in 0..MaxSequence
  BY RepairConstants
<1>1. IsFiniteSet(Chunks[s]) /\ Chunks[s] = 1..LastChunk(s) /\ Chunks[s] # {}
  BY <1>0, RepairAssumption, ConstantsAssumption DEF LastChunk
<1>2. Chunks[s] \in SUBSET Int
  BY <1>1
<1>3. LastChunk(s) \in Chunks[s]
  BY <1>1, <1>2, Extremes DEF LastChunk
<1> HIDE DEF LastChunk
<1>4. LastChunk(s) \in Int
  BY <1>2, <1>3
<1>5. 1 <= LastChunk(s) /\ \A c : c \in Chunks[s] <=> c \in Int /\ 1 <= c /\ c <= LastChunk(s)
  BY <1>1, <1>3, <1>4
<1> QED BY <1>0, <1>1, <1>3, <1>4, <1>5 DEF Sequence

(* More requests take more time.                                           *)
LEMMA RoundsGrow ==
  /\ \A n \in Int : Rounds(n) \in Nat
  /\ \A n, m \in Int : m <= n => Rounds(m) <= Rounds(n)
  /\ \A n \in Nat : Rounds(n + 1) = Rounds(n) + Retry
  /\ \A n \in Int : Rounds(n + 1) <= Rounds(n) + Retry
  /\ \A n \in Int : n <= 0 => Rounds(n) = 0
<1>0. Retry \in Nat
  BY RepairConstants
<1>1. \A n \in Nat : n * Retry \in Nat /\ (n + 1) * Retry = n * Retry + Retry
  BY <1>0
<1>2. \A n, m \in Nat : m <= n => m * Retry <= n * Retry
  <2> SUFFICES ASSUME NEW n \in Nat, NEW m \in Nat, m <= n PROVE m * Retry <= n * Retry
    OBVIOUS
  <2>1. n - m \in Nat /\ n = m + (n - m)
    OBVIOUS
  <2>2. \A k \in Nat : (m + k) * Retry = m * Retry + k * Retry /\ k * Retry \in Nat /\ m * Retry \in Nat
    BY <1>0
  <2>3. \A x, y, z \in Nat : x = y + z => y <= x
    OBVIOUS
  <2>4. n * Retry = m * Retry + (n - m) * Retry /\ (n - m) * Retry \in Nat /\ m * Retry \in Nat
    BY <2>1, <2>2
  <2> QED BY <1>0, <2>3, <2>4
<1>3. \A n \in Int : Rounds(n) \in Nat
  BY <1>1 DEF Rounds
<1>4. \A n, m \in Int : m <= n => Rounds(m) <= Rounds(n)
  <2> SUFFICES ASSUME NEW n \in Int, NEW m \in Int, m <= n PROVE Rounds(m) <= Rounds(n)
    OBVIOUS
  <2>1. CASE m <= 0
    BY <1>3, <2>1 DEF Rounds
  <2>2. CASE m > 0
    <3>1. m \in Nat /\ n \in Nat /\ n > 0
      BY <2>2
    <3> QED BY <1>2, <2>2, <3>1 DEF Rounds
  <2> QED BY <2>1, <2>2
<1>5. \A n \in Nat : Rounds(n + 1) = Rounds(n) + Retry
  <2> TAKE n \in Nat
  <2>1. CASE n = 0
    BY <1>0, <2>1 DEF Rounds
  <2>2. CASE n > 0
    BY <1>1, <2>2 DEF Rounds
  <2> QED BY <2>1, <2>2
<1>6. \A n \in Int : Rounds(n + 1) <= Rounds(n) + Retry
  <2> TAKE n \in Int
  <2>1. CASE n < 0
    <3>1. Rounds(n + 1) = 0 /\ Rounds(n) = 0
      BY <2>1 DEF Rounds
    <3> QED BY <1>0, <3>1
  <2>2. CASE n >= 0
    BY <1>0, <1>3, <1>5, <2>2
  <2> QED BY <2>1, <2>2
<1>7. \A n \in Int : n <= 0 => Rounds(n) = 0
  BY DEF Rounds
<1> QED BY <1>3, <1>4, <1>5, <1>6, <1>7

(* A frame lost whole costs a period, but also a loss.                     *)
LEMMA PeriodForRound ==
  ASSUME Timing, NEW g \in Nat \ {0}, NEW k \in Int, g + k <= MaxLosses, k >= 0
  PROVE  g * FramePeriod + Rounds(k) <= FramePeriod + Rounds(MaxLosses - 1)
<1>1. /\ FramePeriod \in Nat /\ Retry \in Nat /\ MaxLosses \in Nat /\ FramePeriod <= Retry
      /\ g - 1 \in Nat /\ MaxLosses - 1 \in Nat /\ k \in Nat
  BY RepairConstants DEF Timing
<1>2. g * FramePeriod = FramePeriod + (g - 1) * FramePeriod
  BY <1>1
<1>3. (g - 1) * FramePeriod <= (g - 1) * Retry
  <2> DEFINE h == g - 1
             r == Retry - FramePeriod
  <2>1. h \in Nat /\ r \in Nat /\ Retry = FramePeriod + r
    BY <1>1
  <2> HIDE DEF h, r
  <2>2. h * Retry = h * FramePeriod + h * r /\ h * r \in Nat /\ h * FramePeriod \in Nat
    BY <1>1, <2>1
  <2>3. h * FramePeriod <= h * Retry
    BY <2>2
  <2> QED BY <2>3 DEF h
<1>4. Rounds(k) = k * Retry /\ Rounds(k + (g - 1)) = (k + (g - 1)) * Retry
  BY <1>1 DEF Rounds
<1>5. (k + (g - 1)) * Retry = k * Retry + (g - 1) * Retry
  BY <1>1
<1>6. k + (g - 1) \in Int /\ k + (g - 1) <= MaxLosses - 1
  BY <1>1
<1>7. Rounds(k + (g - 1)) <= Rounds(MaxLosses - 1)
  BY <1>1, <1>6, RoundsGrow
<1>8. k * Retry \in Nat /\ (g - 1) * Retry \in Nat /\ (g - 1) * FramePeriod \in Nat /\ Rounds(MaxLosses - 1) \in Nat
  BY <1>1, RoundsGrow
<1> QED BY <1>1, <1>2, <1>3, <1>4, <1>5, <1>7, <1>8

(* What the times are, from what is assumed of them.                       *)
LEMMA TimingFacts ==
  ASSUME Timing
  PROVE  /\ Late \in Nat /\ (Late = 0 \/ Late = Retry) /\ Repairing \in Nat /\ Longest \in Nat
         /\ Window >= 2 /\ Rounds(MaxLosses - 1) \in Nat
<1>1. Late \in Nat /\ (Late = 0 \/ Late = Retry)
  BY RepairConstants DEF Late
<1>2. Rounds(MaxLosses - 1) \in Nat
  BY RepairConstants, RoundsGrow
<1>3. Repairing \in Nat
  BY <1>1, <1>2, RepairConstants DEF Repairing
<1>4. Longest \in Nat /\ Longest > FramePeriod
  BY <1>3, RepairConstants DEF Longest
<1>5. Window >= 2
  <2> SUFFICES ASSUME Window = 1 PROVE FALSE
    BY RepairConstants
  <2>1. Window * FramePeriod = FramePeriod
    BY RepairConstants
  <2>2. Longest < FramePeriod
    BY <2>1 DEF Timing
  <2> QED BY <1>4, <2>2, RepairConstants
<1> QED BY <1>1, <1>2, <1>3, <1>4, <1>5

(* The frames that are open, what is on its way to them, and what the      *)
(* player knows of them.                                                   *)
Open == DOMAIN partial \union DOMAIN unseen
Has(s) == IF s \in DOMAIN partial THEN partial[s].got ELSE {}
Left(s) == IF s \in DOMAIN partial THEN partial[s].left ELSE unseen[s]
Asked(s) == IF s \in DOMAIN partial THEN partialAsked[s] ELSE unseenAsked[s]

OriginalOf(s, c) == \E d \in wire : d.seq = s /\ d.chunk = c /\ d.copy = "original"
Flying(s) == \E d \in wire : d.seq = s /\ d.copy = "original"
RepairOf(s, c) ==
  \/ \E d \in wire : d.seq = s /\ d.chunk = c /\ d.copy = "repair"
  \/ \E ask \in asks : ask.seq = s /\ c \in Requested(ask)
Sent(s, c) == IF OriginalOf(s, c) THEN 1 ELSE 0
Again(s, c) == IF RepairOf(s, c) THEN 1 ELSE 0

Checks == IF checked THEN 1 ELSE 0
Still == MaxLosses - losses
SinceFrame == FramePeriod - nextFrameIn
Elapsed(s) == (sentThrough - s) * FramePeriod + SinceFrame

(* The time until the player asks for what is missing, and until it        *)
(* arrives although every loss that is still to come hits it.              *)
Ended(s) == s < newest \/ LastChunk(s) \in Has(s)
ToAsk(s) ==
  IF Ended(s) THEN Checks
  ELSE IF Flying(s) THEN Delay - SinceFrame + TailQuiet
  ELSE IF quiet[s] < TailQuiet THEN TailQuiet - quiet[s] ELSE Checks
Extra(s) == IF s \in DOMAIN partial THEN Late ELSE 0
Remaining(s, c) ==
  IF Asked(s) = None THEN ToAsk(s) + Rounds(Still - Sent(s, c)) + 2 * Delay + Extra(s)
  ELSE Rounds(Still + 1 - Sent(s, c) - Again(s, c)) + 2 * Delay - Asked(s)
Limit(s) == IF s \in DOMAIN partial THEN Longest ELSE Longest - (2 * Delay + 1 + Late)

-----------------------------------------------------------------------------
(* The invariant, in parts. *)

HostTypes ==
  /\ sentThrough \in Int /\ -1 <= sentThrough /\ sentThrough <= LastFrame
  /\ nextFrameIn \in Nat /\ (sentThrough # None => nextFrameIn <= FramePeriod)
  /\ announceIn \in Int /\ (announceIn # None => sentThrough # None) /\ credit \in Int
  /\ checked \in BOOLEAN /\ losses \in Nat /\ losses <= MaxLosses
  /\ DOMAIN partialAsked = DOMAIN partial /\ DOMAIN quiet = DOMAIN partial
  /\ DOMAIN unseenAsked = DOMAIN unseen

(* Originals are of the newest frame and in step with its time; an         *)
(* announcement may arrive just after the next frame.                      *)
OnWire(d) ==
  /\ d \in [seq : Int, chunk : Int, left : Int, copy : {"original", "announcement", "repair"}]
  /\ 0 <= d.seq /\ d.seq <= sentThrough /\ d.chunk \in Chunks[d.seq]
  /\ 0 <= d.left /\ d.left <= Delay
  /\ d.copy = "original" => d.seq = sentThrough /\ d.left = Delay - SinceFrame
  /\ d.copy = "announcement" =>
       /\ d.chunk = LastChunk(d.seq)
       /\ d.seq = sentThrough \/ (d.seq = sentThrough - 1 /\ d.left + SinceFrame <= Delay)

(* Only an open frame was asked for, or one that is not wanted any more.   *)
AskedFor(s) ==
  /\ s <= newest
  /\ Wanted(s) => s \in Open
  /\ s \in Open /\ Asked(s) = None => s < newest
Asking(ask) ==
  /\ ask \in [seq : Int, chunks : SUBSET Int, left : Int]
  /\ 0 <= ask.seq /\ ask.chunks \subseteq Chunks[ask.seq]
  /\ 0 <= ask.left /\ ask.left <= Delay
  /\ AskedFor(ask.seq)
Links ==
  /\ \A d \in wire : OnWire(d) /\ (d.copy = "repair" => AskedFor(d.seq))
  /\ \A ask \in asks : Asking(ask)

(* Every frame that was sent and never seen cost a loss; without a loss    *)
(* every chunk of a frame that is wanted is here or on its way.            *)
Losses ==
  /\ newest <= sentThrough
  /\ sentThrough - newest <= losses + (IF Flying(sentThrough) THEN 1 ELSE 0)
  /\ losses = 0 => \A s \in 0..sentThrough : Wanted(s) =>
                     \A c \in Chunks[s] : c \in Has(s) \/ OriginalOf(s, c)

(* Every frame after one that is open, held or out is open or held.        *)
Contiguous ==
  /\ \A s \in DOMAIN unseen : s < newest /\ s \notin DOMAIN partial
  /\ \A t \in Open \union held \union ({completed} \ {None}) :
       \A s \in (t + 1)..newest : s \in Open \union held
  /\ newest # None => newest \in Open \union held \union {completed}

Timed(s) ==
  /\ Asked(s) \in Int /\ -1 <= Asked(s) /\ Asked(s) <= Retry
  /\ Asked(s) = Retry => ~checked
  /\ Asked(s) # None =>
       /\ \A ask \in asks : ask.seq = s => ask.left + Asked(s) <= Delay
       /\ \A d \in wire : d.seq = s /\ d.copy = "repair" => d.left + Asked(s) <= 2 * Delay
       /\ \A d \in wire : d.seq = s /\ d.copy = "original" => d.left + Asked(s) <= Delay
Quiet(s) ==
  /\ quiet[s] \in Int /\ 0 <= quiet[s] /\ quiet[s] <= TailQuiet
  /\ partial[s].left + partial[s].age <= 2 * Budget
  /\ Asked(s) # None => Ended(s) \/ quiet[s] >= TailQuiet \/ quiet[s] + 2 * Delay >= Asked(s)
InTime(s, c) ==
  /\ Remaining(s, c) < Left(s)
  /\ Elapsed(s) + Remaining(s, c) <= Limit(s)
Times ==
  /\ \A s \in Open : Timed(s)
  /\ \A s \in DOMAIN partial : Quiet(s)
Deadlines == \A s \in Open : \A c \in Chunks[s] : c \notin Has(s) => InTime(s, c)

Faultless == resend /\ ~owed /\ ~result.lost

HostInv ==
  /\ AssemblerInv /\ HostTypes /\ Links /\ Losses /\ Contiguous /\ Times /\ Deadlines /\ Faultless

-----------------------------------------------------------------------------

(* A frame that is open was sent and is not out.                           *)
LEMMA OpenFacts ==
  ASSUME HostInv, NEW s \in Open
  PROVE  /\ s \in Int /\ 0 <= s /\ s <= newest /\ s <= sentThrough /\ s <= LastFrame /\ s \in Sequence
         /\ newest \in Int /\ completed \in Int /\ completed < s /\ s \notin held
         /\ s \in DOMAIN partial \/ s \in DOMAIN unseen
         /\ s \in DOMAIN unseen => s < newest /\ s \notin DOMAIN partial
         /\ Left(s) \in Int /\ Has(s) \subseteq Chunks[s]
<1>1. Types /\ Apart /\ HostTypes /\ newest <= sentThrough /\ resend
  BY DEF HostInv, AssemblerInv, Losses, Faultless
<1>2. newest \in Int /\ completed \in Int
  BY <1>1, Numbers
<1>3. s \in Sequence /\ completed < s /\ s <= newest /\ s \notin held
  BY <1>1 DEF Open, Types, Apart
<1>4. s \in Int /\ 0 <= s
  BY <1>3, ConstantTypes DEF Sequence
<1>5. s \in DOMAIN unseen => s < newest /\ s \notin DOMAIN partial
  BY DEF HostInv, Contiguous
<1>6. Left(s) \in Int /\ Has(s) \subseteq Chunks[s]
  <2>1. CASE s \in DOMAIN partial
    BY <1>1, <2>1 DEF Left, Has, Types, PartialFrame
  <2>2. CASE s \notin DOMAIN partial
    BY <1>1, <2>2 DEF Left, Has, Types, Open
  <2> QED BY <2>1, <2>2
<1>7. sentThrough \in Int /\ sentThrough <= LastFrame /\ LastFrame \in Int
  BY <1>1, RepairConstants DEF HostTypes
<1>8. s <= sentThrough /\ s <= LastFrame
  BY <1>1, <1>2, <1>3, <1>4, <1>7
<1>9. s \in DOMAIN partial \/ s \in DOMAIN unseen
  BY DEF Open
<1> QED BY <1>2, <1>3, <1>4, <1>5, <1>6, <1>8, <1>9

(* The clocks and counts are numbers, and no time is below zero.           *)
LEMMA ClockFacts ==
  ASSUME HostInv, Timing, sentThrough # None
  PROVE  /\ Still \in Nat /\ Still <= MaxLosses /\ Checks \in {0, 1}
         /\ SinceFrame \in Int /\ 0 <= SinceFrame /\ SinceFrame <= FramePeriod
         /\ \A s \in Int : Flying(s) => s = sentThrough /\ SinceFrame <= Delay
BY RepairConstants DEF HostInv, HostTypes, Still, Checks, SinceFrame, Flying, Links, OnWire

(* The types and bounds of a missing chunk's clock.                        *)
LEMMA RemainingFacts ==
  ASSUME HostInv, Timing, NEW s \in Open, NEW c
  PROVE  /\ Asked(s) \in Int /\ -1 <= Asked(s) /\ Asked(s) <= Retry
         /\ Sent(s, c) \in {0, 1} /\ Again(s, c) \in {0, 1}
         /\ ToAsk(s) \in Int /\ Checks <= ToAsk(s) /\ ToAsk(s) <= Delay + TailQuiet
         /\ Extra(s) \in Nat /\ Extra(s) <= Late
         /\ Remaining(s, c) \in Int /\ 0 <= Remaining(s, c)
         /\ Elapsed(s) \in Int
<1>1. /\ s \in Int /\ s <= newest /\ s <= sentThrough /\ 0 <= s /\ newest \in Int
      /\ s \in DOMAIN partial \/ s \in DOMAIN unseen
      /\ s \in DOMAIN unseen => s < newest
  BY OpenFacts
<1>2. sentThrough # None /\ sentThrough \in Int
  BY <1>1, RepairConstants DEF HostInv, HostTypes
<1>3. /\ Still \in Nat /\ Checks \in {0, 1}
      /\ SinceFrame \in Int /\ 0 <= SinceFrame /\ SinceFrame <= FramePeriod
      /\ Flying(s) => s = sentThrough /\ SinceFrame <= Delay
  BY <1>1, <1>2, ClockFacts
<1>4. Timed(s) /\ (s \in DOMAIN partial => quiet[s] \in Int /\ 0 <= quiet[s] /\ quiet[s] <= TailQuiet)
  BY DEF HostInv, Times, Quiet
<1>5. Asked(s) \in Int /\ -1 <= Asked(s) /\ Asked(s) <= Retry
  BY <1>4 DEF Timed
<1>6. Sent(s, c) \in {0, 1} /\ Again(s, c) \in {0, 1}
  BY DEF Sent, Again
<1>7. ToAsk(s) \in Int /\ Checks <= ToAsk(s) /\ ToAsk(s) <= Delay + TailQuiet
  <2>1. CASE Ended(s)
    BY <1>3, <2>1, RepairConstants DEF ToAsk
  <2>2. CASE ~Ended(s) /\ Flying(s)
    BY <1>3, <2>2, RepairConstants DEF ToAsk
  <2>3. CASE ~Ended(s) /\ ~Flying(s)
    <3>1. s \in DOMAIN partial
      BY <1>1, <2>3 DEF Ended
    <3> QED BY <1>3, <1>4, <2>3, <3>1, RepairConstants DEF ToAsk
  <2> QED BY <2>1, <2>2, <2>3
<1>8. Extra(s) \in Nat /\ Extra(s) <= Late
  BY TimingFacts DEF Extra
<1>9. Remaining(s, c) \in Int /\ 0 <= Remaining(s, c)
  <2>1. CASE Asked(s) = None
    <3>1. Rounds(Still - Sent(s, c)) \in Nat
      BY <1>3, <1>6, RoundsGrow
    <3> QED BY <1>3, <1>7, <1>8, <2>1, <3>1, RepairConstants DEF Remaining
  <2>2. CASE Asked(s) # None
    <3>1. Remaining(s, c) = Rounds(Still + 1 - Sent(s, c) - Again(s, c)) + 2 * Delay - Asked(s)
      BY <2>2 DEF Remaining
    <3>2. Still + 1 - Sent(s, c) - Again(s, c) \in Int
      BY <1>3, <1>6
    <3>3. Rounds(Still + 1 - Sent(s, c) - Again(s, c)) \in Nat
      BY <3>2, RoundsGrow
    <3>4. CASE Sent(s, c) = 0 /\ Again(s, c) = 0
      <4>1. Rounds(Still + 1) = Rounds(Still) + Retry /\ Rounds(Still) \in Nat
        BY <1>3, RoundsGrow
      <4>2. Still + 1 - Sent(s, c) - Again(s, c) = Still + 1
        BY <1>3, <3>4
      <4> QED BY <1>5, <3>1, <3>3, <4>1, <4>2, RepairConstants
    <3>5. CASE Sent(s, c) = 1
      <4>1. PICK d \in wire : d.seq = s /\ d.copy = "original"
        BY <3>5 DEF Sent, OriginalOf
      <4>2. d.left + Asked(s) <= Delay /\ d.left \in Int /\ 0 <= d.left
        BY <1>4, <2>2, <4>1 DEF Timed, HostInv, Links, OnWire
      <4> QED BY <1>5, <3>1, <3>3, <4>2, RepairConstants
    <3>6. CASE Again(s, c) = 1
      <4>1. CASE \E d \in wire : d.seq = s /\ d.copy = "repair"
        <5>1. PICK d \in wire : d.seq = s /\ d.copy = "repair"
          BY <4>1
        <5>2. d.left + Asked(s) <= 2 * Delay /\ d.left \in Int /\ 0 <= d.left
          BY <1>4, <2>2, <5>1 DEF Timed, HostInv, Links, OnWire
        <5> QED BY <1>5, <3>1, <3>3, <5>2, RepairConstants
      <4>2. CASE \E ask \in asks : ask.seq = s
        <5>1. PICK ask \in asks : ask.seq = s
          BY <4>2
        <5>2. ask.left + Asked(s) <= Delay /\ ask.left \in Int /\ 0 <= ask.left
          BY <1>4, <2>2, <5>1 DEF Timed, HostInv, Links, Asking
        <5> QED BY <1>5, <3>1, <3>3, <5>2, RepairConstants
      <4> QED BY <3>6, <4>1, <4>2 DEF Again, RepairOf
    <3> QED BY <1>6, <3>4, <3>5, <3>6
  <2> QED BY <2>1, <2>2
<1>10. Elapsed(s) \in Int
  <2>1. (sentThrough - s) * FramePeriod \in Int
    BY <1>1, <1>2, RepairConstants
  <2> QED BY <1>3, <2>1 DEF Elapsed
<1> QED BY <1>5, <1>6, <1>7, <1>8, <1>9, <1>10

(* A step by t ticks with e losses: time passes no faster than the repair  *)
(* advances, and every copy that is lost is a loss.                        *)
Waits(s, t) ==
  \/ /\ Asked(s) = None /\ Asked(s)' = None
     /\ ToAsk(s)' \in Int /\ ToAsk(s)' <= ToAsk(s) - t
  \/ /\ Asked(s) # None /\ Asked(s)' # None
     /\ Asked(s)' = Asked(s) + t
Copies(s, c, e) ==
  /\ losses' = losses + e
  /\ Sent(s, c)' >= Sent(s, c) - e
  /\ Sent(s, c)' + Again(s, c)' >= Sent(s, c) + Again(s, c) - e
Lives(s, t) ==
  /\ Elapsed(s)' \in Int /\ Elapsed(s)' <= Elapsed(s) + t
  /\ Left(s)' \in Int /\ Left(s)' >= Left(s) - t
  /\ s \in DOMAIN partial <=> s \in DOMAIN partial'

(* A deadline is kept by a step that makes its chunk no later.             *)
LEMMA DeadlineKept ==
  ASSUME HostInv, Timing, NEW s \in Open, NEW c, InTime(s, c), NEW e \in {0, 1}, NEW t \in {0, 1},
         Waits(s, t), Copies(s, c, e), Lives(s, t)
  PROVE  InTime(s, c)'
<1>1. /\ Asked(s) \in Int
      /\ Sent(s, c) \in {0, 1} /\ Again(s, c) \in {0, 1}
      /\ ToAsk(s) \in Int /\ Extra(s) \in Nat
      /\ Remaining(s, c) \in Int /\ Elapsed(s) \in Int /\ Left(s) \in Int
  BY RemainingFacts, OpenFacts
<1>2. Sent(s, c)' \in {0, 1} /\ Again(s, c)' \in {0, 1}
  BY DEF Sent, Again
<1>3. Still \in Int /\ Still' = Still - e /\ Delay \in Int
  BY RepairConstants DEF HostInv, HostTypes, Still, Copies
<1>4. Extra(s)' = Extra(s) /\ Limit(s)' = Limit(s) /\ Limit(s) \in Int
  BY RepairConstants, TimingFacts DEF Extra, Limit, Lives
<1>5. Remaining(s, c)' \in Int /\ Remaining(s, c)' <= Remaining(s, c) - t
  <2>1. CASE Asked(s) = None
    <3>1. Asked(s)' = None /\ ToAsk(s)' \in Int /\ ToAsk(s)' <= ToAsk(s) - t
      BY <2>1 DEF Waits
    <3> DEFINE n == Still - Sent(s, c)
               m == Still' - Sent(s, c)'
    <3>2. /\ Remaining(s, c) = ToAsk(s) + Rounds(n) + 2 * Delay + Extra(s)
          /\ Remaining(s, c)' = ToAsk(s)' + Rounds(m) + 2 * Delay + Extra(s)'
      <4> Asked(s)' = None
        BY <3>1
      <4> QED BY <2>1 DEF Remaining
    <3>3. n \in Int /\ m \in Int /\ m <= n
      BY <1>1, <1>2, <1>3 DEF Copies
    <3> HIDE DEF n, m
    <3>4. Rounds(n) \in Int /\ Rounds(m) \in Int /\ Rounds(m) <= Rounds(n)
      BY <3>3, RoundsGrow
    <3>5. Remaining(s, c) = ToAsk(s) + Rounds(n) + 2 * Delay + Extra(s)
      BY <3>2
    <3>6. Remaining(s, c)' = ToAsk(s)' + Rounds(m) + 2 * Delay + Extra(s)
      BY <1>4, <3>2
    <3>7. ToAsk(s) \in Int /\ Delay \in Int /\ t \in Int /\ Extra(s) \in Int
      BY <1>1, <1>3
    <3>8. ToAsk(s)' \in Int /\ ToAsk(s)' <= ToAsk(s) - t
      BY <3>1
    <3> QED BY <3>4, <3>5, <3>6, <3>7, <3>8
  <2>2. CASE Asked(s) # None
    <3>1. Asked(s)' # None /\ Asked(s)' = Asked(s) + t
      BY <2>2 DEF Waits
    <3> DEFINE n == Still + 1 - Sent(s, c) - Again(s, c)
               m == Still' + 1 - Sent(s, c)' - Again(s, c)'
    <3>2. /\ Remaining(s, c) = Rounds(n) + 2 * Delay - Asked(s)
          /\ Remaining(s, c)' = Rounds(m) + 2 * Delay - Asked(s)'
      BY <2>2, <3>1 DEF Remaining
    <3>3. n \in Int /\ m \in Int /\ m <= n
      BY <1>1, <1>2, <1>3 DEF Copies
    <3> HIDE DEF n, m
    <3>4. Rounds(n) \in Int /\ Rounds(m) \in Int /\ Rounds(m) <= Rounds(n)
      BY <3>3, RoundsGrow
    <3>5. Remaining(s, c) = Rounds(n) + 2 * Delay - Asked(s)
      BY <3>2
    <3>6. Remaining(s, c)' = Rounds(m) + 2 * Delay - (Asked(s) + t)
      BY <3>1, <3>2
    <3>7. Asked(s) \in Int /\ Delay \in Int /\ t \in Int
      BY <1>1, <1>3
    <3> QED BY <3>4, <3>5, <3>6, <3>7
  <2> QED BY <2>1, <2>2
<1>6. Remaining(s, c) < Left(s) /\ Elapsed(s) + Remaining(s, c) <= Limit(s)
  BY DEF InTime
<1>7. Remaining(s, c)' < Left(s)' /\ Elapsed(s)' + Remaining(s, c)' <= Limit(s)'
  BY <1>1, <1>4, <1>5, <1>6 DEF Lives
<1> QED BY <1>7 DEF InTime

(* What only the host, the network or the player's requests change.        *)
LEMMA FramesKept ==
  ASSUME HostInv, UNCHANGED vars
  PROVE  /\ AssemblerInv' /\ Contiguous' /\ Faultless' /\ Open' = Open
         /\ \A s : /\ Has(s)' = Has(s) /\ Left(s)' = Left(s) /\ (Ended(s)' <=> Ended(s))
                   /\ (Wanted(s)' <=> Wanted(s)) /\ (s \in DOMAIN partial <=> s \in DOMAIN partial')
         /\ newest' = newest /\ partial' = partial /\ unseen' = unseen
<1>1. /\ resend' = resend /\ partial' = partial /\ unseen' = unseen /\ newest' = newest
      /\ completed' = completed /\ held' = held /\ owed' = owed /\ silence' = silence
      /\ result' = result /\ handed' = handed
  BY DEF vars
<1>2. AssemblerInv'
  BY <1>1 DEF HostInv, AssemblerInv, Types, Apart, OwedReal, Missing
<1>3. Contiguous' /\ Faultless' /\ Open' = Open
  BY <1>1 DEF HostInv, Contiguous, Faultless, Open
<1> QED BY <1>1, <1>2, <1>3 DEF Has, Left, Ended, Wanted

(* A step of the host or the network: it changes nothing that the player   *)
(* knows, and takes nothing away but e losses.                             *)
Undisturbed(e) ==
  /\ UNCHANGED <<vars, askVars>>
  /\ asks' \subseteq asks
  /\ \A s \in Open :
       /\ Elapsed(s)' = Elapsed(s)
       /\ Flying(s)' => Flying(s) /\ SinceFrame' = SinceFrame
       /\ \A d \in wire' : d.seq = s =>
            \/ d \in wire \/ d.copy = "announcement"
            \/ d.copy = "repair" /\ d.left = Delay /\ \E ask \in asks : ask.seq = s
       /\ \A c \in Chunks[s] : Copies(s, c, e)

(* A step that delays no chunk and leaves the player alone keeps it all.   *)
LEMMA UndisturbedKeepsInv ==
  ASSUME HostInv, Timing, NEW e \in {0, 1}, Undisturbed(e), HostTypes', Links', Losses'
  PROVE  HostInv'
<1>0. UNCHANGED vars /\ UNCHANGED askVars
  BY DEF Undisturbed
<1>1. /\ AssemblerInv' /\ Contiguous' /\ Faultless' /\ Open' = Open
      /\ \A s : /\ Has(s)' = Has(s) /\ Left(s)' = Left(s) /\ (Ended(s)' <=> Ended(s))
                /\ (s \in DOMAIN partial <=> s \in DOMAIN partial')
      /\ newest' = newest /\ partial' = partial /\ unseen' = unseen
  BY <1>0, FramesKept
<1>2. /\ partialAsked' = partialAsked /\ unseenAsked' = unseenAsked /\ quiet' = quiet /\ checked' = checked
  BY <1>0 DEF askVars
<1>3. \A s : Asked(s)' = Asked(s)
  BY <1>1, <1>2 DEF Asked
<1>4. Times'
  <2>1. ASSUME NEW s \in Open PROVE Timed(s)'
    <3>1. Timed(s)
      BY DEF HostInv, Times
    <3>2. Asked(s)' \in Int /\ -1 <= Asked(s)' /\ Asked(s)' <= Retry /\ (Asked(s)' = Retry => ~checked')
      BY <1>2, <1>3, <3>1 DEF Timed
    <3>3. ASSUME Asked(s) # None, NEW ask \in asks', ask.seq = s PROVE ask.left + Asked(s) <= Delay
      BY <3>1, <3>3 DEF Timed, Undisturbed
    <3>4. ASSUME Asked(s) # None, NEW d \in wire', d.seq = s, d.copy = "repair"
          PROVE  d.left + Asked(s) <= 2 * Delay
      <4>1. CASE d \in wire
        BY <3>1, <3>4, <4>1 DEF Timed
      <4>2. CASE d \notin wire
        <5>1. PICK ask \in asks : ask.seq = s /\ d.left = Delay
          BY <3>4, <4>2 DEF Undisturbed
        <5>2. ask.left + Asked(s) <= Delay /\ ask.left \in Int /\ 0 <= ask.left
          BY <3>1, <3>4, <5>1 DEF Timed, HostInv, Links, Asking
        <5> QED BY <3>1, <5>1, <5>2, RepairConstants DEF Timed
      <4> QED BY <4>1, <4>2
    <3>5. ASSUME Asked(s) # None, NEW d \in wire', d.seq = s, d.copy = "original"
          PROVE  d.left + Asked(s) <= Delay
      <4>1. d \in wire
        BY <3>5 DEF Undisturbed
      <4> QED BY <3>1, <3>5, <4>1 DEF Timed
    <3> QED BY <1>3, <3>2, <3>3, <3>4, <3>5 DEF Timed
  <2>2. ASSUME NEW s \in DOMAIN partial PROVE Quiet(s)'
    <3>1. Quiet(s)
      BY DEF HostInv, Times
    <3> QED BY <1>1, <1>2, <1>3, <3>1 DEF Quiet
  <2> QED BY <1>1, <2>1, <2>2 DEF Times
<1>5. Deadlines'
  <2> SUFFICES ASSUME NEW s \in Open, NEW c \in Chunks[s], c \notin Has(s) PROVE InTime(s, c)'
    BY <1>1 DEF Deadlines
  <2>1. InTime(s, c)
    BY DEF HostInv, Deadlines
  <2>2. Copies(s, c, e)
    BY DEF Undisturbed
  <2>3. Lives(s, 0)
    <3>1. Elapsed(s)' = Elapsed(s) /\ Elapsed(s) \in Int /\ Left(s) \in Int
      BY RemainingFacts, OpenFacts DEF Undisturbed
    <3> QED BY <1>1, <3>1 DEF Lives
  <2>4. ToAsk(s)' \in Int /\ ToAsk(s)' <= ToAsk(s)
    <3>0. sentThrough # None
      BY OpenFacts, RepairConstants DEF HostInv, HostTypes
    <3>1. /\ Checks \in {0, 1} /\ SinceFrame \in Int /\ (Flying(s) => SinceFrame <= Delay)
          /\ ToAsk(s) \in Int /\ Checks <= ToAsk(s)
      BY <3>0, ClockFacts, RemainingFacts, OpenFacts
    <3>2. Checks' = Checks
      BY <1>2 DEF Checks
    <3>3. CASE Ended(s)
      <4> Ended(s)'
        BY <1>1, <3>3
      <4> QED BY <3>1, <3>2, <3>3 DEF ToAsk
    <3>4. CASE ~Ended(s)
      <4>0. ~Ended(s)'
        BY <1>1, <3>4
      <4>1. CASE Flying(s)'
        <5>1. Flying(s) /\ SinceFrame' = SinceFrame
          BY <4>1 DEF Undisturbed
        <5>2. ToAsk(s)' = ToAsk(s)
          BY <3>4, <4>0, <4>1, <5>1 DEF ToAsk
        <5> QED BY <3>1, <5>2
      <4>2. CASE ~Flying(s)'
        <5>1. ToAsk(s)' = IF quiet[s] < TailQuiet THEN TailQuiet - quiet[s] ELSE Checks
          BY <1>2, <3>2, <4>0, <4>2 DEF ToAsk
        <5>2. s \in DOMAIN partial
          BY <3>4, OpenFacts DEF Ended
        <5>3. quiet[s] \in Int /\ 0 <= quiet[s] /\ quiet[s] <= TailQuiet
          BY <5>2 DEF HostInv, Times, Quiet
        <5>4. ToAsk(s)' \in Int /\ ToAsk(s)' <= TailQuiet
          BY <3>1, <5>1, <5>3, RepairConstants
        <5>5. CASE Flying(s)
          <6>1. ToAsk(s) = Delay - SinceFrame + TailQuiet
            BY <3>4, <5>5 DEF ToAsk
          <6> QED BY <3>1, <5>4, <5>5, <6>1, RepairConstants
        <5>6. CASE ~Flying(s)
          <6>1. ToAsk(s)' = ToAsk(s)
            BY <3>4, <5>1, <5>6 DEF ToAsk
          <6> QED BY <3>1, <6>1
        <5> QED BY <5>5, <5>6
      <4> QED BY <4>1, <4>2
    <3> QED BY <3>3, <3>4
  <2>5. Waits(s, 0)
    <3>1. Asked(s) \in Int /\ ToAsk(s) \in Int
      BY RemainingFacts
    <3> QED BY <1>3, <2>4, <3>1 DEF Waits
  <2> QED BY <2>1, <2>2, <2>3, <2>5, DeadlineKept
<1> QED BY <1>1, <1>4, <1>5 DEF HostInv

(* What the host and the network leave as it is.                           *)
LEMMA PlayerKept ==
  ASSUME HostInv, UNCHANGED <<vars, askVars>>
  PROVE  /\ \A s : AskedFor(s)' <=> AskedFor(s)
         /\ \A s : (Wanted(s)' <=> Wanted(s)) /\ Has(s)' = Has(s)
         /\ newest' = newest /\ checked' = checked
         /\ DOMAIN partialAsked' = DOMAIN partial' /\ DOMAIN quiet' = DOMAIN partial'
         /\ DOMAIN unseenAsked' = DOMAIN unseen'
<1>1. UNCHANGED vars /\ UNCHANGED askVars
  OBVIOUS
<1>2. /\ Open' = Open /\ newest' = newest /\ partial' = partial /\ unseen' = unseen
      /\ \A s : (Wanted(s)' <=> Wanted(s)) /\ Has(s)' = Has(s)
  BY <1>1, FramesKept
<1>3. partialAsked' = partialAsked /\ unseenAsked' = unseenAsked /\ quiet' = quiet /\ checked' = checked
  BY <1>1 DEF askVars
<1>4. \A s : Asked(s)' = Asked(s)
  BY <1>2, <1>3 DEF Asked
<1>5. \A s : AskedFor(s)' <=> AskedFor(s)
  BY <1>2, <1>4 DEF AskedFor
<1> QED BY <1>2, <1>3, <1>5 DEF HostInv, HostTypes

(* The newest frame that is open, and every other one, was sent so lately  *)
(* that neither the window nor the host has left it behind.                *)
LEMMA OpenIsRecent ==
  ASSUME HostInv, Timing, NEW s \in Open
  PROVE  sentThrough - s < Window
<1>1. /\ s \in Int /\ s <= sentThrough /\ sentThrough \in Int /\ 0 <= s
      /\ s \in DOMAIN partial \/ s \in DOMAIN unseen
      /\ s \in Sequence /\ Has(s) \subseteq Chunks[s] /\ s <= LastFrame
  BY OpenFacts DEF HostInv, HostTypes
<1>2. PICK c \in Chunks[s] : c \notin Has(s)
  <2>1. CASE s \in DOMAIN partial
    <3>1. Has(s) # Chunks[s]
      BY <2>1 DEF Has, HostInv, AssemblerInv, Types
    <3> QED BY <1>1, <3>1
  <2>2. CASE s \notin DOMAIN partial
    BY <1>1, <2>2, ChunksAreNumbered DEF Has
  <2> QED BY <2>1, <2>2
<1>3. Elapsed(s) + Remaining(s, c) <= Limit(s) /\ Elapsed(s) \in Int /\ Remaining(s, c) \in Int /\ 0 <= Remaining(s, c)
  BY <1>2, RemainingFacts DEF HostInv, Deadlines, InTime
<1>4. Limit(s) \in Int /\ Limit(s) <= Longest /\ Longest \in Int
  BY TimingFacts, RepairConstants DEF Limit
<1>5. Longest < Window * FramePeriod /\ Window * FramePeriod \in Int
  BY RepairConstants DEF Timing
<1>6. 0 <= SinceFrame /\ SinceFrame \in Int
  BY <1>1, ClockFacts, RepairConstants
<1> DEFINE g == sentThrough - s
<1>7. g \in Int
  BY <1>1
<1>8. Elapsed(s) = g * FramePeriod + SinceFrame
  BY DEF Elapsed
<1> HIDE DEF g
<1>9. g * FramePeriod < Window * FramePeriod
  <2>1. g * FramePeriod \in Int
    BY <1>7, RepairConstants
  <2> QED BY <1>3, <1>4, <1>5, <1>6, <1>8, <2>1
<1>10. g < Window
  <2> SUFFICES ASSUME g >= Window PROVE FALSE
    BY <1>7, RepairConstants
  <2>1. g = Window + (g - Window) /\ g - Window \in Nat
    BY <1>7, RepairConstants
  <2>2. \A k \in Nat : (Window + k) * FramePeriod = Window * FramePeriod + k * FramePeriod /\ k * FramePeriod \in Nat
    BY RepairConstants
  <2>3. g * FramePeriod = Window * FramePeriod + (g - Window) * FramePeriod /\ (g - Window) * FramePeriod \in Nat
    BY <2>1, <2>2
  <2> QED BY <1>5, <1>9, <2>3
<1> QED BY <1>10 DEF g

(* A new frame is not late yet, and the older ones are not disturbed.      *)
LEMMA SendFrameKeepsInv ==
  ASSUME HostInv, Timing, SendFrame
  PROVE  HostInv'
<1> DEFINE new == {Datagram(sentThrough + 1, c, "original") : c \in Chunks[sentThrough + 1]}
<1>1. /\ nextFrameIn = 0 /\ sentThrough < LastFrame
      /\ sentThrough' = sentThrough + 1 /\ nextFrameIn' = FramePeriod /\ announceIn' = AnnouncementDelay
      /\ wire' = wire \union new /\ credit' = credit /\ asks' = asks /\ losses' = losses
      /\ UNCHANGED <<vars, askVars>>
  BY DEF SendFrame, FrameDue
<1>2. HostTypes /\ Links /\ Losses /\ sentThrough \in Int /\ -1 <= sentThrough
  BY DEF HostInv, HostTypes
<1>3. /\ newest' = newest /\ checked' = checked
      /\ \A s : AskedFor(s)' <=> AskedFor(s)
      /\ \A s : (Wanted(s)' <=> Wanted(s)) /\ Has(s)' = Has(s)
  BY <1>1, PlayerKept
<1>4. SinceFrame' = 0 /\ SinceFrame = FramePeriod
  BY <1>1, RepairConstants DEF SinceFrame
<1>5. newest \in Int /\ newest <= sentThrough
  BY <1>2, Numbers DEF HostInv, AssemblerInv, Losses
<1>6. \A d \in wire : d.copy # "original" /\ d.seq \in Int /\ d.seq <= sentThrough /\ sentThrough # None
  <2> SUFFICES ASSUME NEW d \in wire
               PROVE  d.copy # "original" /\ d.seq \in Int /\ d.seq <= sentThrough /\ sentThrough # None
    OBVIOUS
  <2>1. OnWire(d)
    BY <1>2 DEF Links
  <2>2. Delay < FramePeriod
    BY DEF Timing
  <2> QED BY <1>2, <1>4, <2>1, <2>2, RepairConstants DEF OnWire
<1>7. \A s : ~Flying(s)
  BY <1>6 DEF Flying
<1>8. sentThrough + 1 \in Int /\ 0 <= sentThrough + 1 /\ sentThrough + 1 <= LastFrame
  BY <1>1, <1>2, RepairConstants
<1>9. Chunks[sentThrough + 1] # {} /\ \A c \in Chunks[sentThrough + 1] : c \in Int
  BY <1>8, ChunksAreNumbered
<1>10. \A d \in new : /\ d.seq = sentThrough + 1 /\ d.chunk \in Chunks[sentThrough + 1]
                      /\ d.left = Delay /\ d.copy = "original"
                      /\ d \in [seq : Int, chunk : Int, left : Int, copy : {"original", "announcement", "repair"}]
  BY <1>8, <1>9, RepairConstants DEF Datagram
<1> HIDE DEF new
<1>11. HostTypes'
  BY <1>1, <1>2, <1>8, PlayerKept, RepairConstants DEF HostTypes
<1>12. Links'
  <2>1. ASSUME NEW d \in wire' PROVE OnWire(d)' /\ (d.copy = "repair" => AskedFor(d.seq)')
    <3>1. CASE d \in new
      BY <1>1, <1>2, <1>4, <1>8, <1>10, <3>1, RepairConstants DEF OnWire
    <3>2. CASE d \in wire
      <4>1. OnWire(d) /\ (d.copy = "repair" => AskedFor(d.seq)')
        BY <1>2, <1>3, <3>2 DEF Links
      <4>2. d.copy # "original" /\ d.seq <= sentThrough + 1
        BY <1>2, <1>6, <3>2
      <4>3. d.copy = "announcement" => d.seq = sentThrough
        <5>1. Delay < FramePeriod
          BY DEF Timing
        <5> QED BY <1>2, <1>4, <4>1, <5>1, RepairConstants DEF OnWire
      <4> QED BY <1>1, <1>2, <1>4, <4>1, <4>2, <4>3, RepairConstants DEF OnWire
    <3> QED BY <1>1, <3>1, <3>2
  <2>2. ASSUME NEW ask \in asks' PROVE Asking(ask)'
    BY <1>1, <1>2, <1>3, <2>2 DEF Links, Asking
  <2> QED BY <2>1, <2>2 DEF Links
<1>13. Losses'
  <2>1. newest' <= sentThrough'
    BY <1>1, <1>2, <1>3, <1>5
  <2>2. Flying(sentThrough)'
    <3>1. PICK c \in Chunks[sentThrough + 1] : TRUE
      BY <1>9
    <3> DEFINE first == Datagram(sentThrough + 1, c, "original")
    <3>2. first \in wire'
      BY <1>1 DEF new
    <3>3. first.seq = sentThrough + 1 /\ first.copy = "original"
      BY DEF Datagram
    <3> HIDE DEF first
    <3> QED BY <1>1, <3>2, <3>3 DEF Flying
  <2>3. sentThrough - newest <= losses
    BY <1>2, <1>5, <1>7 DEF Losses, HostTypes
  <2>4. sentThrough' - newest' <= losses' + (IF Flying(sentThrough)' THEN 1 ELSE 0)
    <3>1. losses' = losses /\ losses \in Int
      BY <1>1, <1>2 DEF HostTypes
    <3> QED BY <1>1, <1>2, <1>3, <1>5, <2>2, <2>3, <3>1
  <2>5. ASSUME losses' = 0, NEW s \in 0..sentThrough', Wanted(s)', NEW c \in Chunks[s]
        PROVE  c \in Has(s)' \/ OriginalOf(s, c)'
    <3>1. CASE s = sentThrough + 1
      <4> DEFINE first == Datagram(s, c, "original")
      <4>1. first \in wire'
        BY <1>1, <3>1 DEF new
      <4>2. first.seq = s /\ first.chunk = c /\ first.copy = "original"
        BY DEF Datagram
      <4> HIDE DEF first
      <4> QED BY <4>1, <4>2 DEF OriginalOf
    <3>2. CASE s # sentThrough + 1
      <4>1. s \in 0..sentThrough
        BY <1>1, <1>2, <3>2
      <4>2. Wanted(s) /\ losses = 0
        BY <1>1, <1>3, <2>5
      <4>3. c \in Has(s) \/ OriginalOf(s, c)
        BY <1>2, <4>1, <4>2 DEF Losses
      <4> QED BY <1>1, <1>3, <4>3 DEF OriginalOf
    <3> QED BY <3>1, <3>2
  <2> QED BY <2>1, <2>4, <2>5 DEF Losses
<1>14. Undisturbed(0)
  <2>1. ASSUME NEW s \in Open
        PROVE  /\ Elapsed(s)' = Elapsed(s) /\ ~Flying(s)'
               /\ \A d \in wire' : d.seq = s => d \in wire
               /\ \A c \in Chunks[s] : Copies(s, c, 0)
    <3>1. s \in Int /\ s <= sentThrough
      BY OpenFacts
    <3>2. \A d \in wire' : d.seq = s => d \in wire
      BY <1>1, <1>2, <1>10, <3>1
    <3>3. ~Flying(s)'
      BY <1>6, <3>2 DEF Flying
    <3>4. Elapsed(s)' = Elapsed(s)
      <4> DEFINE g == sentThrough - s
      <4>1. g \in Int /\ sentThrough' - s = g + 1
        BY <1>1, <1>2, <3>1
      <4> HIDE DEF g
      <4>2. (g + 1) * FramePeriod = g * FramePeriod + FramePeriod /\ g * FramePeriod \in Int
        BY <4>1, RepairConstants
      <4>3. Elapsed(s) = g * FramePeriod + FramePeriod
        BY <1>4 DEF Elapsed, g
      <4>4. Elapsed(s)' = (g + 1) * FramePeriod + 0
        BY <1>4, <4>1 DEF Elapsed
      <4> QED BY <4>2, <4>3, <4>4, RepairConstants
    <3>5. ASSUME NEW c \in Chunks[s] PROVE Copies(s, c, 0)
      <4>1. OriginalOf(s, c)' <=> OriginalOf(s, c)
        BY <1>1, <3>2 DEF OriginalOf
      <4>2. RepairOf(s, c)' <=> RepairOf(s, c)
        BY <1>1, <3>2 DEF RepairOf
      <4>3. Sent(s, c)' = Sent(s, c) /\ Again(s, c)' = Again(s, c)
        BY <4>1, <4>2 DEF Sent, Again
      <4>4. losses \in Int /\ Sent(s, c) \in Int /\ Again(s, c) \in Int
        BY <1>2 DEF HostTypes, Sent, Again
      <4> QED BY <1>1, <4>3, <4>4 DEF Copies
    <3> QED BY <3>2, <3>3, <3>4, <3>5
  <2> QED BY <1>1, <2>1 DEF Undisturbed
<1> QED BY <1>11, <1>12, <1>13, <1>14, UndisturbedKeepsInv

LEMMA AnnounceKeepsInv ==
  ASSUME HostInv, Timing, Announce
  PROVE  HostInv'
<1> DEFINE again == Datagram(sentThrough, LastChunk(sentThrough), "announcement")
<1>1. /\ announceIn = 0 /\ sentThrough' = sentThrough /\ nextFrameIn' = nextFrameIn /\ announceIn' = None
      /\ wire' = wire \union {again} /\ credit' = credit /\ asks' = asks /\ losses' = losses
      /\ UNCHANGED <<vars, askVars>>
  BY DEF Announce
<1>2. HostTypes /\ Links /\ Losses /\ sentThrough \in Int /\ -1 <= sentThrough
  BY DEF HostInv, HostTypes
<1>3. /\ newest' = newest /\ checked' = checked
      /\ \A s : AskedFor(s)' <=> AskedFor(s)
      /\ \A s : (Wanted(s)' <=> Wanted(s)) /\ Has(s)' = Has(s)
  BY <1>1, PlayerKept
<1>4. 0 <= sentThrough /\ sentThrough <= LastFrame
  BY <1>1, <1>2, RepairConstants DEF HostTypes
<1>5. LastChunk(sentThrough) \in Chunks[sentThrough] /\ LastChunk(sentThrough) \in Int
  BY <1>2, <1>4, ChunksAreNumbered
<1>6. /\ again.seq = sentThrough /\ again.chunk = LastChunk(sentThrough)
      /\ again.left = Delay /\ again.copy = "announcement"
      /\ again \in [seq : Int, chunk : Int, left : Int, copy : {"original", "announcement", "repair"}]
  BY <1>2, <1>5, RepairConstants DEF Datagram
<1> HIDE DEF again
<1>7. SinceFrame' = SinceFrame
  BY <1>1 DEF SinceFrame
<1>8. HostTypes'
  BY <1>1, <1>2, PlayerKept, RepairConstants DEF HostTypes
<1>9. Links'
  <2>1. ASSUME NEW d \in wire' PROVE OnWire(d)' /\ (d.copy = "repair" => AskedFor(d.seq)')
    <3>1. CASE d = again
      BY <1>1, <1>2, <1>4, <1>5, <1>6, <3>1, RepairConstants DEF OnWire
    <3>2. CASE d \in wire
      BY <1>1, <1>2, <1>3, <1>7, <3>2 DEF Links, OnWire
    <3> QED BY <1>1, <3>1, <3>2
  <2>2. ASSUME NEW ask \in asks' PROVE Asking(ask)'
    BY <1>1, <1>2, <1>3, <2>2 DEF Links, Asking
  <2> QED BY <2>1, <2>2 DEF Links
<1>10. \A s : (Flying(s)' <=> Flying(s)) /\ \A c : (OriginalOf(s, c)' <=> OriginalOf(s, c)) /\ (RepairOf(s, c)' <=> RepairOf(s, c))
  BY <1>1, <1>6 DEF Flying, OriginalOf, RepairOf
<1>11. Losses'
  <2>1. losses' = losses /\ sentThrough' = sentThrough /\ (Flying(sentThrough)' <=> Flying(sentThrough))
    BY <1>1, <1>10 DEF Flying
  <2> QED BY <1>2, <1>3, <1>10, <2>1 DEF Losses
<1>12. Undisturbed(0)
  <2>1. ASSUME NEW s, NEW c PROVE Copies(s, c, 0)
    <3>1. Sent(s, c)' = Sent(s, c) /\ Again(s, c)' = Again(s, c)
      BY <1>10 DEF Sent, Again
    <3>2. losses \in Int /\ Sent(s, c) \in Int /\ Again(s, c) \in Int
      BY <1>2 DEF HostTypes, Sent, Again
    <3> QED BY <1>1, <3>1, <3>2 DEF Copies
  <2>2. \A s : Elapsed(s)' = Elapsed(s)
    BY <1>1, <1>7 DEF Elapsed
  <2> QED BY <1>1, <1>6, <1>7, <1>10, <2>1, <2>2 DEF Undisturbed
<1> QED BY <1>8, <1>9, <1>11, <1>12, UndisturbedKeepsInv

(* A request that the credit covers is granted in full.                    *)
LEMMA AllowedIsRequested ==
  ASSUME NEW ask, ask.seq \in Remembered, credit \in Int,
         Requested(ask) \in SUBSET Int, IsFiniteSet(Requested(ask)),
         Cardinality(Requested(ask)) <= credit
  PROVE  Allowed(ask) = Requested(ask)
<1> DEFINE wanted == Requested(ask)
<1>1. Allowed(ask) = {c \in wanted : Cardinality({d \in wanted : d < c}) < credit}
  BY DEF Allowed, Requested
<1>2. ASSUME NEW c \in wanted PROVE Cardinality({d \in wanted : d < c}) < credit
  <2> DEFINE below == {d \in wanted : d < c}
  <2>1. below \in SUBSET wanted /\ IsFiniteSet(wanted)
    OBVIOUS
  <2>2. c \notin below
    <3> c \in Int
      OBVIOUS
    <3> QED OBVIOUS
  <2>3. IsFiniteSet(below) /\ Cardinality(below) <= Cardinality(wanted)
        /\ (Cardinality(wanted) = Cardinality(below) => wanted = below)
    BY <2>1, FS_Subset
  <2>4. Cardinality(below) \in Nat /\ Cardinality(wanted) \in Nat
    BY <2>1, <2>3, FS_CardinalityType
  <2>5. Cardinality(wanted) <= credit
    OBVIOUS
  <2> HIDE DEF below, wanted
  <2>6. Cardinality(below) < Cardinality(wanted)
    BY <1>2, <2>2, <2>3, <2>4
  <2>7. Cardinality(below) < credit
    BY <2>4, <2>5, <2>6
  <2> QED BY <2>7 DEF below
<1> QED BY <1>1, <1>2

(* What is asked for is of a frame that was sent.                          *)
LEMMA RequestedIsFinite ==
  ASSUME HostInv, NEW ask \in asks
  PROVE  /\ ask.seq \in Int /\ 0 <= ask.seq /\ ask.seq <= sentThrough /\ ask.seq <= LastFrame
         /\ Requested(ask) \subseteq Chunks[ask.seq] /\ Requested(ask) \in SUBSET Int
         /\ IsFiniteSet(Requested(ask))
<1>1. Asking(ask) /\ newest <= sentThrough /\ sentThrough \in Int /\ sentThrough <= LastFrame
  BY DEF HostInv, Links, Losses, HostTypes
<1>2. newest \in Int
  BY Numbers DEF HostInv, AssemblerInv
<1>3. ask.seq \in Int /\ 0 <= ask.seq /\ ask.seq <= sentThrough /\ ask.seq <= LastFrame
  BY <1>1, <1>2, RepairConstants DEF Asking, AskedFor
<1>4. Requested(ask) \subseteq Chunks[ask.seq]
  BY <1>1 DEF Requested, Asking
<1>5. IsFiniteSet(Chunks[ask.seq]) /\ \A c \in Chunks[ask.seq] : c \in Int
  BY <1>3, RepairAssumption, ChunksAreNumbered, RepairConstants
<1>6. IsFiniteSet(Requested(ask))
  BY <1>4, <1>5, FS_Subset
<1> QED BY <1>3, <1>4, <1>5, <1>6

(* A request becomes the repairs that it asks for.                         *)
LEMMA ResendChunksKeepsInv ==
  ASSUME HostInv, Timing, NEW ask \in asks, ResendChunks(ask), Cardinality(Requested(ask)) <= credit
  PROVE  HostInv'
<1> DEFINE new == {Datagram(ask.seq, c, "repair") : c \in Allowed(ask)}
<1>1. /\ asks' = asks \ {ask} /\ credit' = credit - Cardinality(Allowed(ask)) /\ wire' = wire \union new
      /\ sentThrough' = sentThrough /\ nextFrameIn' = nextFrameIn /\ announceIn' = announceIn /\ losses' = losses
      /\ UNCHANGED <<vars, askVars>>
  BY DEF ResendChunks
<1>2. HostTypes /\ Links /\ Losses /\ Asking(ask) /\ sentThrough \in Int /\ credit \in Int
  BY DEF HostInv, HostTypes, Links
<1>3. /\ newest' = newest /\ checked' = checked
      /\ \A s : AskedFor(s)' <=> AskedFor(s)
      /\ \A s : (Wanted(s)' <=> Wanted(s)) /\ Has(s)' = Has(s)
  BY <1>1, PlayerKept
<1>4. /\ ask.seq \in Int /\ 0 <= ask.seq /\ ask.seq <= sentThrough /\ ask.seq <= LastFrame
      /\ Requested(ask) \subseteq Chunks[ask.seq] /\ Requested(ask) \in SUBSET Int
      /\ IsFiniteSet(Requested(ask))
  BY RequestedIsFinite
<1>5. Allowed(ask) \subseteq Requested(ask)
  BY DEF Allowed, Requested
<1>6. Cardinality(Allowed(ask)) \in Nat
  BY <1>4, <1>5, FS_Subset, FS_CardinalityType
<1>7. \A d \in new : /\ d.seq = ask.seq /\ d.chunk \in Allowed(ask) /\ d.chunk \in Chunks[ask.seq]
                     /\ d.left = Delay /\ d.copy = "repair"
                     /\ d \in [seq : Int, chunk : Int, left : Int, copy : {"original", "announcement", "repair"}]
  BY <1>4, <1>5, RepairConstants DEF Datagram
<1>8. \A c \in Allowed(ask) : \E d \in new : d.seq = ask.seq /\ d.chunk = c /\ d.copy = "repair"
  <2> TAKE c \in Allowed(ask)
  <2> DEFINE sent == Datagram(ask.seq, c, "repair")
  <2>1. sent.seq = ask.seq /\ sent.chunk = c /\ sent.copy = "repair"
    BY DEF Datagram
  <2>2. sent \in new
    OBVIOUS
  <2> HIDE DEF sent, new
  <2> QED BY <2>1, <2>2
<1> HIDE DEF new
<1>9. SinceFrame' = SinceFrame
  BY <1>1 DEF SinceFrame
<1>10. HostTypes'
  BY <1>1, <1>2, <1>6, PlayerKept, RepairConstants DEF HostTypes
<1>11. Links'
  <2>1. ASSUME NEW d \in wire' PROVE OnWire(d)' /\ (d.copy = "repair" => AskedFor(d.seq)')
    <3>1. CASE d \in new
      BY <1>1, <1>2, <1>3, <1>4, <1>7, <3>1, RepairConstants DEF OnWire, Asking
    <3>2. CASE d \in wire
      BY <1>1, <1>2, <1>3, <1>9, <3>2 DEF Links, OnWire
    <3> QED BY <1>1, <3>1, <3>2
  <2>2. ASSUME NEW a \in asks' PROVE Asking(a)'
    BY <1>1, <1>2, <1>3, <2>2 DEF Links, Asking
  <2> QED BY <2>1, <2>2 DEF Links
<1>12. \A s : (Flying(s)' <=> Flying(s)) /\ \A c : (OriginalOf(s, c)' <=> OriginalOf(s, c))
  BY <1>1, <1>7 DEF Flying, OriginalOf
<1>13. Losses'
  <2>1. losses' = losses /\ sentThrough' = sentThrough /\ (Flying(sentThrough)' <=> Flying(sentThrough))
    BY <1>1, <1>12 DEF Flying
  <2> QED BY <1>2, <1>3, <1>12, <2>1 DEF Losses
<1>14. ask.seq \in Open => Allowed(ask) = Requested(ask)
  <2> SUFFICES ASSUME ask.seq \in Open PROVE Allowed(ask) = Requested(ask)
    OBVIOUS
  <2>1. sentThrough - ask.seq < Window /\ Window < RecentFrames
    BY OpenIsRecent DEF Timing
  <2>2. ask.seq \in Remembered
    BY <1>2, <1>4, <2>1, RepairConstants DEF Remembered
  <2> QED BY <1>2, <1>4, <2>2, AllowedIsRequested
<1>15. \A s \in Open : \A c \in Chunks[s] : RepairOf(s, c) => RepairOf(s, c)'
  <2> SUFFICES ASSUME NEW s \in Open, NEW c \in Chunks[s], RepairOf(s, c) PROVE RepairOf(s, c)'
    OBVIOUS
  <2>1. CASE \E d \in wire : d.seq = s /\ d.chunk = c /\ d.copy = "repair"
    BY <1>1, <2>1 DEF RepairOf
  <2>2. CASE \E a \in asks : a.seq = s /\ c \in Requested(a)
    <3>1. PICK a \in asks : a.seq = s /\ c \in Requested(a)
      BY <2>2
    <3>2. CASE a = ask
      BY <1>1, <1>8, <1>14, <3>1, <3>2 DEF RepairOf
    <3>3. CASE a # ask
      BY <1>1, <3>1, <3>3 DEF RepairOf
    <3> QED BY <3>2, <3>3
  <2> QED BY <2>1, <2>2 DEF RepairOf
<1>16. Undisturbed(0)
  <2>1. ASSUME NEW s \in Open, NEW c \in Chunks[s] PROVE Copies(s, c, 0)
    <3>1. Sent(s, c)' = Sent(s, c) /\ Again(s, c)' >= Again(s, c)
      BY <1>12, <1>15 DEF Sent, Again
    <3>2. losses \in Int /\ Sent(s, c) \in Int /\ Again(s, c) \in Int /\ Again(s, c)' \in Int
      BY <1>2 DEF HostTypes, Sent, Again
    <3> QED BY <1>1, <3>1, <3>2 DEF Copies
  <2>2. \A s : Elapsed(s)' = Elapsed(s)
    BY <1>1, <1>9 DEF Elapsed
  <2>3. \A d \in wire' : d \in wire \/ (d.copy = "repair" /\ d.left = Delay /\ d.seq = ask.seq)
    BY <1>1, <1>7
  <2> QED BY <1>1, <1>9, <1>12, <2>1, <2>2, <2>3 DEF Undisturbed
<1> QED BY <1>10, <1>11, <1>13, <1>16, UndisturbedKeepsInv

(* A loss costs the chunk a round, and there is one loss less to come.     *)
LEMMA LoseDatagramKeepsInv ==
  ASSUME HostInv, Timing, LoseDatagram
  PROVE  HostInv'
<1>1. /\ losses < MaxLosses /\ losses' = losses + 1
      /\ wire' \subseteq wire /\ asks' \subseteq asks
      /\ sentThrough' = sentThrough /\ nextFrameIn' = nextFrameIn /\ announceIn' = announceIn
      /\ credit' = credit /\ UNCHANGED <<vars, askVars>>
  BY DEF LoseDatagram, hostVars
<1>2. HostTypes /\ Links /\ Losses /\ sentThrough \in Int /\ losses \in Nat
  BY DEF HostInv, HostTypes
<1>3. /\ newest' = newest /\ checked' = checked
      /\ \A s : AskedFor(s)' <=> AskedFor(s)
      /\ \A s : (Wanted(s)' <=> Wanted(s)) /\ Has(s)' = Has(s)
  BY <1>1, PlayerKept
<1>4. SinceFrame' = SinceFrame
  BY <1>1 DEF SinceFrame
<1>5. HostTypes'
  BY <1>1, <1>2, PlayerKept, RepairConstants DEF HostTypes
<1>6. Links'
  <2>1. ASSUME NEW d \in wire' PROVE OnWire(d)' /\ (d.copy = "repair" => AskedFor(d.seq)')
    BY <1>1, <1>2, <1>3, <1>4, <2>1 DEF Links, OnWire
  <2>2. ASSUME NEW ask \in asks' PROVE Asking(ask)'
    BY <1>1, <1>2, <1>3, <2>2 DEF Links, Asking
  <2> QED BY <2>1, <2>2 DEF Links
<1>7. Losses'
  <2>1. newest \in Int
    BY Numbers DEF HostInv, AssemblerInv
  <2>2. losses' # 0 /\ newest' <= sentThrough'
    BY <1>1, <1>2, <1>3 DEF Losses
  <2>3. sentThrough - newest <= losses + 1
    BY <1>2, <2>1 DEF Losses
  <2>4. sentThrough' - newest' <= losses' + (IF Flying(sentThrough)' THEN 1 ELSE 0)
    BY <1>1, <1>2, <1>3, <2>1, <2>3
  <2> QED BY <2>2, <2>4 DEF Losses
<1>8. Undisturbed(1)
  <2>1. ASSUME NEW s, NEW c PROVE Copies(s, c, 1)
    <3>1. /\ Sent(s, c) \in {0, 1} /\ Again(s, c) \in {0, 1}
          /\ Sent(s, c)' \in {0, 1} /\ Again(s, c)' \in {0, 1}
      BY DEF Sent, Again
    <3>2. Sent(s, c)' = Sent(s, c) \/ Again(s, c)' = Again(s, c)
      <4>1. CASE \E d \in wire : wire' = wire \ {d} /\ UNCHANGED asks
        <5>1. PICK lost \in wire : wire' = wire \ {lost} /\ asks' = asks
          BY <4>1
        <5>2. CASE lost.copy = "original"
          <6>1. RepairOf(s, c)' <=> RepairOf(s, c)
            BY <5>1, <5>2 DEF RepairOf
          <6> QED BY <6>1 DEF Again
        <5>3. CASE lost.copy # "original"
          <6>1. OriginalOf(s, c)' <=> OriginalOf(s, c)
            BY <5>1, <5>3 DEF OriginalOf
          <6> QED BY <6>1 DEF Sent
        <5> QED BY <5>2, <5>3
      <4>2. CASE wire' = wire
        BY <4>2 DEF Sent, OriginalOf
      <4> QED BY <4>1, <4>2 DEF LoseDatagram
    <3> QED BY <1>1, <3>1, <3>2 DEF Copies
  <2>2. \A s : Elapsed(s)' = Elapsed(s)
    BY <1>1, <1>4 DEF Elapsed
  <2>3. \A s : Flying(s)' => Flying(s)
    BY <1>1 DEF Flying
  <2> QED BY <1>1, <1>4, <2>1, <2>2, <2>3 DEF Undisturbed
<1> QED BY <1>5, <1>6, <1>7, <1>8, UndisturbedKeepsInv

(* What the player knows to be missing: everything, once the frame is      *)
(* known to be sent in full; until then not of a frame of two chunks.      *)
LEMMA KnownMissing ==
  ASSUME HostInv, NEW s \in DOMAIN partial
  PROVE  /\ MissingChunks(s) \subseteq Chunks[s] /\ MissingChunks(s) \cap Has(s) = {}
         /\ \/ \A c \in Chunks[s] : c \notin Has(s) => c \in MissingChunks(s)
            \/ /\ ~Ended(s) /\ quiet[s] < TailQuiet
               /\ MissingChunks(s) # {} => LastChunk(s) > 2
         /\ \E c \in Chunks[s] : c \notin Has(s)
<1>0. s \in Open /\ Has(s) = partial[s].got
  BY DEF Open, Has
<1>1. s \in Int /\ 0 <= s /\ s <= LastFrame /\ s <= newest /\ newest \in Int /\ Has(s) \subseteq Chunks[s]
  BY <1>0, OpenFacts
<1>2. Has(s) # {} /\ Has(s) # Chunks[s]
  BY <1>0 DEF HostInv, AssemblerInv, Types
<1>3. LastChunk(s) \in Nat /\ \A c : c \in Chunks[s] <=> c \in Int /\ 1 <= c /\ c <= LastChunk(s)
  BY <1>1, ChunksAreNumbered
<1>4. IsFiniteSet(Has(s)) /\ Has(s) \in SUBSET Int
  <2>1. IsFiniteSet(Chunks[s])
    BY <1>1, RepairAssumption, RepairConstants
  <2>2. Has(s) \in SUBSET Chunks[s]
    BY <1>1
  <2> QED BY <1>3, <2>1, <2>2, FS_Subset
<1> DEFINE top == Max(Has(s))
<1>5. top \in Has(s) /\ top \in Int /\ 1 <= top /\ top <= LastChunk(s) /\ \A c \in Has(s) : c <= top
  BY <1>1, <1>2, <1>3, <1>4, Extremes
<1>6. MissingChunks(s) = (1..KnownSent(s)) \ Has(s)
      /\ KnownSent(s) = IF quiet[s] >= TailQuiet \/ s < newest THEN LastChunk(s) ELSE top
  BY <1>0 DEF MissingChunks, KnownSent
<1> HIDE DEF top
<1>7. KnownSent(s) \in Int /\ KnownSent(s) <= LastChunk(s)
  BY <1>3, <1>5, <1>6
<1>8. \A c : c \in MissingChunks(s) <=> c \in Int /\ 1 <= c /\ c <= KnownSent(s) /\ c \notin Has(s)
  BY <1>6, <1>7
<1>9. MissingChunks(s) \subseteq Chunks[s]
  BY <1>3, <1>7, <1>8
<1>10. CASE KnownSent(s) = LastChunk(s)
  <2>1. \A c \in Chunks[s] : c \notin Has(s) => c \in MissingChunks(s)
    BY <1>3, <1>8, <1>10
  <2> QED BY <1>1, <1>2, <1>8, <1>9, <2>1
<1>11. CASE KnownSent(s) # LastChunk(s)
  <2>1. KnownSent(s) = top /\ ~(quiet[s] >= TailQuiet) /\ ~(s < newest) /\ top # LastChunk(s)
    BY <1>6, <1>11
  <2>2. LastChunk(s) \notin Has(s)
    BY <1>3, <1>5, <2>1
  <2>3. quiet[s] < TailQuiet
    <3>1. quiet[s] \in Int
      BY DEF HostInv, Times, Quiet
    <3> QED BY <2>1, <3>1, RepairConstants
  <2>4. MissingChunks(s) # {} => LastChunk(s) > 2
    <3> SUFFICES ASSUME NEW c \in MissingChunks(s) PROVE LastChunk(s) > 2
      OBVIOUS
    <3>1. c \in Int /\ 1 <= c /\ c <= top /\ c # top
      BY <1>5, <1>8, <2>1
    <3> QED BY <1>3, <1>5, <2>1, <3>1
  <2> QED BY <1>1, <1>2, <1>8, <1>9, <2>1, <2>2, <2>3, <2>4 DEF Ended
<1> QED BY <1>10, <1>11

(* The frames that the player asks for now, and what it asks for.          *)
DueNow == {s \in DOMAIN partial : MissingChunks(s) # {} /\ Due(partialAsked[s])}
            \union {s \in DOMAIN unseen : Due(unseenAsked[s])}
Request(s) == IF s \in DOMAIN partial THEN MissingChunks(s) ELSE {}

(* Asking adds requests and starts their time.                             *)
LEMMA AskForMissingAsks ==
  ASSUME HostInv, AskForMissing
  PROVE  /\ ~checked /\ checked'
         /\ UNCHANGED <<vars, hostVars>> /\ quiet' = quiet /\ wire' = wire /\ losses' = losses
         /\ DOMAIN partialAsked' = DOMAIN partial /\ DOMAIN unseenAsked' = DOMAIN unseen
         /\ DueNow \subseteq Open
         /\ \A s \in Open : Asked(s)' = IF s \in DueNow THEN 0 ELSE Asked(s)
         /\ \A ask \in asks' : ask \in asks
              \/ \E s \in DueNow : ask = [seq |-> s, chunks |-> Request(s), left |-> Delay]
         /\ asks \subseteq asks'
         /\ \A s \in DueNow : [seq |-> s, chunks |-> Request(s), left |-> Delay] \in asks'
<1> DEFINE incomplete == {s \in DOMAIN partial : MissingChunks(s) # {} /\ Due(partialAsked[s])}
           swallowed == {s \in DOMAIN unseen : Due(unseenAsked[s])}
           first == {[seq |-> s, chunks |-> MissingChunks(s), left |-> Delay] : s \in incomplete}
           second == {[seq |-> s, chunks |-> {}, left |-> Delay] : s \in swallowed}
<1>1. /\ ~checked /\ checked' = TRUE
      /\ asks' = asks \union first \union second
      /\ partialAsked' = [s \in DOMAIN partial |-> IF s \in incomplete THEN 0 ELSE partialAsked[s]]
      /\ unseenAsked' = [s \in DOMAIN unseen |-> IF s \in swallowed THEN 0 ELSE unseenAsked[s]]
      /\ UNCHANGED <<vars, hostVars>> /\ quiet' = quiet /\ wire' = wire /\ losses' = losses
  BY DEF AskForMissing
<1>2. \A s \in DOMAIN unseen : s \notin DOMAIN partial
  BY DEF HostInv, Contiguous
<1>3. \A s : s \in DueNow <=> s \in incomplete \/ s \in swallowed
  BY DEF DueNow
<1>4. \A s \in incomplete : s \in DOMAIN partial /\ Request(s) = MissingChunks(s)
  BY DEF Request
<1>5. \A s \in swallowed : s \in DOMAIN unseen /\ Request(s) = {}
  BY <1>2 DEF Request
<1>6. partial' = partial /\ unseen' = unseen
  BY <1>1 DEF vars
<1>7. \A s \in Open : Asked(s)' = IF s \in DueNow THEN 0 ELSE Asked(s)
  <2> TAKE s \in Open
  <2>1. CASE s \in DOMAIN partial
    <3>1. s \in DueNow <=> s \in incomplete
      BY <1>2, <1>3, <1>5, <2>1
    <3>2. Asked(s)' = partialAsked'[s] /\ Asked(s) = partialAsked[s]
      BY <1>6, <2>1 DEF Asked
    <3>3. partialAsked'[s] = IF s \in incomplete THEN 0 ELSE partialAsked[s]
      BY <1>1, <2>1
    <3> QED BY <3>1, <3>2, <3>3
  <2>2. CASE s \notin DOMAIN partial
    <3>0. s \in DOMAIN unseen
      BY <2>2 DEF Open
    <3>1. s \in DueNow <=> s \in swallowed
      BY <1>3, <1>4, <2>2
    <3>2. Asked(s)' = unseenAsked'[s] /\ Asked(s) = unseenAsked[s]
      BY <1>6, <2>2 DEF Asked
    <3>3. unseenAsked'[s] = IF s \in swallowed THEN 0 ELSE unseenAsked[s]
      BY <1>1, <3>0
    <3> QED BY <3>1, <3>2, <3>3
  <2> QED BY <2>1, <2>2
<1>8. DueNow \subseteq Open
  BY DEF DueNow, Open
<1>9. \A ask \in first \union second : \E s \in DueNow : ask = [seq |-> s, chunks |-> Request(s), left |-> Delay]
  <2> TAKE ask \in first \union second
  <2>1. CASE ask \in first
    BY <1>3, <1>4, <2>1
  <2>2. CASE ask \in second
    BY <1>3, <1>5, <2>2
  <2> QED BY <2>1, <2>2
<1>10. \A s \in DueNow : [seq |-> s, chunks |-> Request(s), left |-> Delay] \in first \union second
  BY <1>3, <1>4, <1>5
<1> HIDE DEF incomplete, swallowed, first, second
<1> QED BY <1>1, <1>7, <1>8, <1>9, <1>10

(* When a frame is asked for again, nothing of it is on its way any more.  *)
LEMMA NothingLiveAtRetry ==
  ASSUME HostInv, Timing, NEW s \in Open, Asked(s) >= Retry
  PROVE  /\ Asked(s) = Retry /\ s \in DueNow
         /\ \A c : Sent(s, c) = 0 /\ Again(s, c) = 0
         /\ s \in DOMAIN partial => \A c \in Chunks[s] : c \notin Has(s) => c \in MissingChunks(s)
<1>1. Timed(s) /\ Links
  BY DEF HostInv, Times
<1>2. Asked(s) = Retry /\ Asked(s) # None /\ 2 * Delay < Retry /\ Delay < Retry
  BY <1>1, RepairConstants DEF Timed, Timing
<1>3. \A d \in wire : ~(d.seq = s /\ d.copy \in {"original", "repair"})
  <2> SUFFICES ASSUME NEW d \in wire, d.seq = s, d.copy \in {"original", "repair"} PROVE FALSE
    OBVIOUS
  <2>1. d.left \in Int /\ 0 <= d.left
    BY <1>1 DEF Links, OnWire
  <2>2. d.left + Retry <= 2 * Delay \/ d.left + Retry <= Delay
    BY <1>1, <1>2 DEF Timed
  <2> QED BY <1>2, <2>1, <2>2, RepairConstants
<1>4. \A ask \in asks : ask.seq # s
  <2> SUFFICES ASSUME NEW ask \in asks, ask.seq = s PROVE FALSE
    OBVIOUS
  <2>1. ask.left \in Int /\ 0 <= ask.left
    BY <1>1 DEF Links, Asking
  <2>2. ask.left + Retry <= Delay
    BY <1>1, <1>2 DEF Timed
  <2> QED BY <1>2, <2>1, <2>2, RepairConstants
<1>5. \A c : Sent(s, c) = 0 /\ Again(s, c) = 0
  BY <1>3, <1>4 DEF Sent, Again, OriginalOf, RepairOf
<1>6. ASSUME s \in DOMAIN partial
      PROVE  /\ \A c \in Chunks[s] : c \notin Has(s) => c \in MissingChunks(s)
             /\ MissingChunks(s) # {}
  <2>1. Quiet(s)
    BY <1>6 DEF HostInv, Times
  <2>2. Ended(s) \/ quiet[s] >= TailQuiet
    BY <1>2, <2>1, RepairConstants DEF Quiet, Timing
  <2>3. ~(quiet[s] < TailQuiet) \/ Ended(s)
    BY <2>1, <2>2, RepairConstants DEF Quiet
  <2> QED BY <1>6, <2>3, KnownMissing
<1>7. s \in DueNow
  <2>1. CASE s \in DOMAIN partial
    <3>1. Due(partialAsked[s])
      BY <2>1 DEF Due, Asked
    <3> QED BY <1>6, <2>1, <3>1 DEF DueNow
  <2>2. CASE s \notin DOMAIN partial
    <3>1. Due(unseenAsked[s])
      BY <2>2 DEF Due, Asked
    <3> QED BY <2>2, <3>1 DEF DueNow, Open
  <2> QED BY <2>1, <2>2
<1> QED BY <1>2, <1>5, <1>6, <1>7

(* To ask takes no longer than to wait.                                    *)
LEMMA AskingIsInTime ==
  ASSUME HostInv, Timing, AskForMissing, NEW s \in DueNow, NEW c \in Chunks[s], c \notin Has(s), InTime(s, c)
  PROVE  InTime(s, c)'
<1>1. /\ UNCHANGED <<vars, hostVars>> /\ wire' = wire /\ losses' = losses
      /\ s \in Open /\ Asked(s)' = 0
      /\ asks \subseteq asks' /\ [seq |-> s, chunks |-> Request(s), left |-> Delay] \in asks'
  BY AskForMissingAsks
<1>2. /\ partial' = partial /\ unseen' = unseen /\ nextFrameIn' = nextFrameIn /\ sentThrough' = sentThrough
  BY <1>1 DEF vars, hostVars
<1>3. /\ Asked(s) \in Int /\ -1 <= Asked(s) /\ Asked(s) <= Retry
      /\ Sent(s, c) \in {0, 1} /\ Again(s, c) \in {0, 1}
      /\ ToAsk(s) \in Int /\ 0 <= ToAsk(s)
      /\ Extra(s) \in Nat /\ Remaining(s, c) \in Int /\ 0 <= Remaining(s, c)
      /\ Elapsed(s) \in Int
  BY <1>1, RemainingFacts DEF Checks
<1>4. Still \in Int /\ Still' = Still /\ Delay \in Nat /\ 0 <= Still
  BY <1>1, RepairConstants DEF HostInv, HostTypes, Still
<1>5. Sent(s, c)' = Sent(s, c) /\ Again(s, c)' \in {0, 1}
  BY <1>1 DEF Sent, OriginalOf, Again
<1>6. Remaining(s, c)' = Rounds(Still + 1 - Sent(s, c) - Again(s, c)') + 2 * Delay
  <2>1. Asked(s)' # None
    BY <1>1, RepairConstants
  <2>2. Remaining(s, c)' = Rounds(Still' + 1 - Sent(s, c)' - Again(s, c)') + 2 * Delay - Asked(s)'
    BY <2>1 DEF Remaining
  <2>3. Still + 1 - Sent(s, c) - Again(s, c)' \in Int
    BY <1>3, <1>4, <1>5
  <2>4. Rounds(Still + 1 - Sent(s, c) - Again(s, c)') \in Int
    BY <2>3, RoundsGrow
  <2> QED BY <1>1, <1>4, <1>5, <2>2, <2>4
<1>7. ASSUME s \in DOMAIN partial => c \in MissingChunks(s)
      PROVE  Again(s, c)' = 1
  <2> DEFINE ask == [seq |-> s, chunks |-> Request(s), left |-> Delay]
  <2>1. c \in Requested(ask)
    <3>1. CASE s \in DOMAIN partial
      BY <1>7, <3>1 DEF Requested, Request
    <3>2. CASE s \notin DOMAIN partial
      BY <3>2 DEF Requested, Request
    <3> QED BY <3>1, <3>2
  <2>2. ask.seq = s /\ ask \in asks'
    BY <1>1
  <2> HIDE DEF ask
  <2>3. \E a \in asks' : a.seq = s /\ c \in Requested(a)
    BY <2>1, <2>2
  <2>4. RepairOf(s, c)'
    BY <2>3 DEF RepairOf, Requested
  <2> QED BY <2>4 DEF Again
<1>8. Remaining(s, c)' \in Int /\ Remaining(s, c)' <= Remaining(s, c)
  <2>0. Retry \in Nat
    BY RepairConstants
  <2>1. CASE Asked(s) = None
    <3> DEFINE n == Still - Sent(s, c)
    <3>1. Remaining(s, c) = ToAsk(s) + Rounds(n) + 2 * Delay + Extra(s)
      BY <2>1 DEF Remaining
    <3>2. n \in Int
      BY <1>3, <1>4
    <3>3. Still + 1 - Sent(s, c) - Again(s, c)' = n + 1 - Again(s, c)'
      BY <1>3, <1>4, <1>5
    <3> HIDE DEF n
    <3>4. Rounds(n) \in Nat /\ Rounds(n + 1) \in Nat /\ Rounds(n + 1) <= Rounds(n) + Retry
      BY <3>2, RoundsGrow
    <3>5. CASE s \in DOMAIN partial => c \in MissingChunks(s)
      <4>1. n + 1 - Again(s, c)' = n
        BY <1>7, <3>2, <3>5
      <4>2. Remaining(s, c)' = Rounds(n) + 2 * Delay
        BY <1>6, <3>3, <4>1
      <4> QED BY <1>3, <1>4, <3>1, <3>4, <4>2
    <3>6. CASE s \in DOMAIN partial /\ c \notin MissingChunks(s)
      <4>1. MissingChunks(s) # {}
        BY <3>6, OpenFacts, <1>1 DEF DueNow, HostInv, Contiguous
      <4>2. LastChunk(s) > 2
        BY <3>6, <4>1, KnownMissing
      <4>3. s \in 0..LastFrame
        BY <1>1, OpenFacts, RepairConstants
      <4>4. LastChunk(s) \in Int
        BY <1>1, OpenFacts, ChunksAreNumbered
      <4>5. Late = Retry
        BY <4>2, <4>3, <4>4 DEF Late
      <4>6. Extra(s) = Retry
        BY <3>6, <4>5 DEF Extra
      <4>7. CASE Again(s, c)' = 0
        <5>1. n + 1 - Again(s, c)' = n + 1
          BY <3>2, <4>7
        <5>2. Remaining(s, c)' = Rounds(n + 1) + 2 * Delay
          BY <1>6, <3>3, <5>1
        <5> QED BY <1>3, <1>4, <2>0, <3>1, <3>4, <4>6, <5>2
      <4>8. CASE Again(s, c)' = 1
        <5>1. n + 1 - Again(s, c)' = n
          BY <3>2, <4>8
        <5>2. Remaining(s, c)' = Rounds(n) + 2 * Delay
          BY <1>6, <3>3, <5>1
        <5> QED BY <1>3, <1>4, <3>1, <3>4, <5>2
      <4> QED BY <1>5, <4>7, <4>8
    <3> QED BY <3>5, <3>6
  <2>2. CASE Asked(s) # None
    <3>1. Asked(s) >= Retry
      <4>1. Due(Asked(s))
        <5>1. CASE s \in DOMAIN partial
          BY <5>1, <1>1, OpenFacts DEF DueNow, Asked
        <5>2. CASE s \notin DOMAIN partial
          BY <5>2 DEF DueNow, Asked
        <5> QED BY <5>1, <5>2
      <4> QED BY <2>2, <4>1 DEF Due
    <3>2. /\ Asked(s) = Retry /\ Sent(s, c) = 0 /\ Again(s, c) = 0
          /\ s \in DOMAIN partial => c \in MissingChunks(s)
      BY <1>1, <3>1, NothingLiveAtRetry
    <3>3. Remaining(s, c) = Rounds(Still + 1) + 2 * Delay - Retry
      <4>1. Still + 1 - Sent(s, c) - Again(s, c) = Still + 1
        BY <1>4, <3>2
      <4> QED BY <2>2, <3>2, <4>1 DEF Remaining
    <3>4. Remaining(s, c)' = Rounds(Still) + 2 * Delay
      <4>1. Still + 1 - Sent(s, c) - Again(s, c)' = Still
        BY <1>4, <1>7, <3>2
      <4> QED BY <1>6, <4>1
    <3>5. Rounds(Still + 1) = Rounds(Still) + Retry /\ Rounds(Still) \in Int
      <4>1. Still \in Nat
        BY <1>4
      <4> QED BY <4>1, RoundsGrow
    <3> QED BY <1>4, <2>0, <3>3, <3>4, <3>5
  <2> QED BY <2>1, <2>2
<1>9. Elapsed(s)' = Elapsed(s) /\ Left(s)' = Left(s) /\ Limit(s)' = Limit(s) /\ Left(s) \in Int
  BY <1>1, <1>2, OpenFacts DEF Elapsed, SinceFrame, Left, Limit
<1>10. Limit(s) \in Int
  BY RepairConstants, TimingFacts DEF Limit
<1>11. Remaining(s, c) < Left(s) /\ Elapsed(s) + Remaining(s, c) <= Limit(s)
  BY DEF InTime
<1>12. Remaining(s, c)' < Left(s)' /\ Elapsed(s)' + Remaining(s, c)' <= Limit(s)'
  BY <1>3, <1>8, <1>9, <1>10, <1>11
<1> QED BY <1>12 DEF InTime

(* A frame that is not asked for now keeps the time that it has.           *)
LEMMA NotAskingIsInTime ==
  ASSUME HostInv, Timing, AskForMissing, NEW s \in Open, s \notin DueNow,
         NEW c \in Chunks[s], InTime(s, c)
  PROVE  InTime(s, c)'
<1>1. /\ UNCHANGED <<vars, hostVars>> /\ wire' = wire /\ losses' = losses /\ quiet' = quiet
      /\ Asked(s)' = Asked(s) /\ asks \subseteq asks' /\ ~checked /\ checked'
  BY AskForMissingAsks
<1>2. /\ partial' = partial /\ unseen' = unseen /\ newest' = newest
      /\ nextFrameIn' = nextFrameIn /\ sentThrough' = sentThrough
  BY <1>1 DEF vars, hostVars
<1>3. /\ Asked(s) \in Int /\ ToAsk(s) \in Int /\ Elapsed(s) \in Int /\ Left(s) \in Int
      /\ Sent(s, c) \in {0, 1} /\ Again(s, c) \in {0, 1}
  BY RemainingFacts, OpenFacts
<1>4. Lives(s, 0)
  <2>1. Elapsed(s)' = Elapsed(s) /\ Left(s)' = Left(s)
    BY <1>2 DEF Elapsed, SinceFrame, Left
  <2> QED BY <1>2, <1>3, <2>1 DEF Lives
<1>5. Copies(s, c, 0)
  <2>1. Sent(s, c)' = Sent(s, c)
    BY <1>1 DEF Sent, OriginalOf
  <2>2. RepairOf(s, c) => RepairOf(s, c)'
    BY <1>1 DEF RepairOf, Requested
  <2>3. Again(s, c)' \in {0, 1} /\ Again(s, c)' >= Again(s, c)
    BY <2>2 DEF Again
  <2>4. losses \in Int
    BY DEF HostInv, HostTypes
  <2> QED BY <1>1, <1>3, <2>1, <2>3, <2>4 DEF Copies
<1>6. Waits(s, 0)
  <2>1. CASE Asked(s) # None
    BY <1>1, <1>3, <2>1 DEF Waits
  <2>2. CASE Asked(s) = None
    <3>1. s \in DOMAIN partial /\ MissingChunks(s) = {}
      <4>1. s \in DOMAIN partial
        BY <2>2 DEF DueNow, Due, Asked, Open
      <4> QED BY <2>2, <4>1 DEF DueNow, Due, Asked
    <3>2. ~Ended(s) /\ quiet[s] < TailQuiet
      BY <3>1, KnownMissing
    <3>3. ~Ended(s)' /\ (Flying(s)' <=> Flying(s)) /\ SinceFrame' = SinceFrame
      BY <1>1, <1>2, <3>2 DEF Ended, Flying, SinceFrame, Has
    <3>4. ToAsk(s)' = ToAsk(s)
      BY <1>1, <3>2, <3>3 DEF ToAsk
    <3> QED BY <1>1, <1>3, <2>2, <3>4 DEF Waits
  <2> QED BY <2>1, <2>2
<1> QED BY <1>4, <1>5, <1>6, DeadlineKept

(* Asking is in time for all that is missing.                              *)
LEMMA AskForMissingKeepsInv ==
  ASSUME HostInv, Timing, AskForMissing
  PROVE  HostInv'
<1>1. /\ checked' \in BOOLEAN /\ ~checked
      /\ UNCHANGED vars /\ quiet' = quiet /\ wire' = wire /\ losses' = losses
      /\ DOMAIN partialAsked' = DOMAIN partial /\ DOMAIN unseenAsked' = DOMAIN unseen
      /\ DueNow \subseteq Open
      /\ \A s \in Open : Asked(s)' = IF s \in DueNow THEN 0 ELSE Asked(s)
      /\ \A ask \in asks' : ask \in asks
           \/ \E s \in DueNow : ask = [seq |-> s, chunks |-> Request(s), left |-> Delay]
  <2>1. checked' \in BOOLEAN
    BY DEF AskForMissing
  <2> QED BY <2>1, AskForMissingAsks
<1>2. /\ sentThrough' = sentThrough /\ nextFrameIn' = nextFrameIn /\ announceIn' = announceIn /\ credit' = credit
  BY DEF AskForMissing, hostVars
<1>3. /\ AssemblerInv' /\ Contiguous' /\ Faultless' /\ Open' = Open
      /\ \A s : /\ Has(s)' = Has(s) /\ (Ended(s)' <=> Ended(s)) /\ (Wanted(s)' <=> Wanted(s))
      /\ newest' = newest /\ partial' = partial /\ unseen' = unseen
  BY <1>1, FramesKept
<1>4. HostTypes /\ Links /\ Losses
  BY DEF HostInv
<1>5. HostTypes'
  BY <1>1, <1>2, <1>3, <1>4 DEF HostTypes
<1>6. \A s : AskedFor(s) => AskedFor(s)'
  <2> SUFFICES ASSUME NEW s, AskedFor(s) PROVE AskedFor(s)'
    OBVIOUS
  <2>1. Wanted(s)' => s \in Open'
    BY <1>3 DEF AskedFor
  <2>2. ASSUME s \in Open', Asked(s)' = None PROVE s < newest'
    <3>1. Asked(s) = None
      BY <1>1, <1>3, <2>2, RepairConstants
    <3> QED BY <1>3, <2>2, <3>1 DEF AskedFor
  <2> QED BY <1>3, <2>1, <2>2 DEF AskedFor
<1>7. Links'
  <2>1. ASSUME NEW d \in wire' PROVE OnWire(d)' /\ (d.copy = "repair" => AskedFor(d.seq)')
    <3>1. SinceFrame' = SinceFrame
      BY <1>2 DEF SinceFrame
    <3>2. OnWire(d) /\ (d.copy = "repair" => AskedFor(d.seq))
      BY <1>1, <1>4, <2>1 DEF Links
    <3>3. OnWire(d)'
      BY <1>2, <3>1, <3>2 DEF OnWire
    <3> QED BY <1>6, <3>2, <3>3
  <2>2. ASSUME NEW ask \in asks' PROVE Asking(ask)'
    <3>1. CASE ask \in asks
      BY <1>4, <1>6, <3>1 DEF Links, Asking
    <3>2. CASE ask \notin asks
      <4>1. PICK s \in DueNow : ask = [seq |-> s, chunks |-> Request(s), left |-> Delay]
        BY <1>1, <3>2
      <4>2. s \in Open /\ s \in Int /\ 0 <= s /\ s <= newest /\ s <= LastFrame
        BY <1>1, OpenFacts
      <4>3. Request(s) \subseteq Chunks[s] /\ Request(s) \in SUBSET Int
        <5>1. \A c \in Chunks[s] : c \in Int
          BY <4>2, ChunksAreNumbered
        <5>2. s \in DOMAIN partial => MissingChunks(s) \subseteq Chunks[s]
          BY KnownMissing
        <5> QED BY <5>1, <5>2 DEF Request
      <4>4. AskedFor(s)'
        BY <1>1, <1>3, <4>2, RepairConstants DEF AskedFor
      <4>5. ask.seq = s /\ ask.chunks = Request(s) /\ ask.left = Delay
        BY <4>1
      <4>6. ask \in [seq : Int, chunks : SUBSET Int, left : Int]
        BY <4>1, <4>2, <4>3, RepairConstants
      <4> QED BY <4>2, <4>3, <4>4, <4>5, <4>6, RepairConstants DEF Asking
    <3> QED BY <3>1, <3>2
  <2> QED BY <2>1, <2>2 DEF Links
<1>8. Losses'
  <2>1. (Flying(sentThrough)' <=> Flying(sentThrough)) /\ \A s, c : (OriginalOf(s, c)' <=> OriginalOf(s, c))
    BY <1>1, <1>2 DEF Flying, OriginalOf
  <2> QED BY <1>1, <1>2, <1>3, <1>4, <2>1 DEF Losses
<1>9. ASSUME NEW s \in Open PROVE Timed(s)'
  <2>1. Timed(s)
    BY DEF HostInv, Times
  <2>2. CASE s \in DueNow
    <3>1. Asked(s)' = 0
      BY <1>1, <2>2
    <3>2. \A d \in wire' : d.left \in Int /\ d.left <= Delay
      BY <1>1, <1>4 DEF Links, OnWire
    <3>3. \A ask \in asks' : ask.left \in Int /\ ask.left <= Delay
      BY <1>7 DEF Links, Asking
    <3> QED BY <3>1, <3>2, <3>3, RepairConstants DEF Timed
  <2>3. CASE s \notin DueNow
    <3>1. Asked(s)' = Asked(s)
      BY <1>1, <2>3
    <3>2. Asked(s) # Retry
      <4> SUFFICES ASSUME Asked(s) = Retry PROVE FALSE
        OBVIOUS
      <4>1. Asked(s) >= Retry
        BY RepairConstants
      <4> QED BY <2>3, <4>1, NothingLiveAtRetry
    <3>3. \A ask \in asks' : ask.seq = s => ask \in asks
      BY <1>1, <2>3
    <3> QED BY <1>1, <2>1, <3>1, <3>2, <3>3 DEF Timed
  <2> QED BY <2>2, <2>3
<1>10. ASSUME NEW s \in DOMAIN partial PROVE Quiet(s)'
  <2>0. s \in Open /\ Quiet(s)
    BY DEF Open, HostInv, Times
  <2>1. Asked(s)' = 0 \/ Asked(s)' = Asked(s)
    BY <1>1, <2>0
  <2>2. quiet[s] + 2 * Delay >= 0
    BY <2>0, RepairConstants DEF Quiet
  <2> QED BY <1>1, <1>3, <2>0, <2>1, <2>2 DEF Quiet
<1>11. Deadlines'
  <2> SUFFICES ASSUME NEW s \in Open, NEW c \in Chunks[s], c \notin Has(s) PROVE InTime(s, c)'
    BY <1>3 DEF Deadlines
  <2>1. InTime(s, c)
    BY DEF HostInv, Deadlines
  <2> QED BY <2>1, AskingIsInTime, NotAskingIsInTime
<1>12. Times'
  BY <1>3, <1>9, <1>10 DEF Times
<1> QED BY <1>3, <1>5, <1>7, <1>8, <1>11, <1>12 DEF HostInv

(* What a tick changes.                                                    *)
LEMMA PassTimeTicks ==
  ASSUME HostInv, Timing, PassTime
  PROVE  /\ Tick /\ checked /\ ~checked' /\ sentThrough' = sentThrough /\ losses' = losses
         /\ resend' = resend /\ newest' = newest /\ completed' = completed /\ held' = held
         /\ owed' = owed /\ result' = result
         /\ DOMAIN partial' = DOMAIN partial /\ DOMAIN unseen' = DOMAIN unseen /\ Open' = Open
         /\ DOMAIN partialAsked' = DOMAIN partial /\ DOMAIN unseenAsked' = DOMAIN unseen /\ DOMAIN quiet' = DOMAIN partial
         /\ \A s \in DOMAIN partial :
              /\ partial'[s].got = partial[s].got /\ partial'[s].left = partial[s].left - 1
              /\ partial'[s].age = Least(partial[s].age + 1, 2 * Budget)
              /\ quiet'[s] = Least(quiet[s] + 1, TailQuiet)
         /\ \A s \in DOMAIN unseen : unseen'[s] = IF unseen[s] = 0 THEN 0 ELSE unseen[s] - 1
         /\ \A s : /\ Has(s)' = Has(s) /\ (Ended(s)' <=> Ended(s)) /\ (Wanted(s)' <=> Wanted(s))
         /\ \A s \in Open : Asked(s)' = IF Asked(s) = None THEN None ELSE Least(Asked(s) + 1, Retry)
<1>1. /\ Tick /\ checked /\ checked' = FALSE /\ sentThrough' = sentThrough /\ losses' = losses
      /\ partialAsked' = Older(partialAsked, Retry) /\ unseenAsked' = Older(unseenAsked, Retry)
      /\ quiet' = Older(quiet, TailQuiet)
  BY DEF PassTime
<1>2. /\ resend' = resend /\ newest' = newest /\ completed' = completed /\ held' = held
      /\ owed' = owed /\ result' = result
      /\ unseen' = [s \in DOMAIN unseen |-> IF unseen[s] = 0 THEN 0 ELSE unseen[s] - 1]
  BY <1>1, Zenon DEF Tick
<1>11. partial' = [s \in DOMAIN partial |->
                     [partial[s] EXCEPT !.left = @ - 1, !.age = Least(@ + 1, 2 * Budget)]]
  BY <1>1, Zenon DEF Tick
<1>12. DOMAIN partial' = DOMAIN partial
  BY <1>11, Zenon
<1>3. /\ DOMAIN partialAsked = DOMAIN partial /\ DOMAIN quiet = DOMAIN partial /\ DOMAIN unseenAsked = DOMAIN unseen
  BY DEF HostInv, HostTypes
<1>4. DOMAIN partial' = DOMAIN partial /\ DOMAIN unseen' = DOMAIN unseen /\ Open' = Open
  BY <1>2, <1>12 DEF Open
<1>5. DOMAIN partialAsked' = DOMAIN partial /\ DOMAIN unseenAsked' = DOMAIN unseen /\ DOMAIN quiet' = DOMAIN partial
  BY <1>1, <1>3 DEF Older
<1>6. ASSUME NEW s \in DOMAIN partial
      PROVE  /\ partial'[s].got = partial[s].got /\ partial'[s].left = partial[s].left - 1
             /\ partial'[s].age = Least(partial[s].age + 1, 2 * Budget)
             /\ quiet'[s] = Least(quiet[s] + 1, TailQuiet)
  <2>1. partial[s] \in PartialFrame(s)
    BY DEF HostInv, AssemblerInv, Types
  <2>2. partial'[s] = [partial[s] EXCEPT !.left = partial[s].left - 1, !.age = Least(partial[s].age + 1, 2 * Budget)]
    BY <1>11, Zenon
  <2>3. /\ partial'[s].got = partial[s].got /\ partial'[s].left = partial[s].left - 1
        /\ partial'[s].age = Least(partial[s].age + 1, 2 * Budget)
    BY <2>1, <2>2 DEF PartialFrame
  <2>4. Quiet(s)
    BY DEF HostInv, Times
  <2>5. quiet[s] # None
    BY <2>4, RepairConstants DEF Quiet
  <2>6. quiet'[s] = Least(quiet[s] + 1, TailQuiet)
    BY <1>1, <1>3, <2>5 DEF Older
  <2> QED BY <2>3, <2>6
<1>7. \A s \in DOMAIN unseen : unseen'[s] = IF unseen[s] = 0 THEN 0 ELSE unseen[s] - 1
  BY <1>2
<1>8. \A s : Has(s)' = Has(s)
  BY <1>4, <1>6 DEF Has
<1>9. \A s : (Ended(s)' <=> Ended(s)) /\ (Wanted(s)' <=> Wanted(s))
  BY <1>2, <1>8 DEF Ended, Wanted
<1>10. \A s \in Open : Asked(s)' = IF Asked(s) = None THEN None ELSE Least(Asked(s) + 1, Retry)
  BY <1>1, <1>3, <1>4 DEF Asked, Older, Open
<1> QED BY <1>1, <1>2, <1>4, <1>5, <1>6, <1>7, <1>8, <1>9, <1>10

(* What a tick changes of what is on its way.                              *)
LEMMA PassTimeMoves ==
  ASSUME HostInv, Timing, PassTime
  PROVE  /\ \A d \in wire' : \E e \in wire : /\ d = [e EXCEPT !.left = e.left - 1] /\ e.left > 0
                                             /\ d.seq = e.seq /\ d.chunk = e.chunk /\ d.copy = e.copy /\ d.left = e.left - 1
                                             /\ d \in [seq : Int, chunk : Int, left : Int, copy : {"original", "announcement", "repair"}]
         /\ \A ask \in asks' : \E a \in asks : /\ ask.seq = a.seq /\ ask.chunks = a.chunks /\ ask.left = a.left - 1 /\ a.left > 0
                                               /\ ask \in [seq : Int, chunks : SUBSET Int, left : Int]
         /\ \A s : (Flying(s)' <=> Flying(s))
         /\ \A s, c : (OriginalOf(s, c)' <=> OriginalOf(s, c)) /\ (RepairOf(s, c)' <=> RepairOf(s, c))
<1>1. wire' = Sooner(wire) /\ asks' = Sooner(asks) /\ (\A m \in wire \union asks : m.left > 0) /\ Links
  BY DEF PassTime, HostInv
<1>2. ASSUME NEW e \in wire
      PROVE  LET d == [e EXCEPT !.left = e.left - 1]
             IN /\ d.seq = e.seq /\ d.chunk = e.chunk /\ d.copy = e.copy /\ d.left = e.left - 1
                /\ d \in [seq : Int, chunk : Int, left : Int, copy : {"original", "announcement", "repair"}]
                /\ d \in wire'
  <2>1. e \in [seq : Int, chunk : Int, left : Int, copy : {"original", "announcement", "repair"}]
    BY <1>1 DEF Links, OnWire
  <2>2. [e EXCEPT !.left = e.left - 1] \in wire'
    BY <1>1 DEF Sooner
  <2> QED BY <2>1, <2>2
<1>3. ASSUME NEW a \in asks
      PROVE  LET ask == [a EXCEPT !.left = a.left - 1]
             IN /\ ask.seq = a.seq /\ ask.chunks = a.chunks /\ ask.left = a.left - 1
                /\ ask \in [seq : Int, chunks : SUBSET Int, left : Int]
                /\ ask \in asks'
  <2>1. a \in [seq : Int, chunks : SUBSET Int, left : Int]
    BY <1>1 DEF Links, Asking
  <2>2. [a EXCEPT !.left = a.left - 1] \in asks'
    BY <1>1 DEF Sooner
  <2> QED BY <2>1, <2>2
<1>4. ASSUME NEW d \in wire'
      PROVE  \E e \in wire : /\ d = [e EXCEPT !.left = e.left - 1] /\ e.left > 0
                             /\ d.seq = e.seq /\ d.chunk = e.chunk /\ d.copy = e.copy /\ d.left = e.left - 1
                             /\ d \in [seq : Int, chunk : Int, left : Int, copy : {"original", "announcement", "repair"}]
  <2>1. PICK e \in wire : d = [e EXCEPT !.left = e.left - 1]
    BY <1>1 DEF Sooner
  <2> QED BY <1>1, <1>2, <2>1
<1>5. ASSUME NEW ask \in asks'
      PROVE  \E a \in asks : /\ ask.seq = a.seq /\ ask.chunks = a.chunks /\ ask.left = a.left - 1 /\ a.left > 0
                             /\ ask \in [seq : Int, chunks : SUBSET Int, left : Int]
  <2>1. PICK a \in asks : ask = [a EXCEPT !.left = a.left - 1]
    BY <1>1 DEF Sooner
  <2> QED BY <1>1, <1>3, <2>1
<1>6. ASSUME NEW e \in wire
      PROVE  \E d \in wire' : d.seq = e.seq /\ d.chunk = e.chunk /\ d.copy = e.copy
  <2> DEFINE moved == [e EXCEPT !.left = e.left - 1]
  <2>1. moved \in wire' /\ moved.seq = e.seq /\ moved.chunk = e.chunk /\ moved.copy = e.copy
    BY <1>2
  <2> HIDE DEF moved
  <2> QED BY <2>1
<1>7. \A a \in asks : \E ask \in asks' : ask.seq = a.seq /\ ask.chunks = a.chunks
  BY <1>3
<1>8. \A s : (Flying(s)' <=> Flying(s))
  BY <1>4, <1>6 DEF Flying
<1>9. \A s, c : (OriginalOf(s, c)' <=> OriginalOf(s, c))
  BY <1>4, <1>6 DEF OriginalOf
<1>10. \A s, c : (RepairOf(s, c)' <=> RepairOf(s, c))
  <2> SUFFICES ASSUME NEW s, NEW c PROVE RepairOf(s, c)' <=> RepairOf(s, c)
    OBVIOUS
  <2>1. (\E d \in wire' : d.seq = s /\ d.chunk = c /\ d.copy = "repair")
          <=> (\E d \in wire : d.seq = s /\ d.chunk = c /\ d.copy = "repair")
    BY <1>4, <1>6
  <2>2. (\E ask \in asks' : ask.seq = s /\ c \in Requested(ask))
          <=> (\E ask \in asks : ask.seq = s /\ c \in Requested(ask))
    BY <1>5, <1>7 DEF Requested
  <2>3. RepairOf(s, c)' <=> \/ \E d \in wire' : d.seq = s /\ d.chunk = c /\ d.copy = "repair"
                            \/ \E ask \in asks' : ask.seq = s /\ c \in Requested(ask)
    BY DEF RepairOf, Requested
  <2> QED BY <2>1, <2>2, <2>3 DEF RepairOf
<1> QED BY <1>4, <1>5, <1>8, <1>9, <1>10

LEMMA PassTimeKeepsLinks ==
  ASSUME HostInv, Timing, PassTime
  PROVE  HostTypes' /\ Links' /\ Losses' /\ Contiguous' /\ Faultless'
<1>1. /\ checked' = FALSE /\ sentThrough' = sentThrough /\ losses' = losses
      /\ resend' = resend /\ newest' = newest /\ completed' = completed /\ held' = held
      /\ owed' = owed /\ result' = result
      /\ DOMAIN partial' = DOMAIN partial /\ DOMAIN unseen' = DOMAIN unseen /\ Open' = Open
      /\ DOMAIN partialAsked' = DOMAIN partial /\ DOMAIN unseenAsked' = DOMAIN unseen /\ DOMAIN quiet' = DOMAIN partial
      /\ \A s : Has(s)' = Has(s) /\ (Wanted(s)' <=> Wanted(s))
      /\ \A s \in Open : Asked(s)' = IF Asked(s) = None THEN None ELSE Least(Asked(s) + 1, Retry)
  BY PassTimeTicks DEF PassTime
<1>2. HostTypes /\ Links /\ Losses /\ Contiguous /\ Faultless
  BY DEF HostInv
<1>3. /\ nextFrameIn' = (IF nextFrameIn = 0 THEN 0 ELSE nextFrameIn - 1)
      /\ announceIn' = (IF announceIn = None THEN None ELSE announceIn - 1)
      /\ credit' = Least(credit + 1, Burst)
  BY DEF PassTime
<1>4. HostTypes'
  <2>1. credit' \in Int
    BY <1>2, <1>3, RepairAssumption DEF HostTypes, Least
  <2>2. announceIn' \in Int /\ (announceIn' # None => sentThrough' # None)
    BY <1>1, <1>2, <1>3, RepairConstants DEF HostTypes
  <2>3. nextFrameIn' \in Nat /\ nextFrameIn' <= nextFrameIn
    BY <1>2, <1>3 DEF HostTypes
  <2>4. sentThrough' # None => nextFrameIn' <= FramePeriod
    BY <1>1, <1>2, <2>3, RepairConstants DEF HostTypes
  <2> QED BY <1>1, <1>2, <2>1, <2>2, <2>3, <2>4 DEF HostTypes
<1>5. \A s : AskedFor(s) => AskedFor(s)'
  <2> SUFFICES ASSUME NEW s, AskedFor(s) PROVE AskedFor(s)'
    OBVIOUS
  <2>1. ASSUME s \in Open', Asked(s)' = None PROVE s < newest'
    <3>1. s \in Open
      BY <1>1, <2>1
    <3>2. Timed(s)
      BY <3>1 DEF HostInv, Times
    <3>3. Asked(s) = None
      BY <1>1, <2>1, <3>1, <3>2, RepairConstants DEF Timed, Least
    <3> QED BY <1>1, <3>1, <3>3 DEF AskedFor
  <2>2. s <= newest' /\ (Wanted(s)' => s \in Open')
    BY <1>1 DEF AskedFor
  <2> QED BY <2>1, <2>2 DEF AskedFor
<1>6. SinceFrame' \in Int /\ SinceFrame' <= SinceFrame + 1 /\ SinceFrame \in Int
      /\ (nextFrameIn # 0 => SinceFrame' = SinceFrame + 1)
  BY <1>2, <1>3, RepairConstants DEF HostTypes, SinceFrame
<1>7. Links'
  <2>1. ASSUME NEW d \in wire' PROVE OnWire(d)' /\ (d.copy = "repair" => AskedFor(d.seq)')
    <3>1. PICK e \in wire : /\ e.left > 0
                            /\ d.seq = e.seq /\ d.chunk = e.chunk /\ d.copy = e.copy /\ d.left = e.left - 1
                            /\ d \in [seq : Int, chunk : Int, left : Int, copy : {"original", "announcement", "repair"}]
      BY PassTimeMoves
    <3>2. OnWire(e) /\ (e.copy = "repair" => AskedFor(e.seq))
      BY <1>2 DEF Links
    <3>3. 0 <= d.left /\ d.left <= Delay
      BY <3>1, <3>2, RepairConstants DEF OnWire
    <3>4. ASSUME d.copy = "original" PROVE d.seq = sentThrough' /\ d.left = Delay - SinceFrame'
      <4>1. e.left = Delay - SinceFrame /\ e.seq = sentThrough /\ e.left \in Int /\ e.left > 0
        BY <3>1, <3>2, <3>4 DEF OnWire
      <4>2. nextFrameIn # 0
        BY <4>1, RepairConstants DEF SinceFrame, Timing
      <4> QED BY <1>1, <1>6, <3>1, <4>1, <4>2, RepairConstants
    <3>5. ASSUME d.copy = "announcement"
          PROVE  /\ d.chunk = LastChunk(d.seq)
                 /\ d.seq = sentThrough' \/ (d.seq = sentThrough' - 1 /\ d.left + SinceFrame' <= Delay)
      <4>1. e.left \in Int
        BY <3>2 DEF OnWire
      <4> QED BY <1>1, <1>6, <3>1, <3>2, <3>5, <4>1, RepairConstants DEF OnWire
    <3>6. OnWire(d)'
      BY <1>1, <3>1, <3>2, <3>3, <3>4, <3>5 DEF OnWire
    <3> QED BY <1>5, <3>1, <3>2, <3>6
  <2>2. ASSUME NEW ask \in asks' PROVE Asking(ask)'
    <3>1. PICK a \in asks : /\ ask.seq = a.seq /\ ask.chunks = a.chunks /\ ask.left = a.left - 1 /\ a.left > 0
                            /\ ask \in [seq : Int, chunks : SUBSET Int, left : Int]
      BY PassTimeMoves
    <3>2. Asking(a)
      BY <1>2 DEF Links
    <3>3. 0 <= ask.left /\ ask.left <= Delay
      BY <3>1, <3>2, RepairConstants DEF Asking
    <3> QED BY <1>5, <3>1, <3>2, <3>3 DEF Asking
  <2> QED BY <2>1, <2>2 DEF Links
<1>8. Losses'
  <2>1. (Flying(sentThrough)' <=> Flying(sentThrough)) /\ \A s, c : (OriginalOf(s, c)' <=> OriginalOf(s, c))
    <3>1. Flying(sentThrough)' <=> \E d \in wire' : d.seq = sentThrough /\ d.copy = "original"
      BY <1>1 DEF Flying
    <3>2. \A s : (Flying(s)' <=> Flying(s)) /\ (Flying(s)' <=> \E d \in wire' : d.seq = s /\ d.copy = "original")
      BY PassTimeMoves DEF Flying
    <3> QED BY <3>1, <3>2, PassTimeMoves
  <2> QED BY <1>1, <1>2, <2>1 DEF Losses
<1>9. Contiguous' /\ Faultless'
  BY <1>1, <1>2 DEF Contiguous, Faultless
<1> QED BY <1>4, <1>7, <1>8, <1>9

LEMMA PassTimeKeepsTimes ==
  ASSUME HostInv, Timing, PassTime
  PROVE  Times'
<1>1. /\ checked /\ ~checked' /\ Open' = Open /\ DOMAIN partial' = DOMAIN partial
      /\ \A s \in DOMAIN partial :
           /\ partial'[s].left = partial[s].left - 1 /\ partial'[s].age = Least(partial[s].age + 1, 2 * Budget)
           /\ quiet'[s] = Least(quiet[s] + 1, TailQuiet)
      /\ \A s : Ended(s)' <=> Ended(s)
      /\ \A s \in Open : Asked(s)' = IF Asked(s) = None THEN None ELSE Least(Asked(s) + 1, Retry)
  BY PassTimeTicks
<1>2. ASSUME NEW s \in Open
      PROVE  /\ Asked(s) = None => Asked(s)' = None
             /\ Asked(s) # None => Asked(s)' = Asked(s) + 1 /\ Asked(s)' <= Retry
             /\ Asked(s) \in Int /\ -1 <= Asked(s)
  <2>1. Timed(s)
    BY DEF HostInv, Times
  <2> QED BY <1>1, <2>1, RepairConstants DEF Timed, Least
<1>3. ASSUME NEW s \in Open PROVE Timed(s)'
  <2>1. Timed(s)
    BY DEF HostInv, Times
  <2>2. Asked(s)' \in Int /\ -1 <= Asked(s)' /\ Asked(s)' <= Retry
    BY <1>2, RepairConstants
  <2>3. ASSUME Asked(s)' # None, NEW ask \in asks', ask.seq = s PROVE ask.left + Asked(s)' <= Delay
    <3>1. PICK a \in asks : ask.seq = a.seq /\ ask.left = a.left - 1
      BY PassTimeMoves
    <3>2. a.left \in Int /\ a.left + Asked(s) <= Delay
      BY <1>2, <2>1, <2>3, <3>1 DEF Timed, HostInv, Links, Asking
    <3> QED BY <1>2, <2>3, <3>1, <3>2, RepairConstants
  <2>4. ASSUME Asked(s)' # None, NEW d \in wire', d.seq = s
        PROVE  /\ d.copy = "repair" => d.left + Asked(s)' <= 2 * Delay
               /\ d.copy = "original" => d.left + Asked(s)' <= Delay
    <3>1. PICK e \in wire : d.seq = e.seq /\ d.left = e.left - 1 /\ d.copy = e.copy
      BY PassTimeMoves
    <3>2. /\ e.left \in Int
          /\ d.copy = "repair" => e.left + Asked(s) <= 2 * Delay
          /\ d.copy = "original" => e.left + Asked(s) <= Delay
      BY <1>2, <2>1, <2>4, <3>1 DEF Timed, HostInv, Links, OnWire
    <3> QED BY <1>2, <2>4, <3>1, <3>2, RepairConstants
  <2> QED BY <1>1, <2>2, <2>3, <2>4 DEF Timed
<1>4. ASSUME NEW s \in DOMAIN partial PROVE Quiet(s)'
  <2>1. Quiet(s) /\ s \in Open
    BY DEF HostInv, Times, Open
  <2>2. partial[s] \in PartialFrame(s)
    BY DEF HostInv, AssemblerInv, Types
  <2>3. partial[s].left \in Int /\ partial[s].age \in Nat
    BY <2>2 DEF PartialFrame
  <2>4. quiet'[s] \in Int /\ 0 <= quiet'[s] /\ quiet'[s] <= TailQuiet
        /\ (quiet'[s] = quiet[s] + 1 \/ quiet'[s] >= TailQuiet)
    BY <1>1, <2>1, RepairConstants DEF Quiet, Least
  <2>5. partial'[s].left + partial'[s].age <= 2 * Budget
    <3>1. partial[s].left + partial[s].age <= 2 * Budget
      BY <2>1 DEF Quiet
    <3>2. partial'[s].left = partial[s].left - 1 /\ partial'[s].age \in Int /\ partial'[s].age <= partial[s].age + 1
      BY <1>1, <2>3, RepairConstants DEF Least
    <3> QED BY <2>3, <3>1, <3>2, RepairConstants
  <2>6. Asked(s)' # None => Ended(s)' \/ quiet'[s] >= TailQuiet \/ quiet'[s] + 2 * Delay >= Asked(s)'
    <3>1. Asked(s) # None => Ended(s) \/ quiet[s] >= TailQuiet \/ quiet[s] + 2 * Delay >= Asked(s)
      BY <2>1 DEF Quiet
    <3>2. quiet[s] \in Int /\ (quiet[s] >= TailQuiet => quiet'[s] >= TailQuiet)
      BY <1>1, <2>1, RepairConstants DEF Quiet, Least
    <3> QED BY <1>1, <1>2, <2>1, <2>4, <3>1, <3>2, RepairConstants
  <2> QED BY <2>4, <2>5, <2>6 DEF Quiet
<1> QED BY <1>1, <1>3, <1>4 DEF Times

LEMMA PassTimeKeepsDeadlines ==
  ASSUME HostInv, Timing, PassTime
  PROVE  Deadlines'
<1>1. /\ checked /\ ~checked' /\ Open' = Open /\ DOMAIN partial' = DOMAIN partial
      /\ DOMAIN unseen' = DOMAIN unseen
      /\ sentThrough' = sentThrough /\ losses' = losses
      /\ \A s \in DOMAIN partial : partial'[s].left = partial[s].left - 1 /\ quiet'[s] = Least(quiet[s] + 1, TailQuiet)
      /\ \A s \in DOMAIN unseen : unseen'[s] = IF unseen[s] = 0 THEN 0 ELSE unseen[s] - 1
      /\ \A s : (Ended(s)' <=> Ended(s)) /\ Has(s)' = Has(s)
      /\ \A s \in Open : Asked(s)' = IF Asked(s) = None THEN None ELSE Least(Asked(s) + 1, Retry)
  BY PassTimeTicks
<1>2. SUFFICES ASSUME NEW s \in Open, NEW c \in Chunks[s], c \notin Has(s) PROVE InTime(s, c)'
  BY <1>1 DEF Deadlines
<1>3. InTime(s, c) /\ Timed(s)
  BY <1>2 DEF HostInv, Deadlines, Times
<1>4. Checks = 1 /\ Checks' = 0
  BY <1>1 DEF Checks
<1>5. sentThrough # None
  BY OpenFacts, RepairConstants DEF HostInv, HostTypes
<1>6. /\ SinceFrame \in Int /\ SinceFrame' \in Int /\ SinceFrame' <= SinceFrame + 1
      /\ Flying(s) => SinceFrame' = SinceFrame + 1
  <2>1. nextFrameIn' = (IF nextFrameIn = 0 THEN 0 ELSE nextFrameIn - 1) /\ nextFrameIn \in Int
    BY DEF PassTime, HostInv, HostTypes
  <2>2. Flying(s) => SinceFrame <= Delay
    BY <1>5, ClockFacts, OpenFacts
  <2> QED BY <2>1, <2>2, RepairConstants DEF SinceFrame, Timing
<1>7. Lives(s, 1)
  <2>1. Elapsed(s)' \in Int /\ Elapsed(s)' <= Elapsed(s) + 1
    <3> DEFINE g == (sentThrough - s) * FramePeriod
    <3>1. Elapsed(s) = g + SinceFrame
      BY DEF Elapsed
    <3>4. Elapsed(s)' = g + SinceFrame'
      BY <1>1 DEF Elapsed
    <3>2. g \in Int
      <4>1. sentThrough - s \in Int
        BY OpenFacts DEF HostInv, HostTypes
      <4> QED BY <4>1, RepairConstants
    <3>3. SinceFrame \in Int /\ SinceFrame' \in Int /\ SinceFrame' <= SinceFrame + 1
      BY <1>6
    <3> HIDE DEF g
    <3>6. \A x, y, z \in Int : z <= y + 1 => x + z \in Int /\ x + z <= (x + y) + 1
      OBVIOUS
    <3>5. g + SinceFrame' \in Int /\ g + SinceFrame' <= (g + SinceFrame) + 1
      BY <3>2, <3>3, <3>6
    <3> QED BY <3>1, <3>4, <3>5
  <2>2. Left(s)' \in Int /\ Left(s)' >= Left(s) - 1
    <3>1. Left(s) \in Int
      BY OpenFacts
    <3>2. CASE s \in DOMAIN partial
      BY <1>1, <3>1, <3>2 DEF Left
    <3>3. CASE s \notin DOMAIN partial
      BY <1>1, <3>1, <3>3 DEF Left, Open
    <3> QED BY <3>2, <3>3
  <2> QED BY <1>1, <2>1, <2>2 DEF Lives
<1>8. Copies(s, c, 0)
  <2>1. Sent(s, c)' = Sent(s, c) /\ Again(s, c)' = Again(s, c)
    BY PassTimeMoves DEF Sent, Again
  <2>2. losses \in Int /\ Sent(s, c) \in Int /\ Again(s, c) \in Int
    BY DEF HostInv, HostTypes, Sent, Again
  <2> QED BY <1>1, <2>1, <2>2 DEF Copies
<1>9. Waits(s, 1)
  <2>1. CASE Asked(s) # None
    BY <1>1, <1>3, <2>1, RepairConstants DEF Waits, Timed, Least
  <2>2. CASE Asked(s) = None
    <3>1. Asked(s)' = None
      BY <1>1, <2>2
    <3>2. Flying(s)' <=> Flying(s)
      BY PassTimeMoves
    <3>3. CASE Ended(s)
      <4>1. ToAsk(s) = 1
        BY <1>4, <3>3 DEF ToAsk
      <4>2. ToAsk(s)' = 0
        <5> Ended(s)'
          BY <1>1, <3>3
        <5> QED BY <1>4 DEF ToAsk
      <4> QED BY <2>2, <3>1, <4>1, <4>2 DEF Waits
    <3>4. CASE ~Ended(s) /\ Flying(s)
      <4>1. ToAsk(s) = Delay - SinceFrame + TailQuiet
        BY <3>4 DEF ToAsk
      <4>2. ToAsk(s)' = Delay - SinceFrame' + TailQuiet
        <5> ~Ended(s)' /\ Flying(s)'
          BY <1>1, <3>2, <3>4
        <5> QED BY DEF ToAsk
      <4>3. ToAsk(s)' \in Int /\ ToAsk(s)' <= ToAsk(s) - 1
        BY <1>6, <3>4, <4>1, <4>2, RepairConstants
      <4> QED BY <2>2, <3>1, <4>3 DEF Waits
    <3>5. CASE ~Ended(s) /\ ~Flying(s)
      <4>1. ToAsk(s) = IF quiet[s] < TailQuiet THEN TailQuiet - quiet[s] ELSE 1
        BY <1>4, <3>5 DEF ToAsk
      <4>2. ToAsk(s)' = IF quiet'[s] < TailQuiet THEN TailQuiet - quiet'[s] ELSE 0
        <5> ~Ended(s)' /\ ~Flying(s)'
          BY <1>1, <3>2, <3>5
        <5> QED BY <1>4 DEF ToAsk
      <4>3. s \in DOMAIN partial
        BY <3>5, OpenFacts DEF Ended
      <4>4. quiet[s] \in Int /\ quiet'[s] = Least(quiet[s] + 1, TailQuiet)
        BY <1>1, <4>3 DEF HostInv, Times, Quiet
      <4>5. ToAsk(s)' \in Int /\ ToAsk(s)' <= ToAsk(s) - 1
        BY <4>1, <4>2, <4>4, RepairConstants DEF Least
      <4> QED BY <2>2, <3>1, <4>5 DEF Waits
    <3> QED BY <3>3, <3>4, <3>5
  <2> QED BY <2>1, <2>2
<1> QED BY <1>3, <1>7, <1>8, <1>9, DeadlineKept

(* A tick brings a deadline and the chunk nearer alike.                    *)
LEMMA PassTimeKeepsInv ==
  ASSUME HostInv, Timing, PassTime
  PROVE  HostInv'
<1>1. AssemblerInv'
  BY TickKeepsInv, PassTimeTicks DEF HostInv
<1> QED BY <1>1, PassTimeKeepsLinks, PassTimeKeepsTimes, PassTimeKeepsDeadlines DEF HostInv

(* An open frame misses a chunk.                                           *)
LEMMA SomethingMissing ==
  ASSUME HostInv, NEW s \in Open
  PROVE  \E c \in Chunks[s] : c \notin Has(s)
<1>1. CASE s \in DOMAIN partial
  BY <1>1, KnownMissing
<1>2. CASE s \notin DOMAIN partial
  <2>1. s \in Int /\ 0 <= s /\ s <= LastFrame
    BY OpenFacts
  <2>2. Has(s) = {} /\ LastChunk(s) \in Chunks[s]
    BY <1>2, <2>1, ChunksAreNumbered DEF Has
  <2> QED BY <2>2
<1> QED BY <1>1, <1>2

(* No frame has reached its deadline.                                      *)
LEMMA NothingExpires ==
  ASSUME HostInv, Timing
  PROVE  /\ DOMAIN LivePartial = DOMAIN partial
         /\ \A s \in DOMAIN partial :
              /\ LivePartial[s].got = partial[s].got
              /\ LivePartial[s].left \in Int /\ LivePartial[s].left >= partial[s].left
              /\ LivePartial[s].age \in Nat
              /\ LivePartial[s].left + LivePartial[s].age <= 2 * Budget
         /\ DOMAIN LiveUnseen = DOMAIN unseen
         /\ \A s \in DOMAIN unseen : LiveUnseen[s] = unseen[s]
         /\ ~Expired
<1>1. \A s \in Open : Left(s) > 0
  <2> SUFFICES ASSUME NEW s \in Open PROVE Left(s) > 0
    OBVIOUS
  <2>1. PICK c \in Chunks[s] : c \notin Has(s)
    BY SomethingMissing
  <2>2. Remaining(s, c) < Left(s)
    BY <2>1 DEF HostInv, Deadlines, InTime
  <2>3. Remaining(s, c) \in Int /\ 0 <= Remaining(s, c) /\ Left(s) \in Int
    BY RemainingFacts, OpenFacts
  <2> QED BY <2>2, <2>3
<1>2. Types /\ resend
  BY DEF HostInv, AssemblerInv, Faultless
<1>3. ASSUME NEW s \in DOMAIN partial
      PROVE  /\ Extended(partial[s]).got = partial[s].got
             /\ Extended(partial[s]).left \in Int /\ Extended(partial[s]).left >= partial[s].left
             /\ Extended(partial[s]).age \in Nat
             /\ Extended(partial[s]).left + Extended(partial[s]).age <= 2 * Budget
             /\ Extended(partial[s]).left > 0
  <2> DEFINE f == partial[s]
  <2>1. f \in [got : SUBSET Chunks[s], left : Int, age : Nat]
    BY <1>2 DEF Types, PartialFrame
  <2>2. f.left > 0
    BY <1>1 DEF Open, Left
  <2>3. f.left + f.age <= 2 * Budget
    BY DEF HostInv, Times, Quiet
  <2>4. silence \in Nat
    BY <1>2 DEF Types
  <2> HIDE DEF f
  <2>5. f.left \in Int /\ f.age \in Nat
    BY <2>1
  <2>6. CASE silence < SilenceSpan
    <3>1. Extended(f) = f
      BY <1>2, <2>6 DEF Extended
    <3> QED BY <2>2, <2>3, <2>5, <3>1 DEF f
  <2>7. CASE ~(silence < SilenceSpan)
    <3> DEFINE later == Least(f.left + silence, 2 * Budget - f.age)
    <3>1. Extended(f) = [f EXCEPT !.left = later]
      BY <1>2, <2>7 DEF Extended
    <3>2. later \in Int /\ later >= f.left /\ later + f.age <= 2 * Budget /\ later > 0
      BY <2>2, <2>3, <2>4, <2>5, RepairConstants DEF Least
    <3> HIDE DEF later
    <3>3. Extended(f).got = f.got /\ Extended(f).left = later /\ Extended(f).age = f.age
      BY <2>1, <3>1
    <3> QED BY <2>5, <3>2, <3>3 DEF f
  <2> QED BY <2>6, <2>7
<1>4. LivePartial = [s \in DOMAIN partial |-> Extended(partial[s])]
  <2> DEFINE extended == [s \in DOMAIN partial |-> Extended(partial[s])]
  <2>1. LivePartial = [s \in {t \in DOMAIN partial : extended[t].left > 0} |-> extended[s]]
    BY DEF LivePartial, Restrict
  <2>2. {t \in DOMAIN partial : extended[t].left > 0} = DOMAIN partial
    BY <1>3
  <2>3. LivePartial = [s \in DOMAIN partial |-> extended[s]]
    BY <2>1, <2>2
  <2> QED BY <2>3
<1>5. DOMAIN LivePartial = DOMAIN partial /\ \A s \in DOMAIN partial : LivePartial[s] = Extended(partial[s])
  BY <1>4
<1>6. DOMAIN LiveUnseen = DOMAIN unseen /\ \A s \in DOMAIN unseen : LiveUnseen[s] = unseen[s]
  <2>1. LiveUnseen = [s \in {t \in DOMAIN unseen : unseen[t] > 0} |-> unseen[s]]
    BY DEF LiveUnseen, Restrict
  <2>2. \A s \in DOMAIN unseen : unseen[s] > 0
    <3> SUFFICES ASSUME NEW s \in DOMAIN unseen PROVE unseen[s] > 0
      OBVIOUS
    <3>1. s \in Open /\ s \notin DOMAIN partial
      BY DEF Open, HostInv, Contiguous
    <3> QED BY <1>1, <3>1 DEF Left
  <2>3. {t \in DOMAIN unseen : unseen[t] > 0} = DOMAIN unseen
    BY <2>2
  <2> QED BY <2>1, <2>3
<1>7. ~Expired
  BY <1>5, <1>6 DEF Expired
<1> QED BY <1>3, <1>5, <1>6, <1>7

(* A chunk that arrives and is wanted belongs to an open frame or, as the  *)
(* original or the announcement, to one of the newest two that were sent.  *)
Arrives(d) ==
  \/ d.seq \in Open
  \/ /\ d.seq \notin Open /\ d.copy # "repair"
     /\ d.copy = "original" => d.seq = sentThrough /\ SinceFrame <= Delay
     /\ d.copy = "announcement" =>
          d.chunk = LastChunk(d.seq) /\ (d.seq = sentThrough \/ (d.seq = sentThrough - 1 /\ SinceFrame <= Delay))
     /\ d.seq > newest \/ (newest = d.seq + 1 /\ newest = sentThrough /\ newest \in Open \union held)

(* What arrives is of a frame that was sent and is not too old.            *)
LEMMA ArrivalFacts ==
  ASSUME HostInv, Timing, NEW d \in wire
  PROVE  /\ d.seq \in Int /\ 0 <= d.seq /\ d.seq <= sentThrough /\ d.seq <= LastFrame /\ d.seq \in Sequence
         /\ d.chunk \in Chunks[d.seq] /\ d.left \in Int /\ 0 <= d.left
         /\ sentThrough \in Int /\ newest \in Int /\ newest <= sentThrough
         /\ d.copy \in {"original", "announcement", "repair"}
         /\ Wanted(d.seq) => Arrives(d) /\ sentThrough - d.seq < Window
<1>1. OnWire(d) /\ (d.copy = "repair" => AskedFor(d.seq)) /\ HostTypes /\ Contiguous /\ newest <= sentThrough
  BY DEF HostInv, Links, Losses
<1>2. /\ d.seq \in Int /\ 0 <= d.seq /\ d.seq <= sentThrough /\ d.chunk \in Chunks[d.seq] /\ d.left \in Int /\ 0 <= d.left
      /\ sentThrough \in Int /\ sentThrough <= LastFrame /\ d.copy \in {"original", "announcement", "repair"}
  BY <1>1 DEF OnWire, HostTypes
<1>3. d.seq <= LastFrame /\ d.seq \in Sequence
  <2>1. d.seq <= LastFrame
    BY <1>2, RepairConstants
  <2> QED BY <1>2, <2>1, ChunksAreNumbered
<1>4. newest \in Int /\ completed \in Int /\ Sequence \subseteq Int
  BY Numbers DEF HostInv, AssemblerInv
<1>5. SinceFrame \in Int /\ 0 <= SinceFrame
  <2> sentThrough # None
    BY <1>2, RepairConstants
  <2> QED BY ClockFacts
<1>6. ASSUME Wanted(d.seq) PROVE Arrives(d)
  <2>1. CASE d.seq \in Open
    BY <2>1 DEF Arrives
  <2>2. CASE d.seq \notin Open
    <3>1. d.copy # "repair"
      BY <1>1, <1>6, <2>2 DEF AskedFor
    <3>2. d.copy = "original" => d.seq = sentThrough /\ SinceFrame <= Delay
      BY <1>1, <1>2, <1>5, RepairConstants DEF OnWire
    <3>3. d.copy = "announcement" =>
            d.chunk = LastChunk(d.seq) /\ (d.seq = sentThrough \/ (d.seq = sentThrough - 1 /\ SinceFrame <= Delay))
      BY <1>1, <1>2, <1>5, RepairConstants DEF OnWire
    <3>4. d.seq > newest \/ (newest = d.seq + 1 /\ newest = sentThrough /\ newest \in Open \union held)
      <4> SUFFICES ASSUME d.seq <= newest PROVE newest = d.seq + 1 /\ newest = sentThrough /\ newest \in Open \union held
        BY <1>2, <1>4
      <4>1. d.seq > completed /\ d.seq \notin held
        BY <1>6 DEF Wanted
      <4>2. newest # None /\ newest # completed
        BY <1>2, <1>4, <4>1, RepairConstants
      <4>3. newest \in Open \union held
        BY <1>1, <4>2 DEF Contiguous
      <4>4. newest # d.seq
        BY <2>2, <4>1, <4>3
      <4>5. d.seq = sentThrough - 1
        BY <1>1, <1>2, <1>4, <3>1, <3>2, <3>3, <4>4
      <4> QED BY <1>1, <1>2, <1>4, <4>3, <4>4, <4>5
    <3> QED BY <2>2, <3>1, <3>2, <3>3, <3>4 DEF Arrives
  <2> QED BY <2>1, <2>2
<1>7. ASSUME Arrives(d) PROVE sentThrough - d.seq < Window
  <2>1. CASE d.seq \in Open
    BY <2>1, OpenIsRecent
  <2>2. CASE d.seq \notin Open
    <3>1. d.seq = sentThrough \/ d.seq = sentThrough - 1
      BY <1>2, <1>7, <2>2 DEF Arrives
    <3> QED BY <1>2, <3>1, TimingFacts, RepairConstants
  <2> QED BY <2>1, <2>2
<1> QED BY <1>1, <1>2, <1>3, <1>4, <1>6, <1>7

(* Nor is a frame too old, or one too many.                                *)
LEMMA NothingIsTooOld ==
  ASSUME HostInv, Timing, NEW d \in wire, Wanted(d.seq)
  PROVE  ~TooOld(d.seq) /\ ~Overflows(d.seq)
<1> DEFINE s == d.seq
           recent == (sentThrough - Window + 1)..sentThrough
<1>1. /\ s \in Int /\ sentThrough \in Int /\ newest \in Int /\ newest <= sentThrough
      /\ sentThrough - s < Window /\ s <= sentThrough
  BY ArrivalFacts
<1>2. ~TooOld(s)
  BY <1>1, RepairConstants DEF TooOld
<1>3. ASSUME s \notin DOMAIN LivePartial, Cardinality(DOMAIN LivePartial) >= Window PROVE FALSE
  <2>1. DOMAIN LivePartial = DOMAIN partial
    BY NothingExpires
  <2>2. \A t \in DOMAIN partial : t \in recent
    <3> SUFFICES ASSUME NEW t \in DOMAIN partial PROVE t \in recent
      OBVIOUS
    <3>1. t \in Open
      BY DEF Open
    <3>2. t \in Int /\ t <= sentThrough /\ sentThrough - t < Window
      BY <3>1, OpenFacts, OpenIsRecent
    <3> QED BY <1>1, <3>2, RepairConstants
  <2>3. s \in recent
    BY <1>1, RepairConstants
  <2>4. IsFiniteSet(recent) /\ Cardinality(recent) = Window
    <3>1. sentThrough - Window + 1 \in Int
      BY <1>1, RepairConstants
    <3>2. /\ IsFiniteSet(recent)
          /\ Cardinality(recent) = IF sentThrough - Window + 1 > sentThrough THEN 0
                                   ELSE sentThrough - (sentThrough - Window + 1) + 1
      BY <1>1, <3>1, FS_Interval
    <3> QED BY <1>1, <3>2, RepairConstants
  <2> HIDE DEF s, recent
  <2>5. DOMAIN partial \in SUBSET recent
    BY <2>2
  <2>6. Cardinality(DOMAIN partial) <= Cardinality(recent)
        /\ (Cardinality(recent) = Cardinality(DOMAIN partial) => recent = DOMAIN partial)
    BY <2>4, <2>5, FS_Subset
  <2>7. IsFiniteSet(DOMAIN partial)
    BY <2>4, <2>5, FS_Subset
  <2>8. Cardinality(DOMAIN partial) \in Nat
    BY <2>7, FS_CardinalityType
  <2>9. Cardinality(DOMAIN partial) = Cardinality(recent)
    BY <1>3, <2>1, <2>4, <2>6, <2>8, RepairConstants
  <2> QED BY <1>3, <2>1, <2>3, <2>6, <2>9
<1> QED BY <1>2, <1>3 DEF Overflows

(* What a chunk does when nothing expires or overflows, in the same words  *)
(* whether the frame is unwanted, stays incomplete or is complete.         *)
Completes(d) == Wanted(d.seq) /\ Has(d.seq) \union {d.chunk} = Chunks[d.seq]
Adds(d) == Wanted(d.seq) /\ ~Completes(d)
Stays(d, t) == Completes(d) /\ d.seq \in Keyframes => t >= d.seq
Revealed(d) == IF Wanted(d.seq) THEN SwallowedBefore(d.seq) ELSE {}
Waiting(d) == IF Completes(d) THEN {d.seq} \union {t \in held : Stays(d, t)} ELSE held

Delivered(d) ==
  /\ newest' = IF Wanted(d.seq) /\ d.seq > newest THEN d.seq ELSE newest
  /\ HandOut(FALSE, Waiting(d), Open')
  /\ \A t : t \in DOMAIN partial' <=> \/ t \in DOMAIN partial /\ t # d.seq /\ Stays(d, t)
                                      \/ t = d.seq /\ Adds(d)
  /\ \A t : t \in DOMAIN unseen' <=> \/ t \in DOMAIN unseen /\ t # d.seq /\ Stays(d, t)
                                     \/ t \in Revealed(d) /\ Stays(d, t)
  /\ \A t \in DOMAIN unseen' : unseen'[t] = IF t \in Revealed(d) THEN Budget ELSE unseen[t]
  /\ \A t \in DOMAIN partial' :
       IF t \in DOMAIN partial
       THEN /\ partial'[t].got = partial[t].got \union (IF t = d.seq THEN {d.chunk} ELSE {})
            /\ partial'[t].left \in Int /\ partial'[t].left >= partial[t].left
            /\ partial'[t].age \in Nat /\ partial'[t].left + partial'[t].age <= 2 * Budget
       ELSE partial'[t] = [got |-> {d.chunk}, left |-> Budget, age |-> 0]

LEMMA IgnoreChunkDelivers ==
  ASSUME HostInv, Timing, NEW d \in wire, IgnoreChunk(d.seq)
  PROVE  Delivered(d)
<1> DEFINE s == d.seq
<1>1. /\ ~Wanted(s) /\ partial' = LivePartial /\ unseen' = LiveUnseen /\ newest' = newest
      /\ HandOut(Expired, held, DOMAIN partial' \union DOMAIN unseen')
  BY DEF IgnoreChunk
<1>2. /\ DOMAIN LivePartial = DOMAIN partial
      /\ \A t \in DOMAIN partial :
           /\ LivePartial[t].got = partial[t].got
           /\ LivePartial[t].left \in Int /\ LivePartial[t].left >= partial[t].left
           /\ LivePartial[t].age \in Nat
           /\ LivePartial[t].left + LivePartial[t].age <= 2 * Budget
      /\ DOMAIN LiveUnseen = DOMAIN unseen
      /\ \A t \in DOMAIN unseen : LiveUnseen[t] = unseen[t]
  BY NothingExpires
<1>3. Expired = FALSE
  BY NothingExpires DEF Expired
<1>4. /\ ~Completes(d) /\ ~Adds(d) /\ Revealed(d) = {} /\ Waiting(d) = held
      /\ \A t : Stays(d, t)
  BY <1>1 DEF Completes, Adds, Revealed, Waiting, Stays
<1>5. \A t \in Open : t # s
  <2> SUFFICES ASSUME NEW t \in Open PROVE Wanted(t)
    BY <1>1
  <2>1. completed < t /\ t \notin held /\ t \in Int /\ completed \in Int
    BY OpenFacts
  <2> QED BY <2>1 DEF Wanted
<1>6. HandOut(FALSE, Waiting(d), Open')
  BY <1>1, <1>3, <1>4 DEF Open
<1>7. \A t : (t \in DOMAIN partial' <=> t \in DOMAIN partial) /\ (t \in DOMAIN unseen' <=> t \in DOMAIN unseen)
  BY <1>1, <1>2
<1> QED BY <1>1, <1>2, <1>4, <1>5, <1>6, <1>7 DEF Delivered, Open

(* A chunk of a frame that is wanted.                                      *)
LEMMA WantedChunkFacts ==
  ASSUME HostInv, Timing, NEW d \in wire, Wanted(d.seq)
  PROVE  /\ ~TooOld(d.seq) /\ ~Overflows(d.seq) /\ ~Expired /\ RoomFor(d.seq) = LivePartial
         /\ WithChunk(d.seq, d.chunk).got = Has(d.seq) \union {d.chunk}
         /\ IF d.seq \in DOMAIN partial
            THEN /\ WithChunk(d.seq, d.chunk).left = LivePartial[d.seq].left
                 /\ WithChunk(d.seq, d.chunk).age = LivePartial[d.seq].age
            ELSE WithChunk(d.seq, d.chunk) = [got |-> {d.chunk}, left |-> Budget, age |-> 0]
         /\ DOMAIN UnseenAfter(d.seq) = (DOMAIN unseen \ {d.seq}) \union SwallowedBefore(d.seq)
         /\ \A t \in DOMAIN UnseenAfter(d.seq) :
              UnseenAfter(d.seq)[t] = IF t \in SwallowedBefore(d.seq) THEN Budget ELSE unseen[t]
<1> DEFINE s == d.seq
           c == d.chunk
<1>1. ~TooOld(s) /\ ~Overflows(s) /\ ~Expired
  BY NothingIsTooOld, NothingExpires
<1>2. RoomFor(s) = LivePartial
  BY <1>1 DEF RoomFor
<1>3. /\ DOMAIN LivePartial = DOMAIN partial
      /\ \A t \in DOMAIN partial : LivePartial[t].got = partial[t].got
      /\ DOMAIN LiveUnseen = DOMAIN unseen
      /\ \A t \in DOMAIN unseen : LiveUnseen[t] = unseen[t]
  BY NothingExpires
<1>4. /\ WithChunk(s, c).got = Has(s) \union {c}
      /\ IF s \in DOMAIN partial
         THEN WithChunk(s, c).left = LivePartial[s].left /\ WithChunk(s, c).age = LivePartial[s].age
         ELSE WithChunk(s, c) = [got |-> {c}, left |-> Budget, age |-> 0]
  <2>1. CASE s \in DOMAIN partial
    <3> DEFINE f == LivePartial[s]
    <3>1. f \in [got : SUBSET Chunks[s], left : Int, age : Nat]
      BY <1>3, <2>1, LiveFacts DEF OpenFrame, PartialFrame, HostInv, AssemblerInv
    <3>2. WithChunk(s, c) = [f EXCEPT !.got = f.got \union {c}]
      BY <1>3, <2>1 DEF WithChunk
    <3>3. f.got = Has(s)
      BY <1>3, <2>1 DEF Has
    <3> HIDE DEF f
    <3>4. WithChunk(s, c).got = f.got \union {c} /\ WithChunk(s, c).left = f.left /\ WithChunk(s, c).age = f.age
      BY <3>1, <3>2
    <3>5. WithChunk(s, c).got = Has(s) \union {c}
      BY <3>3, <3>4
    <3> QED BY <2>1, <3>4, <3>5 DEF f
  <2>2. CASE s \notin DOMAIN partial
    <3>1. WithChunk(s, c) = [got |-> {c}, left |-> Budget, age |-> 0]
      BY <1>3, <2>2 DEF WithChunk
    <3>2. Has(s) = {}
      BY <2>2 DEF Has
    <3>3. WithChunk(s, c).got = Has(s) \union {c}
      BY <3>1, <3>2
    <3> QED BY <2>2, <3>1, <3>3
  <2> QED BY <2>1, <2>2
<1>5. /\ DOMAIN UnseenAfter(s) = (DOMAIN unseen \ {s}) \union SwallowedBefore(s)
      /\ \A t \in DOMAIN UnseenAfter(s) :
           UnseenAfter(s)[t] = IF t \in SwallowedBefore(s) THEN Budget ELSE unseen[t]
  <2>1. UnseenAfter(s) = [t \in (DOMAIN LiveUnseen \ {s}) \union SwallowedBefore(s) |->
                            IF t \in SwallowedBefore(s) THEN Budget ELSE LiveUnseen[t]]
    BY DEF UnseenAfter, HostInv, Faultless
  <2> QED BY <1>3, <2>1
<1> QED BY <1>1, <1>2, <1>4, <1>5

LEMMA AddChunkDelivers ==
  ASSUME HostInv, Timing, NEW d \in wire, AddChunk(d.seq, d.chunk)
  PROVE  Delivered(d)
<1> DEFINE s == d.seq
           c == d.chunk
<1>1. /\ Wanted(s) /\ WithChunk(s, c).got # Chunks[s]
      /\ partial' = [t \in {s} \union DOMAIN RoomFor(s) |->
                       IF t = s THEN WithChunk(s, c) ELSE RoomFor(s)[t]]
      /\ unseen' = UnseenAfter(s)
      /\ newest' = IF s > newest THEN s ELSE newest
      /\ HandOut(Expired \/ Overflows(s), held, DOMAIN partial' \union DOMAIN unseen')
  BY DEF AddChunk
<1>2. /\ DOMAIN LivePartial = DOMAIN partial
      /\ \A t \in DOMAIN partial :
           /\ LivePartial[t].got = partial[t].got
           /\ LivePartial[t].left \in Int /\ LivePartial[t].left >= partial[t].left
           /\ LivePartial[t].age \in Nat
           /\ LivePartial[t].left + LivePartial[t].age <= 2 * Budget
  BY NothingExpires
<1>3. /\ ~Overflows(s) /\ ~Expired /\ RoomFor(s) = LivePartial
      /\ WithChunk(s, c).got = Has(s) \union {c}
      /\ IF s \in DOMAIN partial
         THEN WithChunk(s, c).left = LivePartial[s].left /\ WithChunk(s, c).age = LivePartial[s].age
         ELSE WithChunk(s, c) = [got |-> {c}, left |-> Budget, age |-> 0]
  BY <1>1, WantedChunkFacts
<1>4. /\ DOMAIN UnseenAfter(s) = (DOMAIN unseen \ {s}) \union SwallowedBefore(s)
      /\ \A t \in DOMAIN UnseenAfter(s) :
           UnseenAfter(s)[t] = IF t \in SwallowedBefore(s) THEN Budget ELSE unseen[t]
  BY <1>1, WantedChunkFacts
<1>5. /\ ~Completes(d) /\ Adds(d) /\ Revealed(d) = SwallowedBefore(s) /\ Waiting(d) = held
      /\ \A t : Stays(d, t)
  BY <1>1, <1>3 DEF Completes, Adds, Revealed, Waiting, Stays
<1>6. DOMAIN partial' = {s} \union DOMAIN partial
      /\ partial'[s] = WithChunk(s, c)
      /\ \A t \in DOMAIN partial : t # s => partial'[t] = LivePartial[t]
  BY <1>1, <1>2, <1>3
<1>7. ASSUME NEW t \in DOMAIN partial'
      PROVE  IF t \in DOMAIN partial
             THEN /\ partial'[t].got = partial[t].got \union (IF t = s THEN {c} ELSE {})
                  /\ partial'[t].left \in Int /\ partial'[t].left >= partial[t].left
                  /\ partial'[t].age \in Nat /\ partial'[t].left + partial'[t].age <= 2 * Budget
             ELSE partial'[t] = [got |-> {c}, left |-> Budget, age |-> 0]
  <2>1. CASE t = s /\ t \in DOMAIN partial
    <3>1. partial'[t].got = partial[t].got \union {c}
      BY <1>3, <1>6, <2>1 DEF Has
    <3>2. partial'[t].left = LivePartial[t].left /\ partial'[t].age = LivePartial[t].age
      BY <1>3, <1>6, <2>1
    <3> QED BY <1>2, <2>1, <3>1, <3>2
  <2>2. CASE t = s /\ t \notin DOMAIN partial
    BY <1>3, <1>6, <2>2
  <2>3. CASE t # s
    <3>1. t \in DOMAIN partial /\ partial'[t] = LivePartial[t]
      BY <1>6, <2>3
    <3>2. partial[t].got = partial[t].got \union {}
      OBVIOUS
    <3> QED BY <1>2, <2>3, <3>1, <3>2
  <2> QED BY <2>1, <2>2, <2>3
<1>8. HandOut(FALSE, Waiting(d), Open')
  <2>1. (Expired \/ Overflows(s)) = FALSE
    BY <1>3
  <2> QED BY <1>1, <1>5, <2>1 DEF Open
<1>9. /\ \A t : t \in DOMAIN partial' <=> \/ t \in DOMAIN partial /\ t # s /\ Stays(d, t)
                                          \/ t = s /\ Adds(d)
      /\ \A t : t \in DOMAIN unseen' <=> \/ t \in DOMAIN unseen /\ t # s /\ Stays(d, t)
                                         \/ t \in Revealed(d) /\ Stays(d, t)
      /\ \A t \in DOMAIN unseen' : unseen'[t] = IF t \in Revealed(d) THEN Budget ELSE unseen[t]
  BY <1>1, <1>4, <1>5, <1>6
<1>10. newest' = IF Wanted(s) /\ s > newest THEN s ELSE newest
  BY <1>1
<1> QED BY <1>7, <1>8, <1>9, <1>10 DEF Delivered

LEMMA CompleteHeldFrameDelivers ==
  ASSUME HostInv, Timing, NEW d \in wire, CompleteHeldFrame(d.seq, d.chunk)
  PROVE  Delivered(d)
<1> DEFINE s == d.seq
           c == d.chunk
<1>1. /\ Wanted(s) /\ WithChunk(s, c).got = Chunks[s]
      /\ partial' = StillAwaited(s, Others(s)) /\ unseen' = StillAwaited(s, UnseenAfter(s))
      /\ newest' = IF s > newest THEN s ELSE newest
      /\ HandOut(LossBefore(s), {s} \union {t \in held : s \in Keyframes => t >= s},
                 DOMAIN partial' \union DOMAIN unseen')
  BY DEF CompleteHeldFrame
<1>2. /\ DOMAIN LivePartial = DOMAIN partial
      /\ \A t \in DOMAIN partial :
           /\ LivePartial[t].got = partial[t].got
           /\ LivePartial[t].left \in Int /\ LivePartial[t].left >= partial[t].left
           /\ LivePartial[t].age \in Nat
           /\ LivePartial[t].left + LivePartial[t].age <= 2 * Budget
  BY NothingExpires
<1>3. /\ ~Overflows(s) /\ ~Expired /\ RoomFor(s) = LivePartial
      /\ WithChunk(s, c).got = Has(s) \union {c}
  BY <1>1, WantedChunkFacts
<1>4. /\ DOMAIN UnseenAfter(s) = (DOMAIN unseen \ {s}) \union SwallowedBefore(s)
      /\ \A t \in DOMAIN UnseenAfter(s) :
           UnseenAfter(s)[t] = IF t \in SwallowedBefore(s) THEN Budget ELSE unseen[t]
  BY <1>1, WantedChunkFacts
<1>5. /\ Completes(d) /\ ~Adds(d) /\ Revealed(d) = SwallowedBefore(s)
      /\ \A t : Stays(d, t) <=> (s \in Keyframes => t >= s)
      /\ Waiting(d) = {s} \union {t \in held : s \in Keyframes => t >= s}
  <2>1. Completes(d)
    BY <1>1, <1>3 DEF Completes
  <2> QED BY <1>1, <2>1 DEF Adds, Revealed, Waiting, Stays
<1>6. DOMAIN Others(s) = DOMAIN partial \ {s} /\ \A t \in DOMAIN Others(s) : Others(s)[t] = LivePartial[t]
  BY <1>2, <1>3 DEF Others, Restrict
<1>7. \A f : /\ \A t : t \in DOMAIN StillAwaited(s, f) <=> t \in DOMAIN f /\ (s \in Keyframes => t >= s)
             /\ \A t \in DOMAIN StillAwaited(s, f) : StillAwaited(s, f)[t] = f[t]
  BY DEF StillAwaited, From, Restrict
<1>8. /\ \A t : t \in DOMAIN partial' <=> t \in DOMAIN partial /\ t # s /\ Stays(d, t)
      /\ \A t \in DOMAIN partial' : partial'[t] = LivePartial[t]
  <2> DEFINE others == Others(s)
  <2>1. /\ \A t : t \in DOMAIN partial' <=> t \in DOMAIN others /\ (s \in Keyframes => t >= s)
        /\ \A t \in DOMAIN partial' : partial'[t] = others[t]
    BY <1>1, <1>7
  <2> HIDE DEF others
  <2> QED BY <1>5, <1>6, <2>1 DEF others
<1>9. /\ \A t : t \in DOMAIN unseen' <=> \/ t \in DOMAIN unseen /\ t # s /\ Stays(d, t)
                                         \/ t \in Revealed(d) /\ Stays(d, t)
      /\ \A t \in DOMAIN unseen' : unseen'[t] = IF t \in Revealed(d) THEN Budget ELSE unseen[t]
  <2> DEFINE after == UnseenAfter(s)
  <2>1. /\ \A t : t \in DOMAIN unseen' <=> t \in DOMAIN after /\ (s \in Keyframes => t >= s)
        /\ \A t \in DOMAIN unseen' : unseen'[t] = after[t]
    BY <1>1, <1>7
  <2> HIDE DEF after
  <2> QED BY <1>4, <1>5, <2>1 DEF after
<1>10. ASSUME NEW t \in DOMAIN partial'
       PROVE  /\ t \in DOMAIN partial
              /\ partial'[t].got = partial[t].got \union (IF t = s THEN {c} ELSE {})
              /\ partial'[t].left \in Int /\ partial'[t].left >= partial[t].left
              /\ partial'[t].age \in Nat /\ partial'[t].left + partial'[t].age <= 2 * Budget
  <2>1. t \in DOMAIN partial /\ t # s /\ partial'[t] = LivePartial[t]
    BY <1>8
  <2>2. partial[t].got = partial[t].got \union {}
    OBVIOUS
  <2> QED BY <1>2, <2>1, <2>2
<1>11. HandOut(FALSE, Waiting(d), Open')
  <2>1. LossBefore(s) = FALSE
    BY <1>3 DEF LossBefore
  <2> QED BY <1>1, <1>5, <2>1 DEF Open
<1>12. newest' = IF Wanted(s) /\ s > newest THEN s ELSE newest
  BY <1>1
<1> QED BY <1>5, <1>8, <1>9, <1>10, <1>11, <1>12 DEF Delivered

(* No datagram that arrives is refused.                                    *)
LEMMA ReceiveChunkDelivers ==
  ASSUME HostInv, Timing, NEW d \in wire, ReceiveChunk(d)
  PROVE  Delivered(d) /\ resend' = resend /\ silence' = 0
<1>1. Push(d.seq, d.chunk)
  BY DEF ReceiveChunk
<1>2. resend
  BY DEF HostInv, Faultless
<1>3. ~(Wanted(d.seq) /\ TooOld(d.seq))
  BY NothingIsTooOld
<1>4. IgnoreChunk(d.seq) \/ AddChunk(d.seq, d.chunk) \/ CompleteHeldFrame(d.seq, d.chunk)
  BY <1>1, <1>2, <1>3 DEF Push, RefuseLateChunk, CompleteFrame
<1>5. resend' = resend /\ silence' = 0
  BY <1>1 DEF Push
<1> QED BY <1>4, <1>5, IgnoreChunkDelivers, AddChunkDelivers, CompleteHeldFrameDelivers

(* Every frame up to the newest is waiting or awaited, apart from those    *)
(* that a waiting keyframe replaces.                                       *)
Unbroken(waiting, pending, n) ==
  /\ n \in Int /\ \A w \in waiting : w <= n
  /\ \A t \in waiting \union pending \union ({completed} \ {None}) : \A u \in (t + 1)..n :
       u \in waiting \union pending \/ \E k \in waiting \intersect Keyframes : u < k

(* Then nothing is skipped but what a keyframe replaces.                   *)
LEMMA NothingSkipped ==
  ASSUME NEW batch, NEW waiting, NEW pending, NEW n, Ordered(waiting, pending), History,
         Release(batch, waiting, pending), Unbroken(waiting, pending, n),
         NEW i \in DOMAIN batch, Skipped(Before(batch, i), batch[i])
  PROVE  batch[i] \in Keyframes
<1> SUFFICES ASSUME batch[i] \notin Keyframes PROVE FALSE
  OBVIOUS
<1>1. batch \in Seq(waiting) /\ i \in 1..Len(batch) /\ DOMAIN batch = 1..Len(batch) /\ Len(batch) \in Nat
  BY DEF Release
<1>2. /\ \A j, k \in 1..Len(batch) : j < k => batch[j] < batch[k]
      /\ \A w \in waiting : (\A t \in pending : w <= t) => \E j \in 1..Len(batch) : batch[j] = w
      /\ \A j \in 1..Len(batch) : \A t \in pending : batch[j] < t
      /\ \A j \in 1..Len(batch) : batch[j] \in waiting
  BY <1>1 DEF Release
<1>3. /\ waiting \subseteq Sequence /\ pending \subseteq Sequence /\ Sequence \subseteq Int
      /\ \A w \in waiting : w > completed
      /\ \A k \in waiting \intersect Keyframes : \A s \in waiting \union pending : k <= s
  BY ConstantTypes DEF Ordered
<1>4. completed \in Int /\ None = -1
  <2>1. completed \in Sequence \union {-1}
    BY DEF History, None
  <2> QED BY <1>3, <2>1 DEF None
<1> DEFINE p == Before(batch, i)
           x == batch[i]
<1>5. p # None /\ x > p + 1
  BY DEF Skipped
<1>6. x \in waiting /\ x \in Int
  BY <1>1, <1>2, <1>3
<1>7. p \in waiting \union ({completed} \ {None}) /\ p \in Int
  <2>1. CASE i = 1
    BY <1>4, <1>5, <2>1 DEF Before
  <2>2. CASE i # 1
    <3>1. i - 1 \in 1..Len(batch) /\ p = batch[i - 1]
      BY <1>1, <2>2 DEF Before
    <3> QED BY <1>2, <1>3, <3>1
  <2> QED BY <2>1, <2>2
(* Everything waiting below x is released before x, and so not after p.    *)
<1>8. ASSUME NEW w \in waiting, w < x PROVE w <= p
  <2>1. w \in Int /\ \A t \in pending : t \in Int /\ x < t
    BY <1>1, <1>2, <1>3
  <2>2. \A t \in pending : w <= t
    BY <1>6, <1>8, <2>1
  <2>3. PICK j \in 1..Len(batch) : batch[j] = w
    BY <1>2, <2>2
  <2>4. j < i
    <3> SUFFICES ASSUME i <= j PROVE FALSE
      BY <1>1
    <3>1. i = j \/ i < j
      BY <1>1
    <3>2. x = w \/ x < w
      BY <1>1, <1>2, <2>3, <3>1
    <3> QED BY <1>6, <1>8, <2>1, <3>2
  <2>5. i # 1 /\ i - 1 \in 1..Len(batch) /\ p = batch[i - 1]
    BY <1>1, <2>4 DEF Before
  <2>6. j = i - 1 \/ j < i - 1
    BY <1>1, <2>4
  <2>7. w = p \/ w < p
    BY <1>2, <2>3, <2>5, <2>6
  <2> QED BY <1>7, <2>1, <2>7
<1> HIDE DEF p, x
<1>9. n \in Int /\ x <= n
  BY <1>6 DEF Unbroken
<1>10. p + 1 \in (p + 1)..n
  BY <1>5, <1>6, <1>7, <1>9
<1>11. p + 1 \in waiting \union pending \/ \E k \in waiting \intersect Keyframes : p + 1 < k
  BY <1>7, <1>10 DEF Unbroken
<1>12. CASE p + 1 \in waiting
  BY <1>5, <1>7, <1>8, <1>12
<1>13. CASE p + 1 \in pending
  <2>1. x < p + 1
    BY <1>1, <1>2, <1>13 DEF x
  <2> QED BY <1>5, <1>6, <1>7, <2>1
<1>14. CASE \E k \in waiting \intersect Keyframes : p + 1 < k
  <2>1. PICK k \in waiting \intersect Keyframes : p + 1 < k
    BY <1>14
  <2>2. k \in Int /\ k <= x /\ k # x
    <3>1. x \notin Keyframes
      BY DEF x
    <3> QED BY <1>3, <1>6, <2>1, <3>1
  <2>3. k < x
    BY <1>6, <2>2
  <2>4. k <= p
    BY <1>8, <2>1, <2>3
  <2> QED BY <1>7, <2>1, <2>2, <2>4
<1> QED BY <1>11, <1>12, <1>13, <1>14

(* No loss is reported or owed, and what is held stays unbroken.           *)
LEMMA HandOutUnbroken ==
  ASSUME NEW waiting, NEW pending, NEW n, Ordered(waiting, pending), History, resend, ~owed,
         HandOut(FALSE, waiting, pending), Unbroken(waiting, pending, n)
  PROVE  /\ ~result'.lost /\ ~owed'
         /\ \A t \in held' \union pending \union ({completed'} \ {None}) : \A u \in (t + 1)..n : u \in held' \union pending
         /\ n \in waiting \union pending \union {completed} => n \in held' \union pending \union {completed'}
<1> DEFINE frames == Releasable(waiting, pending)
           first == Least(1, Len(frames))
<1>1. /\ result' = [frames |-> frames, lost |-> FALSE \/ LossAfter(frames, 1, first, owed)]
      /\ owed' = LossAfter(frames, 2, Len(frames), FALSE)
  BY DEF HandOut
<1>2. Release(frames, waiting, pending)
  BY ReleasableReleases
<1> HIDE DEF frames
<1>3. frames \in Seq(waiting) /\ Len(frames) \in Nat /\ DOMAIN frames = 1..Len(frames)
  BY <1>2 DEF Release
<1>4. first \in Int /\ first <= Len(frames)
  BY <1>3 DEF Least
<1>5. \A i \in 1..Len(frames) : Skipped(Before(frames, i), frames[i]) => frames[i] \in Keyframes
  BY <1>2, <1>3, NothingSkipped
<1> HIDE DEF first
<1>6. ~LossAfter(frames, 1, first, owed)
  <2>1. \A i \in 1..first : i \in 1..Len(frames) /\ i \in i..first
    BY <1>3, <1>4
  <2> QED BY <1>5, <2>1 DEF LossAfter
<1>7. ~LossAfter(frames, 2, Len(frames), FALSE)
  <2>1. \A i \in 2..Len(frames) : i \in 1..Len(frames) /\ i \in i..Len(frames)
    BY <1>3
  <2> QED BY <1>5, <2>1 DEF LossAfter
<1>8. ~result'.lost /\ ~owed'
  BY <1>1, <1>6, <1>7
<1>9. /\ completed' \in Int /\ completed' >= completed
      /\ completed' = completed \/ completed' \in waiting
      /\ \A h \in handed' : h <= completed'
      /\ held' \subseteq waiting /\ held' \intersect Keyframes = {}
      /\ \A s \in held' \union pending : s > completed'
      /\ \A w \in waiting : w \in held' \/ w \in handed'
  BY HandOutKeepsOrder
<1>10. waiting \subseteq Int /\ pending \subseteq Int /\ completed \in Int /\ None = -1
  <2>1. Sequence \subseteq Int
    BY ConstantTypes
  <2>2. completed \in Sequence \union {-1}
    BY DEF History, None
  <2> QED BY <2>1, <2>2 DEF Ordered, None
<1>11. ASSUME NEW t \in held' \union pending \union ({completed'} \ {None}), NEW u \in (t + 1)..n
       PROVE  u \in held' \union pending
  <2>1. t \in Int /\ t >= completed' /\ t \in waiting \union pending \union ({completed} \ {None})
    <3>1. CASE t \in held' \union pending
      BY <1>9, <1>10, <3>1
    <3>2. CASE t = completed'
      BY <1>9, <1>10, <1>11, <3>2
    <3> QED BY <3>1, <3>2
  <2>2. n \in Int
    BY DEF Unbroken
  <2>3. u \in Int /\ u > completed'
    BY <1>9, <2>1, <2>2
  <2>4. u \in waiting \union pending \/ \E k \in waiting \intersect Keyframes : u < k
    BY <2>1 DEF Unbroken
  <2>5. CASE u \in waiting
    <3>1. u \notin handed'
      BY <1>9, <2>3
    <3> QED BY <1>9, <2>5, <3>1
  <2>6. CASE \E k \in waiting \intersect Keyframes : u < k
    <3>1. PICK k \in waiting \intersect Keyframes : u < k
      BY <2>6
    <3>2. k \in handed' /\ k \in Int
      BY <1>9, <1>10, <3>1
    <3>3. k <= completed'
      BY <1>9, <3>2
    <3> QED BY <1>9, <2>3, <3>1, <3>2, <3>3
  <2> QED BY <2>4, <2>5, <2>6
<1>12. ASSUME n \in waiting \union pending \union {completed} PROVE n \in held' \union pending \union {completed'}
  <2>1. n \in Int /\ \A w \in waiting : w <= n
    BY DEF Unbroken
  <2>2. CASE n \in pending
    BY <2>2
  <2>3. CASE n \in waiting
    <3>1. n \in held' \/ n <= completed'
      BY <1>9, <2>3
    <3>2. n <= completed' => n = completed'
      <4>1. CASE completed' = completed
        <5>1. n > completed
          BY <2>3 DEF Ordered
        <5> QED BY <1>10, <2>1, <4>1, <5>1
      <4>2. CASE completed' \in waiting
        BY <1>9, <2>1, <4>2
      <4> QED BY <1>9, <4>1, <4>2
    <3> QED BY <3>1, <3>2
  <2>4. CASE n = completed
    <3>1. completed' = completed \/ completed' <= n
      BY <1>9, <2>1
    <3> QED BY <1>9, <1>10, <2>4, <3>1
  <2> QED BY <1>12, <2>2, <2>3, <2>4
<1> QED BY <1>8, <1>11, <1>12

(* The frames that an arrival reveals as swallowed, each at the cost of a  *)
(* loss.                                                                   *)
LEMMA RevealedFacts ==
  ASSUME HostInv, Timing, NEW d \in wire
  PROVE  /\ \A t : t \in Revealed(d) <=> Wanted(d.seq) /\ newest # None /\ t \in Int /\ newest < t /\ t < d.seq
         /\ \A t \in Revealed(d) :
              /\ t \in Int /\ 0 <= t /\ t \in Sequence /\ t < sentThrough
              /\ sentThrough - t + Still + (IF Flying(sentThrough) THEN 0 ELSE 1) <= MaxLosses
<1>1. /\ d.seq \in Int /\ d.seq <= sentThrough /\ d.seq <= LastFrame /\ 0 <= d.seq
      /\ sentThrough \in Int /\ newest \in Int /\ newest <= sentThrough
  BY ArrivalFacts
<1>2. /\ sentThrough - newest <= losses + (IF Flying(sentThrough) THEN 1 ELSE 0)
      /\ losses \in Nat /\ losses <= MaxLosses /\ MaxLosses <= Window
  BY DEF HostInv, Losses, HostTypes, Timing
<1>3. -1 <= newest
  <2>1. newest \in Sequence \union {None}
    BY DEF HostInv, AssemblerInv, Types
  <2> QED BY <2>1, RepairConstants DEF Sequence
<1>4. \A t : t \in SwallowedBefore(d.seq) <=> newest # None /\ t \in Int /\ newest < t /\ t < d.seq
  <2> SUFFICES ASSUME NEW t
               PROVE  t \in SwallowedBefore(d.seq) <=> newest # None /\ t \in Int /\ newest < t /\ t < d.seq
    OBVIOUS
  <2>1. t \in SwallowedBefore(d.seq) <=>
          newest # None /\ t \in (newest + 1)..(d.seq - 1) /\ t >= d.seq - Window
    BY DEF SwallowedBefore
  <2>2. t \in (newest + 1)..(d.seq - 1) <=> t \in Int /\ newest < t /\ t < d.seq
    BY <1>1
  <2>3. ASSUME t \in Int, newest < t PROVE t >= d.seq - Window
    BY <1>1, <1>2, <2>3, RepairConstants
  <2> QED BY <2>1, <2>2, <2>3
<1>5. \A t : t \in Revealed(d) <=> Wanted(d.seq) /\ newest # None /\ t \in Int /\ newest < t /\ t < d.seq
  BY <1>4 DEF Revealed
<1>6. ASSUME NEW t \in Revealed(d)
      PROVE  /\ t \in Int /\ 0 <= t /\ t \in Sequence /\ t < sentThrough
             /\ sentThrough - t + Still + (IF Flying(sentThrough) THEN 0 ELSE 1) <= MaxLosses
  <2>1. t \in Int /\ newest < t /\ t < d.seq
    BY <1>5
  <2>2. 0 <= t /\ t < sentThrough /\ t <= LastFrame
    BY <1>1, <1>3, <2>1, RepairConstants
  <2>3. t \in Sequence
    BY <2>1, <2>2, ChunksAreNumbered
  <2>4. sentThrough - t + Still + (IF Flying(sentThrough) THEN 0 ELSE 1) <= MaxLosses
    BY <1>1, <1>2, <2>1, RepairConstants DEF Still
  <2> QED BY <2>1, <2>2, <2>3, <2>4
<1> QED BY <1>5, <1>6

(* What waits and what is open is in order, up to the newest.              *)
LEMMA DeliveryInOrder ==
  ASSUME HostInv, Timing, NEW d \in wire, Delivered(d)
  PROVE  /\ Ordered(Waiting(d), Open') /\ History
         /\ newest' \in Int /\ newest <= newest' /\ newest' <= sentThrough /\ (Wanted(d.seq) => d.seq <= newest')
         /\ \A t \in Waiting(d) \union Open' : t \in Int /\ t <= newest'
         /\ \A t \in Open' : t \in Open \/ t = d.seq \/ t \in Revealed(d)
<1>1. /\ d.seq \in Int /\ d.seq <= sentThrough /\ d.seq \in Sequence
      /\ sentThrough \in Int /\ newest \in Int /\ newest <= sentThrough
  BY ArrivalFacts
<1>2. newest' = IF Wanted(d.seq) /\ d.seq > newest THEN d.seq ELSE newest
  BY DEF Delivered
<1>3. newest' \in Int /\ newest <= newest' /\ newest' <= sentThrough /\ (Wanted(d.seq) => d.seq <= newest')
  BY <1>1, <1>2
<1>4. Types /\ Apart /\ resend
  BY DEF HostInv, AssemblerInv, Faultless
<1>5. History
  BY <1>4 DEF History, Types, Apart
<1>6. completed \in Int /\ held \subseteq Sequence /\ Sequence \subseteq Int
  BY <1>4, Numbers
<1>7. \A t : t \in Open' => ((t \in Open /\ t # d.seq) \/ t \in Revealed(d) \/ (t = d.seq /\ Adds(d))) /\ Stays(d, t)
  <2> SUFFICES ASSUME NEW t \in Open'
               PROVE  ((t \in Open /\ t # d.seq) \/ t \in Revealed(d) \/ (t = d.seq /\ Adds(d))) /\ Stays(d, t)
    OBVIOUS
  <2>1. \/ t \in DOMAIN partial /\ t # d.seq /\ Stays(d, t)
        \/ t = d.seq /\ Adds(d)
        \/ t \in DOMAIN unseen /\ t # d.seq /\ Stays(d, t)
        \/ t \in Revealed(d) /\ Stays(d, t)
    <3>1. t \in DOMAIN partial' \/ t \in DOMAIN unseen'
      BY DEF Open
    <3>2. /\ \A u : u \in DOMAIN partial' <=> \/ u \in DOMAIN partial /\ u # d.seq /\ Stays(d, u)
                                              \/ u = d.seq /\ Adds(d)
          /\ \A u : u \in DOMAIN unseen' <=> \/ u \in DOMAIN unseen /\ u # d.seq /\ Stays(d, u)
                                             \/ u \in Revealed(d) /\ Stays(d, u)
      BY DEF Delivered
    <3> QED BY <3>1, <3>2
  <2>2. Adds(d) => Stays(d, t)
    BY DEF Adds, Stays
  <2> QED BY <2>1, <2>2 DEF Open
<1>8. ASSUME NEW t \in Open'
      PROVE  t \in Sequence /\ t > completed /\ t <= newest' /\ t \notin held
  <2>1. CASE t \in Open
    <3>1. t \in Int /\ t \in Sequence /\ completed < t /\ t \notin held /\ t <= newest
      BY <2>1, OpenFacts
    <3> QED BY <1>1, <1>3, <1>6, <3>1
  <2>2. CASE t \in Revealed(d)
    <3>1. t \in Int /\ t \in Sequence /\ newest < t /\ t < d.seq /\ Wanted(d.seq)
      BY <2>2, RevealedFacts
    <3>2. completed <= newest /\ \A s \in held : s <= newest
      BY <1>4 DEF Apart
    <3>3. t \notin held
      BY <1>1, <3>1, <3>2
    <3> QED BY <1>1, <1>3, <1>6, <3>1, <3>2, <3>3
  <2>3. CASE t = d.seq /\ Adds(d)
    <3>1. Wanted(d.seq)
      BY <2>3 DEF Adds
    <3> QED BY <1>1, <1>3, <1>6, <2>3, <3>1 DEF Wanted
  <2> QED BY <1>7, <2>1, <2>2, <2>3
<1>9. ASSUME NEW w \in Waiting(d)
      PROVE  /\ w \in Sequence /\ w > completed /\ w <= newest' /\ w \notin Open' /\ Stays(d, w)
             /\ w \in Keyframes => w = d.seq /\ Completes(d)
  <2>1. CASE w \in held
    <3>1. w \in Sequence /\ completed < w /\ w <= newest /\ w \notin Keyframes
      BY <1>4, <1>6, <2>1 DEF Apart
    <3>2. w \notin Open'
      BY <1>8, <2>1
    <3>3. Stays(d, w)
      <4>1. CASE Completes(d)
        <5>1. w # d.seq
          BY <2>1, <4>1 DEF Completes, Wanted
        <5> QED BY <4>1, <5>1 DEF Waiting
      <4>2. CASE ~Completes(d)
        BY <4>2 DEF Stays
      <4> QED BY <4>1, <4>2
    <3> QED BY <1>1, <1>3, <1>6, <3>1, <3>2, <3>3
  <2>2. CASE w \notin held
    <3>1. w = d.seq /\ Completes(d) /\ Wanted(d.seq) /\ ~Adds(d)
      BY <2>2 DEF Waiting, Completes, Adds
    <3>2. w \notin Open'
      <4> SUFFICES ASSUME w \in Open' PROVE FALSE
        OBVIOUS
      <4>1. w \in Revealed(d)
        BY <1>7, <3>1
      <4> QED BY <1>1, <3>1, <4>1, RevealedFacts
    <3>3. Stays(d, w)
      BY <1>1, <3>1 DEF Stays
    <3> QED BY <1>1, <1>3, <1>6, <3>1, <3>2, <3>3 DEF Wanted
  <2> QED BY <2>1, <2>2
<1>10. Ordered(Waiting(d), Open')
  <2>1. ASSUME NEW k \in Waiting(d) \intersect Keyframes, NEW t \in Waiting(d) \union Open' PROVE k <= t
    <3>1. k = d.seq /\ Completes(d) /\ d.seq \in Keyframes
      BY <1>9, <2>1
    <3>2. Stays(d, t)
      BY <1>7, <1>9
    <3>3. t \in Int
      BY <1>6, <1>8, <1>9
    <3> QED BY <1>1, <3>1, <3>2, <3>3 DEF Stays
  <2> QED BY <1>8, <1>9, <2>1 DEF Ordered
<1>11. \A t \in Waiting(d) \union Open' : t \in Int /\ t <= newest'
  BY <1>6, <1>8, <1>9
<1>12. \A t \in Open' : t \in Open \/ t = d.seq \/ t \in Revealed(d)
  BY <1>7
<1> QED BY <1>3, <1>5, <1>10, <1>11, <1>12

(* Every frame up to the newest is out, waiting or awaited.                *)
LEMMA DeliveryUnbroken ==
  ASSUME HostInv, Timing, NEW d \in wire, Delivered(d)
  PROVE  /\ Unbroken(Waiting(d), Open', newest')
         /\ newest' # None => newest' \in Waiting(d) \union Open' \union {completed}
<1> DEFINE s == d.seq
           all == Open \union held \union {s} \union Revealed(d)
<1>1. /\ s \in Int /\ 0 <= s /\ s <= sentThrough /\ s \in Sequence
      /\ sentThrough \in Int /\ newest \in Int /\ newest <= sentThrough
      /\ Wanted(s) => Arrives(d)
  BY ArrivalFacts
<1>2. newest' = IF Wanted(s) /\ s > newest THEN s ELSE newest
  BY DEF Delivered
<1>3. newest' \in Int /\ newest <= newest' /\ \A w \in Waiting(d) : w <= newest'
  BY DeliveryInOrder
<1>4. /\ \A t \in Open \union held \union ({completed} \ {None}) : \A u \in (t + 1)..newest : u \in Open \union held
      /\ newest # None => newest \in Open \union held \union {completed}
  BY DEF HostInv, Contiguous
<1>5. Types /\ Apart /\ completed \in Int /\ held \subseteq Int /\ None = -1
  <2>1. Types /\ Apart
    BY DEF HostInv, AssemblerInv, Faultless
  <2> QED BY <2>1, Numbers
<1>6. \A t \in Open \union held \union ({completed} \ {None}) : t \in Int /\ 0 <= t /\ t <= newest
  <2> SUFFICES ASSUME NEW t \in Open \union held \union ({completed} \ {None}) PROVE t \in Int /\ 0 <= t /\ t <= newest
    OBVIOUS
  <2>1. CASE t \in Open
    BY <2>1, OpenFacts
  <2>2. CASE t \in held
    <3>1. t \in Sequence /\ t <= newest
      BY <1>5, <2>2 DEF Types, Apart
    <3> QED BY <3>1, ConstantTypes DEF Sequence
  <2>3. CASE t = completed /\ t # None
    BY <1>5, <2>3, ConstantTypes DEF Types, Apart
  <2> QED BY <2>1, <2>2, <2>3
(* Either the frame is open or it is just below the newest, or above it.   *)
<1>7. ASSUME Wanted(s) PROVE s \in Open \/ s > newest \/ (newest = s + 1 /\ newest \in Open \union held)
  BY <1>1, <1>7 DEF Arrives
<1>8. ASSUME Wanted(s),
             NEW t \in Open \union held \union ({completed} \ {None}) \union {s} \union Revealed(d),
             NEW u \in (t + 1)..newest'
      PROVE  u \in all
  <2>0. t \in Int /\ u \in Int /\ t < u /\ u <= newest'
    <3>1. t \in Int
      BY <1>1, <1>6, RevealedFacts
    <3> QED BY <1>3, <1>8, <3>1
  <2>1. CASE u <= newest
    <3>1. CASE t \in Open \union held \union ({completed} \ {None})
      <4>1. u \in (t + 1)..newest
        BY <1>1, <2>0, <2>1
      <4> QED BY <1>4, <3>1, <4>1
    <3>2. CASE t = s
      <4>1. CASE s \in Open
        BY <3>1, <3>2, <4>1
      <4>2. CASE newest = s + 1 /\ newest \in Open \union held
        <5>1. u = newest
          BY <1>1, <2>0, <2>1, <3>2, <4>2
        <5> QED BY <4>2, <5>1
      <4>3. CASE s > newest
        BY <1>1, <2>0, <2>1, <3>2, <4>3
      <4> QED BY <1>7, <1>8, <4>1, <4>2, <4>3
    <3>3. CASE t \in Revealed(d)
      <4>1. newest < t
        BY <3>3, RevealedFacts
      <4> QED BY <1>1, <2>0, <2>1, <4>1
    <3> QED BY <1>8, <3>1, <3>2, <3>3
  <2>2. CASE u > newest
    <3>1. newest' = s /\ u <= s /\ s > newest
      BY <1>1, <1>2, <2>0, <2>2
    <3>2. CASE u = s
      BY <3>2
    <3>3. CASE u < s
      <4>1. newest # None
        <5> SUFFICES ASSUME newest = None PROVE FALSE
          OBVIOUS
        <5>1. t \notin Revealed(d)
          BY RevealedFacts
        <5>2. t \notin Open \union held \union ({completed} \ {None})
          BY <1>5, <1>6
        <5>3. t = s
          BY <1>8, <5>1, <5>2
        <5> QED BY <1>1, <2>0, <3>3, <5>3
      <4>2. u \in Revealed(d)
        BY <1>8, <2>0, <2>2, <3>3, <4>1, RevealedFacts
      <4> QED BY <4>2
    <3> QED BY <1>1, <2>0, <3>1, <3>2, <3>3
  <2> QED BY <1>1, <2>0, <2>1, <2>2
(* What stays of all these waits or is awaited.                            *)
<1>9. ASSUME Wanted(s), NEW u \in all
      PROVE  u \in Waiting(d) \union Open' \/ (u < s /\ s \in Waiting(d) \intersect Keyframes)
  <2>1. u \in Int
    BY <1>1, <1>5, <1>6, <1>9, RevealedFacts
  <2>2. CASE u = s
    <3>1. CASE Completes(d)
      BY <2>2, <3>1 DEF Waiting
    <3>2. CASE ~Completes(d)
      BY <1>9, <2>2, <3>2 DEF Adds, Delivered, Open
    <3> QED BY <3>1, <3>2
  <2>3. CASE u # s /\ Stays(d, u)
    <3>1. CASE u \in held
      BY <2>3, <3>1 DEF Waiting
    <3>2. CASE u \in Open \union Revealed(d)
      BY <2>3, <3>2 DEF Delivered, Open
    <3> QED BY <1>9, <2>3, <3>1, <3>2
  <2>4. CASE u # s /\ ~Stays(d, u)
    <3>1. Completes(d) /\ s \in Keyframes /\ ~(u >= s)
      BY <2>4 DEF Stays
    <3>2. s \in Waiting(d)
      BY <3>1 DEF Waiting
    <3> QED BY <1>1, <2>1, <3>1, <3>2
  <2> QED BY <2>2, <2>3, <2>4
<1>10. Waiting(d) \union Open' \subseteq all
  BY DeliveryInOrder DEF Waiting
<1>11. ASSUME ~Wanted(s) PROVE Waiting(d) = held /\ Open' = Open /\ newest' = newest
  <2>1. /\ Waiting(d) = held /\ newest' = newest /\ Revealed(d) = {} /\ ~Adds(d) /\ \A t : Stays(d, t)
    BY <1>2, <1>11 DEF Waiting, Completes, Revealed, Adds, Stays
  <2>2. s \notin Open
    <3> SUFFICES ASSUME s \in Open PROVE FALSE
      OBVIOUS
    <3>1. completed < s /\ s \notin held
      BY OpenFacts
    <3> QED BY <1>1, <1>5, <1>11, <3>1 DEF Wanted
  <2>3. Open' = Open
    BY <2>1, <2>2 DEF Delivered, Open
  <2> QED BY <2>1, <2>3
<1> HIDE DEF all
<1>12. Unbroken(Waiting(d), Open', newest')
  <2>1. ASSUME NEW t \in Waiting(d) \union Open' \union ({completed} \ {None}), NEW u \in (t + 1)..newest'
        PROVE  u \in Waiting(d) \union Open' \/ \E k \in Waiting(d) \intersect Keyframes : u < k
    <3>1. CASE ~Wanted(s)
      <4>1. Waiting(d) = held /\ Open' = Open /\ newest' = newest
        BY <1>11, <3>1
      <4>2. t \in Open \union held \union ({completed} \ {None}) /\ u \in (t + 1)..newest
        BY <2>1, <4>1
      <4>3. u \in Open \union held
        BY <1>4, <4>2
      <4> QED BY <4>1, <4>3
    <3>2. CASE Wanted(s)
      <4>1. t \in Open \union held \union ({completed} \ {None}) \union {s} \union Revealed(d)
        BY <1>10, <2>1 DEF all
      <4>2. u \in all
        BY <1>8, <2>1, <3>2, <4>1
      <4> QED BY <1>9, <3>2, <4>2
    <3> QED BY <3>1, <3>2
  <2> QED BY <1>3, <2>1 DEF Unbroken
<1>13. ASSUME newest' # None PROVE newest' \in Waiting(d) \union Open' \union {completed}
  <2>1. CASE ~Wanted(s)
    <3>1. Waiting(d) = held /\ Open' = Open /\ newest' = newest
      BY <1>11, <2>1
    <3>2. newest \in Open \union held \union {completed}
      BY <1>4, <1>13, <3>1
    <3> QED BY <3>1, <3>2
  <2>2. CASE Wanted(s) /\ newest' = completed
    BY <2>2
  <2>3. CASE Wanted(s) /\ newest' # completed
    <3>1. newest' \in all
      <4>1. newest' = s \/ (newest' = newest /\ newest \in Open \union held)
        BY <1>2, <1>4, <1>13, <2>3
      <4> QED BY <4>1 DEF all
    <3>2. ~(newest' < s)
      BY <1>1, <1>2, <2>3
    <3> QED BY <1>9, <2>3, <3>1, <3>2
  <2> QED BY <2>1, <2>2, <2>3
<1> QED BY <1>12, <1>13

(* All that an arrival changes.                                            *)
Received(d) ==
  /\ Delivered(d)
  /\ wire' = wire \ {d} /\ asks' = asks /\ checked' = checked /\ losses' = losses
  /\ sentThrough' = sentThrough /\ nextFrameIn' = nextFrameIn /\ announceIn' = announceIn /\ credit' = credit
  /\ DOMAIN partialAsked' = DOMAIN partial' /\ DOMAIN quiet' = DOMAIN partial'
  /\ DOMAIN unseenAsked' = DOMAIN unseen'
  /\ \A t \in DOMAIN partial' :
       /\ partialAsked'[t] = IF t \in DOMAIN partial THEN partialAsked[t] ELSE None
       /\ quiet'[t] = IF t = d.seq THEN 0 ELSE quiet[t]
  /\ \A t \in DOMAIN unseen' : unseenAsked'[t] = IF t \in DOMAIN unseen THEN unseenAsked[t] ELSE None

LEMMA ReceiveChunkIsReceived ==
  ASSUME HostInv, Timing, NEW d \in wire, ReceiveChunk(d)
  PROVE  Received(d) /\ AssemblerInv' /\ resend'
<1>1. Delivered(d) /\ resend' = resend
  BY ReceiveChunkDelivers
<1>2. DOMAIN LivePartial = DOMAIN partial
  BY NothingExpires
<1>3. /\ partialAsked' = [s \in DOMAIN partial' |-> IF s \in DOMAIN LivePartial THEN partialAsked[s] ELSE None]
      /\ unseenAsked' = [s \in DOMAIN unseen' |-> IF s \in DOMAIN unseen THEN unseenAsked[s] ELSE None]
      /\ quiet' = [s \in DOMAIN partial' |-> IF s = d.seq THEN 0 ELSE quiet[s]]
      /\ wire' = wire \ {d} /\ asks' = asks /\ checked' = checked /\ losses' = losses
      /\ sentThrough' = sentThrough /\ nextFrameIn' = nextFrameIn /\ announceIn' = announceIn /\ credit' = credit
  BY DEF ReceiveChunk, hostVars
<1>4. Received(d)
  BY <1>1, <1>2, <1>3 DEF Received
<1>5. AssemblerInv'
  <2>1. d.seq \in Sequence /\ d.chunk \in Chunks[d.seq]
    BY ArrivalFacts
  <2>2. Next
    BY <2>1 DEF ReceiveChunk, Next
  <2> QED BY <2>2, AssemblerInvHolds DEF HostInv
<1> QED BY <1>1, <1>4, <1>5 DEF HostInv, Faultless

(* What an arrival does to the one frame, to the frames that it reveals    *)
(* and to all the others.                                                  *)
Same(t) ==
  /\ t \in DOMAIN partial <=> t \in DOMAIN partial'
  /\ Has(t)' = Has(t) /\ Asked(t)' = Asked(t)
  /\ Left(t)' \in Int /\ Left(t)' >= Left(t)
  /\ t \in DOMAIN partial => quiet'[t] = quiet[t] /\ partial'[t].left + partial'[t].age <= 2 * Budget
Added(d) ==
  /\ Adds(d) /\ d.seq \in DOMAIN partial'
  /\ Has(d.seq)' = Has(d.seq) \union {d.chunk} /\ quiet'[d.seq] = 0
  /\ partial'[d.seq].left + partial'[d.seq].age <= 2 * Budget
  /\ IF d.seq \in DOMAIN partial
     THEN Asked(d.seq)' = Asked(d.seq) /\ Left(d.seq)' \in Int /\ Left(d.seq)' >= Left(d.seq)
     ELSE Asked(d.seq)' = None /\ Left(d.seq)' = Budget
Fresh(t) ==
  /\ t \in DOMAIN unseen' /\ t \notin DOMAIN partial' /\ Has(t)' = {} /\ Asked(t)' = None /\ Left(t)' = Budget

(* The frames that are open after a datagram.                              *)
LEMMA OpenAfter ==
  ASSUME HostInv, Timing, NEW d \in wire, Received(d), NEW t \in Open'
  PROVE  \/ t \in Open /\ t # d.seq /\ Same(t)
         \/ t = d.seq /\ Added(d)
         \/ t \in Revealed(d) /\ t \notin Open /\ t # d.seq /\ Fresh(t)
<1>1. /\ \A u : u \in DOMAIN partial' <=> \/ u \in DOMAIN partial /\ u # d.seq /\ Stays(d, u)
                                          \/ u = d.seq /\ Adds(d)
      /\ \A u : u \in DOMAIN unseen' <=> \/ u \in DOMAIN unseen /\ u # d.seq /\ Stays(d, u)
                                         \/ u \in Revealed(d) /\ Stays(d, u)
  BY DEF Received, Delivered
<1>2. \A u \in DOMAIN unseen' : unseen'[u] = IF u \in Revealed(d) THEN Budget ELSE unseen[u]
  BY DEF Received, Delivered
<1>3. \A u \in DOMAIN partial' :
        IF u \in DOMAIN partial
        THEN /\ partial'[u].got = partial[u].got \union (IF u = d.seq THEN {d.chunk} ELSE {})
             /\ partial'[u].left \in Int /\ partial'[u].left >= partial[u].left
             /\ partial'[u].age \in Nat /\ partial'[u].left + partial'[u].age <= 2 * Budget
        ELSE partial'[u] = [got |-> {d.chunk}, left |-> Budget, age |-> 0]
  BY DEF Received, Delivered
<1>4. /\ \A u \in DOMAIN partial' :
           /\ partialAsked'[u] = IF u \in DOMAIN partial THEN partialAsked[u] ELSE None
           /\ quiet'[u] = IF u = d.seq THEN 0 ELSE quiet[u]
      /\ \A u \in DOMAIN unseen' : unseenAsked'[u] = IF u \in DOMAIN unseen THEN unseenAsked[u] ELSE None
  BY DEF Received
<1>5. \A u \in Revealed(d) : u \notin Open /\ u # d.seq
  <2> SUFFICES ASSUME NEW u \in Revealed(d) PROVE u \notin Open /\ u # d.seq
    OBVIOUS
  <2>1. u \in Int /\ newest < u /\ u < d.seq
    BY RevealedFacts
  <2>2. newest \in Int /\ d.seq \in Int
    BY ArrivalFacts
  <2>3. u \in Open => u <= newest
    BY OpenFacts
  <2> QED BY <2>1, <2>2, <2>3
<1>6. \A u \in DOMAIN unseen : u \notin DOMAIN partial
  BY DEF HostInv, Contiguous
<1>7. t \in DOMAIN partial' \/ t \in DOMAIN unseen'
  BY DEF Open
<1>8. CASE t \in DOMAIN partial' /\ t # d.seq
  <2>1. t \in DOMAIN partial /\ t \in Open
    BY <1>1, <1>8 DEF Open
  <2>2. partial'[t].got = partial[t].got
    BY <1>3, <1>8, <2>1
  <2>3. Has(t)' = Has(t) /\ Asked(t)' = Asked(t)
    BY <1>4, <1>8, <2>1, <2>2 DEF Has, Asked
  <2>4. Left(t)' \in Int /\ Left(t)' >= Left(t)
    BY <1>3, <1>8, <2>1 DEF Left
  <2> QED BY <1>3, <1>4, <1>8, <2>1, <2>3, <2>4 DEF Same
<1>9. CASE t \in DOMAIN partial' /\ t = d.seq
  <2>1. Adds(d)
    BY <1>1, <1>9
  <2>2. CASE t \in DOMAIN partial
    <3>1. partial'[t].got = partial[t].got \union {d.chunk}
      BY <1>3, <1>9, <2>2
    <3>2. Has(t)' = Has(t) \union {d.chunk} /\ Asked(t)' = Asked(t)
      BY <1>4, <1>9, <2>2, <3>1 DEF Has, Asked
    <3>3. Left(t)' \in Int /\ Left(t)' >= Left(t)
      BY <1>3, <1>9, <2>2 DEF Left
    <3> QED BY <1>3, <1>4, <1>9, <2>1, <2>2, <3>2, <3>3 DEF Added
  <2>3. CASE t \notin DOMAIN partial
    <3>1. partial'[t] = [got |-> {d.chunk}, left |-> Budget, age |-> 0]
      BY <1>3, <1>9, <2>3
    <3>2. partial'[t].got = {d.chunk} /\ partial'[t].left = Budget /\ partial'[t].age = 0
      BY <3>1
    <3>3. Has(t)' = Has(t) \union {d.chunk} /\ Asked(t)' = None /\ Left(t)' = Budget
      BY <1>4, <1>9, <2>3, <3>2 DEF Has, Asked, Left
    <3>4. partial'[t].left + partial'[t].age <= 2 * Budget
      BY <3>2, RepairConstants
    <3> QED BY <1>4, <1>9, <2>1, <2>3, <3>3, <3>4 DEF Added
  <2> QED BY <2>2, <2>3
<1>10. CASE t \notin DOMAIN partial' /\ t \in Revealed(d)
  <2>1. t \in DOMAIN unseen' /\ t \notin Open /\ t # d.seq
    BY <1>5, <1>7, <1>10
  <2>2. t \notin DOMAIN unseen
    BY <2>1 DEF Open
  <2> QED BY <1>2, <1>4, <1>10, <2>1, <2>2 DEF Fresh, Has, Asked, Left
<1>11. CASE t \notin DOMAIN partial' /\ t \notin Revealed(d)
  <2>1. t \in DOMAIN unseen' /\ t \in DOMAIN unseen /\ t # d.seq
    BY <1>1, <1>7, <1>11
  <2>2. t \notin DOMAIN partial /\ t \in Open
    BY <1>6, <2>1 DEF Open
  <2>3. Left(t) \in Int
    BY <2>2, OpenFacts
  <2>4. Has(t)' = Has(t) /\ Asked(t)' = Asked(t) /\ Left(t)' = Left(t)
    BY <1>2, <1>4, <1>11, <2>1, <2>2 DEF Has, Asked, Left
  <2> QED BY <1>11, <2>1, <2>2, <2>3, <2>4 DEF Same
<1> QED BY <1>8, <1>9, <1>10, <1>11

(* A frame that is still wanted was wanted, and the arrival neither        *)
(* completed nor replaced it.                                              *)
LEMMA WantedAfter ==
  ASSUME HostInv, Timing, NEW d \in wire, Delivered(d)
  PROVE  /\ \A u \in Int : Wanted(u)' => Wanted(u) /\ Stays(d, u) /\ (u = d.seq => ~Completes(d))
         /\ Faultless' <=> resend'
         /\ Contiguous'
<1>1. Ordered(Waiting(d), Open') /\ History
  BY DeliveryInOrder
<1>2. resend /\ ~owed /\ HandOut(FALSE, Waiting(d), Open')
  BY DEF HostInv, Faultless, Delivered
<1>3. /\ completed' \in Int /\ completed' >= completed
      /\ \A h \in handed' : h <= completed'
      /\ held' \subseteq Waiting(d) /\ held' \intersect Keyframes = {}
      /\ \A w \in Waiting(d) : w \in held' \/ w \in handed'
  BY <1>1, <1>2, HandOutKeepsOrder
<1>4. completed \in Int /\ d.seq \in Int
  BY Numbers, ArrivalFacts DEF HostInv, AssemblerInv
<1>5. ASSUME NEW w \in Waiting(d), w \in Int PROVE ~Wanted(w)'
  BY <1>3, <1>5 DEF Wanted
<1>6. Completes(d) => d.seq \in Waiting(d)
  BY DEF Waiting
<1>7. ASSUME NEW u \in Int, Wanted(u)' PROVE Wanted(u) /\ Stays(d, u) /\ (u = d.seq => ~Completes(d))
  <2>1. u > completed' /\ u \notin held'
    BY <1>7 DEF Wanted
  <2>2. Stays(d, u)
    <3> SUFFICES ASSUME Completes(d), d.seq \in Keyframes PROVE u >= d.seq
      BY DEF Stays
    <3>1. d.seq \in handed'
      BY <1>3, <1>6
    <3> QED BY <1>3, <1>4, <2>1, <3>1
  <2>3. u \notin held
    <3> SUFFICES ASSUME u \in held PROVE FALSE
      OBVIOUS
    <3>1. u \in Waiting(d)
      BY <2>2 DEF Waiting
    <3> QED BY <1>5, <1>7, <3>1
  <2> QED BY <1>3, <1>4, <1>5, <1>6, <1>7, <2>1, <2>2, <2>3 DEF Wanted
<1>8. Unbroken(Waiting(d), Open', newest') /\ (newest' # None => newest' \in Waiting(d) \union Open' \union {completed})
  BY DeliveryUnbroken
<1>9. /\ ~result'.lost /\ ~owed'
      /\ \A t \in held' \union Open' \union ({completed'} \ {None}) : \A u \in (t + 1)..newest' : u \in held' \union Open'
      /\ newest' \in Waiting(d) \union Open' \union {completed} => newest' \in held' \union Open' \union {completed'}
  BY <1>1, <1>2, <1>8, HandOutUnbroken
<1>10. \A t \in DOMAIN unseen' : t < newest' /\ t \notin DOMAIN partial'
  <2> SUFFICES ASSUME NEW t \in DOMAIN unseen' PROVE t < newest' /\ t \notin DOMAIN partial'
    OBVIOUS
  <2>1. /\ \A u : u \in DOMAIN partial' <=> \/ u \in DOMAIN partial /\ u # d.seq /\ Stays(d, u)
                                            \/ u = d.seq /\ Adds(d)
        /\ \A u : u \in DOMAIN unseen' <=> \/ u \in DOMAIN unseen /\ u # d.seq /\ Stays(d, u)
                                           \/ u \in Revealed(d) /\ Stays(d, u)
    BY DEF Delivered
  <2>2. newest' \in Int /\ newest \in Int /\ newest <= newest' /\ (Wanted(d.seq) => d.seq <= newest')
    BY DeliveryInOrder, ArrivalFacts
  <2>3. CASE t \in Revealed(d)
    <3>1. t \in Int /\ newest < t /\ t < d.seq /\ Wanted(d.seq)
      BY <2>3, RevealedFacts
    <3>2. t \notin DOMAIN partial
      <4>1. t \in DOMAIN partial => t <= newest
        BY OpenFacts DEF Open
      <4> QED BY <2>2, <3>1, <4>1
    <3>3. t # d.seq /\ t < newest'
      BY <1>4, <2>2, <3>1
    <3> QED BY <2>1, <3>2, <3>3
  <2>4. CASE t \notin Revealed(d)
    <3>1. t \in DOMAIN unseen /\ t # d.seq
      BY <2>1, <2>4
    <3>2. t < newest /\ t \notin DOMAIN partial /\ t \in Open
      BY <3>1 DEF HostInv, Contiguous, Open
    <3>3. t \in Int
      BY <3>2, OpenFacts
    <3> QED BY <2>1, <2>2, <3>1, <3>2, <3>3
  <2> QED BY <2>3, <2>4
<1>11. Contiguous'
  <2>1. \A t \in Open' \union held' \union ({completed'} \ {None}) : \A u \in (t + 1)..newest' : u \in Open' \union held'
    BY <1>9
  <2>2. newest' # None => newest' \in Open' \union held' \union {completed'}
    BY <1>8, <1>9
  <2> QED BY <1>10, <2>1, <2>2 DEF Contiguous
<1>12. Faultless' <=> resend'
  BY <1>9 DEF Faultless
<1> QED BY <1>7, <1>11, <1>12

LEMMA ReceiveKeepsLinks ==
  ASSUME HostInv, Timing, NEW d \in wire, Received(d)
  PROVE  HostTypes' /\ Links'
<1>1. /\ wire' = wire \ {d} /\ asks' = asks /\ checked' = checked /\ losses' = losses
      /\ sentThrough' = sentThrough /\ nextFrameIn' = nextFrameIn /\ announceIn' = announceIn /\ credit' = credit
      /\ DOMAIN partialAsked' = DOMAIN partial' /\ DOMAIN quiet' = DOMAIN partial'
      /\ DOMAIN unseenAsked' = DOMAIN unseen' /\ Delivered(d)
  BY DEF Received
<1>2. HostTypes'
  BY <1>1 DEF HostInv, HostTypes
<1>3. SinceFrame' = SinceFrame
  BY <1>1 DEF SinceFrame
<1>4. newest' \in Int /\ newest \in Int /\ newest <= newest'
  BY <1>1, DeliveryInOrder, ArrivalFacts
<1>5. ASSUME NEW u \in Int, AskedFor(u) PROVE AskedFor(u)'
  <2>1. u <= newest /\ (Wanted(u) => u \in Open) /\ (u \in Open /\ Asked(u) = None => u < newest)
    BY <1>5 DEF AskedFor
  <2>2. ASSUME Wanted(u)' PROVE u \in Open'
    <3>1. Wanted(u) /\ Stays(d, u) /\ (u = d.seq => ~Completes(d)) /\ u \in Open
      BY <1>1, <2>1, <2>2, WantedAfter
    <3>2. /\ (u \in DOMAIN partial /\ u # d.seq /\ Stays(d, u)) \/ (u = d.seq /\ Adds(d)) => u \in DOMAIN partial'
          /\ u \in DOMAIN unseen /\ u # d.seq /\ Stays(d, u) => u \in DOMAIN unseen'
      BY <1>1 DEF Delivered
    <3>3. u = d.seq => Adds(d)
      BY <3>1 DEF Adds
    <3> QED BY <3>1, <3>2, <3>3 DEF Open
  <2>3. ASSUME u \in Open', Asked(u)' = None PROVE u < newest'
    <3>1. \/ u \in Open /\ u # d.seq /\ Same(u)
          \/ u = d.seq /\ Added(d)
          \/ u \in Revealed(d) /\ u \notin Open /\ u # d.seq /\ Fresh(u)
      BY <2>3, OpenAfter
    <3>2. CASE u \in Open /\ Same(u)
      BY <1>4, <1>5, <2>1, <2>3, <3>2 DEF Same
    <3>3. CASE u = d.seq /\ Added(d)
      <4>1. u \in Open
        BY <2>1, <3>3 DEF Added, Adds
      <4>2. CASE u \in DOMAIN partial
        <5>1. Asked(u) = None
          BY <2>3, <3>3, <4>2 DEF Added
        <5> QED BY <1>4, <1>5, <2>1, <4>1, <5>1
      <4>3. CASE u \notin DOMAIN partial
        <5>1. u < newest
          BY <4>1, <4>3, OpenFacts
        <5> QED BY <1>4, <1>5, <5>1
      <4> QED BY <4>2, <4>3
    <3>4. CASE u \in Revealed(d)
      <4>1. newest < u
        BY <3>4, RevealedFacts
      <4> QED BY <1>4, <1>5, <2>1, <4>1
    <3> QED BY <3>1, <3>2, <3>3, <3>4
  <2> QED BY <1>4, <1>5, <2>1, <2>2, <2>3 DEF AskedFor
<1>6. Links'
  <2>1. ASSUME NEW e \in wire' PROVE OnWire(e)' /\ (e.copy = "repair" => AskedFor(e.seq)')
    <3>1. e \in wire /\ OnWire(e) /\ (e.copy = "repair" => AskedFor(e.seq))
      BY <1>1, <2>1 DEF HostInv, Links
    <3>2. OnWire(e)'
      BY <1>1, <1>3, <3>1 DEF OnWire
    <3>3. e.seq \in Int
      BY <3>1 DEF OnWire
    <3> QED BY <1>5, <3>1, <3>2, <3>3
  <2>2. ASSUME NEW ask \in asks' PROVE Asking(ask)'
    <3>1. Asking(ask)
      BY <1>1, <2>2 DEF HostInv, Links
    <3>2. ask.seq \in Int
      BY <3>1 DEF Asking
    <3> QED BY <1>5, <3>1, <3>2 DEF Asking
  <2> QED BY <2>1, <2>2 DEF Links
<1> QED BY <1>2, <1>6

LEMMA ReceiveKeepsLosses ==
  ASSUME HostInv, Timing, NEW d \in wire, Received(d)
  PROVE  Losses'
<1>1. wire' = wire \ {d} /\ losses' = losses /\ sentThrough' = sentThrough /\ Delivered(d)
  BY DEF Received
<1>2. /\ newest' \in Int /\ newest \in Int /\ newest <= newest' /\ newest' <= sentThrough
      /\ (Wanted(d.seq) => d.seq <= newest')
      /\ d.seq \in Int /\ sentThrough \in Int
  BY <1>1, DeliveryInOrder, ArrivalFacts
<1>3. Losses /\ HostTypes /\ AssemblerInv /\ resend
  BY DEF HostInv, Faultless
<1>4. sentThrough' - newest' <= losses' + (IF Flying(sentThrough)' THEN 1 ELSE 0)
  <2> DEFINE before == IF Flying(sentThrough) THEN 1 ELSE 0
             after == IF Flying(sentThrough)' THEN 1 ELSE 0
  <2>0. before \in {0, 1} /\ after \in {0, 1} /\ losses \in Nat /\ sentThrough - newest <= losses + before
    BY <1>3 DEF Losses, HostTypes
  <2>1. ASSUME before = 1, after = 0 PROVE sentThrough <= newest'
    <3>1. PICK e \in wire : e.seq = sentThrough /\ e.copy = "original"
      BY <2>1 DEF Flying
    <3>2. ~\E f \in wire' : f.seq = sentThrough /\ f.copy = "original"
      BY <1>1, <2>1 DEF Flying
    <3>3. e = d
      BY <1>1, <3>1, <3>2
    <3>4. CASE Wanted(d.seq)
      BY <1>2, <3>1, <3>3, <3>4
    <3>5. CASE ~Wanted(d.seq)
      <4>1. completed \in Int /\ completed <= newest /\ \A h \in held : h <= newest
        BY <1>3, Numbers DEF AssemblerInv, Apart
      <4>2. d.seq <= newest
        BY <1>2, <3>5, <4>1 DEF Wanted
      <4> QED BY <1>2, <3>1, <3>3, <4>2
    <3> QED BY <3>4, <3>5
  <2> HIDE DEF before, after
  <2>2. sentThrough - newest' <= losses + after
    <3>0. /\ sentThrough \in Int /\ newest \in Int /\ newest' \in Int /\ losses \in Int /\ 0 <= losses
          /\ before \in Int /\ after \in Int /\ 0 <= after
      BY <1>2, <2>0
    <3>1. before <= after \/ sentThrough <= newest'
      BY <2>0, <2>1
    <3>2. newest <= newest' /\ sentThrough - newest <= losses + before
      BY <1>2, <2>0
    <3>3. \A m, n, l, s, b, a \in Int : m <= n /\ s - m <= l + b /\ b <= a => s - n <= l + a
      OBVIOUS
    <3>4. \A n, l, s, a \in Int : s <= n /\ 0 <= l /\ 0 <= a => s - n <= l + a
      OBVIOUS
    <3> QED BY <3>0, <3>1, <3>2, <3>3, <3>4
  <2>3. sentThrough' - newest' <= losses' + after
    BY <1>1, <2>2
  <2> QED BY <2>3 DEF after
<1>5. ASSUME losses' = 0, NEW s \in 0..sentThrough', Wanted(s)', NEW c \in Chunks[s]
      PROVE  c \in Has(s)' \/ OriginalOf(s, c)'
  <2>0. s \in Int /\ s \in 0..sentThrough
    BY <1>1, <1>2
  <2>1. Wanted(s) /\ Stays(d, s) /\ (s = d.seq => ~Completes(d))
    BY <1>1, <1>5, <2>0, WantedAfter
  <2>2. c \in Has(s) \/ OriginalOf(s, c)
    BY <1>1, <1>3, <1>5, <2>0, <2>1 DEF Losses
  <2>3. ASSUME s = d.seq PROVE Has(s)' = Has(s) \union {d.chunk}
    <3>1. Adds(d)
      BY <2>1, <2>3 DEF Adds
    <3>2. s \in DOMAIN partial'
      BY <1>1, <2>3, <3>1 DEF Delivered
    <3>3. s \in Open' /\ s \notin Revealed(d)
      <4>1. s \in Revealed(d) => s < d.seq
        BY RevealedFacts
      <4> QED BY <1>2, <2>3, <3>2, <4>1 DEF Open
    <3>4. Added(d)
      BY <2>3, <3>3, OpenAfter
    <3> QED BY <2>3, <3>4 DEF Added
  <2>4. CASE c \in Has(s) /\ s = d.seq
    BY <2>3, <2>4
  <2>5. CASE c \in Has(s) /\ s # d.seq
    <3>1. s \in DOMAIN partial
      BY <2>5 DEF Has
    <3>2. s \in DOMAIN partial'
      BY <1>1, <2>1, <2>5, <3>1 DEF Delivered
    <3>3. partial'[s].got = partial[s].got
      <4>1. partial'[s].got = partial[s].got \union (IF s = d.seq THEN {d.chunk} ELSE {})
        BY <1>1, <3>1, <3>2 DEF Delivered
      <4> QED BY <2>5, <4>1
    <3> QED BY <2>5, <3>1, <3>2, <3>3 DEF Has
  <2>6. CASE OriginalOf(s, c)
    <3>1. PICK e \in wire : e.seq = s /\ e.chunk = c /\ e.copy = "original"
      BY <2>6 DEF OriginalOf
    <3>2. CASE e = d
      BY <2>3, <3>1, <3>2
    <3>3. CASE e # d
      <4>1. e \in wire'
        BY <1>1, <3>3
      <4> QED BY <3>1, <4>1 DEF OriginalOf
    <3> QED BY <3>2, <3>3
  <2> QED BY <2>2, <2>4, <2>5, <2>6
<1> QED BY <1>1, <1>2, <1>4, <1>5 DEF Losses

LEMMA ReceiveKeepsTimes ==
  ASSUME HostInv, Timing, NEW d \in wire, Received(d)
  PROVE  Times'
<1>1. wire' = wire \ {d} /\ asks' = asks /\ checked' = checked /\ Delivered(d)
  BY DEF Received
<1>2. newest' \in Int /\ newest \in Int /\ newest <= newest'
  BY <1>1, DeliveryInOrder, ArrivalFacts
<1>3. ASSUME NEW t \in Open' PROVE Timed(t)'
  <2>1. CASE t \in Open /\ Asked(t)' = Asked(t)
    <3>1. Timed(t)
      BY <2>1 DEF HostInv, Times
    <3> QED BY <1>1, <2>1, <3>1 DEF Timed
  <2>2. CASE Asked(t)' = None
    BY <2>2, RepairConstants DEF Timed
  <2>3. t = d.seq /\ t \in DOMAIN partial => t \in Open
    BY DEF Open
  <2> QED BY <2>1, <2>2, <2>3, OpenAfter DEF Same, Added, Fresh
<1>4. ASSUME NEW t \in DOMAIN partial' PROVE Quiet(t)'
  <2>1. t \in Open'
    BY DEF Open
  <2>2. CASE t \in Open /\ t # d.seq /\ Same(t)
    <3>1. t \in DOMAIN partial /\ quiet'[t] = quiet[t] /\ partial'[t].left + partial'[t].age <= 2 * Budget
      BY <1>4, <2>2 DEF Same
    <3>2. Quiet(t)
      BY <3>1 DEF HostInv, Times
    <3>3. Ended(t) => Ended(t)'
      <4>1. t \in Int
        BY <2>2, OpenFacts
      <4> QED BY <1>2, <2>2, <4>1 DEF Ended, Same
    <3> QED BY <2>2, <3>1, <3>2, <3>3 DEF Quiet, Same
  <2>3. CASE t = d.seq /\ Added(d)
    <3>1. quiet'[t] = 0 /\ partial'[t].left + partial'[t].age <= 2 * Budget
      BY <2>3 DEF Added
    <3>2. ASSUME Asked(t)' # None PROVE Ended(t)' \/ quiet'[t] + 2 * Delay >= Asked(t)'
      <4>1. t \in DOMAIN partial /\ Asked(t)' = Asked(t) /\ t \in Open
        BY <2>3, <3>2 DEF Added, Open
      <4>2. Timed(t) /\ Asked(t) \in Int /\ d.left \in Int /\ 0 <= d.left
        BY <4>1, ArrivalFacts DEF HostInv, Times, Timed
      <4>3. CASE d.copy = "announcement"
        <5>1. d.chunk = LastChunk(t)
          BY <2>3, <4>3 DEF HostInv, Links, OnWire
        <5> QED BY <2>3, <5>1 DEF Ended, Added
      <4>4. CASE d.copy = "original"
        <5>1. d.left + Asked(t) <= Delay
          BY <2>3, <3>2, <4>1, <4>2, <4>4 DEF Timed
        <5> QED BY <3>1, <4>1, <4>2, <5>1, RepairConstants
      <4>5. CASE d.copy = "repair"
        <5>1. d.left + Asked(t) <= 2 * Delay
          BY <2>3, <3>2, <4>1, <4>2, <4>5 DEF Timed
        <5> QED BY <3>1, <4>1, <4>2, <5>1, RepairConstants
      <4> QED BY <4>3, <4>4, <4>5, ArrivalFacts
    <3> QED BY <3>1, <3>2, RepairConstants DEF Quiet
  <2> QED BY <1>4, <2>1, <2>2, <2>3, OpenAfter DEF Fresh
<1> QED BY <1>3, <1>4 DEF Times

(* A frame that is opened, or whose first chunk arrives, has its whole     *)
(* budget, and a repair takes less.                                        *)
LEMMA OpenedIsInTime ==
  ASSUME HostInv, Timing, NEW d \in wire, Received(d), NEW t \in Open', NEW c,
         Asked(t)' = None, Left(t)' = Budget,
         ToAsk(t)' \in Int, ToAsk(t)' <= Delay + TailQuiet,
         Still - Sent(t, c)' <= MaxLosses - 1
  PROVE  /\ Remaining(t, c)' = ToAsk(t)' + Rounds(Still - Sent(t, c)') + 2 * Delay + Extra(t)'
         /\ Rounds(Still - Sent(t, c)') \in Nat /\ Rounds(Still - Sent(t, c)') <= Rounds(MaxLosses - 1)
         /\ Rounds(Still - Sent(t, c)') <= Rounds(Still)
         /\ Extra(t)' \in {0, Late}
         /\ Remaining(t, c)' \in Int /\ Remaining(t, c)' <= Repairing /\ Remaining(t, c)' < Left(t)'
<1>1. Still' = Still /\ Still \in Nat /\ MaxLosses \in Nat /\ Sent(t, c)' \in {0, 1}
  BY RepairConstants DEF Received, HostInv, HostTypes, Still, Sent
<1>2. Remaining(t, c)' = ToAsk(t)' + Rounds(Still - Sent(t, c)') + 2 * Delay + Extra(t)'
  <2> Asked(t)' = None
    OBVIOUS
  <2> QED BY <1>1 DEF Remaining
<1> DEFINE n == Still - Sent(t, c)'
<1>3. n \in Int /\ n <= MaxLosses - 1 /\ n <= Still /\ MaxLosses - 1 \in Int /\ Still \in Int
  BY <1>1
<1> HIDE DEF n
<1>4. Rounds(n) \in Nat /\ Rounds(n) <= Rounds(MaxLosses - 1) /\ Rounds(n) <= Rounds(Still) /\ Rounds(MaxLosses - 1) \in Nat
  BY <1>3, RoundsGrow
<1>5. Extra(t)' \in {0, Late} /\ Late \in Nat
  BY TimingFacts DEF Extra
<1> DEFINE r == Rounds(n)
           x == Extra(t)'
<1>6. Remaining(t, c)' = ToAsk(t)' + r + 2 * Delay + x
  BY <1>2 DEF n
<1>7. r \in Int /\ r <= Rounds(MaxLosses - 1) /\ x \in Int /\ x <= Late /\ Rounds(MaxLosses - 1) \in Int
  BY <1>4, <1>5
<1> HIDE DEF r, x
<1>8. Remaining(t, c)' \in Int /\ Remaining(t, c)' <= Repairing
  BY <1>5, <1>6, <1>7, RepairConstants DEF Repairing
<1>9. Repairing < Budget /\ Repairing \in Int /\ Budget \in Int
  BY TimingFacts, RepairConstants DEF Timing
<1> QED BY <1>2, <1>4, <1>5, <1>8, <1>9 DEF n

LEMMA SameIsInTime ==
  ASSUME HostInv, Timing, NEW d \in wire, Received(d), NEW t \in Open, t # d.seq, Same(t),
         NEW c, InTime(t, c)
  PROVE  InTime(t, c)'
<1>1. wire' = wire \ {d} /\ asks' = asks /\ checked' = checked /\ losses' = losses
      /\ sentThrough' = sentThrough /\ nextFrameIn' = nextFrameIn /\ Delivered(d)
  BY DEF Received
<1>2. newest' \in Int /\ newest \in Int /\ newest <= newest'
  BY <1>1, DeliveryInOrder, ArrivalFacts
<1>3. (Flying(t)' <=> Flying(t)) /\ (OriginalOf(t, c)' <=> OriginalOf(t, c)) /\ (RepairOf(t, c)' <=> RepairOf(t, c))
  BY <1>1 DEF Flying, OriginalOf, RepairOf
<1>4. Copies(t, c, 0)
  <2>1. Sent(t, c)' = Sent(t, c) /\ Again(t, c)' = Again(t, c)
    BY <1>3 DEF Sent, Again
  <2>2. losses \in Int /\ Sent(t, c) \in Int /\ Again(t, c) \in Int
    BY DEF HostInv, HostTypes, Sent, Again
  <2> QED BY <1>1, <2>1, <2>2 DEF Copies
<1>5. Lives(t, 0)
  <2>1. Elapsed(t)' = Elapsed(t)
    BY <1>1 DEF Elapsed, SinceFrame
  <2>2. Elapsed(t) \in Int /\ Left(t) \in Int
    BY RemainingFacts, OpenFacts
  <2> QED BY <2>1, <2>2 DEF Lives, Same
<1>6. Waits(t, 0)
  <2>1. Asked(t)' = Asked(t) /\ Asked(t) \in Int /\ ToAsk(t) \in Int /\ Checks <= ToAsk(t) /\ Checks \in Int
    BY RemainingFacts DEF Same, Checks
  <2>2. Checks' = Checks /\ SinceFrame' = SinceFrame
    BY <1>1 DEF Checks, SinceFrame
  <2>3. Ended(t) => Ended(t)'
    <3>1. t \in Int
      BY OpenFacts
    <3> QED BY <1>2, <3>1 DEF Ended, Same
  <2>4. ToAsk(t)' \in Int /\ ToAsk(t)' <= ToAsk(t)
    <3>1. CASE Ended(t)'
      <4>1. ToAsk(t)' = Checks
        BY <2>2, <3>1 DEF ToAsk
      <4> QED BY <2>1, <4>1
    <3>2. CASE ~Ended(t)'
      <4>1. ~Ended(t) /\ t \in DOMAIN partial
        BY <2>3, <3>2, OpenFacts DEF Ended
      <4>2. quiet'[t] = quiet[t]
        BY <4>1 DEF Same
      <4>3. ToAsk(t)' = ToAsk(t)
        BY <1>3, <2>2, <3>2, <4>1, <4>2 DEF ToAsk
      <4> QED BY <2>1, <4>3
    <3> QED BY <3>1, <3>2
  <2> QED BY <2>1, <2>4 DEF Waits
<1> QED BY <1>4, <1>5, <1>6, DeadlineKept

(* Another chunk of an incomplete frame.                                   *)
LEMMA GrownIsInTime ==
  ASSUME HostInv, Timing, NEW d \in wire, Received(d), Added(d), d.seq \in DOMAIN partial,
         NEW c, c # d.chunk, InTime(d.seq, c)
  PROVE  InTime(d.seq, c)'
<1> DEFINE t == d.seq
<1>0. t \in Open /\ t \in Int
  BY ArrivalFacts DEF Open
<1>1. /\ wire' = wire \ {d} /\ asks' = asks /\ checked' = checked /\ losses' = losses
      /\ sentThrough' = sentThrough /\ nextFrameIn' = nextFrameIn /\ Delivered(d)
  BY DEF Received
<1>2. newest' \in Int /\ newest \in Int /\ newest <= newest'
  BY <1>1, DeliveryInOrder, ArrivalFacts
<1>3. /\ Has(t)' = Has(t) \union {d.chunk} /\ quiet'[t] = 0 /\ t \in DOMAIN partial'
      /\ Asked(t)' = Asked(t) /\ Left(t)' \in Int /\ Left(t)' >= Left(t)
  BY DEF Added
<1>4. Copies(t, c, 0)
  <2>1. Sent(t, c)' >= Sent(t, c) /\ Sent(t, c)' + Again(t, c)' >= Sent(t, c) + Again(t, c)
    <3>1. OriginalOf(t, c)' <=> OriginalOf(t, c)
      BY <1>1 DEF OriginalOf
    <3>2. RepairOf(t, c)' <=> RepairOf(t, c)
      BY <1>1 DEF RepairOf
    <3>3. Sent(t, c)' = Sent(t, c) /\ Again(t, c)' = Again(t, c) /\ Sent(t, c) \in Int /\ Again(t, c) \in Int
      BY <3>1, <3>2 DEF Sent, Again
    <3> QED BY <3>3
  <2>2. losses \in Int /\ Sent(t, c) \in Int /\ Again(t, c) \in Int
    BY DEF HostInv, HostTypes, Sent, Again
  <2> QED BY <1>1, <2>1, <2>2 DEF Copies
<1>5. Lives(t, 0)
  <2>1. Elapsed(t)' = Elapsed(t)
    BY <1>1 DEF Elapsed, SinceFrame
  <2>2. Elapsed(t) \in Int /\ Left(t) \in Int
    BY <1>0, RemainingFacts, OpenFacts
  <2> QED BY <1>3, <2>1, <2>2 DEF Lives
<1>6. Waits(t, 0)
  <2>1. Asked(t) \in Int /\ ToAsk(t) \in Int /\ Checks <= ToAsk(t) /\ Checks \in Int
    BY <1>0, RemainingFacts DEF Checks
  <2>2. Checks' = Checks /\ SinceFrame' = SinceFrame
    BY <1>1 DEF Checks, SinceFrame
  <2>3. Ended(t) => Ended(t)'
    BY <1>0, <1>2, <1>3 DEF Ended
  <2>4. ASSUME Asked(t) = None PROVE ToAsk(t)' \in Int /\ ToAsk(t)' <= ToAsk(t)
    <3>1. CASE Ended(t)'
      <4>1. ToAsk(t)' = Checks
        BY <2>2, <3>1 DEF ToAsk
      <4> QED BY <2>1, <4>1
    <3>2. CASE ~Ended(t)'
      <4>1. ~Ended(t)
        BY <2>3, <3>2
      <4>2. d.copy = "original"
        <5>1. d.copy # "announcement"
          <6> SUFFICES ASSUME d.copy = "announcement" PROVE FALSE
            OBVIOUS
          <6>1. d.chunk = LastChunk(t)
            BY DEF HostInv, Links, OnWire
          <6> QED BY <1>3, <3>2, <6>1 DEF Ended
        <5>2. d.copy # "repair"
          <6> SUFFICES ASSUME d.copy = "repair" PROVE FALSE
            OBVIOUS
          <6>1. AskedFor(t)
            BY DEF HostInv, Links
          <6> QED BY <1>0, <2>4, <4>1, <6>1 DEF AskedFor, Ended
        <5> QED BY <5>1, <5>2, ArrivalFacts
      <4>3. Flying(t)
        BY <4>2 DEF Flying
      <4>4. ToAsk(t) = Delay - SinceFrame + TailQuiet
        BY <4>1, <4>3 DEF ToAsk
      <4>5. SinceFrame <= Delay /\ SinceFrame \in Int
        BY <1>0, <4>3, ClockFacts, ArrivalFacts, RepairConstants
      <4>6. CASE Flying(t)'
        <5>1. ToAsk(t)' = Delay - SinceFrame + TailQuiet
          BY <2>2, <3>2, <4>6 DEF ToAsk
        <5> QED BY <2>1, <4>4, <5>1
      <4>7. CASE ~Flying(t)'
        <5>1. ToAsk(t)' = TailQuiet
          BY <1>3, <3>2, <4>7, RepairConstants DEF ToAsk
        <5> QED BY <4>4, <4>5, <5>1, RepairConstants
      <4> QED BY <4>6, <4>7
    <3> QED BY <3>1, <3>2
  <2> QED BY <1>3, <2>1, <2>4 DEF Waits
<1> HIDE DEF t
<1>7. InTime(t, c)
  BY DEF t
<1>8. InTime(t, c)'
  BY <1>0, <1>4, <1>5, <1>6, <1>7, DeadlineKept
<1> QED BY <1>8 DEF t

LEMMA ElapsedSame ==
  ASSUME HostInv, Timing, NEW d \in wire, Received(d)
  PROVE  /\ \A t : Elapsed(t)' = Elapsed(t)
         /\ Checks' = Checks /\ Checks \in {0, 1} /\ Still \in Nat
         /\ SinceFrame' = SinceFrame /\ SinceFrame \in Int /\ 0 <= SinceFrame /\ SinceFrame <= FramePeriod
<1>1. sentThrough' = sentThrough /\ nextFrameIn' = nextFrameIn /\ checked' = checked
  BY DEF Received
<1>2. sentThrough # None
  BY ArrivalFacts, RepairConstants
<1>3. SinceFrame' = SinceFrame /\ Checks' = Checks
  BY <1>1 DEF SinceFrame, Checks
<1> QED BY <1>1, <1>2, <1>3, ClockFacts DEF Elapsed

(* The first chunk of a frame that was thought swallowed.                  *)
LEMMA FoundIsInTime ==
  ASSUME HostInv, Timing, NEW d \in wire, Received(d), Added(d), d.seq \in DOMAIN unseen,
         NEW c \in Chunks[d.seq], InTime(d.seq, c)
  PROVE  InTime(d.seq, c)'
<1> DEFINE t == d.seq
<1>1. /\ t \in Open /\ t \in Int /\ 0 <= t /\ t < newest /\ t \notin DOMAIN partial
      /\ newest \in Int /\ newest <= sentThrough /\ sentThrough \in Int /\ Has(t) = {}
  <2>1. t \in Open
    BY DEF Open
  <2> QED BY <2>1, OpenFacts, ArrivalFacts DEF Has
<1>2. Added(d) /\ Delivered(d) /\ losses' = losses /\ wire' = wire \ {d}
  BY DEF Received
<1>3. Asked(t)' = None /\ Left(t)' = Budget /\ t \in DOMAIN partial' /\ t \in Open'
  BY <1>1 DEF Added, Open
<1>4. Ended(t) /\ Ended(t)'
  <2>1. newest' \in Int /\ newest <= newest'
    BY <1>2, DeliveryInOrder
  <2> QED BY <1>1, <2>1 DEF Ended
<1>5. /\ Elapsed(t)' = Elapsed(t) /\ Checks' = Checks /\ Checks \in {0, 1} /\ Still \in Nat
      /\ SinceFrame \in Int /\ 0 <= SinceFrame
  BY ElapsedSame
<1>6. ToAsk(t) = Checks /\ ToAsk(t)' = Checks
  <2>1. ToAsk(t)' = Checks
    BY <1>4, <1>5 DEF ToAsk
  <2> QED BY <1>4, <2>1 DEF ToAsk
<1>7. ~OriginalOf(t, c) /\ Sent(t, c)' = 0 /\ Sent(t, c) = 0
  <2>1. \A e \in wire : e.copy = "original" => e.seq # t
    BY <1>1 DEF HostInv, Links, OnWire
  <2>2. ~OriginalOf(t, c)
    BY <2>1 DEF OriginalOf
  <2>3. ~OriginalOf(t, c)'
    BY <1>2, <2>1 DEF OriginalOf
  <2> QED BY <2>2, <2>3 DEF Sent
<1>8. Still <= MaxLosses - 1
  <2>1. Wanted(t)
    BY DEF Added, Adds
  <2>2. t \in 0..sentThrough
    BY <1>1
  <2>3. losses # 0
    BY <1>1, <1>7, <2>1, <2>2 DEF HostInv, Losses
  <2> QED BY <2>3, RepairConstants DEF Still, HostInv, HostTypes
<1>9. Extra(t) = 0 /\ Extra(t)' = Late /\ Limit(t)' = Longest /\ Limit(t) = Longest - (2 * Delay + 1 + Late)
  BY <1>1, <1>3 DEF Extra, Limit
<1>10. Remaining(t, c) \in Int /\ Elapsed(t) \in Int /\ Elapsed(t) + Remaining(t, c) <= Limit(t)
       /\ Asked(t) \in Int /\ Again(t, c) \in {0, 1}
  BY <1>1, RemainingFacts DEF InTime
<1>11. /\ Late \in Int /\ Longest \in Int /\ Repairing \in Int /\ Delay \in Int /\ 0 <= Delay /\ 0 <= Late
       /\ FramePeriod \in Int /\ TailQuiet \in Int /\ 1 <= TailQuiet
  BY TimingFacts, RepairConstants
<1>12. /\ Remaining(t, c)' = Checks + Rounds(Still) + 2 * Delay + Late
       /\ Remaining(t, c)' \in Int /\ Remaining(t, c)' <= Repairing /\ Remaining(t, c)' < Left(t)'
       /\ Rounds(Still) \in Nat
  <2>1. Still - Sent(t, c)' = Still
    BY <1>5, <1>7
  <2>2. ToAsk(t)' \in Int /\ ToAsk(t)' <= Delay + TailQuiet
    BY <1>5, <1>6, <1>11
  <2>3. Still - Sent(t, c)' <= MaxLosses - 1
    BY <1>8, <2>1
  <2>4. /\ Remaining(t, c)' = ToAsk(t)' + Rounds(Still - Sent(t, c)') + 2 * Delay + Extra(t)'
        /\ Rounds(Still - Sent(t, c)') \in Nat
        /\ Remaining(t, c)' \in Int /\ Remaining(t, c)' <= Repairing /\ Remaining(t, c)' < Left(t)'
    BY <1>3, <2>2, <2>3, OpenedIsInTime
  <2> QED BY <1>6, <1>9, <2>1, <2>4
<1>13. Elapsed(t) + Remaining(t, c)' <= Longest
  <2>1. CASE Asked(t) = None
    <3>1. Remaining(t, c) = Checks + Rounds(Still - Sent(t, c)) + 2 * Delay + Extra(t)
      BY <1>6, <2>1 DEF Remaining
    <3>2. Still - Sent(t, c) = Still
      BY <1>5, <1>7
    <3>3. Remaining(t, c) = Checks + Rounds(Still) + 2 * Delay
      BY <1>5, <1>9, <1>11, <1>12, <3>1, <3>2
    <3> QED BY <1>5, <1>9, <1>10, <1>11, <1>12, <3>3
  <2>2. CASE Asked(t) # None /\ d.copy = "repair"
    <3>1. d.left \in Int /\ 0 <= d.left /\ d.left + Asked(t) <= 2 * Delay
      BY <1>1, <2>2, ArrivalFacts DEF HostInv, Times, Timed
    <3>2. Remaining(t, c) = Rounds(Still + 1 - Sent(t, c) - Again(t, c)) + 2 * Delay - Asked(t)
      BY <2>2 DEF Remaining
    <3> DEFINE n == Still + 1 - Sent(t, c) - Again(t, c)
    <3>3. n \in Int /\ Still <= n /\ Still \in Int
      BY <1>5, <1>7, <1>10
    <3> HIDE DEF n
    <3>4. Rounds(n) \in Int /\ Rounds(Still) <= Rounds(n) /\ Rounds(Still) \in Int
      BY <3>3, RoundsGrow
    <3>5. Remaining(t, c) = Rounds(n) + 2 * Delay - Asked(t)
      BY <3>2 DEF n
    <3> QED BY <1>5, <1>9, <1>10, <1>11, <1>12, <3>1, <3>4, <3>5
  <2>3. CASE d.copy = "announcement"
    <3>1. t = sentThrough - 1 /\ SinceFrame <= Delay
      <4>1. d.left \in Int /\ 0 <= d.left /\ t # sentThrough
        BY <1>1, ArrivalFacts
      <4>2. t = sentThrough - 1 /\ d.left + SinceFrame <= Delay
        BY <2>3, <4>1 DEF HostInv, Links, OnWire
      <4> QED BY <1>5, <1>11, <4>1, <4>2
    <3>2. sentThrough - t = 1
      BY <1>1, <3>1
    <3>3. Elapsed(t) = FramePeriod + SinceFrame
      BY <1>11, <3>2 DEF Elapsed
    <3> QED BY <1>5, <1>11, <1>12, <3>1, <3>3 DEF Longest
  <2>4. d.copy # "original"
    BY <1>1 DEF HostInv, Links, OnWire
  <2>5. d.copy \in {"original", "announcement", "repair"}
    BY ArrivalFacts
  <2> QED BY <2>1, <2>2, <2>3, <2>4, <2>5
<1>14. InTime(t, c)'
  BY <1>5, <1>9, <1>12, <1>13 DEF InTime
<1> QED BY <1>14

(* The first chunk of a frame that was not awaited.                        *)
LEMMA NewIsInTime ==
  ASSUME HostInv, Timing, NEW d \in wire, Received(d), Added(d), d.seq \notin Open,
         NEW c \in Chunks[d.seq], c # d.chunk
  PROVE  InTime(d.seq, c)'
<1> DEFINE t == d.seq
<1>1. /\ t \in Int /\ 0 <= t /\ t <= sentThrough /\ sentThrough \in Int /\ t \notin DOMAIN partial /\ Has(t) = {}
      /\ d.left \in Int /\ 0 <= d.left
  BY ArrivalFacts DEF Has, Open
<1>2. Added(d) /\ Delivered(d) /\ losses' = losses /\ wire' = wire \ {d}
  BY DEF Received
<1>3. Asked(t)' = None /\ Left(t)' = Budget /\ t \in DOMAIN partial' /\ t \in Open' /\ quiet'[t] = 0
  BY <1>1 DEF Added, Open
<1>4. /\ Elapsed(t)' = Elapsed(t) /\ Checks' = Checks /\ Checks \in {0, 1} /\ Still \in Nat
      /\ SinceFrame' = SinceFrame /\ SinceFrame \in Int /\ 0 <= SinceFrame /\ SinceFrame <= FramePeriod
  BY ElapsedSame
<1>5. /\ Late \in Int /\ Longest \in Int /\ Repairing \in Int /\ Delay \in Int /\ 0 <= Delay /\ 0 <= Late
      /\ FramePeriod \in Int /\ TailQuiet \in Int /\ 1 <= TailQuiet /\ Delay < FramePeriod
  BY TimingFacts, RepairConstants DEF Timing
<1>6. Wanted(t) /\ Arrives(d)
  BY ArrivalFacts DEF Added, Adds
<1>7. ToAsk(t)' \in Int /\ ToAsk(t)' <= Delay + TailQuiet
  <2>1. CASE Ended(t)'
    <3>1. ToAsk(t)' = Checks
      BY <1>4, <2>1 DEF ToAsk
    <3> QED BY <1>4, <1>5, <3>1
  <2>2. CASE ~Ended(t)' /\ Flying(t)'
    <3>1. ToAsk(t)' = Delay - SinceFrame + TailQuiet
      BY <1>4, <2>2 DEF ToAsk
    <3> QED BY <1>4, <1>5, <3>1
  <2>3. CASE ~Ended(t)' /\ ~Flying(t)'
    <3>1. ToAsk(t)' = TailQuiet
      BY <1>3, <1>5, <2>3 DEF ToAsk
    <3> QED BY <1>5, <3>1
  <2> QED BY <2>1, <2>2, <2>3
<1>8. Still - Sent(t, c)' <= MaxLosses - 1
  <2>0. losses \in Nat /\ Sent(t, c)' \in {0, 1} /\ MaxLosses \in Nat
    BY RepairConstants DEF HostInv, HostTypes, Sent
  <2>1. CASE losses = 0
    <3>1. t \in 0..sentThrough
      BY <1>1
    <3>2. OriginalOf(t, c)
      BY <1>1, <1>6, <2>1, <3>1 DEF HostInv, Losses
    <3>3. PICK e \in wire : e.seq = t /\ e.chunk = c /\ e.copy = "original"
      BY <3>2 DEF OriginalOf
    <3>4. e \in wire'
      BY <1>2, <3>3
    <3>5. Sent(t, c)' = 1
      BY <3>3, <3>4 DEF Sent, OriginalOf
    <3> QED BY <2>0, <2>1, <3>5 DEF Still
  <2>2. CASE losses # 0
    BY <2>0, <2>2 DEF Still
  <2> QED BY <2>1, <2>2
<1>9. Remaining(t, c)' \in Int /\ Remaining(t, c)' <= Repairing /\ Remaining(t, c)' < Left(t)'
  BY <1>3, <1>7, <1>8, OpenedIsInTime
<1>10. Elapsed(t) \in Int /\ Elapsed(t) <= FramePeriod + Delay
  <2>1. d.copy \in {"original", "announcement"}
    BY <1>6, ArrivalFacts DEF Arrives
  <2>2. CASE t = sentThrough
    <3>1. sentThrough - t = 0
      BY <1>1, <2>2
    <3>2. Elapsed(t) = SinceFrame
      BY <1>4, <1>5, <3>1 DEF Elapsed
    <3> QED BY <1>4, <1>5, <3>2
  <2>3. CASE t # sentThrough
    <3>1. t = sentThrough - 1 /\ SinceFrame <= Delay
      BY <1>6, <2>1, <2>3 DEF Arrives
    <3>2. sentThrough - t = 1
      BY <1>1, <3>1
    <3>3. Elapsed(t) = FramePeriod + SinceFrame
      BY <1>5, <3>2 DEF Elapsed
    <3> QED BY <1>4, <1>5, <3>1, <3>3
  <2> QED BY <2>2, <2>3
<1>11. Limit(t)' = Longest
  BY <1>3 DEF Limit
<1>12. Elapsed(t) + Remaining(t, c)' <= Longest
  BY <1>5, <1>9, <1>10 DEF Longest
<1>13. InTime(t, c)'
  BY <1>4, <1>9, <1>11, <1>12 DEF InTime
<1> QED BY <1>13

(* A frame that turns out to be swallowed.                                 *)
LEMMA RevealedIsInTime ==
  ASSUME HostInv, Timing, NEW d \in wire, Received(d), NEW t \in Revealed(d), t \notin Open, Fresh(t), NEW c
  PROVE  InTime(t, c)'
<1>1. /\ t \in Int /\ 0 <= t /\ t < sentThrough /\ newest < t /\ t < d.seq /\ Wanted(d.seq)
      /\ sentThrough - t + Still + (IF Flying(sentThrough) THEN 0 ELSE 1) <= MaxLosses
      /\ sentThrough \in Int /\ d.seq \in Int /\ newest \in Int
  BY RevealedFacts, ArrivalFacts
<1>2. Asked(t)' = None /\ Left(t)' = Budget /\ t \notin DOMAIN partial' /\ t \in Open'
  BY DEF Fresh, Open
<1>3. /\ Elapsed(t)' = Elapsed(t) /\ Checks' = Checks /\ Checks \in {0, 1} /\ Still \in Nat
      /\ SinceFrame' = SinceFrame /\ SinceFrame \in Int /\ 0 <= SinceFrame /\ SinceFrame <= FramePeriod
  BY ElapsedSame
<1>4. /\ Late \in Int /\ Longest \in Int /\ Delay \in Int /\ 0 <= Delay /\ 0 <= Late /\ MaxLosses \in Nat
      /\ FramePeriod \in Nat /\ TailQuiet \in Int /\ 1 <= TailQuiet /\ Rounds(MaxLosses - 1) \in Int
  BY TimingFacts, RepairConstants
<1>5. Ended(t)'
  <2>1. newest' \in Int /\ d.seq <= newest'
    BY <1>1, DeliveryInOrder DEF Received
  <2> QED BY <1>1, <2>1 DEF Ended
<1>6. ToAsk(t)' = Checks
  BY <1>3, <1>5 DEF ToAsk
<1>7. Sent(t, c)' \in {0, 1}
  BY DEF Sent
<1>8. Extra(t)' = 0 /\ Limit(t)' = Longest - (2 * Delay + 1 + Late)
  BY <1>2 DEF Extra, Limit
<1>9. Still <= MaxLosses - 1
  <2>1. sentThrough - t + Still <= MaxLosses
    <3> DEFINE one == IF Flying(sentThrough) THEN 0 ELSE 1
    <3>1. one \in {0, 1} /\ sentThrough - t + Still + one <= MaxLosses
      BY <1>1
    <3> HIDE DEF one
    <3> QED BY <1>1, <1>3, <1>4, <3>1
  <2> QED BY <1>1, <1>3, <1>4, <2>1
<1>10. /\ Remaining(t, c)' = Checks + Rounds(Still - Sent(t, c)') + 2 * Delay
       /\ Rounds(Still - Sent(t, c)') \in Nat /\ Rounds(Still - Sent(t, c)') <= Rounds(Still)
       /\ Remaining(t, c)' \in Int /\ Remaining(t, c)' < Left(t)'
  <2>1. ToAsk(t)' \in Int /\ ToAsk(t)' <= Delay + TailQuiet
    BY <1>3, <1>4, <1>6
  <2>2. Still - Sent(t, c)' <= MaxLosses - 1
    BY <1>3, <1>4, <1>7, <1>9
  <2>3. /\ Remaining(t, c)' = ToAsk(t)' + Rounds(Still - Sent(t, c)') + 2 * Delay + Extra(t)'
        /\ Rounds(Still - Sent(t, c)') \in Nat /\ Rounds(Still - Sent(t, c)') <= Rounds(Still)
        /\ Remaining(t, c)' \in Int /\ Remaining(t, c)' < Left(t)'
    BY <1>2, <2>1, <2>2, OpenedIsInTime
  <2> QED BY <1>3, <1>4, <1>6, <1>8, <2>3
<1> DEFINE g == sentThrough - t
           r == Rounds(Still)
           m == Rounds(MaxLosses - 1)
<1>11. g \in Nat \ {0} /\ g + 1 \in Nat \ {0} /\ r \in Nat /\ m \in Int
  <2>1. g \in Nat \ {0} /\ g + 1 \in Nat \ {0}
    BY <1>1
  <2>2. r \in Nat
    BY <1>3, RoundsGrow
  <2>3. m \in Int
    BY <1>4
  <2> HIDE DEF g, r, m
  <2> QED BY <2>1, <2>2, <2>3
<1>12. Elapsed(t) = g * FramePeriod + SinceFrame /\ g * FramePeriod \in Int
  <2>1. Elapsed(t) = g * FramePeriod + SinceFrame
    BY DEF Elapsed
  <2> QED BY <1>4, <1>11, <2>1
<1>13. Elapsed(t) \in Int /\ Elapsed(t) + r <= FramePeriod + m + Delay
  <2>1. CASE Flying(sentThrough)
    <3>1. g + Still <= MaxLosses
      BY <1>1, <1>3, <1>4, <2>1
    <3>2. g * FramePeriod + r <= FramePeriod + m
      BY <1>3, <1>11, <3>1, PeriodForRound
    <3>3. SinceFrame <= Delay
      BY <1>1, <2>1, ClockFacts, RepairConstants
    <3> HIDE DEF g, r, m
    <3> QED BY <1>3, <1>4, <1>11, <1>12, <3>2, <3>3
  <2>2. CASE ~Flying(sentThrough)
    <3>1. (g + 1) + Still <= MaxLosses
      BY <1>1, <1>3, <1>4, <2>2
    <3>2. (g + 1) * FramePeriod + r <= FramePeriod + m
      BY <1>3, <1>11, <3>1, PeriodForRound
    <3> HIDE DEF g, r, m
    <3>3. (g + 1) * FramePeriod = g * FramePeriod + FramePeriod
      BY <1>4, <1>11
    <3> QED BY <1>3, <1>4, <1>11, <1>12, <3>2, <3>3
  <2> QED BY <2>1, <2>2
<1>14. Longest - (2 * Delay + 1 + Late) = FramePeriod + 3 * Delay + 1 + TailQuiet + m
  BY <1>4, <1>11 DEF Longest, Repairing
<1> HIDE DEF g, m
<1>15. Elapsed(t) + Remaining(t, c)' <= Limit(t)'
  <2> DEFINE x == Rounds(Still - Sent(t, c)')
  <2>0. Remaining(t, c)' = Checks + x + 2 * Delay /\ x \in Int /\ x <= r
    BY <1>10
  <2> HIDE DEF r, x
  <2>1. Remaining(t, c)' <= 1 + r + 2 * Delay
    BY <1>3, <1>4, <1>11, <2>0
  <2> QED BY <1>4, <1>8, <1>10, <1>11, <1>13, <1>14, <2>1
<1> QED BY <1>3, <1>10, <1>15 DEF InTime

(* A datagram keeps what is still missing in time.                         *)
LEMMA ReceiveChunkKeepsInv ==
  ASSUME HostInv, Timing, NEW d \in wire, ReceiveChunk(d)
  PROVE  HostInv'
<1>1. Received(d) /\ AssemblerInv' /\ resend'
  BY ReceiveChunkIsReceived
<1>2. Contiguous' /\ Faultless'
  BY <1>1, WantedAfter DEF Received
<1>3. Deadlines'
  <2> SUFFICES ASSUME NEW t \in Open', NEW c \in Chunks[t], c \notin Has(t)' PROVE InTime(t, c)'
    BY DEF Deadlines
  <2>1. CASE t \in Open /\ t # d.seq /\ Same(t)
    <3>1. InTime(t, c)
      BY <2>1 DEF Same, HostInv, Deadlines
    <3> QED BY <1>1, <2>1, <3>1, SameIsInTime
  <2>2. CASE t = d.seq /\ Added(d)
    <3>1. c \notin Has(d.seq) /\ c # d.chunk /\ c \in Chunks[d.seq]
      BY <2>2 DEF Added
    <3>2. CASE d.seq \in Open
      <4>1. InTime(d.seq, c)
        BY <3>1, <3>2 DEF HostInv, Deadlines
      <4>2. CASE d.seq \in DOMAIN partial
        BY <1>1, <2>2, <3>1, <4>1, <4>2, GrownIsInTime
      <4>3. CASE d.seq \in DOMAIN unseen
        BY <1>1, <2>2, <3>1, <4>1, <4>3, FoundIsInTime
      <4> QED BY <3>2, <4>2, <4>3 DEF Open
    <3>3. CASE d.seq \notin Open
      BY <1>1, <2>2, <3>1, <3>3, NewIsInTime
    <3> QED BY <3>2, <3>3
  <2>3. CASE t \in Revealed(d) /\ t \notin Open /\ Fresh(t)
    BY <1>1, <2>3, RevealedIsInTime
  <2> QED BY <1>1, <2>1, <2>2, <2>3, OpenAfter
<1> QED BY <1>1, <1>2, <1>3, ReceiveKeepsLinks, ReceiveKeepsLosses, ReceiveKeepsTimes DEF HostInv

LEMMA RepairStarts ==
  ASSUME RepairInit
  PROVE  HostInv
<1>1. /\ sentThrough = -1 /\ nextFrameIn = FirstFrame /\ announceIn = -1 /\ credit = 0
      /\ wire = {} /\ asks = {} /\ DOMAIN partialAsked = {} /\ DOMAIN unseenAsked = {} /\ DOMAIN quiet = {}
      /\ checked = FALSE /\ losses = 0
      /\ DOMAIN partial = {} /\ DOMAIN unseen = {} /\ held = {} /\ newest = -1 /\ completed = -1
      /\ resend /\ owed = FALSE /\ result = [frames |-> <<>>, lost |-> FALSE]
  BY DEF RepairInit, Init, HostInit, None
<1>2. Open = {}
  BY <1>1 DEF Open
<1>3. AssemblerInv
  BY AssemblerInvHolds DEF RepairInit
<1>4. HostTypes
  <2>1. sentThrough \in Int /\ -1 <= sentThrough /\ sentThrough <= LastFrame /\ sentThrough = None /\ announceIn = None
    BY <1>1, RepairConstants
  <2>2. nextFrameIn \in Nat /\ announceIn \in Int /\ credit \in Int /\ losses \in Nat /\ losses <= MaxLosses
    BY <1>1, RepairConstants
  <2>3. checked \in BOOLEAN
    BY <1>1
  <2> QED BY <1>1, <2>1, <2>2, <2>3 DEF HostTypes
<1>5. Losses
  <2>1. \A s \in 0..sentThrough : FALSE
    BY <1>1
  <2>2. sentThrough - newest <= losses + (IF Flying(sentThrough) THEN 1 ELSE 0)
    <3>1. sentThrough - newest = 0 /\ losses = 0
      BY <1>1
    <3> QED BY <3>1
  <2> QED BY <1>1, <2>1, <2>2 DEF Losses
<1>6. Contiguous
  BY <1>1, <1>2, RepairConstants DEF Contiguous
<1>7. Links /\ Times /\ Deadlines /\ Faultless
  <2>1. ~result.lost
    BY <1>1
  <2> QED BY <1>1, <1>2, <2>1 DEF Links, Times, Deadlines, Faultless
<1> QED BY <1>3, <1>4, <1>5, <1>6, <1>7 DEF HostInv

LEMMA RestKeepsInv ==
  ASSUME HostInv, Timing, UNCHANGED repairVars
  PROVE  HostInv'
<1>1. /\ UNCHANGED <<vars, askVars>> /\ asks' = asks /\ wire' = wire /\ losses' = losses
      /\ sentThrough' = sentThrough /\ nextFrameIn' = nextFrameIn /\ announceIn' = announceIn /\ credit' = credit
  BY DEF repairVars, hostVars
<1>2. /\ newest' = newest /\ checked' = checked
      /\ \A s : AskedFor(s)' <=> AskedFor(s)
      /\ \A s : (Wanted(s)' <=> Wanted(s)) /\ Has(s)' = Has(s)
  BY <1>1, PlayerKept
<1>3. HostTypes'
  BY <1>1, <1>2, PlayerKept DEF HostInv, HostTypes
<1>4. SinceFrame' = SinceFrame
  BY <1>1 DEF SinceFrame
<1>5. Links'
  <2>1. ASSUME NEW d \in wire PROVE OnWire(d)' /\ (d.copy = "repair" => AskedFor(d.seq)')
    BY <1>1, <1>2, <1>4 DEF HostInv, Links, OnWire
  <2>2. ASSUME NEW ask \in asks PROVE Asking(ask)'
    BY <1>2 DEF HostInv, Links, Asking
  <2> QED BY <1>1, <2>1, <2>2 DEF Links
<1>6. \A s : Flying(s)' <=> Flying(s)
  BY <1>1 DEF Flying
<1>7. \A s, c : (OriginalOf(s, c)' <=> OriginalOf(s, c)) /\ (RepairOf(s, c)' <=> RepairOf(s, c))
  BY <1>1 DEF OriginalOf, RepairOf
<1>8. Losses'
  <2>1. Flying(sentThrough)' <=> Flying(sentThrough)
    BY <1>1 DEF Flying
  <2> QED BY <1>1, <1>2, <1>7, <2>1 DEF HostInv, Losses
<1>9. Undisturbed(0)
  <2>1. ASSUME NEW s \in Open
        PROVE  /\ Elapsed(s)' = Elapsed(s)
               /\ \A c \in Chunks[s] : Copies(s, c, 0)
    <3>1. Elapsed(s)' = Elapsed(s)
      BY <1>1, <1>4 DEF Elapsed
    <3>2. ASSUME NEW c \in Chunks[s] PROVE Copies(s, c, 0)
      <4>1. Sent(s, c)' = Sent(s, c) /\ Again(s, c)' = Again(s, c)
        BY <1>7 DEF Sent, Again
      <4>2. losses \in Int /\ Sent(s, c) \in Int /\ Again(s, c) \in Int
        BY DEF HostInv, HostTypes, Sent, Again
      <4> QED BY <1>1, <4>1, <4>2 DEF Copies
    <3> QED BY <3>1, <3>2
  <2> QED BY <1>1, <1>4, <1>6, <2>1 DEF Undisturbed
<1> QED BY <1>3, <1>5, <1>8, <1>9, UndisturbedKeepsInv

(* The invariant is inductive as long as the credit suffices.              *)
LEMMA HostInvHolds ==
  ASSUME HostInv, Timing, \A ask \in asks : Cardinality(Requested(ask)) <= credit, RepairNext
  PROVE  HostInv'
<1>1. CASE SendFrame
  BY <1>1, SendFrameKeepsInv
<1>2. CASE Announce
  BY <1>2, AnnounceKeepsInv
<1>3. CASE \E ask \in asks : ResendChunks(ask)
  BY <1>3, ResendChunksKeepsInv
<1>4. CASE LoseDatagram
  BY <1>4, LoseDatagramKeepsInv
<1>5. CASE \E d \in wire : ReceiveChunk(d)
  BY <1>5, ReceiveChunkKeepsInv
<1>6. CASE AskForMissing
  BY <1>6, AskForMissingKeepsInv
<1>7. CASE PassTime
  BY <1>7, PassTimeKeepsInv
<1> QED BY <1>1, <1>2, <1>3, <1>4, <1>5, <1>6, <1>7 DEF RepairNext

(* Whatever is lost, up to MaxLosses datagrams, the host repairs every     *)
(* frame before its deadline: no loss is ever reported                     *)
(* (video_resend.rs, take; video_datagram.rs, take_missing).               *)
THEOREM HostAlwaysRepairs ==
  ASSUME Timing
  PROVE  MCSpec /\ []CreditSuffices => []HostRepairsInTime
<1> DEFINE Inv == surroundings = "host" => HostInv
<1>1. MCInit => Inv
  BY RepairStarts DEF MCInit
<1>2. Inv /\ CreditSuffices /\ [MCNext]_allVars => Inv'
  <2> SUFFICES ASSUME Inv, CreditSuffices, [MCNext]_allVars, surroundings' = "host" PROVE HostInv'
    OBVIOUS
  <2>1. CASE InNetwork /\ UNCHANGED surroundings
    BY <2>1 DEF InNetwork
  <2>2. CASE WithHost /\ UNCHANGED surroundings
    BY <2>2, HostInvHolds DEF WithHost, CreditSuffices
  <2>3. CASE UNCHANGED allVars
    <3>1. UNCHANGED repairVars /\ surroundings' = surroundings
      BY <2>3 DEF allVars
    <3> QED BY <3>1, RestKeepsInv
  <2> QED BY <2>1, <2>2, <2>3 DEF MCNext
<1>3. Inv => HostRepairsInTime
  BY DEF HostInv, Faultless, HostRepairsInTime, RepairedInTime
<1> QED BY <1>1, <1>2, <1>3, PTL DEF MCSpec

-----------------------------------------------------------------------------
(* VideoRepair implements VideoAssembler: what the player receives from    *)
(* the host is a behaviour that the assembler was checked for, whatever    *)
(* the times are.                                                          *)

(* Whatever is on its way is of a frame that the host has sent, and is     *)
(* what that frame has.                                                    *)
Datagrams == [seq : Int, chunk : Int, left : Int, copy : {"original", "announcement", "repair"}]
SentChunk(d) ==
  d \in Datagrams /\ 0 <= d.seq /\ d.seq <= sentThrough /\ d.chunk \in Chunks[d.seq]
SentRequest(ask) ==
  /\ ask \in [seq : Int, chunks : SUBSET Int, left : Int]
  /\ 0 <= ask.seq /\ ask.seq <= sentThrough /\ ask.chunks \subseteq Chunks[ask.seq]
OnlySent ==
  /\ resend
  /\ sentThrough \in Int /\ -1 <= sentThrough /\ sentThrough <= LastFrame /\ newest <= sentThrough
  /\ announceIn # None => sentThrough # None
  /\ (\A d \in wire : SentChunk(d)) /\ \A ask \in asks : SentRequest(ask)

RepairInv == AssemblerInv /\ OnlySent /\ RepairTypeOK

(* At the start nothing is sent and nothing is asked for.                  *)
LEMMA NothingUnsentStarts ==
  ASSUME RepairInit
  PROVE  RepairInv
<1>1. /\ sentThrough = -1 /\ credit = 0 /\ wire = {} /\ asks = {} /\ newest = -1 /\ resend
      /\ announceIn = None /\ DOMAIN partial = {} /\ DOMAIN unseen = {}
      /\ DOMAIN partialAsked = {} /\ DOMAIN quiet = {} /\ DOMAIN unseenAsked = {}
  BY DEF RepairInit, Init, HostInit, None
<1>2. AssemblerInv
  BY AssemblerInvHolds DEF RepairInit
<1>3. -1 <= LastFrame /\ 0 \in 0..Burst
  BY RepairConstants, RepairAssumption
<1> QED BY <1>1, <1>2, <1>3 DEF RepairInv, OnlySent, RepairTypeOK

(* A frame that is open was sent.                                          *)
LEMMA OpenWasSent ==
  ASSUME RepairInv, NEW s \in Open
  PROVE  s \in Int /\ 0 <= s /\ s <= sentThrough /\ s <= LastFrame /\ Has(s) \subseteq Chunks[s]
<1>1. Types /\ Apart /\ newest <= sentThrough /\ sentThrough \in Int /\ sentThrough <= LastFrame
  BY DEF RepairInv, OnlySent, AssemblerInv
<1>2. s \in Sequence /\ s <= newest /\ newest \in Int
  BY <1>1, Numbers DEF Open, Types, Apart
<1>3. s \in Int /\ 0 <= s
  BY <1>2, ConstantTypes DEF Sequence
<1>4. Has(s) \subseteq Chunks[s]
  BY <1>1 DEF Has, Types, PartialFrame
<1> QED BY <1>1, <1>2, <1>3, <1>4, RepairConstants

(* What is asked for is what the frame has.                                *)
LEMMA MissingWasSent ==
  ASSUME RepairInv, NEW s \in DOMAIN partial
  PROVE  MissingChunks(s) \subseteq Chunks[s]
<1>1. s \in Int /\ 0 <= s /\ s <= LastFrame /\ partial[s].got \subseteq Chunks[s]
  BY OpenWasSent DEF Open, Has
<1>2. /\ LastChunk(s) \in Nat /\ \A c : c \in Chunks[s] <=> c \in Int /\ 1 <= c /\ c <= LastChunk(s)
      /\ IsFiniteSet(Chunks[s])
  BY <1>1, ChunksAreNumbered, RepairAssumption, RepairConstants
<1>3. partial[s].got # {}
  BY DEF RepairInv, AssemblerInv, Types
<1>4. Max(partial[s].got) \in partial[s].got
  <2>1. IsFiniteSet(partial[s].got)
    BY <1>1, <1>2, FS_Subset
  <2>2. partial[s].got \in SUBSET Int
    BY <1>1, <1>2
  <2> QED BY <1>3, <2>1, <2>2, Extremes
<1>5. KnownSent(s) \in Int /\ KnownSent(s) <= LastChunk(s)
  BY <1>1, <1>2, <1>4 DEF KnownSent
<1> HIDE DEF KnownSent, LastChunk
<1>6. 1..KnownSent(s) \subseteq Chunks[s]
  BY <1>2, <1>5
<1> QED BY <1>6 DEF MissingChunks

(* A request never costs more than the credit there is.                    *)
LEMMA AllowedFitsCredit ==
  ASSUME RepairInv, NEW ask \in asks
  PROVE  /\ Allowed(ask) \subseteq Chunks[ask.seq]
         /\ Cardinality(Allowed(ask)) \in 0..credit
<1> DEFINE wanted == Requested(ask)
           allowed == Allowed(ask)
           below(c) == {d \in wanted : d < c}
<1>1. ask.seq \in Int /\ 0 <= ask.seq /\ ask.seq <= LastFrame /\ ask.chunks \subseteq Chunks[ask.seq]
      /\ credit \in Nat
  BY RepairConstants, RepairAssumption DEF RepairInv, OnlySent, SentRequest, RepairTypeOK
<1>2. wanted \subseteq Chunks[ask.seq]
  BY <1>1 DEF Requested
<1>3. IsFiniteSet(Chunks[ask.seq]) /\ Chunks[ask.seq] \in SUBSET Int
  BY <1>1, ChunksAreNumbered, RepairAssumption, RepairConstants
<1>4. IsFiniteSet(wanted) /\ wanted \in SUBSET Int
  BY <1>2, <1>3, FS_Subset
<1>5. allowed \subseteq wanted /\ \A c \in allowed : Cardinality(below(c)) < credit
  BY DEF Allowed, Requested
<1>6. IsFiniteSet(allowed) /\ allowed \in SUBSET Int
  BY <1>4, <1>5, FS_Subset
<1> HIDE DEF wanted, allowed
<1>7. CASE allowed = {}
  BY <1>1, <1>7, FS_EmptySet DEF allowed
<1>8. CASE allowed # {}
  <2> DEFINE m == Max(allowed)
  <2>1. m \in allowed /\ \A c \in allowed : c <= m
    BY <1>6, <1>8, Extremes
  <2> HIDE DEF m
  <2>2. m \in Int /\ \A c \in allowed : c \in Int
    BY <1>6, <2>1
  <2>3. allowed \subseteq below(m) \union {m}
    BY <1>5, <2>1, <2>2
  <2>4. IsFiniteSet(below(m))
    BY <1>4, FS_Subset
  <2>5. m \notin below(m)
    BY <2>2
  <2>6. Cardinality(below(m)) < credit
    BY <1>5, <2>1
  <2> HIDE DEF below
  <2>7. Cardinality(below(m)) \in Nat
    BY <2>4, FS_CardinalityType
  <2>8. IsFiniteSet(below(m) \union {m}) /\ Cardinality(below(m) \union {m}) = Cardinality(below(m)) + 1
    BY <2>4, <2>5, FS_AddElement
  <2>9. Cardinality(allowed) <= Cardinality(below(m) \union {m})
    BY <2>3, <2>8, FS_Subset
  <2>10. Cardinality(allowed) \in Nat
    BY <1>6, FS_CardinalityType
  <2> QED BY <1>1, <1>2, <1>5, <2>6, <2>7, <2>8, <2>9, <2>10 DEF allowed
<1> QED BY <1>2, <1>5, <1>7, <1>8 DEF allowed

(* Only the frame of the chunk is opened; every other one was open.        *)
LEMMA OpenBeforeChunk ==
  ASSUME Types, NEW s \in Sequence, NEW c, Push(s, c)
  PROVE  \A t \in DOMAIN partial' : t = s \/ t \in DOMAIN LivePartial
<1>1. DOMAIN RoomFor(s) \subseteq DOMAIN LivePartial
  BY DEF RoomFor, Restrict
<1>2. DOMAIN Others(s) \subseteq DOMAIN LivePartial
  BY <1>1 DEF Others, Restrict
<1>3. DOMAIN StillAwaited(s, Others(s)) \subseteq DOMAIN LivePartial
  BY <1>2 DEF StillAwaited, From, Restrict
<1>4. CASE AddChunk(s, c)
  <2>1. DOMAIN partial' = {s} \union DOMAIN RoomFor(s)
    BY <1>4 DEF AddChunk
  <2> QED BY <1>1, <2>1
<1>5. CASE IgnoreChunk(s) \/ RefuseLateChunk(s)
  BY <1>5 DEF IgnoreChunk, RefuseLateChunk
<1>6. CASE CompleteHeldFrame(s, c)
  BY <1>3, <1>6 DEF CompleteHeldFrame
<1>7. CASE CompleteFrame(s, c)
  BY <1>2, <1>7 DEF CompleteFrame
<1> QED BY <1>4, <1>5, <1>6, <1>7 DEF Push

(* What is asked for and timed follows the frames that are open.           *)
LEMMA ReceivedIsTimed ==
  ASSUME RepairInv, NEW d \in wire, ReceiveChunk(d), d.seq \in Sequence
  PROVE  RepairTypeOK'
<1>1. Types /\ RepairTypeOK /\ Push(d.seq, d.chunk) /\ credit' = credit
  BY DEF RepairInv, AssemblerInv, ReceiveChunk, hostVars
<1>2. /\ partialAsked' = [s \in DOMAIN partial' |-> IF s \in DOMAIN LivePartial THEN partialAsked[s] ELSE None]
      /\ quiet' = [s \in DOMAIN partial' |-> IF s = d.seq THEN 0 ELSE quiet[s]]
      /\ DOMAIN unseenAsked' = DOMAIN unseen'
  BY DEF ReceiveChunk
<1>3. DOMAIN LivePartial \subseteq DOMAIN partial
  BY <1>1, LiveFacts
<1>4. ASSUME NEW s \in DOMAIN partial' PROVE partialAsked'[s] \in -1..Retry /\ quiet'[s] \in 0..TailQuiet
  <2>1. s = d.seq \/ s \in DOMAIN partial
    BY <1>1, <1>3, OpenBeforeChunk
  <2>2. -1 \in -1..Retry /\ 0 \in 0..TailQuiet /\ None = -1
    BY RepairConstants
  <2>3. s \in DOMAIN partial => partialAsked[s] \in -1..Retry /\ quiet[s] \in 0..TailQuiet
    BY <1>1 DEF RepairTypeOK
  <2>4. partialAsked'[s] \in -1..Retry
    BY <1>2, <1>3, <2>2, <2>3
  <2>5. quiet'[s] \in 0..TailQuiet
    BY <1>2, <2>1, <2>2, <2>3
  <2> QED BY <2>4, <2>5
<1>5. DOMAIN partialAsked' = DOMAIN partial' /\ DOMAIN quiet' = DOMAIN partial'
  BY <1>2
<1> QED BY <1>1, <1>2, <1>4, <1>5 DEF RepairTypeOK

(* Times stop at their caps.                                               *)
LEMMA PassedIsTimed ==
  ASSUME RepairInv, PassTime
  PROVE  RepairTypeOK'
<1>1. /\ RepairTypeOK /\ credit' = Least(credit + 1, Burst)
      /\ DOMAIN partial' = DOMAIN partial /\ DOMAIN unseen' = DOMAIN unseen
      /\ partialAsked' = Older(partialAsked, Retry) /\ quiet' = Older(quiet, TailQuiet)
      /\ unseenAsked' = Older(unseenAsked, Retry)
  BY DEF RepairInv, PassTime, Tick
<1>2. credit' \in 0..Burst
  <2>1. credit \in Nat /\ credit <= Burst /\ Burst \in Nat
    BY <1>1, RepairAssumption DEF RepairTypeOK
  <2> QED BY <1>1, <2>1 DEF Least
<1>3. DOMAIN partialAsked' = DOMAIN partial' /\ DOMAIN quiet' = DOMAIN partial' /\ DOMAIN unseenAsked' = DOMAIN unseen'
  BY <1>1 DEF RepairTypeOK, Older
<1>4. ASSUME NEW s \in DOMAIN partial PROVE partialAsked'[s] \in -1..Retry /\ quiet'[s] \in 0..TailQuiet
  <2>1. /\ partialAsked'[s] = IF partialAsked[s] = None THEN None ELSE Least(partialAsked[s] + 1, Retry)
        /\ quiet'[s] = IF quiet[s] = None THEN None ELSE Least(quiet[s] + 1, TailQuiet)
    BY <1>1 DEF RepairTypeOK, Older
  <2>2. partialAsked[s] \in -1..Retry /\ quiet[s] \in 0..TailQuiet
    BY <1>1 DEF RepairTypeOK
  <2>3. \A n \in Nat, cap \in Nat : n <= cap => Least(n + 1, cap) \in 0..cap
    BY DEF Least
  <2>4. Retry \in Nat /\ TailQuiet \in Nat /\ None = -1
    BY RepairConstants
  <2>5. quiet'[s] \in 0..TailQuiet
    <3>1. quiet[s] \in Nat /\ quiet[s] <= TailQuiet /\ quiet[s] # -1
      BY <2>2, <2>4
    <3> QED BY <2>1, <2>3, <2>4, <3>1
  <2>6. partialAsked'[s] \in -1..Retry
    <3>1. CASE partialAsked[s] = -1
      BY <2>1, <2>2, <2>4, <3>1
    <3>2. CASE partialAsked[s] # -1
      <4>1. partialAsked[s] \in Nat /\ partialAsked[s] <= Retry
        BY <2>2, <2>4, <3>2
      <4>2. partialAsked'[s] \in 0..Retry
        BY <2>1, <2>3, <2>4, <3>2, <4>1
      <4> QED BY <2>4, <4>2
    <3> QED BY <3>1, <3>2
  <2> QED BY <2>5, <2>6
<1> QED BY <1>1, <1>2, <1>3, <1>4 DEF RepairTypeOK

(* The player's part of a step leaves nothing unsent in its books.         *)
LEMMA ReceivedWasSent ==
  ASSUME RepairInv, NEW d \in wire, ReceiveChunk(d)
  PROVE  Next /\ RepairInv'
<1>1. /\ wire' = wire \ {d} /\ asks' = asks /\ sentThrough' = sentThrough /\ credit' = credit
      /\ announceIn' = announceIn /\ Push(d.seq, d.chunk)
  BY DEF ReceiveChunk, hostVars
<1>2. /\ d.seq \in Int /\ 0 <= d.seq /\ d.seq <= sentThrough /\ d.chunk \in Chunks[d.seq]
      /\ sentThrough \in Int /\ sentThrough <= LastFrame /\ newest <= sentThrough
  BY DEF RepairInv, OnlySent, SentChunk, Datagrams
<1>3. d.seq \in Sequence
  BY <1>2, RepairConstants DEF Sequence
<1>4. Next
  BY <1>1, <1>2, <1>3 DEF Next
<1>5. AssemblerInv'
  BY <1>4, AssemblerInvHolds DEF RepairInv
<1>6. resend' = resend
  BY <1>1 DEF Push
<1>7. newest' = newest \/ newest' = d.seq
  BY <1>1 DEF Push, IgnoreChunk, RefuseLateChunk, AddChunk, CompleteHeldFrame, CompleteFrame
<1>8. newest' <= sentThrough'
  BY <1>1, <1>2, <1>7
<1>9. RepairTypeOK'
  BY <1>3, ReceivedIsTimed
<1> QED BY <1>1, <1>4, <1>5, <1>6, <1>8, <1>9 DEF RepairInv, OnlySent, SentChunk, SentRequest

(* What is asked for is of a frame that is open.                           *)
LEMMA AskedWasSent ==
  ASSUME RepairInv, AskForMissing
  PROVE  RepairInv'
<1> DEFINE incomplete == {s \in DOMAIN partial : MissingChunks(s) # {} /\ Due(partialAsked[s])}
           swallowed == {s \in DOMAIN unseen : Due(unseenAsked[s])}
<1>1. /\ UNCHANGED vars /\ wire' = wire /\ sentThrough' = sentThrough /\ credit' = credit
      /\ announceIn' = announceIn
      /\ asks' = asks
           \union {[seq |-> s, chunks |-> MissingChunks(s), left |-> Delay] : s \in incomplete}
           \union {[seq |-> s, chunks |-> {}, left |-> Delay] : s \in swallowed}
  BY DEF AskForMissing, hostVars
<1>2. AssemblerInv'
  BY <1>1, AssemblerInvHolds DEF RepairInv
<1>3. ASSUME NEW s \in Open, NEW chunks \in SUBSET Chunks[s]
      PROVE  SentRequest([seq |-> s, chunks |-> chunks, left |-> Delay])
  <2>1. s \in Int /\ 0 <= s /\ s <= sentThrough /\ s <= LastFrame
    BY OpenWasSent
  <2>2. chunks \in SUBSET Int
    BY <2>1, ChunksAreNumbered
  <2> QED BY <2>1, <2>2, RepairConstants DEF SentRequest
<1>4. ASSUME NEW ask \in asks' PROVE SentRequest(ask)
  <2>1. CASE ask \in asks
    BY <2>1 DEF RepairInv, OnlySent
  <2>2. ASSUME NEW s \in incomplete, ask = [seq |-> s, chunks |-> MissingChunks(s), left |-> Delay]
        PROVE  SentRequest(ask)
    BY <1>3, <2>2, MissingWasSent DEF Open
  <2>3. ASSUME NEW s \in swallowed, ask = [seq |-> s, chunks |-> {}, left |-> Delay]
        PROVE  SentRequest(ask)
    BY <1>3, <2>3 DEF Open
  <2> QED BY <1>1, <2>1, <2>2, <2>3
<1>5. resend' = resend /\ newest' = newest
  BY <1>1 DEF vars
<1>6. RepairTypeOK'
  <2>1. /\ partialAsked' = [s \in DOMAIN partial |-> IF s \in incomplete THEN 0 ELSE partialAsked[s]]
        /\ DOMAIN unseenAsked' = DOMAIN unseen /\ quiet' = quiet /\ RepairTypeOK
        /\ partial' = partial /\ unseen' = unseen
    BY DEF AskForMissing, vars, RepairInv
  <2>2. 0 \in -1..Retry
    BY RepairConstants
  <2> HIDE DEF incomplete
  <2>3. \A s \in DOMAIN partial : partialAsked'[s] \in -1..Retry
    BY <2>1, <2>2 DEF RepairTypeOK
  <2> QED BY <1>1, <2>1, <2>3 DEF RepairTypeOK
<1> QED BY <1>1, <1>2, <1>4, <1>5, <1>6 DEF RepairInv, OnlySent, SentChunk, SentRequest

(* A tick is a tick of the assembler, and nothing else gets under way.     *)
LEMMA PassedWasSent ==
  ASSUME RepairInv, PassTime
  PROVE  Next /\ RepairInv'
<1>1. /\ Tick /\ sentThrough' = sentThrough /\ credit' = Least(credit + 1, Burst)
      /\ wire' = Sooner(wire) /\ asks' = Sooner(asks)
      /\ announceIn = None => announceIn' = None
  BY DEF PassTime
<1>2. Next
  BY <1>1 DEF Next
<1>3. AssemblerInv' /\ resend' = resend /\ newest' = newest
  BY <1>1, <1>2, AssemblerInvHolds DEF RepairInv, Tick
<1>4. RepairTypeOK'
  BY PassedIsTimed
<1>5. ASSUME NEW d \in wire' PROVE SentChunk(d)
  <2>1. PICK e \in wire : d = [e EXCEPT !.left = e.left - 1]
    BY <1>1 DEF Sooner
  <2>2. SentChunk(e)
    BY DEF RepairInv, OnlySent
  <2>3. e \in Datagrams /\ d \in Datagrams /\ d.seq = e.seq /\ d.chunk = e.chunk
    BY <2>1, <2>2 DEF SentChunk, Datagrams
  <2> QED BY <2>2, <2>3 DEF SentChunk
<1>6. ASSUME NEW ask \in asks' PROVE SentRequest(ask)
  <2>1. PICK a \in asks : ask = [a EXCEPT !.left = a.left - 1]
    BY <1>1 DEF Sooner
  <2>2. SentRequest(a)
    BY DEF RepairInv, OnlySent
  <2>3. /\ ask \in [seq : Int, chunks : SUBSET Int, left : Int]
        /\ ask.seq = a.seq /\ ask.chunks = a.chunks
    BY <2>1, <2>2 DEF SentRequest
  <2> QED BY <2>2, <2>3 DEF SentRequest
<1> QED BY <1>1, <1>2, <1>3, <1>4, <1>5, <1>6 DEF RepairInv, OnlySent, SentChunk, SentRequest

(* Every step of the repair loop is a step of the assembler, or leaves it. *)
LEMMA RepairStep ==
  ASSUME RepairInv, [RepairNext]_repairVars
  PROVE  [Next]_vars /\ RepairInv'
<1>1. /\ resend /\ sentThrough \in Int /\ -1 <= sentThrough /\ sentThrough <= LastFrame /\ newest <= sentThrough
      /\ newest \in Int /\ credit \in Nat /\ credit <= Burst
  BY RepairAssumption, Numbers DEF RepairInv, OnlySent, AssemblerInv, RepairTypeOK
<1>2. ASSUME UNCHANGED vars
      PROVE  /\ AssemblerInv' /\ resend' /\ newest' = newest
             /\ UNCHANGED askVars /\ credit' \in 0..Burst => RepairTypeOK'
  <2>1. AssemblerInv'
    BY <1>2, AssemblerInvHolds DEF RepairInv
  <2>2. resend' /\ newest' = newest /\ partial' = partial /\ unseen' = unseen
    BY <1>1, <1>2 DEF vars
  <2>3. ASSUME UNCHANGED askVars, credit' \in 0..Burst PROVE RepairTypeOK'
    <3>1. partialAsked' = partialAsked /\ unseenAsked' = unseenAsked /\ quiet' = quiet
      BY <2>3 DEF askVars
    <3> QED BY <2>2, <2>3, <3>1 DEF RepairInv, RepairTypeOK
  <2> QED BY <2>1, <2>2, <2>3
<1>3. credit' = credit => credit' \in 0..Burst
  BY DEF RepairInv, RepairTypeOK
<1>4. ASSUME NEW s \in Int, 0 <= s, s <= LastFrame, NEW c \in Chunks[s],
             NEW copy \in {"original", "announcement", "repair"}
      PROVE  Datagram(s, c, copy) \in Datagrams /\ Datagram(s, c, copy).seq = s /\ Datagram(s, c, copy).chunk = c
  BY <1>4, ChunksAreNumbered, RepairConstants DEF Datagram, Datagrams
<1>5. CASE SendFrame
  <2>1. /\ UNCHANGED vars /\ sentThrough' = sentThrough + 1 /\ sentThrough < LastFrame /\ credit' = credit
        /\ asks' = asks /\ UNCHANGED askVars
        /\ wire' = wire \union {Datagram(sentThrough + 1, c, "original") : c \in Chunks[sentThrough + 1]}
    BY <1>5 DEF SendFrame, FrameDue
  <2>2. sentThrough' \in Int /\ 0 <= sentThrough' /\ sentThrough' <= LastFrame /\ newest' <= sentThrough'
    BY <1>1, <1>2, <2>1, RepairConstants
  <2>3. \A s \in Int : s <= sentThrough => s <= sentThrough'
    BY <1>1, <2>1
  <2>4. ASSUME NEW d \in wire' PROVE SentChunk(d)'
    <3>1. CASE d \in wire
      <4>1. SentChunk(d) /\ d.seq \in Int
        BY <3>1 DEF RepairInv, OnlySent, SentChunk, Datagrams
      <4> QED BY <2>3, <4>1 DEF SentChunk
    <3>2. ASSUME NEW c \in Chunks[sentThrough'], d = Datagram(sentThrough', c, "original")
          PROVE  SentChunk(d)'
      BY <1>4, <2>2, <3>2 DEF SentChunk
    <3> QED BY <2>1, <3>1, <3>2
  <2>5. ASSUME NEW ask \in asks' PROVE SentRequest(ask)'
    <3>1. SentRequest(ask) /\ ask.seq \in Int
      BY <2>1 DEF RepairInv, OnlySent, SentRequest
    <3> QED BY <2>3, <3>1 DEF SentRequest
  <2>6. -1 <= sentThrough' /\ sentThrough' # None
    BY <2>2 DEF None
  <2> QED BY <1>1, <1>2, <1>3, <2>1, <2>2, <2>4, <2>5, <2>6 DEF RepairInv, OnlySent
<1>6. CASE Announce
  <2>1. /\ UNCHANGED vars /\ sentThrough' = sentThrough /\ credit' = credit /\ asks' = asks
        /\ announceIn' = None /\ UNCHANGED askVars
        /\ wire' = wire \union {Datagram(sentThrough, LastChunk(sentThrough), "announcement")}
    BY <1>6 DEF Announce
  <2>2. sentThrough # -1
    BY <1>6 DEF Announce, RepairInv, OnlySent, None
  <2>3. SentChunk(Datagram(sentThrough, LastChunk(sentThrough), "announcement"))
    BY <1>1, <1>4, <2>2, ChunksAreNumbered DEF SentChunk
  <2>4. \A d \in wire' : SentChunk(d)
    BY <2>1, <2>3 DEF RepairInv, OnlySent
  <2> QED BY <1>1, <1>2, <1>3, <2>1, <2>4 DEF RepairInv, OnlySent, SentChunk, SentRequest
<1>7. ASSUME NEW ask \in asks, ResendChunks(ask) PROVE UNCHANGED vars /\ RepairInv'
  <2>1. /\ UNCHANGED vars /\ sentThrough' = sentThrough /\ credit' = credit - Cardinality(Allowed(ask))
        /\ asks' = asks \ {ask} /\ announceIn' = announceIn /\ UNCHANGED askVars
        /\ wire' = wire \union {Datagram(ask.seq, c, "repair") : c \in Allowed(ask)}
    BY <1>7 DEF ResendChunks
  <2>2. /\ ask.seq \in Int /\ 0 <= ask.seq /\ ask.seq <= sentThrough /\ Allowed(ask) \subseteq Chunks[ask.seq]
        /\ Cardinality(Allowed(ask)) \in 0..credit
    BY AllowedFitsCredit DEF RepairInv, OnlySent, SentRequest
  <2>3. credit' \in 0..Burst
    <3>1. \A k, b \in Nat : k <= b => \A n \in 0..k : k - n \in 0..b
      OBVIOUS
    <3>2. Burst \in Nat
      BY RepairAssumption
    <3> QED BY <1>1, <2>1, <2>2, <3>1, <3>2
  <2>4. ASSUME NEW d \in wire' PROVE SentChunk(d)
    <3>1. CASE d \in wire
      BY <3>1 DEF RepairInv, OnlySent
    <3>2. ASSUME NEW c \in Allowed(ask), d = Datagram(ask.seq, c, "repair") PROVE SentChunk(d)
      <4>1. c \in Chunks[ask.seq] /\ ask.seq <= LastFrame
        BY <1>1, <2>2, RepairConstants
      <4>2. d \in Datagrams /\ d.seq = ask.seq /\ d.chunk = c
        BY <1>4, <2>2, <3>2, <4>1
      <4> QED BY <2>2, <4>1, <4>2 DEF SentChunk
    <3> QED BY <2>1, <3>1, <3>2
  <2> QED BY <1>1, <1>2, <1>3, <2>1, <2>3, <2>4 DEF RepairInv, OnlySent, SentChunk, SentRequest
<1>8. CASE LoseDatagram
  <2>1. /\ UNCHANGED vars /\ sentThrough' = sentThrough /\ credit' = credit /\ announceIn' = announceIn
        /\ wire' \subseteq wire /\ asks' \subseteq asks /\ UNCHANGED askVars
    BY <1>8 DEF LoseDatagram, hostVars
  <2> QED BY <1>1, <1>2, <1>3, <2>1 DEF RepairInv, OnlySent, SentChunk, SentRequest
<1>9. CASE \E d \in wire : ReceiveChunk(d)
  BY <1>9, ReceivedWasSent
<1>10. CASE AskForMissing
  <2>1. UNCHANGED vars
    BY <1>10 DEF AskForMissing
  <2> QED BY <1>10, <2>1, AskedWasSent
<1>11. CASE PassTime
  BY <1>11, PassedWasSent
<1>12. CASE UNCHANGED repairVars
  <2>1. /\ UNCHANGED vars /\ sentThrough' = sentThrough /\ credit' = credit
        /\ announceIn' = announceIn /\ wire' = wire /\ asks' = asks /\ UNCHANGED askVars
    BY <1>12 DEF repairVars, hostVars
  <2> QED BY <1>1, <1>2, <1>3, <2>1 DEF RepairInv, OnlySent, SentChunk, SentRequest
<1> QED BY <1>5, <1>6, <1>7, <1>8, <1>9, <1>10, <1>11, <1>12 DEF RepairNext

(* With the host, the player's assembler does only what it may do on any   *)
(* network that delivers chunks late, twice or never                       *)
(* (video_resend.rs, take; video_datagram.rs, push_chunk).                 *)
THEOREM RepairImplementsAssembler == RepairSpec => Spec
<1>1. RepairInit => Init /\ RepairInv
  BY NothingUnsentStarts DEF RepairInit
<1>2. RepairInv /\ [RepairNext]_repairVars => [Next]_vars /\ RepairInv'
  BY RepairStep
<1> QED BY <1>1, <1>2, PTL DEF RepairSpec, Spec

(* So every loss that it reports is real, and every gap is reported.       *)
THEOREM RepairLossesAlwaysReal == RepairSpec => LossesAreReal /\ LossesReported
BY RepairImplementsAssembler, LossesAlwaysReal, LossesAlwaysReported

(* The resends never take more than their credit, and what is asked for is *)
(* what is open (video_resend.rs, RecentVideoChunks::take;                 *)
(* video_datagram.rs, take_missing).                                       *)
THEOREM RepairTypesCorrect == RepairSpec => []RepairTypeOK
<1>1. RepairInit => RepairInv
  BY NothingUnsentStarts
<1>2. RepairInv /\ [RepairNext]_repairVars => RepairInv'
  BY RepairStep
<1>3. RepairInv => RepairTypeOK
  BY DEF RepairInv
<1> QED BY <1>1, <1>2, <1>3, PTL DEF RepairSpec
=============================================================================
