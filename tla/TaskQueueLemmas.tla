--------------------------- MODULE TaskQueueLemmas ---------------------------
(***************************************************************************)
(* What the operations of TaskQueueOps do to one queue. A queue is placed  *)
(* when it is finite and no two of its entries share a slot; that is what  *)
(* every operation needs of it and preserves.                              *)
(***************************************************************************)
EXTENDS TaskQueueOps, FiniteSetTheorems, WellFoundedInduction, TLAPS

Placed(q) ==
  /\ q \in SUBSET Entry
  /\ IsFiniteSet(q)
  /\ \A e, f \in q : e.slot = f.slot => e = f

\* A queue that is not empty has a front. A front is an entry that has a
\* minimal set of entries before it, in the well-founded order of the subsets
\* of a finite set.
LEMMA OldestExists ==
  ASSUME NEW q, Placed(q), q # {}
  PROVE  Oldest(q) \in q /\ \A f \in q : Oldest(q).slot <= f.slot
<1> DEFINE Before(e) == { f \in q : f.slot < e.slot }
<1> DEFINE T == { Before(e) : e \in q }
<1>1. T \subseteq SUBSET q /\ T # {}
  OBVIOUS
<1>2. IsWellFoundedOn(StrictSubsetOrdering(q), SUBSET q)
  BY FS_StrictSubsetOrderingWellFounded, FS_FiniteSubsetsOfFinite DEF Placed
<1>3. PICK U \in T : \A V \in T : <<V, U>> \notin StrictSubsetOrdering(q)
  <2> HIDE DEF T
  <2> QED BY <1>1, <1>2, WFMin
<1>4. PICK e \in q : U = Before(e)
  OBVIOUS
<1>5. ASSUME NEW f \in q
      PROVE  e.slot <= f.slot
  <2>1. e.slot \in Nat /\ f.slot \in Nat
    BY DEF Placed, Entry
  <2>2. SUFFICES ASSUME f.slot < e.slot PROVE FALSE
    BY <2>1
  <2>3. Before(f) \subseteq Before(e)
    BY <2>1, <2>2 DEF Placed, Entry
  <2>4. f \in Before(e) /\ f \notin Before(f)
    BY <2>1, <2>2
  <2>5. <<Before(f), Before(e)>> \in StrictSubsetOrdering(q)
    BY <2>3, <2>4 DEF StrictSubsetOrdering
  <2> QED BY <2>5, <1>3, <1>4
<1> QED BY <1>5 DEF Oldest

\* Likewise it has a back.
LEMMA NewestExists ==
  ASSUME NEW q, Placed(q), q # {}
  PROVE  Newest(q) \in q /\ \A f \in q : f.slot <= Newest(q).slot
<1> DEFINE After(e) == { f \in q : e.slot < f.slot }
<1> DEFINE T == { After(e) : e \in q }
<1>1. T \subseteq SUBSET q /\ T # {}
  OBVIOUS
<1>2. IsWellFoundedOn(StrictSubsetOrdering(q), SUBSET q)
  BY FS_StrictSubsetOrderingWellFounded, FS_FiniteSubsetsOfFinite DEF Placed
<1>3. PICK U \in T : \A V \in T : <<V, U>> \notin StrictSubsetOrdering(q)
  <2> HIDE DEF T
  <2> QED BY <1>1, <1>2, WFMin
<1>4. PICK e \in q : U = After(e)
  OBVIOUS
<1>5. ASSUME NEW f \in q
      PROVE  f.slot <= e.slot
  <2>1. e.slot \in Nat /\ f.slot \in Nat
    BY DEF Placed, Entry
  <2>2. SUFFICES ASSUME e.slot < f.slot PROVE FALSE
    BY <2>1
  <2>3. After(f) \subseteq After(e)
    BY <2>1, <2>2 DEF Placed, Entry
  <2>4. f \in After(e) /\ f \notin After(f)
    BY <2>1, <2>2
  <2>5. <<After(f), After(e)>> \in StrictSubsetOrdering(q)
    BY <2>3, <2>4 DEF StrictSubsetOrdering
  <2> QED BY <2>5, <1>3, <1>4
<1> QED BY <1>5 DEF Newest

\* Whatever an operation removes, what is left is placed and no larger.
LEMMA SubqueuePlaced ==
  ASSUME NEW q, Placed(q), NEW r \in SUBSET q
  PROVE  /\ Placed(r)
         /\ Cardinality(r) \in Nat /\ Cardinality(q) \in Nat
         /\ Cardinality(r) <= Cardinality(q)
BY FS_Subset, FS_CardinalityType DEF Placed

\* push_back adds one entry, behind all the others.
LEMMA PushBackPlaced ==
  ASSUME NEW q, Placed(q), NEW t \in Task, NEW time \in Nat
  PROVE  \E e \in Entry :
           /\ e.task = t /\ e.at = time
           /\ PushBack(q, t, time) = q \union {e}
           /\ \A f \in q : f.slot < e.slot
           /\ Placed(PushBack(q, t, time))
           /\ Cardinality(PushBack(q, t, time)) = Cardinality(q) + 1
<1> DEFINE slot == IF q = {} THEN 0 ELSE Newest(q).slot + 1
           new == [task |-> t, at |-> time, slot |-> slot]
<1>1. slot \in Nat /\ \A f \in q : f.slot < slot
  BY NewestExists DEF Placed, Entry
<1>2. new \in Entry /\ new.task = t /\ new.at = time /\ new.slot = slot
  BY <1>1 DEF Entry
<1>3. PushBack(q, t, time) = q \union {new}
  BY DEF PushBack
<1>4. new \notin q
  BY <1>1, <1>2
<1>5. IsFiniteSet(q \union {new}) /\ Cardinality(q \union {new}) = Cardinality(q) + 1
  BY <1>4, FS_AddElement DEF Placed
<1>6. \A e, f \in q \union {new} : e.slot = f.slot => e = f
  <2> HIDE DEF new, slot
  <2> QED BY <1>1, <1>2 DEF Placed, Entry
<1>7. q \union {new} \in SUBSET Entry
  BY <1>2 DEF Placed
<1>8. Placed(q \union {new})
  BY <1>5, <1>6, <1>7 DEF Placed
<1> HIDE DEF new, slot
<1> QED BY <1>1, <1>2, <1>3, <1>5, <1>8

\* enqueue keeps a queue within its depth, except that a depth of zero lets
\* one task in.
LEMMA EnqueuedDepth ==
  ASSUME NEW q, Placed(q), NEW t \in Task, NEW time \in Nat,
         NEW limit \in Nat, limit >= 1, limit >= MaxDepth, MaxDepth \in Nat,
         MaxDepth >= 1 => limit = MaxDepth,
         Cardinality(q) <= limit
  PROVE  /\ Placed(Enqueued(q, t, time))
         /\ Cardinality(Enqueued(q, t, time)) <= limit
<1> DEFINE r == q \ Evicted(q)
<1>1. Placed(r) /\ Cardinality(r) \in Nat /\ Cardinality(q) \in Nat
  BY SubqueuePlaced
<1>2. /\ Placed(PushBack(r, t, time))
      /\ Cardinality(PushBack(r, t, time)) = Cardinality(r) + 1
  BY <1>1, PushBackPlaced
<1>3. Cardinality(r) + 1 <= limit
  <2>1. CASE q = {}
    <3>1. r = {} /\ Cardinality(r) = 0
      BY <2>1, FS_EmptySet
    <3> QED BY <3>1
  <2>2. CASE q # {} /\ Cardinality(q) >= MaxDepth
    <3>1. Evicted(q) = {Oldest(q)} /\ Oldest(q) \in q
      BY <2>2, OldestExists DEF Evicted
    <3>2. Cardinality(r) = Cardinality(q) - 1
      BY <3>1, FS_RemoveElement DEF Placed
    <3> QED BY <1>1, <3>2
  <2>3. CASE q # {} /\ Cardinality(q) < MaxDepth
    <3>1. r = q
      BY <2>3, <1>1 DEF Evicted
    <3> QED BY <1>1, <2>3, <3>1
  <2> QED BY <2>1, <2>2, <2>3, <1>1
<1> QED BY <1>2, <1>3 DEF Enqueued

=============================================================================
