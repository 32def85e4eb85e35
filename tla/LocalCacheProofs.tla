-------------------------- MODULE LocalCacheProofs --------------------------
(***************************************************************************)
(* Proofs about LocalCache for every set of keys, every blob length and    *)
(* every limit.  SetReturns needs fairness, and is left to TLC.            *)
(***************************************************************************)
EXTENDS LocalCache, TLAPS, FiniteSetTheorems

-----------------------------------------------------------------------------
(* Item.Accessed moves lastAccess by a whole number of seconds.            *)
LEMMA BackoffInt == ASSUME NEW h \in Nat PROVE Backoff(h) \in Int
<1>1. CASE h = 0
  BY <1>1 DEF Backoff
<1>2. CASE h # 0
  <2>1. h - 1 \in Nat
    BY <1>2
  <2>2. 2^(h - 1) \in Int
    BY <2>1, SMT
  <2>3. QED
    BY <1>2, <2>2 DEF Backoff
<1>3. QED
  BY <1>1, <1>2

(* A touched *Item is still an *Item, with the same Blob.                  *)
LEMMA AccessedItem ==
  ASSUME NEW item \in Item, now \in Nat
  PROVE  Accessed(item) \in Item /\ Accessed(item).blob = item.blob
<1>1. Backoff(item.hitCount) \in Int
  BY BackoffInt, LimitsAssumption DEF Item
<1>2. QED
  BY <1>1, LimitsAssumption DEF Accessed, Item

(* The keys present are finitely many.                                     *)
LEMMA FiniteItems ==
  ASSUME TypeOK
  PROVE  /\ IsFiniteSet(DOMAIN items)
         /\ Cardinality(DOMAIN items) \in Nat
BY FS_Subset, FS_CardinalityType, KeysAssumption DEF TypeOK

-----------------------------------------------------------------------------
(* The type invariant, which also says that the key a Set stores is absent *)
(* and that Evict's first loop visits keys that are still there.           *)
THEOREM Typing == Spec => []TypeOK
<1>1. Init => TypeOK
  BY LimitsAssumption DEF Init, TypeOK, Stages
<1>2. TypeOK /\ [Next]_vars => TypeOK'
  <2> SUFFICES ASSUME TypeOK, [Next]_vars PROVE TypeOK'
    OBVIOUS
  <2> USE DEF TypeOK, Stages, cacheVars, setVars
  <2>1. ASSUME NEW found, Touch(found) PROVE TypeOK'
    <3>1. \A k \in DOMAIN items : Accessed(items[k]) \in Item
      BY AccessedItem
    <3>2. QED
      BY <2>1, <3>1 DEF Touch
  <2>2. ASSUME NEW k \in Keys, NEW b \in Blobs, NEW d \in Durations, BeginSet(k, b, d)
        PROVE TypeOK'
    <3>1. [blob |-> b, hitCount |-> 0, lastAccess |-> now - d, expires |-> now + d] \in Item
      BY DurationsAssumption, LimitsAssumption DEF Item
    <3>2. QED
      BY <2>2, <3>1 DEF BeginSet, Prepare
  <2>3. ASSUME NEW k \in Keys, Sweep(k) PROVE TypeOK'
    <3>1. CASE started > items[k].lastAccess
      <4>1. Len[items[k].blob] \in Int
        BY <2>3, LenAssumption DEF Sweep, Item
      <4>2. QED
        BY <2>3, <3>1, <4>1 DEF Sweep, Without
    <3>2. CASE ~(started > items[k].lastAccess)
      BY <2>3, <3>2 DEF Sweep
    <3>3. QED
      BY <3>1, <3>2
  <2>4. ASSUME NEW k \in Keys, Shrink(k) PROVE TypeOK'
    <3>1. Len[items[k].blob] \in Int
      BY <2>4, LenAssumption DEF Shrink, Oldest, Item
    <3>2. QED
      BY <2>4, <3>1 DEF Shrink, Oldest, Without
  <2>5. CASE EndSweep
    BY <2>5 DEF EndSweep
  <2>6. CASE EndShrink
    BY <2>6, LimitsAssumption DEF EndShrink
  <2>7. CASE Insert
    <3>1. Len[pending.item.blob] \in Int
      BY <2>7, LenAssumption DEF Insert, Item
    <3>2. QED
      BY <2>7, <3>1 DEF Insert
  <2>8. ASSUME NEW k \in Keys, NEW b \in Blobs, Rewrite(k, b) PROVE TypeOK'
    <3>1. /\ [items[k] EXCEPT !.blob = b] \in Item
          /\ Len[items[k].blob] \in Int /\ Len[b] \in Int
      BY <2>8, LenAssumption DEF Rewrite, Item
    <3>2. QED
      BY <2>8, <3>1 DEF Rewrite
  <2>9. CASE Tick
    BY <2>9, LimitsAssumption DEF Tick
  <2>10. CASE UNCHANGED vars
    BY <2>10 DEF vars
  <2>11. QED
    BY <2>1, <2>2, <2>3, <2>4, <2>5, <2>6, <2>7, <2>8, <2>9, <2>10
       DEF Next, SetStep, Get, MGet
<1>3. QED
  BY <1>1, <1>2, PTL DEF Spec

-----------------------------------------------------------------------------
(***************************************************************************)
(* The capacity bounds are not inductive: a Set may only insert because    *)
(* its first branch, or the two loops of Evict, left room.                 *)
(***************************************************************************)
Room ==
  stage = "insert" =>
    /\ Cardinality(DOMAIN items) <= MaxItems
    /\ currentSize <= MaxSize \/ Cardinality(DOMAIN items) = 0

Bounds == CountBound /\ SizeBound /\ Room

(* Removing a present key leaves one item less, and subtracts a length.    *)
LEMMA WithoutSmaller ==
  ASSUME TypeOK, NEW k \in DOMAIN items, items' = Without(k),
         currentSize' = currentSize - Len[items[k].blob]
  PROVE  /\ Cardinality(DOMAIN items') = Cardinality(DOMAIN items) - 1
         /\ Cardinality(DOMAIN items) \in Nat
         /\ currentSize' \in Int
         /\ currentSize' <= currentSize
<1>1. DOMAIN items' = DOMAIN items \ {k}
  BY DEF Without
<1>2. Cardinality(DOMAIN items') = Cardinality(DOMAIN items) - 1
  BY <1>1, FiniteItems, FS_RemoveElement
<1>3. Len[items[k].blob] \in Nat
  BY LenAssumption DEF TypeOK, Item
<1>4. QED
  BY <1>2, <1>3, FiniteItems DEF TypeOK

LEMMA BoundsInit == Init => Bounds
BY FS_EmptySet, LimitsAssumption
   DEF Init, Bounds, CountBound, SizeBound, Room

(* A step that drops one item while Evict runs keeps the bounds.           *)
LEMMA BoundsDrop ==
  ASSUME TypeOK, Bounds, NEW k \in DOMAIN items, items' = Without(k),
         currentSize' = currentSize - Len[items[k].blob], stage' # "insert"
  PROVE  Bounds'
<1>1. /\ Cardinality(DOMAIN items') = Cardinality(DOMAIN items) - 1
      /\ Cardinality(DOMAIN items) \in Nat
      /\ currentSize' \in Int /\ currentSize \in Int
      /\ currentSize' <= currentSize
  BY WithoutSmaller DEF TypeOK
<1>2. CountBound'
  BY <1>1, LimitsAssumption DEF Bounds, CountBound
<1>3. SizeBound'
  <2>1. CASE Cardinality(DOMAIN items) <= 1
    BY <1>1, <2>1 DEF SizeBound
  <2>2. CASE \E b \in Blobs : currentSize <= MaxSize + Len[b]
    <3>1. PICK b \in Blobs : currentSize <= MaxSize + Len[b]
      BY <2>2
    <3>2. currentSize' <= MaxSize + Len[b]
      BY <1>1, <3>1, LenAssumption, LimitsAssumption
    <3>3. QED
      BY <3>2 DEF SizeBound
  <2>3. QED
    BY <2>1, <2>2 DEF Bounds, SizeBound
<1>4. QED
  BY <1>2, <1>3 DEF Bounds, Room

(* Insert adds one item, into the room that was left for it.               *)
LEMMA BoundsInsert ==
  ASSUME TypeOK, Bounds, Insert
  PROVE  Bounds'
<1> DEFINE n == Cardinality(DOMAIN items)
           b == pending.item.blob
<1>1. pending.key \notin DOMAIN items /\ b \in Blobs
  BY DEF TypeOK, Insert, Item
<1>2. DOMAIN items' = DOMAIN items \cup {pending.key}
  BY DEF Insert
<1>3. n \in Nat /\ Cardinality(DOMAIN items') = n + 1
  BY <1>1, <1>2, FiniteItems, FS_AddElement
<1>4. n <= MaxItems /\ (currentSize <= MaxSize \/ n = 0)
  BY DEF Insert, Bounds, Room
<1>5. CountBound'
  BY <1>3, <1>4, LimitsAssumption DEF CountBound
<1>6. SizeBound'
  <2>1. CASE n = 0
    BY <1>3, <2>1 DEF SizeBound
  <2>2. CASE currentSize <= MaxSize
    <3>1. currentSize' = currentSize + Len[b] /\ Len[b] \in Nat /\ currentSize \in Int
      BY <1>1, LenAssumption DEF Insert, TypeOK
    <3>2. currentSize' <= MaxSize + Len[b]
      BY <2>2, <3>1, LimitsAssumption
    <3>3. QED
      BY <1>1, <3>2 DEF SizeBound
  <2>3. QED
    BY <1>4, <2>1, <2>2
<1>7. QED
  BY <1>5, <1>6 DEF Bounds, Room, Insert

LEMMA BoundsStep == TypeOK /\ TypeOK' /\ Bounds /\ [Next]_vars => Bounds'
<1> SUFFICES ASSUME TypeOK, TypeOK', Bounds, [Next]_vars PROVE Bounds'
  OBVIOUS
<1> DEFINE Same == DOMAIN items' = DOMAIN items /\ currentSize' = currentSize
<1>0. ASSUME Same, stage' # "insert" \/ stage' = stage PROVE Bounds'
  BY <1>0 DEF Bounds, CountBound, SizeBound, Room
<1>1. ASSUME NEW found, Touch(found) PROVE Bounds'
  BY <1>0, <1>1 DEF Touch, setVars
<1>2. ASSUME NEW k \in Keys, NEW b \in Blobs, NEW d \in Durations, BeginSet(k, b, d)
      PROVE Bounds'
  <2>1. CASE Full
    BY <1>0, <1>2, <2>1 DEF BeginSet, Prepare, cacheVars
  <2>2. CASE ~Full
    <3>1. /\ Cardinality(DOMAIN items) <= MaxItems
          /\ currentSize <= MaxSize
      BY <2>2, FiniteItems, LimitsAssumption DEF Full, TypeOK
    <3>2. QED
      BY <1>2, <2>2, <3>1 DEF BeginSet, Prepare, cacheVars, Bounds, CountBound, SizeBound, Room
  <2>3. QED
    BY <2>1, <2>2
<1>3. ASSUME NEW k \in Keys, Sweep(k) PROVE Bounds'
  <2>1. k \in DOMAIN items /\ stage' = "sweep"
    BY <1>3 DEF Sweep, TypeOK
  <2>2. CASE started > items[k].lastAccess
    BY <1>3, <2>1, <2>2, BoundsDrop DEF Sweep
  <2>3. CASE ~(started > items[k].lastAccess)
    BY <1>0, <1>3, <2>3 DEF Sweep, cacheVars
  <2>4. QED
    BY <2>2, <2>3
<1>4. ASSUME NEW k \in Keys, Shrink(k) PROVE Bounds'
  BY <1>4, BoundsDrop DEF Shrink, Oldest, setVars
<1>5. CASE EndSweep
  BY <1>0, <1>5 DEF EndSweep, cacheVars
<1>6. CASE EndShrink
  <2>1. Cardinality(DOMAIN items) = 0 <=> DOMAIN items = {}
    BY FiniteItems, FS_EmptySet
  <2>2. \/ /\ Cardinality(DOMAIN items) <= MaxItems
           /\ currentSize <= MaxSize
        \/ Cardinality(DOMAIN items) = 0
    <3>1. Cardinality(DOMAIN items) \in Int /\ currentSize \in Int
      BY FiniteItems DEF TypeOK
    <3>2. ~OverCapacity
      BY <1>6 DEF EndShrink
    <3>3. CASE DOMAIN items = {}
      BY <2>1, <3>3
    <3>4. CASE DOMAIN items # {}
      <4>1. ~(Cardinality(DOMAIN items) > MaxItems) /\ ~(currentSize > MaxSize)
        BY <3>2, <3>4 DEF OverCapacity
      <4>2. QED
        BY <3>1, <4>1, LimitsAssumption
    <3>5. QED
      BY <3>3, <3>4
  <2>3. Cardinality(DOMAIN items) <= MaxItems
    BY <2>2, LimitsAssumption
  <2>4. QED
    BY <1>6, <2>2, <2>3 DEF EndShrink, cacheVars, Bounds, CountBound, SizeBound, Room
<1>7. CASE Insert
  BY <1>7, BoundsInsert
<1>8. ASSUME NEW k \in Keys, NEW b \in Blobs, Rewrite(k, b) PROVE Bounds'
  BY <1>0, <1>8 DEF Rewrite, setVars
<1>9. CASE Tick
  BY <1>0, <1>9 DEF Tick, cacheVars, setVars
<1>10. CASE UNCHANGED vars
  BY <1>0, <1>10 DEF vars
<1>11. QED
  BY <1>1, <1>2, <1>3, <1>4, <1>5, <1>6, <1>7, <1>8, <1>9, <1>10
     DEF Next, SetStep, Get, MGet

(* len(l.items) never passes maxItems by more than one.                    *)
THEOREM CountIsBounded == Spec => []CountBound
<1>1. Bounds => CountBound
  BY DEF Bounds
<1>2. QED
  BY <1>1, BoundsInit, BoundsStep, Typing, PTL DEF Spec

(* currentSize passes maxSize by at most one blob, or the cache has been   *)
(* reduced to a single item.                                               *)
THEOREM SizeIsBounded == Spec => []SizeBound
<1>1. Bounds => SizeBound
  BY DEF Bounds
<1>2. QED
  BY <1>1, BoundsInit, BoundsStep, Typing, PTL DEF Spec

-----------------------------------------------------------------------------
(***************************************************************************)
(* While Evict runs, every item its first loop has passed over has a       *)
(* lastAccess that is not before the moment Evict started.                 *)
(***************************************************************************)
HotInv ==
  stage \in {"sweep", "shrink"} =>
    \A k \in DOMAIN items \ todo : items[k].lastAccess >= started

LEMMA HotInit == Init => HotInv
BY DEF Init, HotInv

LEMMA HotStep == TypeOK /\ HotInv /\ [Next]_vars => HotInv'
<1> SUFFICES ASSUME TypeOK, HotInv, [Next]_vars PROVE HotInv'
  OBVIOUS
<1>1. ASSUME NEW found, Touch(found) PROVE HotInv'
  BY <1>1 DEF Touch, setVars, HotInv
<1>2. ASSUME NEW k \in Keys, NEW b \in Blobs, NEW d \in Durations, BeginSet(k, b, d)
      PROVE HotInv'
  BY <1>2 DEF BeginSet, Prepare, cacheVars, HotInv
<1>3. ASSUME NEW k \in Keys, Sweep(k) PROVE HotInv'
  <2>1. CASE started > items[k].lastAccess
    <3>1. items' = Without(k) /\ todo' = todo \ {k} /\ started' = started
          /\ stage = "sweep"
      BY <1>3, <2>1 DEF Sweep
    <3>2. QED
      BY <3>1 DEF Without, HotInv
  <2>2. CASE ~(started > items[k].lastAccess)
    <3>1. items[k].lastAccess \in Int /\ started \in Int
      BY <1>3, LimitsAssumption DEF Sweep, TypeOK, Item
    <3>2. items[k].lastAccess >= started
      BY <2>2, <3>1
    <3>3. items' = items /\ todo' = todo \ {k} /\ started' = started /\ stage = "sweep"
      BY <1>3, <2>2 DEF Sweep, cacheVars
    <3>4. QED
      BY <3>2, <3>3 DEF HotInv
  <2>3. QED
    BY <2>1, <2>2
<1>4. ASSUME NEW k \in Keys, Shrink(k) PROVE HotInv'
  BY <1>4 DEF Shrink, Without, setVars, HotInv
<1>5. CASE EndSweep
  BY <1>5 DEF EndSweep, cacheVars, HotInv
<1>6. CASE EndShrink
  BY <1>6 DEF EndShrink, HotInv
<1>7. CASE Insert
  BY <1>7 DEF Insert, HotInv
<1>8. ASSUME NEW k \in Keys, NEW b \in Blobs, Rewrite(k, b) PROVE HotInv'
  <2>1. /\ DOMAIN items' = DOMAIN items
        /\ \A j \in DOMAIN items : items'[j].lastAccess = items[j].lastAccess
    BY <1>8 DEF Rewrite, TypeOK, Item
  <2>2. QED
    BY <1>8, <2>1 DEF Rewrite, setVars, HotInv
<1>9. CASE Tick
  BY <1>9 DEF Tick, cacheVars, setVars, HotInv
<1>10. CASE UNCHANGED vars
  BY <1>10 DEF vars, HotInv
<1>11. QED
  BY <1>1, <1>2, <1>3, <1>4, <1>5, <1>6, <1>7, <1>8, <1>9, <1>10
     DEF Next, SetStep, Get, MGet

(* Only Evict's two loops make an item disappear.                          *)
LEMMA DropIsEviction ==
  ASSUME TypeOK, [Next]_vars, NEW k \in DOMAIN items, k \notin DOMAIN items'
  PROVE  k \in Keys /\ stage # "idle" /\ items' = Without(k) /\ (Sweep(k) \/ Shrink(k))
<1>1. ASSUME NEW j \in Keys, Sweep(j) \/ Shrink(j)
      PROVE  k \in Keys /\ stage # "idle" /\ items' = Without(k) /\ (Sweep(k) \/ Shrink(k))
  <2>1. items' = Without(j) \/ items' = items
    BY <1>1 DEF Sweep, Shrink, cacheVars
  <2>2. k = j /\ items' = Without(j)
    BY <2>1 DEF Without
  <2>3. QED
    BY <1>1, <2>2 DEF Sweep, Shrink, TypeOK
<1>2. ASSUME NEW found, Touch(found) PROVE FALSE
  BY <1>2 DEF Touch
<1>3. ASSUME NEW j \in Keys, NEW b \in Blobs, NEW d \in Durations, BeginSet(j, b, d)
      PROVE FALSE
  BY <1>3 DEF BeginSet, Prepare, cacheVars
<1>4. ASSUME EndSweep \/ EndShrink \/ Insert \/ Tick \/ UNCHANGED vars PROVE FALSE
  BY <1>4 DEF EndSweep, EndShrink, Insert, Tick, vars, cacheVars
<1>5. ASSUME NEW j \in Keys, NEW b \in Blobs, Rewrite(j, b) PROVE FALSE
  BY <1>5 DEF Rewrite
<1>6. QED
  BY <1>1, <1>2, <1>3, <1>4, <1>5 DEF Next, SetStep, Get, MGet

(* An eviction never drops a hot item while a cold one remains.            *)
THEOREM HotItemsGoLast == Spec => HotLast
<1>1. TypeOK /\ HotInv /\ [Next]_vars =>
        [\A k \in DOMAIN items \ DOMAIN items' :
           \/ items[k].lastAccess < started
           \/ \A j \in DOMAIN items : items[j].lastAccess >= started]_vars
  <2> SUFFICES ASSUME TypeOK, HotInv, [Next]_vars,
                      NEW k \in DOMAIN items, k \notin DOMAIN items'
               PROVE  \/ items[k].lastAccess < started
                      \/ \A j \in DOMAIN items : items[j].lastAccess >= started
    OBVIOUS
  <2>1. Sweep(k) \/ Shrink(k)
    BY DropIsEviction
  <2>2. CASE Sweep(k)
    <3>1. items[k].lastAccess \in Int /\ started \in Int
      BY LimitsAssumption DEF TypeOK, Item
    <3>2. started > items[k].lastAccess
      BY <2>2 DEF Sweep, cacheVars
    <3>3. QED
      BY <3>1, <3>2
  <2>3. CASE Shrink(k)
    BY <2>3 DEF Shrink, TypeOK, HotInv
  <2>4. QED
    BY <2>1, <2>2, <2>3
<1>2. QED
  BY <1>1, HotInit, HotStep, Typing, PTL DEF Spec, HotLast

-----------------------------------------------------------------------------
(* A rewrite of a shared Blob is one in the abstract map.                  *)
LEMMA RewriteImplements ==
  ASSUME TypeOK, NEW k \in Keys, NEW b \in Blobs, Rewrite(k, b)
  PROVE  Map!Rewrite(k, b)
<1>1. /\ DOMAIN items' = DOMAIN items
      /\ \A j \in DOMAIN items :
           items'[j].blob = IF j = k THEN b ELSE items[j].blob
  BY DEF Rewrite, TypeOK, Item
<1>2. pending' = pending
  BY DEF Rewrite, setVars
<1>3. QED
  BY <1>1, <1>2 DEF Rewrite, Map!Rewrite

(* Dropping an item while a Set is under way is a Drop of the map.         *)
LEMMA WithoutImplements ==
  ASSUME TypeOK, NEW k \in DOMAIN items, stage # "idle",
         items' = Without(k), pending' = pending
  PROVE  k \in Keys /\ Map!Drop(k)
BY KeysAssumption DEF TypeOK, Without, Map!Drop

LEMMA StepImplements ==
  TypeOK /\ TypeOK' /\ [Next]_vars => [Map!Next]_(Map!vars)
<1> SUFFICES ASSUME TypeOK, TypeOK', [Next]_vars
             PROVE  Map!Next \/ UNCHANGED Map!vars
  OBVIOUS
<1>0. ASSUME items' = items, pending' = pending
      PROVE  UNCHANGED Map!vars
  BY <1>0 DEF Map!vars
<1>1. ASSUME NEW found, Touch(found) PROVE UNCHANGED Map!vars
  <2>1. \A k \in DOMAIN items : Accessed(items[k]).blob = items[k].blob
    BY DEF Accessed
  <2>2. QED
    BY <1>1, <2>1 DEF Touch, setVars, Map!vars
<1>2. ASSUME NEW k \in Keys, NEW b \in Blobs, NEW d \in Durations, BeginSet(k, b, d)
      PROVE Map!Next
  <2>1. Map!Begin(k)
    BY <1>2 DEF BeginSet, Prepare, TypeOK, NoSet, cacheVars, Map!Begin
  <2>2. QED
    BY <2>1 DEF Map!Next
<1>3. ASSUME NEW k \in Keys, Sweep(k) PROVE Map!Next \/ UNCHANGED Map!vars
  <2>1. CASE started > items[k].lastAccess
    BY <1>3, <2>1, WithoutImplements DEF Sweep, TypeOK, Map!Next
  <2>2. CASE ~(started > items[k].lastAccess)
    BY <1>0, <1>3, <2>2 DEF Sweep, cacheVars
  <2>3. QED
    BY <2>1, <2>2
<1>4. ASSUME NEW k \in Keys, Shrink(k) PROVE Map!Next
  BY <1>4, WithoutImplements DEF Shrink, Oldest, setVars, Map!Next
<1>5. ASSUME EndSweep \/ EndShrink \/ Tick \/ UNCHANGED vars PROVE UNCHANGED Map!vars
  BY <1>0, <1>5 DEF EndSweep, EndShrink, Tick, vars, cacheVars, setVars
<1>6. CASE Insert
  <2>1. /\ pending.item \in Item /\ pending.key \in Keys
        /\ pending.key # NoKey
    BY <1>6, KeysAssumption DEF Insert, TypeOK
  <2>2. PICK b \in Blobs : b = pending.item.blob
    BY <2>1 DEF Item
  <2>3. Map!Put(b)
    BY <1>6, <2>1, <2>2 DEF Insert, NoSet, Map!Put
  <2>4. QED
    BY <2>3 DEF Map!Next
<1>7. ASSUME NEW k \in Keys, NEW b \in Blobs, Rewrite(k, b) PROVE Map!Next
  BY <1>7, RewriteImplements DEF Map!Next
<1>8. QED
  BY <1>1, <1>2, <1>3, <1>4, <1>5, <1>6, <1>7 DEF Next, SetStep, Get, MGet

(* LocalCache implements the lossy first-write-wins map of CacheMap.       *)
THEOREM ImplementsMap == Spec => CacheMapSpec
<1>1. Init => Map!Init
  BY DEF Init, NoSet, Map!Init
<1>2. QED
  BY <1>1, StepImplements, Typing, PTL DEF Spec, CacheMapSpec, Map!Spec

-----------------------------------------------------------------------------
(***************************************************************************)
(* The bytes held are a sum over the items, by recursion over the set of   *)
(* their keys.  The lemmas about it are proved by induction over the       *)
(* subsets of a finite set: a set of subsets that has every subset all of  *)
(* whose proper subsets it has, has them all.                              *)
(***************************************************************************)
LEMMA SubsetInduction ==
  ASSUME NEW S, IsFiniteSet(S), NEW T,
         \A U \in SUBSET S : (\A V \in SUBSET U : V # U => V \in T) => U \in T
  PROVE  SUBSET S \subseteq T
<1> DEFINE bad == (SUBSET S) \ T
<1>1. SUFFICES ASSUME bad # {} PROVE FALSE
  OBVIOUS
<1>2. bad \subseteq FiniteSubsetsOf(S)
  BY FS_Subset DEF FiniteSubsetsOf
<1>3. IsWellFoundedOn(StrictSubsetOrdering(S), FiniteSubsetsOf(S))
  BY FS_StrictSubsetOrderingWellFounded
<1>4. PICK U \in bad : \A V \in bad : ~(<<V, U>> \in StrictSubsetOrdering(S))
  <2> HIDE DEF bad
  <2> QED BY <1>1, <1>2, <1>3, WFMin
<1>5. \A V \in SUBSET U : V # U => V \in T
  BY <1>4 DEF StrictSubsetOrdering
<1> QED BY <1>4, <1>5

(* The key whose item a sum over the keys S adds first.                    *)
First(S) == CHOOSE k \in S : TRUE

(* g has the sum over each subset of S, of the weights w.                  *)
Adds(g, w, S) ==
  g = [s \in SUBSET S |-> IF s = {} THEN 0 ELSE w[First(s)] + g[s \ {First(s)}]]

Sums(w, S) == CHOOSE g : Adds(g, w, S)

Total(w, S) == Sums(w, S)[S]

LEMMA AddsRestricted ==
  ASSUME NEW S, NEW T \in SUBSET S, NEW w, NEW g, Adds(g, w, S)
  PROVE  Adds([s \in SUBSET T |-> g[s]], w, T)
<1> DEFINE h == [s \in SUBSET T |-> g[s]]
           e == [s \in SUBSET T |->
                   IF s = {} THEN 0 ELSE w[First(s)] + h[s \ {First(s)}]]
<1>1. ASSUME NEW s \in SUBSET T PROVE h[s] = e[s]
  <2>1. h[s] = g[s] /\ s \ {First(s)} \in SUBSET T /\ s \in SUBSET S
    OBVIOUS
  <2>2. h[s \ {First(s)}] = g[s \ {First(s)}]
    BY <2>1
  <2>3. g[s] = IF s = {} THEN 0 ELSE w[First(s)] + g[s \ {First(s)}]
    BY <2>1 DEF Adds
  <2> QED BY <2>1, <2>2, <2>3
<1>2. h = e
  BY <1>1
<1> QED BY <1>2 DEF Adds

(* There is one such g and no other.                                       *)
LEMMA AddsUnique ==
  ASSUME NEW S, IsFiniteSet(S), NEW w
  PROVE  Adds(Sums(w, S), w, S) /\ \A g : Adds(g, w, S) => g = Sums(w, S)
<1> DEFINE One(U) == Adds(Sums(w, U), w, U) /\ \A g : Adds(g, w, U) => g = Sums(w, U)
           T == {U \in SUBSET S : One(U)}
<1>1. ASSUME NEW U \in SUBSET S, \A V \in SUBSET U : V # U => V \in T
      PROVE  U \in T
  <2> DEFINE below(V) == IF V = {} THEN 0
                         ELSE w[First(V)] + Sums(w, V \ {First(V)})[V \ {First(V)}]
             G == [V \in SUBSET U |-> below(V)]
  <2>1. ASSUME NEW V \in SUBSET U, V # {}
        PROVE  /\ V \ {First(V)} \in SUBSET U /\ V \ {First(V)} # U
               /\ First(V) \in V
    BY <2>1 DEF First
  <2>2. ASSUME NEW g, NEW V \in SUBSET U, Adds(g, w, V), NEW W \in SUBSET V, W # U
        PROVE  g[W] = Sums(w, W)[W]
    <3>1. Adds([s \in SUBSET W |-> g[s]], w, W)
      BY <2>2, AddsRestricted
    <3>2. [s \in SUBSET W |-> g[s]] = Sums(w, W)
      BY <1>1, <2>2, <3>1
    <3> QED BY <3>2
  <2>3. ASSUME NEW V \in SUBSET U, V # U PROVE G[V] = Sums(w, V)[V]
    <3>1. Adds(Sums(w, V), w, V)
      BY <1>1, <2>3
    <3>2. Sums(w, V)[V] = IF V = {} THEN 0
                          ELSE w[First(V)] + Sums(w, V)[V \ {First(V)}]
      BY <3>1 DEF Adds
    <3>3. V # {} => Sums(w, V)[V \ {First(V)}] = Sums(w, V \ {First(V)})[V \ {First(V)}]
      BY <2>1, <2>2, <3>1
    <3> QED BY <3>2, <3>3
  <2>4. Adds(G, w, U)
    <3>1. ASSUME NEW V \in SUBSET U
          PROVE  G[V] = IF V = {} THEN 0 ELSE w[First(V)] + G[V \ {First(V)}]
      BY <2>1, <2>3
    <3> HIDE DEF below
    <3>2. G = [s \in SUBSET U |-> IF s = {} THEN 0 ELSE w[First(s)] + G[s \ {First(s)}]]
      BY <3>1
    <3> QED BY <3>2 DEF Adds
  <2>5. ASSUME NEW g, Adds(g, w, U) PROVE g = G
    <3>1. g = [s \in SUBSET U |-> IF s = {} THEN 0 ELSE w[First(s)] + g[s \ {First(s)}]]
      BY <2>5 DEF Adds
    <3>2. ASSUME NEW V \in SUBSET U
          PROVE  g[V] = G[V]
      <4>1. g[V] = IF V = {} THEN 0 ELSE w[First(V)] + g[V \ {First(V)}]
        BY <3>1
      <4>2. V # {} => g[V \ {First(V)}] = Sums(w, V \ {First(V)})[V \ {First(V)}]
        BY <2>1, <2>2, <2>5
      <4> QED BY <4>1, <4>2
    <3> HIDE DEF below
    <3> QED BY <3>1, <3>2
  <2> HIDE DEF G
  <2>6. Adds(Sums(w, U), w, U)
    BY <2>4 DEF Sums
  <2>7. Sums(w, U) = G
    BY <2>5, <2>6
  <2> QED BY <2>5, <2>6, <2>7
<1>2. SUBSET S \subseteq T
  <2> HIDE DEF T
  <2> QED BY <1>1, SubsetInduction
<1> QED BY <1>2

(* One step of the recursion.                                              *)
LEMMA TotalUnfolds ==
  ASSUME NEW S, IsFiniteSet(S), NEW w
  PROVE  /\ Total(w, {}) = 0
         /\ S # {} => Total(w, S) = w[First(S)] + Total(w, S \ {First(S)})
<1>1. Total(w, {}) = 0
  <2>1. Adds(Sums(w, {}), w, {})
    BY FS_EmptySet, AddsUnique
  <2> QED BY <2>1 DEF Adds, Total
<1>2. ASSUME S # {} PROVE Total(w, S) = w[First(S)] + Total(w, S \ {First(S)})
  <2> DEFINE R == S \ {First(S)}
  <2>1. IsFiniteSet(R)
    BY FS_Subset
  <2>2. Adds(Sums(w, S), w, S)
    BY AddsUnique
  <2>3. Adds([s \in SUBSET R |-> Sums(w, S)[s]], w, R)
    <3>1. R \in SUBSET S
      OBVIOUS
    <3> HIDE DEF R
    <3> QED BY <2>2, <3>1, AddsRestricted
  <2>4. [s \in SUBSET R |-> Sums(w, S)[s]] = Sums(w, R)
    <3> HIDE DEF R
    <3> QED BY <2>1, <2>3, AddsUnique
  <2>5. Sums(w, S)[R] = Sums(w, R)[R]
    BY <2>4
  <2>6. Sums(w, S)[S] = w[First(S)] + Sums(w, S)[R]
    BY <1>2, <2>2 DEF Adds
  <2> QED BY <2>5, <2>6 DEF Total
<1> QED BY <1>1, <1>2

LEMMA TotalInt ==
  ASSUME NEW S, IsFiniteSet(S), NEW w, \A k \in S : w[k] \in Int
  PROVE  Total(w, S) \in Int
<1> DEFINE T == {U \in SUBSET S : Total(w, U) \in Int}
<1>1. ASSUME NEW U \in SUBSET S, \A V \in SUBSET U : V # U => V \in T
      PROVE  U \in T
  <2>1. IsFiniteSet(U)
    BY FS_Subset
  <2>2. CASE U = {}
    BY <2>1, <2>2, TotalUnfolds
  <2>3. CASE U # {}
    <3>1. First(U) \in U
      BY <2>3 DEF First
    <3>2. U \ {First(U)} \in T
      BY <1>1, <3>1
    <3>3. Total(w, U) = w[First(U)] + Total(w, U \ {First(U)})
      BY <2>1, <2>3, TotalUnfolds
    <3> QED BY <3>1, <3>2, <3>3
  <2> QED BY <2>2, <2>3
<1>2. SUBSET S \subseteq T
  <2> HIDE DEF T
  <2> QED BY <1>1, SubsetInduction
<1> QED BY <1>2

(* Whatever key the recursion takes first, any key may be added last.      *)
LEMMA TotalRemove ==
  ASSUME NEW S, IsFiniteSet(S), NEW w, \A k \in S : w[k] \in Int, NEW x \in S
  PROVE  Total(w, S) = w[x] + Total(w, S \ {x})
<1> DEFINE T == {U \in SUBSET S : \A k \in U : Total(w, U) = w[k] + Total(w, U \ {k})}
<1>1. ASSUME NEW U \in SUBSET S, \A V \in SUBSET U : V # U => V \in T
      PROVE  U \in T
  <2> SUFFICES ASSUME NEW k \in U PROVE Total(w, U) = w[k] + Total(w, U \ {k})
    OBVIOUS
  <2> DEFINE f == First(U)
  <2>1. f \in U /\ IsFiniteSet(U)
    BY FS_Subset DEF First
  <2>2. Total(w, U) = w[f] + Total(w, U \ {f})
    BY <2>1, TotalUnfolds
  <2> HIDE DEF f
  <2>3. CASE k = f
    BY <2>2, <2>3
  <2>4. CASE k # f
    <3>1. U \ {f} \in T /\ U \ {k} \in T
      BY <1>1, <2>1
    <3>2. Total(w, U \ {f}) = w[k] + Total(w, (U \ {f}) \ {k})
      BY <2>4, <3>1
    <3>3. Total(w, U \ {k}) = w[f] + Total(w, (U \ {k}) \ {f})
      BY <2>1, <2>4, <3>1
    <3>4. (U \ {k}) \ {f} = (U \ {f}) \ {k}
      OBVIOUS
    <3>5. IsFiniteSet((U \ {f}) \ {k}) /\ \A j \in (U \ {f}) \ {k} : w[j] \in Int
      BY <2>1, FS_Subset
    <3>6. Total(w, (U \ {f}) \ {k}) \in Int /\ w[k] \in Int /\ w[f] \in Int
      BY <2>1, <3>5, TotalInt
    <3>7. Total(w, U \ {k}) = w[f] + Total(w, (U \ {f}) \ {k})
      BY <3>3, <3>4
    <3> DEFINE rest == Total(w, (U \ {f}) \ {k})
    <3>8. rest \in Int /\ Total(w, U) = w[f] + (w[k] + rest)
      BY <2>2, <3>2, <3>6
    <3>9. Total(w, U \ {k}) = w[f] + rest
      BY <3>7
    <3> HIDE DEF rest
    <3> QED BY <3>6, <3>8, <3>9
  <2> QED BY <2>3, <2>4
<1>2. SUBSET S \subseteq T
  <2> HIDE DEF T
  <2> QED BY <1>1, SubsetInduction
<1> QED BY <1>2

(* Only the weights of the keys added matter.                              *)
LEMMA TotalSame ==
  ASSUME NEW S, NEW v, NEW w, \A k \in S : v[k] = w[k]
  PROVE  Total(v, S) = Total(w, S)
<1>1. ASSUME NEW s \in SUBSET S, s # {} PROVE v[First(s)] = w[First(s)]
  BY <1>1 DEF First
<1>2. ASSUME NEW g
      PROVE  [s \in SUBSET S |-> IF s = {} THEN 0 ELSE v[First(s)] + g[s \ {First(s)}]]
           = [s \in SUBSET S |-> IF s = {} THEN 0 ELSE w[First(s)] + g[s \ {First(s)}]]
  BY <1>1
<1>3. \A g : Adds(g, v, S) <=> Adds(g, w, S)
  BY <1>2 DEF Adds
<1>4. Sums(v, S) = Sums(w, S)
  BY <1>3 DEF Sums
<1> QED BY <1>4 DEF Total

Weights == [k \in DOMAIN items |-> Len[items[k].blob]]

(* BytesHeld is such a sum.                                                *)
LEMMA BytesHeldTotal == BytesHeld = Total(Weights, DOMAIN items)
<1> DEFINE S == DOMAIN items
           one(g) == [s \in SUBSET S |-> IF s = {} THEN 0
                        ELSE Len[items[First(s)].blob] + g[s \ {First(s)}]]
<1>1. BytesHeld = (CHOOSE g : g = one(g))[S]
  BY DEF BytesHeld, MapThenSumSet, MapThenFoldSet, First
<1>2. ASSUME NEW s \in SUBSET S, s # {}
      PROVE  Weights[First(s)] = Len[items[First(s)].blob]
  BY <1>2 DEF Weights, First
<1>3. ASSUME NEW g PROVE g = one(g) <=> Adds(g, Weights, S)
  <2>1. one(g) = [s \in SUBSET S |-> IF s = {} THEN 0
                    ELSE Weights[First(s)] + g[s \ {First(s)}]]
    BY <1>2
  <2> QED BY <2>1 DEF Adds
<1>4. (CHOOSE g : g = one(g)) = Sums(Weights, S)
  <2> HIDE DEF one, S
  <2> QED BY <1>3 DEF Sums
<1> QED BY <1>1, <1>4 DEF Total

-----------------------------------------------------------------------------
LEMMA BytesInt == TypeOK => BytesHeld \in Int
BY FiniteItems, LenAssumption, TotalInt, BytesHeldTotal DEF Weights, TypeOK, Item

(* The same of the next state.                                             *)
LEMMA BytesHeldNext ==
  /\ BytesHeld' = Total(Weights', DOMAIN items')
  /\ TypeOK' => BytesHeld' \in Int
<1>1. (BytesHeld = Total(Weights, DOMAIN items))'
  BY BytesHeldTotal, PTL
<1>2. (TypeOK => BytesHeld \in Int)'
  BY BytesInt, PTL
<1> QED BY <1>1, <1>2

(* Of two states, the bytes of the items that both have are the same.      *)
LEMMA BytesRemoved ==
  ASSUME TypeOK, NEW k \in DOMAIN items, items' = Without(k)
  PROVE  BytesHeld = Len[items[k].blob] + BytesHeld'
<1>1. DOMAIN items' = DOMAIN items \ {k} /\ \A j \in DOMAIN items' : items'[j] = items[j]
  BY DEF Without
<1>2. BytesHeld' = Total(Weights', DOMAIN items')
  BY BytesHeldNext
<1>3. Total(Weights', DOMAIN items') = Total(Weights, DOMAIN items')
  BY <1>1, TotalSame DEF Weights
<1>4. Total(Weights, DOMAIN items) = Weights[k] + Total(Weights, DOMAIN items \ {k})
  BY FiniteItems, LenAssumption, TotalRemove DEF Weights, TypeOK, Item
<1> QED BY <1>1, <1>2, <1>3, <1>4, BytesHeldTotal DEF Weights

LEMMA BytesStored ==
  ASSUME TypeOK, TypeOK', NEW k \in DOMAIN items',
         \/ DOMAIN items = DOMAIN items' \ {k}
         \/ DOMAIN items = DOMAIN items',
         \A j \in DOMAIN items \ {k} : items'[j].blob = items[j].blob
  PROVE  BytesHeld' = Len[items'[k].blob]
                      + (IF k \in DOMAIN items THEN BytesHeld - Len[items[k].blob]
                         ELSE BytesHeld)
<1> DEFINE S == DOMAIN items'
           rest == Total(Weights, S \ {k})
<1>1. IsFiniteSet(S) /\ IsFiniteSet(DOMAIN items)
  BY KeysAssumption, FS_Subset DEF TypeOK
<1>2. /\ \A j \in DOMAIN items : Weights[j] = Len[items[j].blob] /\ Weights[j] \in Int
      /\ \A j \in S : Weights'[j] = Len[items'[j].blob] /\ Weights'[j] \in Int
  BY LenAssumption DEF Weights, TypeOK, Item
<1>3. BytesHeld' = Total(Weights', S) /\ BytesHeld = Total(Weights, DOMAIN items)
  BY BytesHeldTotal, BytesHeldNext
<1>4. Total(Weights', S) = Weights'[k] + Total(Weights', S \ {k})
  BY <1>1, <1>2, TotalRemove
<1>5. Total(Weights', S \ {k}) = rest
  <2>1. \A j \in S \ {k} : Weights'[j] = Weights[j]
    BY <1>2
  <2> QED BY <2>1, TotalSame
<1>6. CASE DOMAIN items = S \ {k}
  BY <1>2, <1>3, <1>4, <1>5, <1>6
<1>7. CASE DOMAIN items = S
  <2>1. Total(Weights, S) = Weights[k] + rest
    BY <1>1, <1>2, <1>7, TotalRemove
  <2>2. rest \in Int
    <3>1. IsFiniteSet(S \ {k})
      BY <1>1, FS_Subset
    <3> QED BY <1>2, <1>7, <3>1, TotalInt
  <2>3. k \in DOMAIN items
    BY <1>7
  <2> HIDE DEF rest
  <2> QED BY <1>2, <1>3, <1>4, <1>5, <1>7, <2>1, <2>2, <2>3
<1> QED BY <1>6, <1>7

(* Items that are only touched, or left alone.                             *)
LEMMA BytesSame ==
  ASSUME DOMAIN items' = DOMAIN items,
         \A k \in DOMAIN items : items'[k].blob = items[k].blob
  PROVE  BytesHeld' = BytesHeld
<1>1. Weights' = Weights
  BY DEF Weights
<1> QED BY <1>1, BytesHeldTotal, BytesHeldNext

LEMMA ConservationInit == Init => Conservation
<1> SUFFICES ASSUME Init PROVE Conservation
  OBVIOUS
<1>1. DOMAIN items = {} /\ currentSize = 0 /\ lost = 0
  BY DEF Init
<1>2. BytesHeld = 0
  BY <1>1, BytesHeldTotal, TotalUnfolds, FS_EmptySet
<1> QED BY <1>1, <1>2 DEF Conservation

(* What the size accounts for changes as the bytes held do, but for what a *)
(* rewrite takes.                                                          *)
LEMMA ConservationStep == TypeOK /\ TypeOK' /\ Conservation /\ [Next]_vars => Conservation'
<1> SUFFICES ASSUME TypeOK, TypeOK', Conservation, [Next]_vars PROVE Conservation'
  OBVIOUS
<1>0. /\ BytesHeld \in Int /\ lost \in Int /\ currentSize = BytesHeld + lost
      /\ \A k \in DOMAIN items : Len[items[k].blob] \in Nat
      /\ \A k \in DOMAIN items' : Len[items'[k].blob] \in Nat
  BY BytesInt, LenAssumption DEF Conservation, TypeOK, Item
<1>1. ASSUME NEW found, Touch(found) PROVE Conservation'
  <2>1. DOMAIN items' = DOMAIN items /\ currentSize' = currentSize /\ lost' = lost
    BY <1>1 DEF Touch
  <2>2. \A k \in DOMAIN items : items'[k].blob = items[k].blob
    BY <1>1 DEF Touch, Accessed
  <2> QED BY <1>0, <2>1, <2>2, BytesSame DEF Conservation
<1>2. ASSUME NEW k \in DOMAIN items, items' = Without(k), lost' = lost,
             currentSize' = currentSize - Len[items[k].blob]
      PROVE  Conservation'
  <2>1. BytesHeld = Len[items[k].blob] + BytesHeld'
    BY <1>2, BytesRemoved
  <2>2. BytesHeld' \in Int
    BY BytesHeldNext
  <2> QED BY <1>0, <1>2, <2>1, <2>2 DEF Conservation
<1>3. ASSUME UNCHANGED <<items, currentSize, lost>> PROVE Conservation'
  BY <1>0, <1>3, BytesSame DEF Conservation
<1>4. ASSUME NEW k \in Keys, Sweep(k) PROVE Conservation'
  BY <1>2, <1>3, <1>4 DEF Sweep, TypeOK, cacheVars
<1>5. ASSUME NEW k \in Keys, Shrink(k) PROVE Conservation'
  BY <1>2, <1>5 DEF Shrink, Oldest
<1>6. CASE Insert
  <2>1. /\ pending.key \in DOMAIN items' /\ DOMAIN items = DOMAIN items' \ {pending.key}
        /\ \A j \in DOMAIN items : items'[j] = items[j]
        /\ items'[pending.key] = pending.item
        /\ currentSize' = currentSize + Len[pending.item.blob] /\ lost' = lost
    BY <1>6 DEF Insert, TypeOK
  <2>2. BytesHeld' = Len[pending.item.blob] + BytesHeld
    BY <2>1, BytesStored
  <2> QED BY <1>0, <2>1, <2>2 DEF Conservation
<1>7. ASSUME NEW k \in Keys, NEW b \in Blobs, Rewrite(k, b) PROVE Conservation'
  <2>1. /\ k \in DOMAIN items /\ DOMAIN items' = DOMAIN items
        /\ items' = [items EXCEPT ![k].blob = b]
        /\ lost' = lost + Len[items[k].blob] - Len[b] /\ currentSize' = currentSize
    BY <1>7 DEF Rewrite
  <2>2. /\ \A j \in DOMAIN items \ {k} : items'[j].blob = items[j].blob
        /\ items'[k].blob = b
    BY <2>1 DEF TypeOK, Item
  <2>3. BytesHeld' = Len[b] + (BytesHeld - Len[items[k].blob])
    BY <2>1, <2>2, BytesStored
  <2> QED BY <1>0, <2>1, <2>2, <2>3 DEF Conservation
<1>8. ASSUME NEW k \in Keys, NEW b \in Blobs, NEW d \in Durations, BeginSet(k, b, d)
      PROVE  Conservation'
  BY <1>3, <1>8 DEF BeginSet, Prepare, cacheVars
<1>9. ASSUME EndSweep \/ EndShrink \/ Tick \/ UNCHANGED vars PROVE Conservation'
  BY <1>3, <1>9 DEF EndSweep, EndShrink, Tick, vars, cacheVars
<1> QED BY <1>1, <1>4, <1>5, <1>6, <1>7, <1>8, <1>9 DEF Next, SetStep, Get, MGet

(***************************************************************************)
(* currentSize counts the bytes held and those rewrites took, for any      *)
(* number of items.                                                        *)
(***************************************************************************)
THEOREM SizeIsConserved == Spec => []Conservation
BY ConservationInit, ConservationStep, Typing, PTL DEF Spec

(***************************************************************************)
(* Where no caller assigns to the Blob of an item it shares, the size that *)
(* Set and Evict go by is exactly that of the bytes held.                  *)
(***************************************************************************)
THEOREM ExactWithoutRewrites == Spec => [](Rewrites = {} => currentSize = BytesHeld)
<1> DEFINE NoneLost == Rewrites = {} => lost = 0
<1>1. Init => NoneLost
  BY DEF Init
<1>2. NoneLost /\ [Next]_vars => NoneLost'
  <2>1. ASSUME Rewrites = {}, NEW k \in Keys, NEW b \in Blobs PROVE ~Rewrite(k, b)
    BY <2>1 DEF Rewrite
  <2> QED BY <2>1 DEF Next, SetStep, Get, MGet, Touch, BeginSet, Prepare, Sweep, Shrink,
                      EndSweep, EndShrink, Insert, Tick, vars
<1>3. TypeOK /\ Conservation /\ NoneLost => (Rewrites = {} => currentSize = BytesHeld)
  BY BytesInt DEF Conservation
<1> HIDE DEF NoneLost
<1> QED BY <1>1, <1>2, <1>3, Typing, SizeIsConserved, PTL DEF Spec

=============================================================================
