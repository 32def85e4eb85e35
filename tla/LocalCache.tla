----------------------------- MODULE LocalCache -----------------------------
(***************************************************************************)
(* pkg/api/cache/local.go: the in-memory cache used when Redis is not      *)
(* configured (FileCache and TextCache are two instances of it).           *)
(*                                                                         *)
(* Get, MGet and Set hold l.mu, so no two of them overlap; Set is still    *)
(* split into the steps of its eviction loops, because the *Item a caller  *)
(* got from the cache is the one the cache holds, and                      *)
(* service/heuristics.go assigns to its Blob without taking l.mu.  Time is *)
(* a counter of seconds.                                                   *)
(***************************************************************************)
EXTENDS Integers, FiniteSets, FiniteSetsExt

CONSTANTS
  Keys,        \* cache keys, mime type prefix included
  NoKey,       \* no Set is in progress
  Blobs,       \* contents of items
  Len,         \* the length of each blob, in bytes
  Rewrites,    \* <<old, new>>: what heuristics.go turns a shared Blob into
  Durations,   \* the durations callers pass to Set
  MaxItems,    \* l.maxItems
  MaxSize,     \* l.maxSize
  HitCap,      \* from this hit count on the backoff no longer grows
  MaxTime,     \* bound on the clock
  MaxLost,     \* bound on the bytes lost to rewrites
  MaxGained    \* bound on the bytes gained by them

ASSUME KeysAssumption == NoKey \notin Keys /\ IsFiniteSet(Keys)
ASSUME LenAssumption == Len \in [Blobs -> Nat]
ASSUME RewritesAssumption == Rewrites \subseteq Blobs \X Blobs
ASSUME DurationsAssumption == Durations \subseteq Nat
ASSUME LimitsAssumption ==
  /\ MaxItems \in Nat \ {0}
  /\ MaxSize \in Nat
  /\ HitCap \in Nat \ {0}
  /\ MaxTime \in Nat
  /\ MaxLost \in Nat
  /\ MaxGained \in Nat

VARIABLES
  items,        \* l.items: the keys present, each with its *Item
  currentSize,  \* l.currentSize
  now,          \* time.Now()
  stage,        \* where the Set that holds l.mu is, or "idle"
  pending,      \* the key and item that Set stores
  todo,         \* keys the first loop of Evict has not visited yet
  started,      \* Evict's local variable now
  lost          \* history: bytes that rewrites took out of shared Blobs

cacheVars == <<items, currentSize>>
setVars == <<stage, pending, todo, started>>
vars == <<items, currentSize, now, stage, pending, todo, started, lost>>

Stages == {"idle", "sweep", "shrink", "insert"}

(***************************************************************************)
(* expires is a history field: the moment the caller's duration runs out.  *)
(* The code keeps only lastAccess and hitCount.                            *)
(***************************************************************************)
Item == [blob : Blobs, hitCount : 0 .. HitCap, lastAccess : Int, expires : Nat]

NoSet == [key |-> NoKey]

-----------------------------------------------------------------------------

Init ==
  /\ items = [k \in {} |-> {}]
  /\ currentSize = 0
  /\ now = 0
  /\ stage = "idle"
  /\ pending = NoSet
  /\ todo = {}
  /\ started = 0
  /\ lost = 0

(***************************************************************************)
(* Item.Accessed: 2^(hitCount-1) seconds, truncated to an integer (0 for   *)
(* the first hit) and capped at a day.                                     *)
(***************************************************************************)
Backoff(hits) == IF hits = 0 THEN 0 ELSE 2^(hits - 1)

Accessed(item) ==
  [blob       |-> item.blob,
   hitCount   |-> IF item.hitCount < HitCap THEN item.hitCount + 1 ELSE HitCap,
   lastAccess |-> now + Backoff(item.hitCount),
   expires    |-> item.expires]

(* Get and MGet: the items found are touched, nothing else changes.        *)
Touch(found) ==
  /\ stage = "idle"
  /\ items' = [k \in DOMAIN items |->
                 IF k \in found THEN Accessed(items[k]) ELSE items[k]]
  /\ UNCHANGED <<currentSize, now, setVars, lost>>

Get(k) == Touch({k})

MGet(ks) == Touch(ks)

-----------------------------------------------------------------------------

(* Full as Set tests it before it decides whether to call Evict.           *)
Full ==
  \/ Cardinality(DOMAIN items) >= MaxItems
  \/ currentSize > MaxSize

(* Mutants of the condition of Evict's second loop.                        *)
OverCapacityNoCount == currentSize > MaxSize /\ DOMAIN items # {}

OverCapacityNoSize == Cardinality(DOMAIN items) > MaxItems

OverCapacityWhenEmpty == Cardinality(DOMAIN items) > MaxItems \/ currentSize > MaxSize

(* The condition of Evict's second loop.                                   *)
OverCapacity ==
  /\ \/ Cardinality(DOMAIN items) > MaxItems
     \/ currentSize > MaxSize
  /\ DOMAIN items # {}

Without(k) == [j \in DOMAIN items \ {k} |-> items[j]]

(***************************************************************************)
(* Set from the test for the key to its first branch.                      *)
(***************************************************************************)
Prepare(k, b, d) ==
  /\ stage = "idle"
  /\ pending' = [key |-> k,
                 item |-> [blob |-> b, hitCount |-> 0,
                           lastAccess |-> now - d, expires |-> now + d]]
  /\ IF Full
     THEN stage' = "sweep" /\ todo' = DOMAIN items /\ started' = now
     ELSE stage' = "insert" /\ UNCHANGED <<todo, started>>
  /\ UNCHANGED <<cacheVars, now, lost>>

(* Mutant: Set without its test for the key.                               *)
BeginSetAnyway(k, b, d) == Prepare(k, b, d)

(* A key already present is left alone: Set returns nil and drops the new  *)
(* item.                                                                   *)
BeginSet(k, b, d) == k \notin DOMAIN items /\ Prepare(k, b, d)

(* Mutant: Evict forgets to subtract what it drops.                        *)
SweepKeepsSize(k) ==
  /\ stage = "sweep"
  /\ k \in todo
  /\ todo' = todo \ {k}
  /\ items' = IF started > items[k].lastAccess THEN Without(k) ELSE items
  /\ UNCHANGED <<currentSize, now, stage, pending, started, lost>>

(* Mutant: Evict compares the wrong way round.                             *)
SweepSwapped(k) ==
  /\ stage = "sweep"
  /\ k \in todo
  /\ todo' = todo \ {k}
  /\ IF started < items[k].lastAccess
     THEN /\ items' = Without(k)
          /\ currentSize' = currentSize - Len[items[k].blob]
     ELSE UNCHANGED cacheVars
  /\ UNCHANGED <<now, stage, pending, started, lost>>

(* Evict's first loop visits the items in Go's unspecified map order.      *)
Sweep(k) ==
  /\ stage = "sweep"
  /\ k \in todo
  /\ todo' = todo \ {k}
  /\ IF started > items[k].lastAccess
     THEN /\ items' = Without(k)
          /\ currentSize' = currentSize - Len[items[k].blob]
     ELSE UNCHANGED cacheVars
  /\ UNCHANGED <<now, stage, pending, started, lost>>

EndSweep ==
  /\ stage = "sweep"
  /\ todo = {}
  /\ stage' = "shrink"
  /\ UNCHANGED <<cacheVars, now, pending, todo, started, lost>>

Oldest(k) ==
  /\ k \in DOMAIN items
  /\ \A j \in DOMAIN items : items[k].lastAccess <= items[j].lastAccess

(* Evict's second loop drops the oldest item until the cache is in bounds. *)
Shrink(k) ==
  /\ stage = "shrink"
  /\ OverCapacity
  /\ Oldest(k)
  /\ items' = Without(k)
  /\ currentSize' = currentSize - Len[items[k].blob]
  /\ UNCHANGED <<now, setVars, lost>>

EndShrink ==
  /\ stage = "shrink"
  /\ ~OverCapacity
  /\ stage' = "insert"
  /\ started' = 0
  /\ UNCHANGED <<cacheVars, now, pending, todo, lost>>

Insert ==
  /\ stage = "insert"
  /\ items' = [j \in DOMAIN items \cup {pending.key} |->
                 IF j = pending.key THEN pending.item ELSE items[j]]
  /\ currentSize' = currentSize + Len[pending.item.blob]
  /\ stage' = "idle"
  /\ pending' = NoSet
  /\ UNCHANGED <<now, todo, started, lost>>

-----------------------------------------------------------------------------

(***************************************************************************)
(* A caller that got the item assigns to item.Blob: RTF is replaced by its *)
(* plain text, NaN by null.  l.mu is not held, so this may happen at any   *)
(* stage of another goroutine's Set, and currentSize is not adjusted.      *)
(***************************************************************************)
Rewrite(k, b) ==
  /\ k \in DOMAIN items
  /\ <<items[k].blob, b>> \in Rewrites
  /\ items' = [items EXCEPT ![k].blob = b]
  /\ lost' = lost + Len[items[k].blob] - Len[b]
  /\ lost' \in -MaxGained .. MaxLost
  /\ UNCHANGED <<currentSize, now, setVars>>

Tick ==
  /\ now < MaxTime
  /\ now' = now + 1
  /\ UNCHANGED <<cacheVars, setVars, lost>>

-----------------------------------------------------------------------------

SetStep ==
  \/ \E k \in Keys : Sweep(k) \/ Shrink(k)
  \/ EndSweep
  \/ EndShrink
  \/ Insert

Next ==
  \/ \E k \in Keys : Get(k)
  \/ \E ks \in SUBSET Keys : MGet(ks)
  \/ \E k \in Keys, b \in Blobs, d \in Durations : BeginSet(k, b, d)
  \/ SetStep
  \/ \E k \in Keys, b \in Blobs : Rewrite(k, b)
  \/ Tick

Spec == Init /\ [][Next]_vars

(* A goroutine inside Set is not blocked by anything, so it goes on.       *)
FairSpec == Spec /\ WF_vars(SetStep)

-----------------------------------------------------------------------------

(***************************************************************************)
(* Types, and what the stages of a Set mean: a Set past its first branch   *)
(* stores a key that is absent, and Evict only has keys to visit that are  *)
(* still present.                                                          *)
(***************************************************************************)
TypeOK ==
  /\ DOMAIN items \subseteq Keys
  /\ items \in [DOMAIN items -> Item]
  /\ currentSize \in Int
  /\ now \in 0 .. MaxTime
  /\ stage \in Stages
  /\ todo \subseteq DOMAIN items
  /\ started \in 0 .. MaxTime
  /\ lost \in Int
  /\ IF stage = "idle"
     THEN pending = NoSet
     ELSE /\ pending \in [key : Keys, item : Item]
          /\ pending.key \notin DOMAIN items
  /\ stage # "sweep" => todo = {}

(***************************************************************************)
(* Set tests len >= maxItems and Evict loops while len > maxItems: the     *)
(* number of items passes maxItems, but never by more than one.            *)
(***************************************************************************)
CountBound == Cardinality(DOMAIN items) <= MaxItems + 1

(***************************************************************************)
(* Set does not look at the size of what it stores: the accounted size may *)
(* pass maxSize by one blob.  It passes by more only when rewrites have    *)
(* left bytes nobody will ever subtract, and then Evict empties the cache  *)
(* at every Set and at most one item is left in it.                        *)
(***************************************************************************)
SizeBound ==
  \/ \E b \in Blobs : currentSize <= MaxSize + Len[b]
  \/ Cardinality(DOMAIN items) <= 1

BytesHeld == MapThenSumSet(LAMBDA k : Len[items[k].blob], DOMAIN items)

(***************************************************************************)
(* currentSize is the number of bytes held plus what rewrites of shared    *)
(* Blobs took away, over the life of the cache: evicting the item does not *)
(* give those bytes back.  Without rewrites the accounting is exact.       *)
(***************************************************************************)
Conservation == currentSize = BytesHeld + lost

(***************************************************************************)
(* An item whose lastAccess its hits moved to the future of an eviction is *)
(* dropped by it only when every item left is such a one: Evict's second   *)
(* loop never takes a hot item while a cold one remains.                   *)
(***************************************************************************)
HotLast ==
  [][\A k \in DOMAIN items \ DOMAIN items' :
       \/ items[k].lastAccess < started
       \/ \A j \in DOMAIN items : items[j].lastAccess >= started]_vars

(***************************************************************************)
(* What local.go:105 says of Evict, "Check if an item is past its          *)
(* expiration time": a cache that is within its limits loses only items    *)
(* whose duration has run out.                                             *)
(***************************************************************************)
EvictsOnlyExpired ==
  [][\A k \in DOMAIN items \ DOMAIN items' :
       OverCapacity \/ items[k].expires < now]_vars

(* A Set that makes room always returns: neither loop of Evict can spin.   *)
SetReturns == stage # "idle" ~> stage = "idle"

Map == INSTANCE CacheMap WITH
         store <- [k \in DOMAIN items |-> items[k].blob],
         storing <- pending.key

(***************************************************************************)
(* The cache is a lossy map in which the first write of a key wins: see    *)
(* CacheMap.  In particular a Set never replaces the value under a key.    *)
(***************************************************************************)
CacheMapSpec == Map!Spec

=============================================================================
