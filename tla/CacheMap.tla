------------------------------ MODULE CacheMap ------------------------------
(***************************************************************************)
(* What pkg/api/cache promises of a LocalCache, without saying how it      *)
(* makes room: a lossy map in which the first write of a key wins.  An     *)
(* entry disappears only while some absent key is being stored, and the    *)
(* value under a key changes only if a holder of the shared *Item rewrites *)
(* its Blob.  LocalCache.tla is shown to implement this.                   *)
(***************************************************************************)

CONSTANTS
  Keys,      \* cache keys
  Blobs,     \* contents a caller may store
  Rewrites,  \* pairs <<old, new>>: in-place rewrites of a shared Blob
  NoKey      \* no store is in progress

VARIABLES
  store,     \* the keys present, each with its value
  storing    \* the key being stored, or NoKey

vars == <<store, storing>>

Init ==
  /\ store = [k \in {} |-> {}]
  /\ storing = NoKey

(* A Set of a key that is absent takes the lock.                           *)
Begin(k) ==
  /\ storing = NoKey
  /\ k \notin DOMAIN store
  /\ storing' = k
  /\ UNCHANGED store

(* Room is made by forgetting some entry; which one is not promised.       *)
Drop(k) ==
  /\ storing # NoKey
  /\ k \in DOMAIN store
  /\ store' = [j \in DOMAIN store \ {k} |-> store[j]]
  /\ UNCHANGED storing

Put(b) ==
  /\ storing # NoKey
  /\ store' = [j \in DOMAIN store \cup {storing} |->
                 IF j = storing THEN b ELSE store[j]]
  /\ storing' = NoKey

Rewrite(k, b) ==
  /\ k \in DOMAIN store
  /\ <<store[k], b>> \in Rewrites
  /\ store' = [store EXCEPT ![k] = b]
  /\ UNCHANGED storing

Next ==
  \/ \E k \in Keys : Begin(k) \/ Drop(k)
  \/ \E b \in Blobs : Put(b)
  \/ \E k \in Keys, b \in Blobs : Rewrite(k, b)

Spec == Init /\ [][Next]_vars

=============================================================================
