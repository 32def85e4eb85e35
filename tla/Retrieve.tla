------------------------------ MODULE Retrieve ------------------------------
(***************************************************************************)
(* cache.Retrieve of pkg/api/cache/cache.go: many handlers, and many       *)
(* goroutines of one handler, ask for remote files at once.  queue.ongoing *)
(* makes all requests for a key share one download.                        *)
(*                                                                         *)
(* Each request is a goroutine.  The contents of a file are abstracted to  *)
(* the version of it the origin had when it was downloaded; a cache is a   *)
(* lossy map of keys to versions, as CacheMap says of a LocalCache.        *)
(***************************************************************************)
EXTENDS Integers

CONSTANTS
  Requests,    \* goroutines that call Retrieve, one call at a time
  Keys,        \* cache keys; a key is the mime type and the URL fetched
  LocalCaches, \* FileCache and TextCache, used when Redis is not
  Redis,       \* the Redis cache
  MaxVersion,  \* bound on how often the origin replaces a file
  Refreshers,  \* bound: the requests that may say no-cache
  NoRequest, NoCall, Absent, Error, NoAnswer

Caches == LocalCaches \cup {Redis}
Versions == 0 .. MaxVersion

(***************************************************************************)
(* The locals of a call: fetch.Key, the cache SwitchCache picked from the  *)
(* Accept header, whether Cache-Control is no-cache, and, as history, the  *)
(* version of the file when a no-cache request arrived.                    *)
(***************************************************************************)
Call == [key : Keys, cache : Caches, noCache : BOOLEAN, since : Versions]

ASSUME ConstantsAssumption ==
  /\ NoRequest \notin Requests
  /\ Redis \notin LocalCaches
  /\ MaxVersion \in Nat
  /\ \A x \in {Absent, Error, NoAnswer} : x \notin Nat
  /\ Error # NoAnswer
  /\ NoCall \notin Call

VARIABLES
  deployed,  \* the caches SwitchCache can pick in this process
  origin,    \* the version of each file at the remote end
  cached,    \* what each cache holds
  ongoing,   \* queue.ongoing: the request that downloads each key
  pc,        \* where each request is
  call,      \* the locals of each request's call
  got,       \* what the request's own download returned
  answer,    \* what the call that returns in this step returns, or NoAnswer
  spoiled    \* history: a known reason why the file is not in r's cache: the
             \* download or Set failed, it went to another cache, or was lost

store == <<origin, cached>>
vars == <<deployed, store, ongoing, pc, call, got, answer, spoiled>>

(***************************************************************************)
(* arrived: about to read the cache.  missed: about to lock queue.mu.      *)
(* download, store, close: the request owns queue.ongoing[key].  waiting:  *)
(* blocked on the owner's channel.  woken: the channel was closed.         *)
(***************************************************************************)
Leading == {"download", "store", "close"}
Stages == {"idle", "arrived", "missed", "waiting", "woken"} \cup Leading

Init ==
  /\ deployed \in {LocalCaches, {Redis}}
  /\ origin = [k \in Keys |-> 0]
  /\ cached = [c \in Caches |-> [k \in Keys |-> Absent]]
  /\ ongoing = [k \in Keys |-> NoRequest]
  /\ pc = [r \in Requests |-> "idle"]
  /\ call = [r \in Requests |-> NoCall]
  /\ got = [r \in Requests |-> NoAnswer]
  /\ answer = NoAnswer
  /\ spoiled = [r \in Requests |-> FALSE]

Goto(r, stage) ==
  /\ pc' = [pc EXCEPT ![r] = stage]
  /\ UNCHANGED call
  /\ answer' = NoAnswer

Return(r, value) ==
  /\ pc' = [pc EXCEPT ![r] = "idle"]
  /\ call' = [call EXCEPT ![r] = NoCall]
  /\ answer' = value

Holds(c, k) == cached[c][k] # Absent

(* What the request's cache holds under its key.                           *)
Found(r) == cached[call[r].cache][call[r].key]

-----------------------------------------------------------------------------
(* A handler calls Retrieve.                                               *)
Arrive(r, k, c, nc) ==
  /\ pc[r] = "idle"
  /\ c \in deployed
  /\ nc => r \in Refreshers
  /\ pc' = [pc EXCEPT ![r] = "arrived"]
  /\ call' = [call EXCEPT ![r] = [key |-> k, cache |-> c, noCache |-> nc,
                                  since |-> IF nc THEN origin[k] ELSE 0]]
  /\ answer' = NoAnswer
  /\ UNCHANGED <<deployed, store, ongoing, got, spoiled>>

(* The URL does not parse, or the file is private and there is no sid.     *)
Refuse(r) ==
  /\ pc[r] = "arrived"
  /\ Return(r, Error)
  /\ UNCHANGED <<deployed, store, ongoing, got, spoiled>>

(* Mutant: the Cache-Control header is ignored.                            *)
LookupAlways(r) ==
  /\ pc[r] = "arrived"
  /\ \/ Found(r) # Absent /\ Return(r, Found(r))
     \/ (Found(r) = Absent \/ call[r].cache = Redis) /\ Goto(r, "missed")
  /\ UNCHANGED <<deployed, store, ongoing, got, spoiled>>

(* cache.Get, unless the request says no-cache.  A Redis that cannot be    *)
(* reached is taken for a miss, because fetch.URL is not empty.            *)
Lookup(r) ==
  /\ pc[r] = "arrived"
  /\ \/ /\ ~call[r].noCache /\ Found(r) # Absent
        /\ Return(r, Found(r))
     \/ /\ call[r].noCache \/ Found(r) = Absent \/ call[r].cache = Redis
        /\ Goto(r, "missed")
  /\ UNCHANGED <<deployed, store, ongoing, got, spoiled>>

(* Mutant: the request does not look whether the key is being downloaded.  *)
JoinAlone(r) ==
  /\ pc[r] = "missed"
  /\ Goto(r, "download")
  /\ ongoing' = [ongoing EXCEPT ![call[r].key] = r]
  /\ UNCHANGED <<deployed, store, got, spoiled>>

(* The critical section on queue.mu.  The cache is not looked up again.    *)
Join(r) ==
  /\ pc[r] = "missed"
  /\ IF ongoing[call[r].key] # NoRequest
     THEN Goto(r, "waiting") /\ UNCHANGED ongoing
     ELSE Goto(r, "download") /\ ongoing' = [ongoing EXCEPT ![call[r].key] = r]
  /\ UNCHANGED <<deployed, store, got, spoiled>>

(* http.Get and io.ReadAll return the file as the origin has it now ...    *)
Download(r) ==
  /\ pc[r] = "download"
  /\ got' = [got EXCEPT ![r] = origin[call[r].key]]
  /\ Goto(r, "store")
  /\ UNCHANGED <<deployed, store, ongoing, spoiled>>

(* Mutant: the error is stored as if it were the file.                     *)
DownloadErrorStored(r) ==
  /\ pc[r] = "download"
  /\ got' = [got EXCEPT ![r] = Error]
  /\ Goto(r, "store")
  /\ UNCHANGED <<deployed, store, ongoing, spoiled>>

(* ... or fail: no connection, a status other than 200, a body that cannot *)
(* be read or that starts with ERROR.                                      *)
DownloadFails(r) ==
  /\ pc[r] = "download"
  /\ got' = [got EXCEPT ![r] = Error]
  /\ spoiled' = [spoiled EXCEPT ![r] = TRUE]
  /\ Goto(r, "close")
  /\ UNCHANGED <<deployed, store, ongoing>>

(* cache.Set: Redis overwrites, a LocalCache keeps what it has.            *)
Store(r) ==
  /\ pc[r] = "store"
  /\ cached' = IF call[r].cache = Redis \/ Found(r) = Absent
               THEN [cached EXCEPT ![call[r].cache][call[r].key] = got[r]]
               ELSE cached
  /\ Goto(r, "close")
  /\ UNCHANGED <<deployed, origin, ongoing, got, spoiled>>

(* A Set that fails (Redis only) is logged, and the request goes on.       *)
StoreFails(r) ==
  /\ pc[r] = "store"
  /\ call[r].cache = Redis
  /\ spoiled' = [spoiled EXCEPT ![r] = TRUE]
  /\ Goto(r, "close")
  /\ UNCHANGED <<deployed, store, ongoing, got>>

(* Everyone blocked on the channel of r's key.                             *)
Waiters(r) == {s \in Requests : pc[s] = "waiting" /\ call[s].key = call[r].key}

(* r returns what it downloaded, drops the key and wakes some requests.    *)
Finish(r, released) ==
  /\ ongoing' = [ongoing EXCEPT ![call[r].key] = NoRequest]
  /\ pc' = [s \in Requests |-> IF s = r THEN "idle"
                               ELSE IF s \in released THEN "woken" ELSE pc[s]]
  /\ call' = [call EXCEPT ![r] = NoCall]
  /\ answer' = got[r]
  /\ got' = [got EXCEPT ![r] = NoAnswer]
  /\ spoiled' = [s \in Requests |->
                   IF s = r THEN FALSE
                   ELSE IF s \in released
                   THEN spoiled[r] \/ call[s].cache # call[r].cache
                   ELSE spoiled[s]]
  /\ UNCHANGED <<deployed, store>>

(* Mutants: the channel is not closed, or closed before the file is stored. *)
CloseNobody(r) == pc[r] = "close" /\ Finish(r, {})

CloseEarly(r) == pc[r] \in {"store", "close"} /\ Finish(r, Waiters(r))

(* The deferred function: close the channel and delete the entry.          *)
Close(r) == pc[r] = "close" /\ Finish(r, Waiters(r))

(* The waiter reads its own cache; what it misses there is an error 500.   *)
Wake(r) ==
  /\ pc[r] = "woken"
  /\ \/ Found(r) # Absent /\ Return(r, Found(r))
     \/ (Found(r) = Absent \/ call[r].cache = Redis) /\ Return(r, Error)
  /\ spoiled' = [spoiled EXCEPT ![r] = FALSE]
  /\ UNCHANGED <<deployed, store, ongoing, got>>

-----------------------------------------------------------------------------
(* Eviction by another Set, or the end of the item's life in Redis.        *)
Lose(c, k) ==
  /\ Holds(c, k)
  /\ cached' = [cached EXCEPT ![c][k] = Absent]
  /\ spoiled' = [r \in Requests |->
                   \/ spoiled[r]
                   \/ /\ pc[r] \in {"close", "woken"}
                      /\ call[r].cache = c
                      /\ call[r].key = k]
  /\ answer' = NoAnswer
  /\ UNCHANGED <<deployed, origin, ongoing, pc, call, got>>

(* The file is replaced at the remote end.                                 *)
Publish(k) ==
  /\ origin[k] < MaxVersion
  /\ origin' = [origin EXCEPT ![k] = @ + 1]
  /\ answer' = NoAnswer
  /\ UNCHANGED <<deployed, cached, ongoing, pc, call, got, spoiled>>

-----------------------------------------------------------------------------
(* What a goroutine does by itself once Retrieve was called and, if it     *)
(* leads, the remote end has answered.                                     *)
Step(r) ==
  \/ Refuse(r)
  \/ Lookup(r)
  \/ Join(r)
  \/ Store(r)
  \/ StoreFails(r)
  \/ Close(r)
  \/ Wake(r)

Next ==
  \/ \E r \in Requests, k \in Keys, c \in Caches, nc \in BOOLEAN : Arrive(r, k, c, nc)
  \/ \E r \in Requests : Step(r) \/ Download(r) \/ DownloadFails(r)
  \/ \E c \in Caches, k \in Keys : Lose(c, k)
  \/ \E k \in Keys : Publish(k)

Spec == Init /\ [][Next]_vars

(* Goroutines are scheduled.  Nothing is assumed of the remote end:        *)
(* http.Get is called without a timeout and may never return.              *)
FairSpec == Spec /\ \A r \in Requests : WF_vars(Step(r))

-----------------------------------------------------------------------------
(***************************************************************************)
(* Types, and which of a call's locals are set at which stage.             *)
(***************************************************************************)
TypeOK ==
  /\ deployed \in {LocalCaches, {Redis}}
  /\ origin \in [Keys -> Versions]
  /\ cached \in [Caches -> [Keys -> Versions \cup {Absent}]]
  /\ ongoing \in [Keys -> Requests \cup {NoRequest}]
  /\ pc \in [Requests -> Stages]
  /\ call \in [Requests -> Call \cup {NoCall}]
  /\ got \in [Requests -> Versions \cup {Error, NoAnswer}]
  /\ answer \in Versions \cup {Error, NoAnswer}
  /\ spoiled \in [Requests -> BOOLEAN]
  /\ \A r \in Requests :
       /\ pc[r] = "idle" <=> call[r] = NoCall
       /\ pc[r] # "idle" => call[r].cache \in deployed
       /\ pc[r] = "store" => got[r] \in Versions

(***************************************************************************)
(* However requests interleave between their cache miss and queue.mu, at   *)
(* most one of them downloads a key, and queue.ongoing says which.         *)
(***************************************************************************)
SingleFlight ==
  /\ \A r \in Requests : pc[r] \in Leading => ongoing[call[r].key] = r
  /\ \A k \in Keys : ongoing[k] # NoRequest =>
       pc[ongoing[k]] \in Leading /\ call[ongoing[k]].key = k

(***************************************************************************)
(* A request that waits, waits for one that is going to close the channel: *)
(* an owner that failed or finished leaves nobody behind.                  *)
(***************************************************************************)
WaitsForLeader ==
  \A r \in Requests : pc[r] = "waiting" => ongoing[call[r].key] # NoRequest

(***************************************************************************)
(* A waiter finds the file in its cache when it wakes, unless the download *)
(* failed, or was stored in another cache than the waiter's (the queue is  *)
(* shared by FileCache and TextCache), or the item was lost meanwhile.     *)
(***************************************************************************)
WaiterServed ==
  \A r \in Requests : pc[r] = "woken" /\ ~spoiled[r] => Found(r) # Absent

(* What r's call returns with cannot be older than the file was when a     *)
(* no-cache request arrived.                                               *)
AnswersFresh(r) ==
  call[r] # NoCall /\ call'[r] = NoCall /\ call[r].noCache =>
    answer' = Error \/ answer' >= call[r].since

(***************************************************************************)
(* A no-cache request that did not wait for another one's download is      *)
(* never answered with an older version than the origin had when the       *)
(* request arrived.                                                        *)
(***************************************************************************)
OwnDownloadFresh == [][\A r \in Requests : pc[r] # "woken" => AnswersFresh(r)]_vars

(***************************************************************************)
(* README.md:99 says of the local memory cache, "You can always override   *)
(* this behavior for most request by setting the `Cache-Control` header to *)
(* `no-cache`": then no such request is answered with an older version     *)
(* than the origin had when the request arrived.                           *)
(***************************************************************************)
NoCacheFresh == [][\A r \in Requests : AnswersFresh(r)]_vars

(***************************************************************************)
(* Because the downloads of a key do not overlap, the version a cache      *)
(* holds is never replaced by an older one.                                *)
(***************************************************************************)
NeverGoesBack ==
  [][\A c \in Caches, k \in Keys :
       Holds(c, k) /\ cached'[c][k] # Absent => cached'[c][k] >= cached[c][k]]_vars

(* Once the owner of a download has its answer, everyone waiting for it    *)
(* returns, whatever the answer was.                                       *)
WaitersReturn ==
  \A r \in Requests :
    (/\ pc[r] = "waiting"
     /\ \E s \in Requests : /\ ongoing[call[r].key] = s
                            /\ pc[s] \in {"store", "close"})
      ~> pc[r] = "idle"

=============================================================================
