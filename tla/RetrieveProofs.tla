--------------------------- MODULE RetrieveProofs ---------------------------
(***************************************************************************)
(* Proofs about Retrieve for every set of requests, keys and caches.  That *)
(* waiters return is a liveness property and is left to TLC.               *)
(***************************************************************************)
EXTENDS Retrieve, TLAPS

(* A request that is in a call has its locals.                             *)
LEMMA CallLocals ==
  ASSUME TypeOK, NEW r \in Requests, pc[r] # "idle"
  PROVE  /\ call[r] \in Call
         /\ call[r].key \in Keys
         /\ call[r].cache \in Caches
         /\ Found(r) \in Versions \cup {Absent}
BY DEF TypeOK, Call, Found

(* The first state is well typed.                                          *)
LEMMA TypingInit == Init => TypeOK
BY ConstantsAssumption DEF Init, TypeOK, Stages, Versions, Caches

(* Types, and which of a call's locals are set at which stage.             *)
THEOREM Typing == Spec => []TypeOK
<1>1. TypeOK /\ [Next]_vars => TypeOK'
  <2> SUFFICES ASSUME TypeOK, [Next]_vars PROVE TypeOK'
    OBVIOUS
  <2> USE DEF store
  <2>1. ASSUME NEW r \in Requests, NEW k \in Keys, NEW c \in Caches, NEW nc \in BOOLEAN,
               Arrive(r, k, c, nc)
        PROVE TypeOK'
    <3>1. [key |-> k, cache |-> c, noCache |-> nc,
           since |-> IF nc THEN origin[k] ELSE 0] \in Call
      BY <2>1, ConstantsAssumption DEF Call, TypeOK, Versions
    <3>2. QED
      BY <2>1, <3>1, ConstantsAssumption DEF Arrive, TypeOK, Stages
  <2>2. ASSUME NEW r \in Requests, Refuse(r) PROVE TypeOK'
    BY <2>2 DEF Refuse, Return, TypeOK, Stages
  <2>3. ASSUME NEW r \in Requests, Lookup(r) PROVE TypeOK'
    <3>1. Found(r) \in Versions \cup {Absent}
      BY <2>3, CallLocals DEF Lookup
    <3>2. CASE Goto(r, "missed")
      BY <2>3, <3>2 DEF Lookup, Goto, TypeOK, Stages
    <3>3. CASE Found(r) # Absent /\ Return(r, Found(r))
      BY <2>3, <3>1, <3>3 DEF Lookup, Return, TypeOK, Stages
    <3>4. QED
      BY <2>3, <3>2, <3>3 DEF Lookup
  <2>4. ASSUME NEW r \in Requests, Join(r) PROVE TypeOK'
    <3>1. call[r].key \in Keys
      BY <2>4, CallLocals DEF Join
    <3>2. CASE Goto(r, "waiting") /\ UNCHANGED ongoing
      BY <2>4, <3>2 DEF Join, Goto, TypeOK, Stages
    <3>3. CASE Goto(r, "download") /\ ongoing' = [ongoing EXCEPT ![call[r].key] = r]
      BY <2>4, <3>1, <3>3 DEF Join, Goto, TypeOK, Stages, Leading
    <3>4. QED
      BY <2>4, <3>2, <3>3 DEF Join
  <2>5. ASSUME NEW r \in Requests, Download(r) PROVE TypeOK'
    <3>1. origin[call[r].key] \in Versions
      BY <2>5, CallLocals DEF Download, TypeOK
    <3>2. QED
      BY <2>5, <3>1 DEF Download, Goto, TypeOK, Stages, Leading
  <2>6. ASSUME NEW r \in Requests, DownloadFails(r) PROVE TypeOK'
    BY <2>6 DEF DownloadFails, Goto, TypeOK, Stages, Leading
  <2>7. ASSUME NEW r \in Requests, Store(r) PROVE TypeOK'
    <3>1. got[r] \in Versions /\ call[r].cache \in Caches /\ call[r].key \in Keys
      BY <2>7, CallLocals DEF Store, TypeOK
    <3>2. cached' \in [Caches -> [Keys -> Versions \cup {Absent}]]
      BY <2>7, <3>1 DEF Store, TypeOK
    <3>3. QED
      BY <2>7, <3>2 DEF Store, Goto, TypeOK, Stages, Leading
  <2>8. ASSUME NEW r \in Requests, StoreFails(r) PROVE TypeOK'
    BY <2>8 DEF StoreFails, Goto, TypeOK, Stages, Leading
  <2>9. ASSUME NEW r \in Requests, Close(r) PROVE TypeOK'
    <3>1. \A s \in Requests :
            /\ pc'[s] = IF s = r THEN "idle"
                        ELSE IF pc[s] = "waiting" /\ call[s].key = call[r].key
                             THEN "woken" ELSE pc[s]
            /\ call'[s] = IF s = r THEN NoCall ELSE call[s]
            /\ got'[s] = IF s = r THEN NoAnswer ELSE got[s]
      BY <2>9 DEF Close, Finish, Waiters, TypeOK
    <3>2. pc' \in [Requests -> Stages] /\ spoiled' \in [Requests -> BOOLEAN]
      BY <2>9 DEF Close, Finish, Waiters, TypeOK, Stages
    <3>3. /\ ongoing' \in [Keys -> Requests \cup {NoRequest}]
          /\ call' \in [Requests -> Call \cup {NoCall}]
          /\ got' \in [Requests -> Versions \cup {Error, NoAnswer}]
          /\ answer' \in Versions \cup {Error, NoAnswer}
      BY <2>9, CallLocals DEF Close, Finish, Waiters, TypeOK
    <3>4. \A s \in Requests :
            /\ pc'[s] = "idle" <=> call'[s] = NoCall
            /\ pc'[s] # "idle" => call'[s].cache \in deployed'
            /\ pc'[s] = "store" => got'[s] \in Versions
      BY <2>9, <3>1 DEF Close, Finish, Waiters, TypeOK
    <3>5. QED
      BY <2>9, <3>2, <3>3, <3>4 DEF Close, Finish, Waiters, TypeOK
  <2>10. ASSUME NEW r \in Requests, Wake(r) PROVE TypeOK'
    <3>1. Found(r) \in Versions \cup {Absent}
      BY <2>10, CallLocals DEF Wake
    <3>2. CASE Found(r) # Absent /\ Return(r, Found(r))
      BY <2>10, <3>1, <3>2 DEF Wake, Return, TypeOK, Stages
    <3>3. CASE Return(r, Error)
      BY <2>10, <3>3 DEF Wake, Return, TypeOK, Stages
    <3>4. QED
      BY <2>10, <3>2, <3>3 DEF Wake
  <2>11. ASSUME NEW c \in Caches, NEW k \in Keys, Lose(c, k) PROVE TypeOK'
    <3>1. spoiled' \in [Requests -> BOOLEAN]
      BY <2>11 DEF Lose, TypeOK
    <3>2. QED
      BY <2>11, <3>1 DEF Lose, TypeOK
  <2>12. ASSUME NEW k \in Keys, Publish(k) PROVE TypeOK'
    BY <2>12, ConstantsAssumption DEF Publish, TypeOK, Versions
  <2>13. CASE UNCHANGED vars
    BY <2>13 DEF vars, TypeOK
  <2>14. QED
    BY <2>1, <2>2, <2>3, <2>4, <2>5, <2>6, <2>7, <2>8, <2>9, <2>10, <2>11, <2>12, <2>13
       DEF Next, Step
<1>2. QED
  BY <1>1, TypingInit, PTL DEF Spec

-----------------------------------------------------------------------------
(***************************************************************************)
(* One download per key, and nobody waits without one: the two are proved  *)
(* together, since a waiter's leader is the one queue.ongoing names.       *)
(***************************************************************************)
Flight == SingleFlight /\ WaitsForLeader

LEMMA FlightInit == Init => Flight
BY ConstantsAssumption DEF Init, Flight, SingleFlight, WaitsForLeader, Leading

(* A step that moves one request between stages that are neither leading   *)
(* nor waiting leaves the queue as it was.                                 *)
LEMMA FlightElsewhere ==
  ASSUME TypeOK, Flight, NEW r \in Requests,
         pc[r] \notin Leading, UNCHANGED ongoing,
         \A s \in Requests \ {r} : pc'[s] = pc[s] /\ call'[s] = call[s],
         pc'[r] \notin Leading, pc'[r] # "waiting"
  PROVE  Flight'
BY DEF TypeOK, Flight, SingleFlight, WaitsForLeader

(* A step of the leader that goes on leading leaves the queue as it was.   *)
LEMMA FlightLeading ==
  ASSUME TypeOK, Flight, NEW r \in Requests,
         pc[r] \in Leading, UNCHANGED ongoing, call' = call,
         \A s \in Requests \ {r} : pc'[s] = pc[s],
         pc'[r] \in Leading
  PROVE  Flight'
<1>1. pc'[r] # "waiting"
  BY DEF Leading
<1>2. QED
  BY <1>1 DEF TypeOK, Flight, SingleFlight, WaitsForLeader

LEMMA FlightJoin ==
  ASSUME TypeOK, Flight, NEW r \in Requests, Join(r)
  PROVE  Flight'
<1>1. pc[r] \notin Leading /\ call[r].key \in Keys /\ call' = call
  BY CallLocals DEF Join, Goto, Leading
<1>2. CASE ongoing[call[r].key] # NoRequest
  <2>1. /\ pc' = [pc EXCEPT ![r] = "waiting"]
        /\ ongoing' = ongoing
    BY <1>2 DEF Join, Goto
  <2>2. "waiting" \notin Leading
    BY DEF Leading
  <2>3. QED
    BY <1>1, <1>2, <2>1, <2>2 DEF TypeOK, Flight, SingleFlight, WaitsForLeader
<1>3. CASE ongoing[call[r].key] = NoRequest
  <2>1. /\ pc' = [pc EXCEPT ![r] = "download"]
        /\ ongoing' = [ongoing EXCEPT ![call[r].key] = r]
    BY <1>3 DEF Join, Goto
  <2>2. "download" \in Leading
    BY DEF Leading
  <2>3. \A s \in Requests : pc[s] \in Leading => call[s].key # call[r].key
    BY <1>3, ConstantsAssumption DEF Flight, SingleFlight
  <2>4. \A s \in Requests : pc[s] \in Leading => call[s].key \in Keys
    BY CallLocals DEF Leading
  <2>5. \A s \in Requests : pc[s] = "waiting" => call[s].key \in Keys
    BY CallLocals
  <2>6. SingleFlight'
    BY <1>1, <2>1, <2>2, <2>3, <2>4 DEF TypeOK, Flight, SingleFlight
  <2>7. WaitsForLeader'
    BY <1>1, <2>1, <2>5, ConstantsAssumption DEF TypeOK, Flight, WaitsForLeader
  <2>8. QED
    BY <2>6, <2>7 DEF Flight
<1>4. QED
  BY <1>2, <1>3

LEMMA FlightClose ==
  ASSUME TypeOK, Flight, NEW r \in Requests, Close(r)
  PROVE  Flight'
<1>1. /\ call[r].key \in Keys
      /\ ongoing[call[r].key] = r
      /\ r # NoRequest
  BY CallLocals, ConstantsAssumption DEF Close, Finish, Waiters, Flight, SingleFlight, Leading
<1>2. ongoing' = [ongoing EXCEPT ![call[r].key] = NoRequest]
  BY DEF Close, Finish, Waiters
<1>3. \A s \in Requests :
        /\ pc'[s] = IF s = r THEN "idle"
                    ELSE IF pc[s] = "waiting" /\ call[s].key = call[r].key
                         THEN "woken" ELSE pc[s]
        /\ s # r => call'[s] = call[s]
  BY DEF Close, Finish, Waiters, TypeOK
<1>4. \A s \in Requests : pc'[s] \in Leading => s # r /\ pc[s] \in Leading
  BY <1>3 DEF Leading
<1>5. \A s \in Requests : pc[s] \in Leading /\ s # r => call[s].key # call[r].key
  BY <1>1 DEF Flight, SingleFlight
<1>6. \A s \in Requests : pc[s] \in Leading /\ s # r => pc'[s] = pc[s]
  BY <1>3 DEF Leading
<1>7. SingleFlight'
  <2>1. \A s \in Requests : pc'[s] \in Leading => ongoing'[call'[s].key] = s
    <3> TAKE s \in Requests
    <3> HAVE pc'[s] \in Leading
    <3>1. call'[s] = call[s] /\ pc[s] \in Leading /\ call[s].key # call[r].key
      BY <1>3, <1>4, <1>5
    <3>2. QED
      BY <1>2, <3>1 DEF Flight, SingleFlight, TypeOK
  <2>2. \A k \in Keys : ongoing'[k] # NoRequest =>
          pc'[ongoing'[k]] \in Leading /\ call'[ongoing'[k]].key = k
    <3> TAKE k \in Keys
    <3> HAVE ongoing'[k] # NoRequest
    <3>1. k # call[r].key /\ ongoing'[k] = ongoing[k] /\ ongoing[k] \in Requests
      BY <1>1, <1>2 DEF TypeOK
    <3>2. pc[ongoing[k]] \in Leading /\ call[ongoing[k]].key = k
      BY <3>1, ConstantsAssumption DEF Flight, SingleFlight
    <3>3. ongoing[k] # r
      BY <3>1, <3>2
    <3>4. QED
      BY <1>3, <1>6, <3>1, <3>2, <3>3
  <2>3. QED
    BY <2>1, <2>2 DEF SingleFlight
<1>8. WaitsForLeader'
  <2> SUFFICES ASSUME NEW s \in Requests, pc'[s] = "waiting"
               PROVE  ongoing'[call'[s].key] # NoRequest
    BY DEF WaitsForLeader
  <2>1. pc[s] = "waiting" /\ call[s].key # call[r].key /\ call'[s] = call[s]
    BY <1>3
  <2>2. call[s].key \in Keys
    BY <2>1, CallLocals
  <2>3. QED
    BY <1>2, <2>1, <2>2 DEF Flight, WaitsForLeader, TypeOK
<1>9. QED
  BY <1>7, <1>8 DEF Flight

LEMMA FlightStep == TypeOK /\ Flight /\ [Next]_vars => Flight'
<1> SUFFICES ASSUME TypeOK, Flight, [Next]_vars PROVE Flight'
  OBVIOUS
<1> USE DEF store
<1>1. ASSUME NEW r \in Requests, NEW k \in Keys, NEW c \in Caches, NEW nc \in BOOLEAN,
             Arrive(r, k, c, nc)
      PROVE Flight'
  BY <1>1, FlightElsewhere DEF Arrive, TypeOK, Leading
<1>2. ASSUME NEW r \in Requests, Refuse(r) \/ Lookup(r) \/ Wake(r) PROVE Flight'
  BY <1>2, FlightElsewhere DEF Refuse, Lookup, Wake, Return, Goto, TypeOK, Leading
<1>3. ASSUME NEW r \in Requests, Join(r) PROVE Flight'
  BY <1>3, FlightJoin
<1>4. ASSUME NEW r \in Requests,
             Download(r) \/ DownloadFails(r) \/ Store(r) \/ StoreFails(r)
      PROVE Flight'
  BY <1>4, FlightLeading
     DEF Download, DownloadFails, Store, StoreFails, Goto, TypeOK, Leading
<1>5. ASSUME NEW r \in Requests, Close(r) PROVE Flight'
  BY <1>5, FlightClose
<1>6. ASSUME UNCHANGED <<ongoing, pc, call>> PROVE Flight'
  BY <1>6 DEF Flight, SingleFlight, WaitsForLeader
<1>7. QED
  BY <1>1, <1>2, <1>3, <1>4, <1>5, <1>6 DEF Next, Step, Lose, Publish, vars

(* At most one request downloads a key at a time.                          *)
THEOREM SingleFlightHolds == Spec => []SingleFlight
BY FlightInit, FlightStep, Typing, PTL DEF Spec, Flight

(* Whoever waits has a leader that will close the channel.                 *)
THEOREM NobodyLeftBehind == Spec => []WaitsForLeader
BY FlightInit, FlightStep, Typing, PTL DEF Spec, Flight

-----------------------------------------------------------------------------
(***************************************************************************)
(* Versions only grow at the origin.  What the caches hold and what calls  *)
(* ask for never exceeds it; what a download returned is bounded below by  *)
(* both until it is stored, for nobody else can store the key meanwhile.   *)
(***************************************************************************)
CachedOld ==
  \A c \in Caches, k \in Keys : Holds(c, k) => cached[c][k] <= origin[k]

AskedOld ==
  \A r \in Requests : pc[r] # "idle" => call[r].since <= origin[call[r].key]

GotFresh ==
  \A r \in Requests :
    /\ pc[r] = "store" =>
         /\ call[r].since <= got[r]
         /\ got[r] <= origin[call[r].key]
         /\ \A c \in Caches :
              Holds(c, call[r].key) => cached[c][call[r].key] <= got[r]
    /\ pc[r] = "close" =>
         got[r] = Error \/ (got[r] \in Versions /\ call[r].since <= got[r])

Fresh == CachedOld /\ AskedOld /\ GotFresh

LEMMA FreshInit == Init => Fresh
BY ConstantsAssumption DEF Init, Fresh, CachedOld, AskedOld, GotFresh, Holds

(* Versions are numbers, and what a call holds of them is typed.          *)
LEMMA VersionFacts ==
  ASSUME TypeOK
  PROVE  /\ Versions \subseteq Int
         /\ \A k \in Keys : origin[k] \in Int
         /\ \A c \in Caches, k \in Keys : Holds(c, k) => cached[c][k] \in Int
         /\ \A r \in Requests : pc[r] # "idle" =>
              call[r].since \in Int /\ call[r].key \in Keys
         /\ \A r \in Requests : pc[r] = "store" => got[r] \in Int
<1>1. Versions \subseteq Int
  BY ConstantsAssumption DEF Versions
<1>2. \A k \in Keys : origin[k] \in Int
  BY <1>1 DEF TypeOK
<1>3. ASSUME NEW c \in Caches, NEW k \in Keys, Holds(c, k)
      PROVE  cached[c][k] \in Int
  <2>1. cached[c][k] \in Versions
    BY <1>3 DEF TypeOK, Holds
  <2>2. QED
    BY <1>1, <2>1
<1>4. ASSUME NEW r \in Requests, pc[r] # "idle"
      PROVE  call[r].since \in Int /\ call[r].key \in Keys
  <2>1. call[r] \in Call
    BY <1>4, CallLocals
  <2>2. call[r].since \in Versions /\ call[r].key \in Keys
    BY <2>1 DEF Call
  <2>3. QED
    BY <1>1, <2>2
<1>5. \A r \in Requests : pc[r] = "store" => got[r] \in Int
  BY <1>1 DEF TypeOK
<1>6. QED
  BY <1>1, <1>2, <1>3, <1>4, <1>5

(* Steps that move requests about without touching caches or origin, and   *)
(* do not bring any of them to a stage that holds a download.              *)
LEMMA FreshElsewhere ==
  ASSUME Fresh, UNCHANGED <<origin, cached>>,
         \A s \in Requests : pc'[s] # "idle" =>
           /\ call'[s] = call[s] /\ pc[s] # "idle"
           /\ pc'[s] \in {"store", "close"} => pc'[s] = pc[s] /\ got'[s] = got[s]
  PROVE  Fresh'
BY DEF Fresh, CachedOld, AskedOld, GotFresh, Holds

LEMMA FreshArrive ==
  ASSUME TypeOK, Fresh, NEW r \in Requests, NEW k \in Keys, NEW c \in Caches,
         NEW nc \in BOOLEAN, Arrive(r, k, c, nc)
  PROVE  Fresh'
<1>1. /\ \A s \in Requests \ {r} : pc'[s] = pc[s] /\ call'[s] = call[s] /\ got'[s] = got[s]
      /\ pc'[r] = "arrived"
      /\ call'[r].key = k
      /\ call'[r].since = IF nc THEN origin[k] ELSE 0
      /\ UNCHANGED <<origin, cached>>
  BY DEF Arrive, TypeOK, store
<1>2. 0 <= origin[k] /\ origin[k] <= origin[k]
  BY ConstantsAssumption DEF TypeOK, Versions
<1>3. CachedOld'
  BY <1>1 DEF Fresh, CachedOld, Holds
<1>4. AskedOld'
  BY <1>1, <1>2 DEF Fresh, AskedOld
<1>5. GotFresh'
  BY <1>1 DEF Fresh, GotFresh, Holds
<1>6. QED
  BY <1>3, <1>4, <1>5 DEF Fresh

LEMMA FreshDownload ==
  ASSUME TypeOK, Fresh, NEW r \in Requests, Download(r)
  PROVE  Fresh'
<1>1. /\ \A s \in Requests \ {r} : pc'[s] = pc[s] /\ got'[s] = got[s]
      /\ pc'[r] = "store" /\ got'[r] = origin[call[r].key]
      /\ call' = call
      /\ UNCHANGED <<origin, cached>>
  BY DEF Download, Goto, TypeOK, store
<1>2. pc[r] # "idle" /\ call[r].key \in Keys /\ origin[call[r].key] \in Int
  BY VersionFacts DEF Download
<1>3. CachedOld' /\ AskedOld'
  BY <1>1, <1>2 DEF Fresh, CachedOld, AskedOld, Holds
<1>4. GotFresh'
  BY <1>1, <1>2 DEF Fresh, CachedOld, AskedOld, GotFresh, Holds
<1>5. QED
  BY <1>3, <1>4 DEF Fresh

(* The only step that puts a version into a cache.                         *)
LEMMA StoreRaises ==
  ASSUME TypeOK, Fresh, NEW r \in Requests, Store(r)
  PROVE  \A c \in Caches, k \in Keys :
           \/ cached'[c][k] = cached[c][k]
           \/ /\ k = call[r].key
              /\ cached'[c][k] = got[r]
              /\ Holds(c, k) => cached[c][k] <= got[r]
<1>1. \A c \in Caches : Holds(c, call[r].key) => cached[c][call[r].key] <= got[r]
  BY DEF Store, Fresh, GotFresh
<1>2. call[r].cache \in Caches /\ call[r].key \in Keys
  BY CallLocals DEF Store
<1>3. QED
  BY <1>1, <1>2 DEF Store, TypeOK

LEMMA FreshStore ==
  ASSUME TypeOK, Flight, Fresh, NEW r \in Requests, Store(r)
  PROVE  Fresh'
<1>1. /\ \A s \in Requests \ {r} : pc'[s] = pc[s]
      /\ pc[r] = "store" /\ pc'[r] = "close"
      /\ call' = call /\ got' = got /\ origin' = origin
  BY DEF Store, Goto, TypeOK
<1>2. got[r] \in Versions /\ call[r].since <= got[r] /\ got[r] <= origin[call[r].key]
  BY <1>1 DEF TypeOK, Fresh, GotFresh
<1>3. CachedOld'
  BY <1>1, <1>2, StoreRaises DEF Fresh, CachedOld, Holds
<1>4. AskedOld'
  BY <1>1 DEF Fresh, AskedOld
<1>5. \A s \in Requests : s # r /\ pc[s] = "store" => call[s].key # call[r].key
  BY <1>1 DEF Flight, SingleFlight, Leading
<1>6. GotFresh'
  <2> SUFFICES ASSUME NEW s \in Requests, s # r, pc[s] = "store", NEW c \in Caches,
                      Holds(c, call[s].key)'
               PROVE  cached'[c][call[s].key] <= got[s]
    BY <1>1, <1>2 DEF Fresh, GotFresh, Holds
  <2>1. call[s].key \in Keys /\ call[s].key # call[r].key
    BY <1>5, VersionFacts
  <2>2. cached'[c][call[s].key] = cached[c][call[s].key]
    BY <2>1, StoreRaises
  <2>3. QED
    BY <1>1, <2>2 DEF Fresh, GotFresh, Holds
<1>7. QED
  BY <1>3, <1>4, <1>6 DEF Fresh

LEMMA FreshStep == TypeOK /\ Flight /\ Fresh /\ [Next]_vars => Fresh'
<1> SUFFICES ASSUME TypeOK, Flight, Fresh, [Next]_vars PROVE Fresh'
  OBVIOUS
<1>1. ASSUME NEW r \in Requests, NEW k \in Keys, NEW c \in Caches, NEW nc \in BOOLEAN,
             Arrive(r, k, c, nc)
      PROVE Fresh'
  BY <1>1, FreshArrive
<1>2. ASSUME NEW r \in Requests, Refuse(r) \/ Lookup(r) \/ Join(r) \/ Wake(r)
      PROVE Fresh'
  BY <1>2, FreshElsewhere DEF Refuse, Lookup, Join, Wake, Return, Goto, TypeOK, store
<1>3. ASSUME NEW r \in Requests, Download(r) PROVE Fresh'
  BY <1>3, FreshDownload
<1>4. ASSUME NEW r \in Requests, DownloadFails(r) PROVE Fresh'
  <2>1. /\ pc' = [pc EXCEPT ![r] = "close"] /\ got' = [got EXCEPT ![r] = Error]
        /\ call' = call /\ pc[r] = "download" /\ UNCHANGED <<origin, cached>>
    BY <1>4 DEF DownloadFails, Goto, store
  <2>2. QED
    BY <2>1 DEF TypeOK, Fresh, CachedOld, AskedOld, GotFresh, Holds
<1>5. ASSUME NEW r \in Requests, Store(r) PROVE Fresh'
  BY <1>5, FreshStore
<1>6. ASSUME NEW r \in Requests, StoreFails(r) PROVE Fresh'
  <2>1. /\ pc' = [pc EXCEPT ![r] = "close"] /\ got' = got
        /\ call' = call /\ pc[r] = "store" /\ UNCHANGED <<origin, cached>>
    BY <1>6 DEF StoreFails, Goto, store
  <2>2. QED
    BY <2>1 DEF TypeOK, Fresh, CachedOld, AskedOld, GotFresh, Holds
<1>7. ASSUME NEW r \in Requests, Close(r) PROVE Fresh'
  <2>1. \A s \in Requests :
          pc'[s] # "idle" =>
            /\ s # r /\ call'[s] = call[s] /\ got'[s] = got[s]
            /\ pc'[s] = pc[s] \/ (pc[s] = "waiting" /\ pc'[s] = "woken")
    BY <1>7 DEF Close, Finish, Waiters, TypeOK
  <2>2. UNCHANGED <<origin, cached>>
    BY <1>7 DEF Close, Finish, Waiters, store
  <2>3. QED
    BY <2>1, <2>2, FreshElsewhere
<1>8. ASSUME NEW c \in Caches, NEW k \in Keys, Lose(c, k) PROVE Fresh'
  <2>1. \A d \in Caches, j \in Keys :
          cached'[d][j] = cached[d][j] \/ cached'[d][j] = Absent
    BY <1>8 DEF Lose, TypeOK
  <2>2. UNCHANGED <<origin, pc, call, got>>
    BY <1>8 DEF Lose
  <2>3. CachedOld' /\ AskedOld'
    BY <2>1, <2>2 DEF Fresh, CachedOld, AskedOld, Holds
  <2>4. GotFresh'
    <3>1. \A s \in Requests : pc[s] = "store" => call[s].key \in Keys
      BY VersionFacts
    <3>2. QED
      BY <2>1, <2>2, <3>1 DEF Fresh, GotFresh, Holds
  <2>5. QED
    BY <2>3, <2>4 DEF Fresh
<1>9. ASSUME NEW k \in Keys, Publish(k) PROVE Fresh'
  <2>1. \A j \in Keys : origin[j] \in Int /\ origin'[j] \in Int /\ origin[j] <= origin'[j]
    BY <1>9, VersionFacts DEF Publish, TypeOK
  <2>2. UNCHANGED <<cached, pc, call, got>>
    BY <1>9 DEF Publish
  <2>3. CachedOld'
    BY <2>1, <2>2, VersionFacts DEF Fresh, CachedOld, Holds
  <2>4. AskedOld'
    BY <2>1, <2>2, VersionFacts DEF Fresh, AskedOld
  <2>5. GotFresh'
    BY <2>1, <2>2, VersionFacts DEF Fresh, GotFresh, Holds
  <2>6. QED
    BY <2>3, <2>4, <2>5 DEF Fresh
<1>10. CASE UNCHANGED vars
  BY <1>10 DEF vars, store, Fresh, CachedOld, AskedOld, GotFresh, Holds
<1>11. QED
  BY <1>1, <1>2, <1>3, <1>4, <1>5, <1>6, <1>7, <1>8, <1>9, <1>10 DEF Next, Step

(* The invariants of Retrieve hold together.                               *)
LEMMA Invariants == Spec => [](TypeOK /\ Flight /\ Fresh)
<1>1. Init => TypeOK /\ Flight /\ Fresh
  BY TypingInit, FlightInit, FreshInit
<1>2. Spec => [](TypeOK /\ Flight)
  BY Typing, FlightInit, FlightStep, PTL DEF Spec
<1>3. QED
  BY <1>1, <1>2, FreshStep, PTL DEF Spec

(* A cached version is never replaced by an older one.                     *)
THEOREM NoCacheGoesBack == Spec => NeverGoesBack
<1> DEFINE Raises ==
      \A c \in Caches, k \in Keys :
        Holds(c, k) /\ cached'[c][k] # Absent => cached'[c][k] >= cached[c][k]
<1>1. TypeOK /\ Fresh /\ [Next]_vars => [Raises]_vars
  <2> SUFFICES ASSUME TypeOK, Fresh, Next PROVE Raises
    BY DEF vars
  <2>1. CASE cached' = cached
    BY <2>1, VersionFacts
  <2>2. ASSUME NEW r \in Requests, Store(r) PROVE Raises
    <3>1. pc[r] = "store"
      BY <2>2 DEF Store
    <3>2. got[r] \in Int
      BY <3>1, VersionFacts
    <3>3. QED
      BY <2>2, <3>2, StoreRaises, VersionFacts
  <2>3. ASSUME NEW d \in Caches, NEW j \in Keys, Lose(d, j) PROVE Raises
    <3>1. \A c \in Caches, k \in Keys :
            cached'[c][k] = cached[c][k] \/ cached'[c][k] = Absent
      BY <2>3 DEF Lose, TypeOK
    <3>2. QED
      BY <3>1, VersionFacts
  <2>4. QED
    BY <2>1, <2>2, <2>3
       DEF Next, Step, Arrive, Refuse, Lookup, Join, Download, DownloadFails,
           StoreFails, Close, Finish, Waiters, Wake, Publish, store
<1>2. QED
  BY <1>1, Invariants, PTL DEF Spec, NeverGoesBack

(* A no-cache request that downloads for itself is answered with what the  *)
(* origin had when it arrived, or something newer.                         *)
THEOREM OwnDownloadsAreFresh == Spec => OwnDownloadFresh
<1> DEFINE Answers == \A r \in Requests : pc[r] # "woken" => AnswersFresh(r)
<1>1. TypeOK /\ Fresh /\ [Next]_vars => [Answers]_vars
  <2> SUFFICES ASSUME TypeOK, Fresh, Next, NEW r \in Requests, pc[r] # "woken",
                      call[r] # NoCall, call'[r] = NoCall, call[r].noCache
               PROVE  answer' = Error \/ answer' >= call[r].since
    BY DEF AnswersFresh, vars
  <2>1. Refuse(r) \/ Lookup(r) \/ Close(r)
    <3>1. ASSUME NEW s \in Requests, Refuse(s) \/ Lookup(s) \/ Close(s) \/ Wake(s)
          PROVE  s = r
      BY <3>1 DEF Refuse, Lookup, Close, Finish, Waiters, Wake, Return, Goto, TypeOK
    <3>2. call' # call
      OBVIOUS
    <3>3. ASSUME NEW s \in Requests, NEW k \in Keys, NEW c \in Caches,
                 NEW nc \in BOOLEAN, Arrive(s, k, c, nc)
          PROVE  FALSE
      <4>1. /\ pc[s] = "idle"
            /\ call' = [call EXCEPT ![s] = [key |-> k, cache |-> c, noCache |-> nc,
                          since |-> IF nc THEN origin[k] ELSE 0]]
        BY <3>3 DEF Arrive
      <4>2. s # r
        BY <4>1 DEF TypeOK
      <4>3. QED
        BY <4>1, <4>2 DEF TypeOK
    <3>4. QED
      BY <3>1, <3>2, <3>3
         DEF Next, Step, Join, Download, DownloadFails, Store, StoreFails, Wake,
             Goto, Lose, Publish
  <2>2. CASE Refuse(r)
    BY <2>2 DEF Refuse, Return
  <2>3. CASE Lookup(r)
    BY <2>3 DEF Lookup, Goto
  <2>4. CASE Close(r)
    <3>1. pc[r] = "close" /\ answer' = got[r]
      BY <2>4 DEF Close, Finish, Waiters
    <3>2. CASE got[r] = Error
      BY <3>1, <3>2
    <3>3. CASE got[r] \in Versions /\ call[r].since <= got[r]
      BY <3>1, <3>3, VersionFacts
    <3>4. QED
      BY <3>1, <3>2, <3>3 DEF Fresh, GotFresh
  <2>5. QED
    BY <2>1, <2>2, <2>3, <2>4
<1>2. QED
  BY <1>1, Invariants, PTL DEF Spec, OwnDownloadFresh

-----------------------------------------------------------------------------
(***************************************************************************)
(* The leader that is about to close the channel has put the file into its *)
(* cache, and those it wakes share that cache unless they are spoiled.     *)
(***************************************************************************)
Served ==
  \A r \in Requests :
    pc[r] \in {"close", "woken"} /\ ~spoiled[r] => Found(r) # Absent

(* Steps of one request that leave the caches alone.                       *)
LEMMA ServedElsewhere ==
  ASSUME Served, UNCHANGED cached,
         \A s \in Requests : pc'[s] \in {"close", "woken"} /\ ~spoiled'[s] =>
           pc'[s] = pc[s] /\ call'[s] = call[s] /\ ~spoiled[s]
  PROVE  Served'
BY DEF Served, Found

LEMMA ServedStep == TypeOK /\ Served /\ [Next]_vars => Served'
<1> SUFFICES ASSUME TypeOK, Served, [Next]_vars PROVE Served'
  OBVIOUS
<1>1. ASSUME NEW r \in Requests, NEW k \in Keys, NEW c \in Caches, NEW nc \in BOOLEAN,
             Arrive(r, k, c, nc)
      PROVE Served'
  BY <1>1, ServedElsewhere DEF Arrive, store, TypeOK
<1>2. ASSUME NEW r \in Requests, Refuse(r) \/ Lookup(r) \/ Join(r) \/ Download(r)
      PROVE Served'
  BY <1>2, ServedElsewhere
     DEF Refuse, Lookup, Join, Download, Return, Goto, store, TypeOK
<1>3. ASSUME NEW r \in Requests, DownloadFails(r) \/ StoreFails(r) PROVE Served'
  BY <1>3, ServedElsewhere DEF DownloadFails, StoreFails, Goto, store, TypeOK
<1>4. ASSUME NEW r \in Requests, Wake(r) PROVE Served'
  BY <1>4, ServedElsewhere DEF Wake, Return, store, TypeOK
<1>5. ASSUME NEW r \in Requests, Store(r) PROVE Served'
  <2>1. /\ call[r].cache \in Caches /\ call[r].key \in Keys
        /\ got[r] \in Versions /\ got[r] # Absent
    BY <1>5, CallLocals, ConstantsAssumption DEF Store, TypeOK, Versions
  <2>2. cached'[call[r].cache][call[r].key] # Absent
    BY <1>5, <2>1 DEF Store, Found, TypeOK
  <2>3. \A c \in Caches, k \in Keys : Holds(c, k) => cached'[c][k] # Absent
    BY <1>5, <2>1, <2>2 DEF Store, Holds, TypeOK
  <2>4. \A s \in Requests : pc[s] # "idle" =>
          call[s].cache \in Caches /\ call[s].key \in Keys
    BY CallLocals
  <2>5. /\ pc' = [pc EXCEPT ![r] = "close"]
        /\ call' = call /\ spoiled' = spoiled
    BY <1>5 DEF Store, Goto
  <2>6. QED
    BY <2>2, <2>3, <2>4, <2>5 DEF Served, Found, Holds, TypeOK
<1>6. ASSUME NEW r \in Requests, Close(r) PROVE Served'
  <2>1. /\ pc[r] = "close" /\ cached' = cached
        /\ \A s \in Requests : s # r => call'[s] = call[s]
        /\ pc'[r] = "idle"
    BY <1>6 DEF Close, Finish, Waiters, store, TypeOK
  <2>2. ASSUME NEW s \in Requests, s # r, pc[s] = "waiting", pc'[s] = "woken",
               ~spoiled'[s]
        PROVE  call[s].key = call[r].key /\ call[s].cache = call[r].cache /\ ~spoiled[r]
    BY <1>6, <2>2 DEF Close, Finish, Waiters, TypeOK
  <2>3. ASSUME NEW s \in Requests, s # r,
               ~(pc[s] = "waiting" /\ call[s].key = call[r].key)
        PROVE  pc'[s] = pc[s] /\ spoiled'[s] = spoiled[s]
    BY <1>6, <2>3 DEF Close, Finish, Waiters, TypeOK
  <2>4. ASSUME NEW s \in Requests, s # r, pc[s] = "waiting", call[s].key = call[r].key
        PROVE  pc'[s] = "woken"
    BY <1>6, <2>4 DEF Close, Finish, Waiters, TypeOK
  <2>5. QED
    BY <2>1, <2>2, <2>3, <2>4 DEF Served, Found
<1>7. ASSUME NEW c \in Caches, NEW k \in Keys, Lose(c, k) PROVE Served'
  <2>1. ASSUME NEW s \in Requests, pc[s] \in {"close", "woken"}, ~spoiled'[s]
        PROVE  /\ ~spoiled[s]
               /\ cached'[call[s].cache][call[s].key] = cached[call[s].cache][call[s].key]
    <3>1. call[s].cache \in Caches /\ call[s].key \in Keys
      BY <2>1, CallLocals
    <3>2. ~spoiled[s] /\ ~(call[s].cache = c /\ call[s].key = k)
      BY <1>7, <2>1 DEF Lose, TypeOK
    <3>3. QED
      BY <1>7, <3>1, <3>2 DEF Lose, TypeOK
  <2>2. UNCHANGED <<pc, call>>
    BY <1>7 DEF Lose
  <2>3. QED
    BY <2>1, <2>2 DEF Served, Found
<1>8. CASE UNCHANGED <<cached, pc, call, spoiled>>
  BY <1>8 DEF Served, Found
<1>9. QED
  BY <1>1, <1>2, <1>3, <1>4, <1>5, <1>6, <1>7, <1>8 DEF Next, Step, Publish, vars, store

(* Whoever was woken finds the file in its cache, unless a reason is known *)
(* why it cannot be there.                                                 *)
THEOREM WaitersAreServed == Spec => []WaiterServed
<1>1. Init => Served
  BY DEF Init, Served
<1>2. Served => WaiterServed
  BY DEF Served, WaiterServed
<1>3. QED
  BY <1>1, <1>2, ServedStep, Typing, PTL DEF Spec

=============================================================================
