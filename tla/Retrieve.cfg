\* Three requests: an owner and two waiters, or two owners one after the
\* other and a waiter between them.
SPECIFICATION FairSpec
CONSTANTS
  Requests = {r1, r2, r3}
  Keys = {k1}
  LocalCaches = {fileCache, textCache}
  Redis = redis
  MaxVersion = 1
  Refreshers = {r1}
  NoRequest = NoRequest
  NoCall = NoCall
  Absent = Absent
  Error = Error
  NoAnswer = NoAnswer
INVARIANTS
  TypeOK
  SingleFlight
  WaitsForLeader
  WaiterServed
PROPERTIES
  OwnDownloadFresh
  NeverGoesBack
  WaitersReturn
