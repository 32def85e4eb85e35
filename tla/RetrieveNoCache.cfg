\* Two requests for one file, both with no-cache.
SPECIFICATION Spec
CONSTANTS
  Requests = {r1, r2}
  Keys = {k1}
  LocalCaches = {fileCache}
  Redis = redis
  MaxVersion = 1
  Refreshers = {r1, r2}
  NoRequest = NoRequest
  NoCall = NoCall
  Absent = Absent
  Error = Error
  NoAnswer = NoAnswer
PROPERTIES
  NoCacheFresh
