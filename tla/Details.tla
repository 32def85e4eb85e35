------------------------------ MODULE Details ------------------------------
(***************************************************************************)
(* What makes the Detail of a submission: its metadata from its keywords   *)
(* and files (SetSubmissionMeta), the parameters found in its text files   *)
(* or in the cache (RetrieveParams), the humans seen in its images         *)
(* (RetrieveCaptions), and the labels of it all (TicketLabels).            *)
(*                                                                         *)
(* A goroutine for each text file and each image of one submission writes  *)
(* to the same metadata: those of the text files lock it, except to set    *)
(* the generator, and those of the images do not.                          *)
(***************************************************************************)
EXTENDS Integers

CONSTANTS
  Files,
  Description,  \* what the object of a description is said to come from
  Has,          \* what the object found in each file has
  Human,        \* how likely an image shows a human: 2 is above one half
  Submitted,    \* the submissions, as Inkbunny describes them
  MaxRuns,      \* bound: requests for the submission
  NoMeta

Kinds == {"image", "json", "badjson", "plugin", "txt", "rtf", "txtjson", "badtxt",
          "objtxt", "soph"}
Images == {"image"}
Objects == {"json", "txtjson"}              \* of which jsonHeuristics makes objects
Convertible == {"txt", "rtf", "objtxt"}     \* whose parameters give objects,
Embedding == {"objtxt"}                     \* those that hold objects first
Parameters == Convertible \cup {"badtxt"}   \* in which parameters are found
Texts == Kinds \ {"image", "plugin"}

Hints == {"prompt", "model", "seed"}
Sources == Files \cup {Description}

Metadata ==
  [ai : BOOLEAN, generated : BOOLEAN, human : BOOLEAN, tool : BOOLEAN,
   generator : {"", "description", "prompt", "json"}, hasTxt : BOOLEAN,
   hasJSON : BOOLEAN, missingPrompt : BOOLEAN, missingModel : BOOLEAN,
   missingTags : BOOLEAN, artist : BOOLEAN, detected : BOOLEAN,
   confidence : 0..2, objects : SUBSET Sources, params : SUBSET Files]

ASSUME DetailsAssumption ==
  /\ Description \notin Files
  /\ Has \in [Sources -> SUBSET (Hints \cup {"artist", "tool"})]
  /\ Human \in [Files -> 0..2]
  /\ Submitted \subseteq
       [keywords : SUBSET {"generated", "id", "human"}, tool : BOOLEAN,
        described : BOOLEAN, files : [Files -> Kinds]]
  /\ MaxRuns \in Nat
  /\ NoMeta \notin Metadata

VARIABLES
  sub,          \* the submission at Inkbunny
  meta,         \* its metadata in the request, or NoMeta
  stage,        \* what RetrieveParams, and the request after it, does next
  at,           \* what the goroutine of each file does next
  confidence,   \* what the goroutine of an image has read and will write
  fetched,      \* the text files that were fetched
  cached,       \* the metadata cached as parameters, or NoMeta
  source,       \* history: the cached metadata the request used, or NoMeta
  sure,         \* history: images of humans, but for those whose confidence
                \* another image overwrote before they compared it
  labels,       \* of the Detail that was made last
  runs

detailVars == <<sub, meta, stage, at, confidence, fetched, cached, source, sure, labels, runs>>

FilesOf(s, kinds) == {f \in Files : s.files[f] \in kinds}

(***************************************************************************)
(* SetSubmissionMeta.  A keyword known by its id only, "id", is generated  *)
(* but no AI submission.  RTF counts neither as text nor as JSON.          *)
(***************************************************************************)
SetSubmissionMeta(s, override) ==
  LET ai == override \/ "generated" \in s.keywords \/ s.tool
  IN  [ai |-> ai,
       generated |-> s.keywords \cap {"generated", "id"} # {},
       human |-> "human" \in s.keywords,
       tool |-> s.tool,
       generator |-> IF s.tool THEN "description" ELSE "",
       hasTxt |-> FilesOf(s, {"txt", "txtjson", "badtxt"}) # {},
       hasJSON |-> FilesOf(s, {"json", "badjson", "plugin"}) # {},
       missingPrompt |-> TRUE,
       missingModel |-> TRUE,
       missingTags |-> ai /\ "generated" \notin s.keywords,
       artist |-> FALSE,
       detected |-> FALSE,
       confidence |-> 0,
       objects |-> {},
       params |-> {}]

(***************************************************************************)
(* TicketLabels.  A label is a pair, of what is so and of what.  A hint    *)
(* that some objects have and some have not is partial.                    *)
(***************************************************************************)
TicketLabels(m) ==
  LET lacking(h) == \E o \in m.objects : h \notin Has[o]
      having(h) == \E o \in m.objects : h \in Has[o]
      if(condition, label) == IF condition THEN {label} ELSE {}
  IN  if(m.human, <<"tagged", "human">>) \cup
      if(m.detected, <<"detected", "human">>) \cup
      IF ~m.ai THEN {}
      ELSE if(m.objects = {} /\ (m.hasTxt \/ m.hasJSON), <<"cannot", "parse">>) \cup
           if(m.objects = {} /\ ~m.hasTxt /\ ~m.hasJSON, <<"missing", "params">>) \cup
           if(m.missingTags, <<"missing", "tags">>) \cup
           if(m.artist, <<"artist", "used">>) \cup
           if(m.tool, <<"private_tool", m.generator>>) \cup
           {<<"partial", h>> : h \in {g \in Hints : lacking(g) /\ having(g)}} \cup
           {<<"missing", h>> : h \in {g \in Hints : lacking(g) /\ ~having(g)}}

DetailsInit ==
  /\ sub \in Submitted
  /\ meta = NoMeta
  /\ stage = "idle"
  /\ at = [f \in Files |-> "done"]
  /\ confidence = [f \in Files |-> 0]
  /\ fetched = {}
  /\ cached = NoMeta
  /\ source = NoMeta
  /\ sure = {}
  /\ labels = {}
  /\ runs = 0

-----------------------------------------------------------------------------
(* processSubmission, and parseFiles for an AI submission.                 *)
ProcessSubmission(override, parameters, interrogate) ==
  LET m == SetSubmissionMeta(sub, override)
  IN  /\ stage = "idle"
      /\ runs < MaxRuns
      /\ runs' = runs + 1
      /\ meta' = m
      /\ stage' = IF m.ai /\ parameters THEN "lookup" ELSE "join"
      /\ at' = [f \in Files |-> IF m.ai /\ interrogate /\ sub.files[f] \in Images
                                THEN "read" ELSE "done"]
      /\ fetched' = {}
      /\ source' = NoMeta
      /\ sure' = {}
      /\ UNCHANGED <<sub, confidence, cached, labels>>

(* RetrieveParams: all but what the captions set is taken from the cache;  *)
(* otherwise processParams starts a goroutine for each text file.          *)
RetrieveParams(noCache) ==
  /\ stage = "lookup"
  /\ IF cached # NoMeta /\ ~noCache
     THEN /\ meta' = [cached EXCEPT !.detected = meta.detected,
                                    !.confidence = meta.confidence]
          /\ source' = cached
          /\ stage' = "join"
          /\ UNCHANGED at
     ELSE /\ stage' = "files"
          /\ at' = [f \in Files |-> IF sub.files[f] \in Texts THEN "fetch" ELSE at[f]]
          /\ UNCHANGED <<meta, source>>
  /\ UNCHANGED <<sub, confidence, fetched, cached, sure, labels, runs>>

(* cache.Retrieve, and what of the file is tried.                          *)
FetchText(f, ok) ==
  /\ at[f] = "fetch"
  /\ at' = [at EXCEPT ![f] = CASE ~ok -> "done"
                               [] ok /\ sub.files[f] \in Objects -> "object"
                               [] ok /\ sub.files[f] \in Parameters -> "params"
                               [] ok /\ sub.files[f] = "soph" -> "soph"
                               [] OTHER -> "done"]
  /\ fetched' = IF ok THEN fetched \cup {f} ELSE fetched
  /\ UNCHANGED <<sub, meta, stage, confidence, cached, source, sure, labels, runs>>

(* jsonHeuristics adds the object it found, under the lock, ...            *)
JSONHeuristics(f) ==
  /\ at[f] = "object"
  /\ meta' = [meta EXCEPT !.objects = @ \cup {f}, !.params = @ \cup {f}]
  /\ at' = [at EXCEPT ![f] = "generator"]
  /\ UNCHANGED <<sub, stage, confidence, fetched, cached, source, sure, labels, runs>>

(* ... and sets the generator, without it.                                 *)
SetGenerator(f) ==
  /\ at[f] = "generator"
  /\ meta' = [meta EXCEPT !.generator = "json"]
  /\ at' = [at EXCEPT ![f] = "done"]
  /\ UNCHANGED <<sub, stage, confidence, fetched, cached, source, sure, labels, runs>>

(* The object that Soph's own heuristics find, added under the lock.       *)
SophHeuristics(f) ==
  /\ at[f] = "soph"
  /\ meta' = [meta EXCEPT !.objects = @ \cup {f}]
  /\ at' = [at EXCEPT ![f] = "done"]
  /\ UNCHANGED <<sub, stage, confidence, fetched, cached, source, sure, labels, runs>>

(* Mutant: parameters are only converted before any others were found.     *)
ConvertedFirst(params) ==
  IF meta.params # {} THEN {} ELSE {g \in params : sub.files[g] \in Convertible}

(* Of which of the parameters paramsToObject makes objects: of none if     *)
(* there is an object, of those that hold objects if there are any.        *)
Converted(params) ==
  LET embedding == {g \in params : sub.files[g] \in Embedding}
  IN  IF meta.objects # {} THEN {}
      ELSE IF embedding # {} THEN embedding
      ELSE {g \in params : sub.files[g] \in Convertible}

(***************************************************************************)
(* parameterHeuristics adds the parameters of a file and calls             *)
(* paramsToObject, all under the lock, the tool of a prompt included: it   *)
(* is looked for only where plain parameters are converted.  The objects   *)
(* held by parameters go through jsonHeuristics, which sets the generator. *)
(* (A tool makes AISubmission true, which it was, or no file was read.)    *)
(***************************************************************************)
ParameterHeuristics(f) ==
  LET params == meta.params \cup {f}
      converted == Converted(params)
      embedded == \E g \in converted : sub.files[g] \in Embedding
      tool == ~embedded /\ \E g \in converted : "tool" \in Has[g]
  IN  /\ at[f] = "params"
      /\ meta' = [meta EXCEPT !.params = params,
                              !.objects = @ \cup converted,
                              !.tool = @ \/ tool,
                              !.generator = IF tool THEN "prompt"
                                            ELSE IF embedded THEN "json" ELSE @]
      /\ at' = [at EXCEPT ![f] = "done"]
      /\ UNCHANGED <<sub, stage, confidence, fetched, cached, source, sure, labels, runs>>

(***************************************************************************)
(* The goroutines for the objects that parameters hold insert into the map *)
(* of parameters, and delete from those of the file, under a lock the loop *)
(* that starts them does not take: it still ranges over both.  If the      *)
(* runtime sees it, the server dies, with a cache in memory or without.    *)
(***************************************************************************)
MapRace(f) ==
  /\ at[f] = "params"
  /\ \E g \in Converted(meta.params \cup {f}) : sub.files[g] \in Embedding
  /\ stage' = "idle"
  /\ meta' = NoMeta
  /\ at' = [g \in Files |-> "done"]
  /\ fetched' = {}
  /\ source' = NoMeta
  /\ sure' = {}
  /\ cached' \in {cached, NoMeta}
  /\ UNCHANGED <<sub, confidence, labels, runs>>

(* processDescriptionHeuristics, after all files, if none gave an object.  *)
DescriptionHeuristics ==
  /\ stage = "files"
  /\ \A f \in FilesOf(sub, Texts) : at[f] = "done"
  /\ meta' = IF meta.objects = {} /\ sub.described
             THEN [meta EXCEPT !.objects = {Description}] ELSE meta
  /\ stage' = "metadata"
  /\ UNCHANGED <<sub, at, confidence, fetched, cached, source, sure, labels, runs>>

(* processObjectMetadata: the tool a prompt names takes the place of any   *)
(* generator before.                                                       *)
ProcessObjectMetadata ==
  LET some(h) == \E o \in meta.objects : h \in Has[o]
  IN  /\ stage = "metadata"
      /\ meta' = [meta EXCEPT
           !.ai = @ \/ meta.objects # {},
           !.artist = @ \/ some("artist"),
           !.tool = @ \/ some("tool"),
           !.generator = IF some("tool") THEN "prompt" ELSE @,
           !.missingPrompt = ~some("prompt"),
           !.missingModel = ~some("model")]
      /\ stage' = "store"
      /\ UNCHANGED <<sub, at, confidence, fetched, cached, source, sure, labels, runs>>

(* The end of RetrieveParams: metadata with parameters is cached.          *)
StoreParams(failed) ==
  /\ stage = "store"
  /\ cached' = IF failed \/ (meta.objects = {} /\ meta.params = {}) THEN cached ELSE meta
  /\ stage' = "join"
  /\ UNCHANGED <<sub, meta, at, confidence, fetched, source, sure, labels, runs>>

-----------------------------------------------------------------------------
(* RetrieveCaptions, with what it or the cache says of the image: nothing  *)
(* when that fails; otherwise it reads the confidence to take the larger.  *)
ReadConfidence(f, ok) ==
  /\ at[f] = "read"
  /\ at' = [at EXCEPT ![f] = IF ok THEN "write" ELSE "done"]
  /\ confidence' = [confidence EXCEPT ![f] =
       IF meta.confidence > Human[f] THEN meta.confidence ELSE Human[f]]
  /\ UNCHANGED <<sub, meta, stage, fetched, cached, source, sure, labels, runs>>

WriteConfidence(f) ==
  /\ at[f] = "write"
  /\ meta' = [meta EXCEPT !.confidence = confidence[f]]
  /\ at' = [at EXCEPT ![f] = "detect"]
  /\ sure' = {g \in sure : at[g] # "detect"} \cup {g \in {f} : Human[g] > 1}
  /\ UNCHANGED <<sub, stage, confidence, fetched, cached, source, labels, runs>>

(* Mutant: what the last image says takes the place of what others said.   *)
DetectHumanOfLast(f, again) ==
  /\ at[f] = "detect"
  /\ LET c == IF again THEN meta.confidence ELSE confidence[f]
     IN  meta' = [meta EXCEPT !.detected = c > 1]
  /\ at' = [at EXCEPT ![f] = "done"]
  /\ UNCHANGED <<sub, stage, confidence, fetched, cached, source, sure, labels, runs>>

(* What it compares may be what it wrote or what another wrote since.      *)
DetectHuman(f, again) ==
  /\ at[f] = "detect"
  /\ LET c == IF again THEN meta.confidence ELSE confidence[f]
     IN  meta' = IF c > 1 THEN [meta EXCEPT !.detected = TRUE] ELSE meta
  /\ at' = [at EXCEPT ![f] = "done"]
  /\ UNCHANGED <<sub, stage, confidence, fetched, cached, source, sure, labels, runs>>

(* parseFiles waits for all; then the Detail is made.                      *)
MakeDetail ==
  /\ stage = "join"
  /\ \A f \in Files : at[f] = "done"
  /\ labels' = TicketLabels(meta)
  /\ stage' = "idle"
  /\ UNCHANGED <<sub, meta, at, confidence, fetched, cached, source, sure, runs>>

(* The artist edits the submission; the cache loses the parameters.        *)
Edit(new) ==
  /\ stage = "idle"
  /\ new.files = sub.files
  /\ sub' = new
  /\ meta' = NoMeta
  /\ sure' = {}
  /\ UNCHANGED <<stage, at, confidence, fetched, cached, source, labels, runs>>

Evict ==
  /\ cached # NoMeta
  /\ cached' = NoMeta
  /\ UNCHANGED <<sub, meta, stage, at, confidence, fetched, source, sure, labels, runs>>

DetailsNext ==
  \/ \E override, parameters, interrogate \in BOOLEAN :
       ProcessSubmission(override, parameters, interrogate)
  \/ \E noCache \in BOOLEAN : RetrieveParams(noCache)
  \/ \E f \in Files :
       \/ \E ok \in BOOLEAN : FetchText(f, ok) \/ ReadConfidence(f, ok)
       \/ JSONHeuristics(f)
       \/ SetGenerator(f)
       \/ SophHeuristics(f)
       \/ ParameterHeuristics(f)
       \/ MapRace(f)
       \/ WriteConfidence(f)
       \/ \E again \in BOOLEAN : DetectHuman(f, again)
  \/ DescriptionHeuristics
  \/ ProcessObjectMetadata
  \/ \E failed \in BOOLEAN : StoreParams(failed)
  \/ MakeDetail
  \/ \E new \in Submitted : Edit(new)
  \/ Evict

DetailsSpec == DetailsInit /\ [][DetailsNext]_detailVars

-----------------------------------------------------------------------------
DetailsTypeOK ==
  /\ sub \in Submitted
  /\ meta \in Metadata \cup {NoMeta}
  /\ stage \in {"idle", "lookup", "files", "metadata", "store", "join"}
  /\ at \in [Files -> {"fetch", "object", "generator", "params", "soph", "read",
                       "write", "detect", "done"}]
  /\ confidence \in [Files -> 0..2]
  /\ fetched \subseteq FilesOf(sub, Texts)
  /\ cached \in Metadata \cup {NoMeta}
  /\ source \in Metadata \cup {NoMeta}
  /\ sure \subseteq FilesOf(sub, Images)
  /\ runs \in 0..MaxRuns

(***************************************************************************)
(* In whatever order the files of a submission come, no object of a JSON   *)
(* file or of Soph's is lost, parameters give an object when nothing else  *)
(* does, and the description is used only when no file gave any.  (Of two  *)
(* files with parameters only the first to come gives an object.)          *)
(***************************************************************************)
ObjectsKept ==
  stage \in {"metadata", "store"} =>
    LET came(kinds) == FilesOf(sub, kinds) \cap fetched
        found == meta.objects
        own == Objects \cup {"soph"}
    IN  /\ came(own) \subseteq found
        /\ came(Convertible) # {} => found \cap fetched # {}
        /\ found \subseteq came(own \cup Convertible) \cup {Description}
        /\ Description \in found => found = {Description}

Visible(ls) == ls \ {<<"detected", "human">>}

(***************************************************************************)
(* The labels of a Detail agree with its metadata: MissingPrompt is false  *)
(* exactly if some object has a prompt (entities.go:312), and only AI      *)
(* submissions are blamed for anything.  A human is detected only where an *)
(* image shows one, and such an image is missed only if another one wrote  *)
(* its confidence before the first compared what it had written: nothing   *)
(* that a text file or the cache puts into the metadata undoes it.  Labels *)
(* made of cached parameters are those of the metadata cached, even if the *)
(* submission was edited since.                                            *)
(***************************************************************************)
LabelsAgree ==
  /\ stage = "join" /\ meta.ai /\ meta.objects # {} =>
       (meta.missingPrompt <=> <<"missing", "prompt">> \in TicketLabels(meta))
  /\ meta # NoMeta /\ meta.detected =>
       \E f \in FilesOf(sub, Images) : Human[f] > 1
  /\ \A f \in sure : at[f] = "done" => meta.detected
  /\ stage = "idle" /\ meta # NoMeta =>
       /\ ~meta.ai => labels \subseteq {<<"tagged", "human">>}
       /\ sure # {} => <<"detected", "human">> \in labels
       /\ source # NoMeta => Visible(labels) = Visible(TicketLabels(source))
       /\ <<"cannot", "parse">> \in labels \/ <<"missing", "params">> \in labels
            <=> meta.ai /\ meta.objects = {}

=============================================================================
