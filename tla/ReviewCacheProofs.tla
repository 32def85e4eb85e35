------------------------- MODULE ReviewCacheProofs -------------------------
(***************************************************************************)
(* Proofs about the reviews and their cache: types, that a review is about *)
(* what was asked for, that none of it is lost between the cache and the   *)
(* remote end, and the form it has.                                        *)
(*                                                                         *)
(* Requests only meet in the cache, so the inductive invariant says of     *)
(* each value there what its next reader needs: it is right for the key it *)
(* is under.  An answer is then right because each id of the list is, all  *)
(* through the lookup, either left to look up or found or missed.          *)
(***************************************************************************)
EXTENDS ReviewCache, SequenceTheorems, TLAPS

-----------------------------------------------------------------------------
(* What a sequence has, and has once, when an element is added.            *)
LEMMA AppendElements ==
  ASSUME NEW S, NEW s \in Seq(S), NEW e \in S
  PROVE  /\ Append(s, e) \in Seq(S)
         /\ ToSet(Append(s, e)) = ToSet(s) \cup {e}
         /\ IsInjective(s) /\ e \notin ToSet(s) => IsInjective(Append(s, e))
<1>1. /\ Append(s, e) \in Seq(S) /\ Len(Append(s, e)) = Len(s) + 1 /\ Len(s) \in Nat
      /\ DOMAIN Append(s, e) = 1..Len(s) + 1 /\ DOMAIN s = 1..Len(s)
      /\ \A i \in 1..Len(s) : Append(s, e)[i] = s[i]
      /\ Append(s, e)[Len(s) + 1] = e
  BY AppendProperties, LenProperties
<1>2. ToSet(Append(s, e)) = ToSet(s) \cup {e}
  BY <1>1 DEF ToSet
<1>3. ASSUME IsInjective(s), e \notin ToSet(s) PROVE IsInjective(Append(s, e))
  BY <1>1, <1>3 DEF ToSet, IsInjective
<1> QED BY <1>1, <1>2, <1>3

(* What is left of a sequence without its first element.                   *)
LEMMA TailElements ==
  ASSUME NEW S, NEW s \in Seq(S), s # <<>>
  PROVE  /\ Tail(s) \in Seq(S) /\ Head(s) \in S
         /\ ToSet(s) = ToSet(Tail(s)) \cup {Head(s)}
         /\ IsInjective(s) => IsInjective(Tail(s)) /\ Head(s) \notin ToSet(Tail(s))
<1>1. /\ Tail(s) \in Seq(S) /\ Head(s) \in S /\ Len(s) \in Nat /\ Len(s) > 0
      /\ Len(Tail(s)) = Len(s) - 1 /\ Head(s) = s[1]
      /\ DOMAIN Tail(s) = 1..Len(s) - 1 /\ DOMAIN s = 1..Len(s)
      /\ \A i \in 1..Len(s) - 1 : Tail(s)[i] = s[i + 1]
  BY HeadTailProperties, LenProperties, EmptySeq
<1>2. ToSet(s) = ToSet(Tail(s)) \cup {Head(s)}
  <2>1. ASSUME NEW i \in 1..Len(s), i # 1 PROVE s[i] \in ToSet(Tail(s))
    <3>1. i - 1 \in 1..Len(s) - 1 /\ (i - 1) + 1 = i
      BY <1>1, <2>1
    <3> QED BY <1>1, <3>1 DEF ToSet
  <2>2. ToSet(s) \subseteq ToSet(Tail(s)) \cup {Head(s)}
    BY <1>1, <2>1 DEF ToSet
  <2>3. \A i \in 1..Len(s) - 1 : i + 1 \in 1..Len(s)
    BY <1>1
  <2>4. ToSet(Tail(s)) \subseteq ToSet(s)
    BY <1>1, <2>3 DEF ToSet
  <2>5. Head(s) \in ToSet(s)
    BY <1>1 DEF ToSet
  <2> QED BY <2>2, <2>4, <2>5
<1>3. ASSUME IsInjective(s) PROVE IsInjective(Tail(s)) /\ Head(s) \notin ToSet(Tail(s))
  <2>1. \A i \in 1..Len(s) - 1 : i + 1 \in 1..Len(s) /\ 1 \in 1..Len(s) /\ i + 1 # 1
    BY <1>1
  <2>2. \A i \in 1..Len(s) - 1 : Tail(s)[i] # s[1]
    BY <1>1, <1>3, <2>1 DEF IsInjective
  <2>3. \A i, j \in 1..Len(s) - 1 : Tail(s)[i] = Tail(s)[j] => i + 1 = j + 1
    BY <1>1, <1>3, <2>1 DEF IsInjective
  <2>4. \A i, j \in 1..Len(s) - 1 : i + 1 = j + 1 => i = j
    OBVIOUS
  <2> QED BY <1>1, <2>2, <2>3, <2>4 DEF ToSet, IsInjective
<1> QED BY <1>1, <1>2, <1>3

(* What two sequences have together, and have once.                        *)
LEMMA ConcatElements ==
  ASSUME NEW S, NEW s \in Seq(S), NEW t \in Seq(S)
  PROVE  /\ s \o t \in Seq(S)
         /\ ToSet(s \o t) = ToSet(s) \cup ToSet(t)
         /\ IsInjective(s) /\ IsInjective(t) /\ ToSet(s) \cap ToSet(t) = {}
              => IsInjective(s \o t)
<1>1. /\ s \o t \in Seq(S) /\ Len(s) \in Nat /\ Len(t) \in Nat
      /\ DOMAIN (s \o t) = 1..Len(s) + Len(t)
      /\ DOMAIN s = 1..Len(s) /\ DOMAIN t = 1..Len(t)
      /\ \A i \in 1..Len(s) : (s \o t)[i] = s[i]
      /\ \A i \in 1..Len(t) : (s \o t)[Len(s) + i] = t[i]
  BY ConcatProperties, LenProperties
<1>2. \A i \in 1..Len(s) + Len(t) : i \in 1..Len(s) \/ i - Len(s) \in 1..Len(t)
  BY <1>1
<1>3. \A i \in 1..Len(s) + Len(t) : i \notin 1..Len(s) => (s \o t)[i] = t[i - Len(s)]
  BY <1>1, <1>2
<1>4. ToSet(s \o t) = ToSet(s) \cup ToSet(t)
  <2>1. ToSet(s \o t) \subseteq ToSet(s) \cup ToSet(t)
    BY <1>1, <1>2, <1>3 DEF ToSet
  <2>2. \A i \in 1..Len(t) : Len(s) + i \in 1..Len(s) + Len(t)
    BY <1>1
  <2>3. ToSet(s) \cup ToSet(t) \subseteq ToSet(s \o t)
    BY <1>1, <2>2 DEF ToSet
  <2> QED BY <2>1, <2>3
<1>5. ASSUME IsInjective(s), IsInjective(t), ToSet(s) \cap ToSet(t) = {},
             NEW i \in DOMAIN (s \o t), NEW j \in DOMAIN (s \o t), (s \o t)[i] = (s \o t)[j]
      PROVE  i = j
  <2>1. CASE i \in 1..Len(s) /\ j \in 1..Len(s)
    BY <1>1, <1>5, <2>1 DEF IsInjective
  <2>2. CASE i \notin 1..Len(s) /\ j \notin 1..Len(s)
    BY <1>1, <1>2, <1>3, <1>5, <2>2 DEF IsInjective
  <2>3. CASE i \in 1..Len(s) /\ j \notin 1..Len(s)
    BY <1>1, <1>2, <1>3, <1>5, <2>3 DEF ToSet
  <2>4. CASE i \notin 1..Len(s) /\ j \in 1..Len(s)
    BY <1>1, <1>2, <1>3, <1>5, <2>4 DEF ToSet
  <2> QED BY <2>1, <2>2, <2>3, <2>4
<1> QED BY <1>1, <1>4, <1>5 DEF IsInjective

(* A part of a list has ids of the list, each once if the list has.        *)
LEMMA PartElements ==
  ASSUME NEW S, NEW ids \in Seq(S), NEW part \in Parts(ids)
  PROVE  /\ part \in Seq(ToSet(ids)) /\ part # <<>>
         /\ ToSet(part) \subseteq ToSet(ids)
         /\ IsInjective(ids) => IsInjective(part)
<1>1. PICK n \in DOMAIN ids : \E at \in [1..n -> DOMAIN ids] :
        /\ part = [i \in 1..n |-> ids[at[i]]]
        /\ \A i, j \in 1..n : i < j => at[i] < at[j]
  BY DEF Parts
<1>0. PICK at \in [1..n -> DOMAIN ids] :
        /\ part = [i \in 1..n |-> ids[at[i]]]
        /\ \A i, j \in 1..n : i < j => at[i] < at[j]
  BY <1>1
<1>2. DOMAIN ids = 1..Len(ids) /\ Len(ids) \in Nat /\ n \in Nat /\ n > 0
  BY LenProperties
<1>3. part \in [1..n -> ToSet(ids)]
  BY <1>0 DEF ToSet
<1>4. part \in Seq(ToSet(ids)) /\ part # <<>>
  <2>1. part \in Seq(ToSet(ids))
    BY <1>2, <1>3, SeqDef
  <2>2. DOMAIN part = 1..n
    BY <1>3
  <2>3. Len(part) = n
    BY <1>2, <2>1, <2>2, LenProperties
  <2> QED BY <1>2, <2>1, <2>3, EmptySeq
<1>5. ASSUME IsInjective(ids), NEW i \in 1..n, NEW j \in 1..n, part[i] = part[j] PROVE i = j
  <2>1. at[i] = at[j]
    BY <1>0, <1>5 DEF IsInjective
  <2>2. ~(i < j) /\ ~(j < i)
    BY <1>0, <1>2, <2>1
  <2> QED BY <1>2, <2>2
<1> QED BY <1>3, <1>4, <1>5 DEF ToSet, IsInjective

-----------------------------------------------------------------------------
(* The ids of a sequence of details are a sequence of ids.                 *)
LEMMA IdsOfSeq ==
  ASSUME NEW s \in Seq(Detail)
  PROVE  /\ IdsOf(s) \in Seq(Ids)
         /\ DOMAIN IdsOf(s) = DOMAIN s
         /\ Len(IdsOf(s)) = Len(s)
         /\ \A i \in DOMAIN s : IdsOf(s)[i] = s[i].id
<1>1. DOMAIN s = 1..Len(s) /\ Len(s) \in Nat
  BY LenProperties
<1>2. ASSUME NEW i \in 1..Len(s) PROVE s[i].id \in Ids
  <2>1. s[i] \in Detail
    BY ElementOfSeq
  <2> QED BY <2>1 DEF Detail
<1>3. IdsOf(s) \in [1..Len(s) -> Ids]
  BY <1>1, <1>2 DEF IdsOf
<1>4. IdsOf(s) \in Seq(Ids) /\ DOMAIN IdsOf(s) = 1..Len(s)
  BY <1>1, <1>3, SeqDef
<1>5. Len(IdsOf(s)) = Len(s)
  BY <1>1, <1>4, LenProperties
<1> QED BY <1>1, <1>4, <1>5 DEF IdsOf

(* Adding a detail adds its id.                                            *)
LEMMA IdsOfAppend ==
  ASSUME NEW s \in Seq(Detail), NEW d \in Detail
  PROVE  IdsOf(Append(s, d)) = Append(IdsOf(s), d.id)
<1>1. d.id \in Ids
  BY DEF Detail
<1>2. /\ Append(s, d) \in Seq(Detail)
      /\ Append(IdsOf(s), d.id) \in Seq(Ids)
      /\ IdsOf(Append(s, d)) \in Seq(Ids)
  BY <1>1, IdsOfSeq, AppendProperties
<1>3. /\ DOMAIN s = 1..Len(s) /\ Len(s) \in Nat
      /\ IdsOf(s) \in Seq(Ids) /\ Len(IdsOf(s)) = Len(s)
      /\ DOMAIN Append(s, d) = 1..Len(s) + 1 /\ Len(Append(s, d)) = Len(s) + 1
      /\ Append(s, d)[Len(s) + 1] = d
      /\ \A i \in 1..Len(s) : Append(s, d)[i] = s[i]
  BY <1>1, <1>2, IdsOfSeq, AppendProperties, LenProperties
<1>5. Len(IdsOf(Append(s, d))) = Len(s) + 1
  BY <1>2, <1>3, IdsOfSeq
<1>6. /\ Len(Append(IdsOf(s), d.id)) = Len(s) + 1
      /\ Append(IdsOf(s), d.id)[Len(s) + 1] = d.id
      /\ \A i \in 1..Len(s) : Append(IdsOf(s), d.id)[i] = IdsOf(s)[i]
  BY <1>1, <1>3, AppendProperties
<1>4. ASSUME NEW i \in 1..Len(s) + 1
      PROVE  IdsOf(Append(s, d))[i] = Append(IdsOf(s), d.id)[i]
  <2>1. IdsOf(Append(s, d))[i] = Append(s, d)[i].id
    BY <1>2, <1>3, IdsOfSeq
  <2>2. CASE i \in 1..Len(s)
    BY <1>3, <1>6, <2>1, <2>2, IdsOfSeq
  <2>3. CASE i = Len(s) + 1
    BY <1>3, <1>6, <2>1, <2>3
  <2> QED BY <1>3, <2>2, <2>3
<1> QED BY <1>2, <1>3, <1>4, <1>5, <1>6, SeqEqual

(* The ids of details behind others.                                       *)
LEMMA IdsOfConcat ==
  ASSUME NEW s \in Seq(Detail), NEW t \in Seq(Detail)
  PROVE  IdsOf(s \o t) = IdsOf(s) \o IdsOf(t)
<1>1. /\ s \o t \in Seq(Detail)
      /\ IdsOf(s) \in Seq(Ids) /\ IdsOf(t) \in Seq(Ids)
      /\ IdsOf(s \o t) \in Seq(Ids)
      /\ IdsOf(s) \o IdsOf(t) \in Seq(Ids)
  BY IdsOfSeq, ConcatProperties
<1>2. /\ Len(s) \in Nat /\ Len(t) \in Nat
      /\ DOMAIN s = 1..Len(s) /\ DOMAIN t = 1..Len(t)
      /\ Len(s \o t) = Len(s) + Len(t)
      /\ DOMAIN (s \o t) = 1..Len(s) + Len(t)
  BY <1>1, ConcatProperties, LenProperties
<1>5. /\ Len(IdsOf(s)) = Len(s) /\ Len(IdsOf(t)) = Len(t)
      /\ \A i \in DOMAIN s : IdsOf(s)[i] = s[i].id
      /\ \A i \in DOMAIN t : IdsOf(t)[i] = t[i].id
  BY IdsOfSeq
<1>6. /\ \A i \in 1..Len(s) + Len(t) :
           (s \o t)[i] = IF i <= Len(s) THEN s[i] ELSE t[i - Len(s)]
      /\ \A i \in 1..Len(s) + Len(t) :
           (IdsOf(s) \o IdsOf(t))[i] = IF i <= Len(s) THEN IdsOf(s)[i] ELSE IdsOf(t)[i - Len(s)]
  BY <1>1, <1>2, <1>5, ConcatProperties
<1>3. /\ Len(IdsOf(s \o t)) = Len(s) + Len(t)
      /\ Len(IdsOf(s) \o IdsOf(t)) = Len(s) + Len(t)
  <2>1. Len(IdsOf(s \o t)) = Len(s \o t)
    BY <1>1, IdsOfSeq
  <2>2. Len(IdsOf(s) \o IdsOf(t)) = Len(IdsOf(s)) + Len(IdsOf(t))
    BY <1>1, ConcatProperties
  <2> QED BY <1>2, <1>5, <2>1, <2>2
<1>4. ASSUME NEW i \in 1..Len(s) + Len(t)
      PROVE  IdsOf(s \o t)[i] = (IdsOf(s) \o IdsOf(t))[i]
  <2>1. IdsOf(s \o t)[i] = (s \o t)[i].id
    BY <1>1, <1>2, IdsOfSeq
  <2>4. /\ (s \o t)[i] = IF i <= Len(s) THEN s[i] ELSE t[i - Len(s)]
        /\ (IdsOf(s) \o IdsOf(t))[i] = IF i <= Len(s) THEN IdsOf(s)[i] ELSE IdsOf(t)[i - Len(s)]
    BY <1>6, Zenon
  <2>2. CASE i <= Len(s)
    <3>1. i \in DOMAIN s
      BY <1>2, <2>2
    <3> QED BY <1>5, <2>1, <2>2, <2>4, <3>1, Zenon
  <2>3. CASE ~(i <= Len(s))
    <3>1. i - Len(s) \in DOMAIN t
      BY <1>2, <2>3
    <3> QED BY <1>5, <2>1, <2>3, <2>4, <3>1, Zenon
  <2> QED BY <2>2, <2>3
<1> QED BY <1>1, <1>3, <1>4, SeqEqual

-----------------------------------------------------------------------------
(***************************************************************************)
(* A value that may be answered for the ids: it is about some of them,     *)
(* about none twice, and leaves out none but those in out.                 *)
(***************************************************************************)
RightFor(ids, value, out) ==
  /\ value.details # <<>>
  /\ About(value) \subseteq ToSet(ids)
  /\ IsInjective(ids) => IsInjective(IdsOf(value.details))
  /\ ToSet(ids) \ About(value) \subseteq out

(* The documented form, as ListsAsDocumented has it.                       *)
ShapedFor(ids, value) ==
  Len(ids) > 1 => \/ value.shape = DocumentedShape
                  \/ output = "multiple_tickets" /\ value.shape = "details"

CachesRight ==
  /\ \A k \in Keys : cached[k] # Absent => RightFor(k, cached[k], withheld)
  /\ \A l \in Results : searches[l] # Absent =>
       RightFor(l, searches[l], withheld) /\ ShapedFor(l, searches[l])

(* Only reports of badges and searches with a result get this far.         *)
CallsRight ==
  \A r \in Requests : call[r] # NoCall =>
    /\ call[r].kind = "report" => output = "submissions"
    /\ call[r].kind = "search" => call[r].ids \in Results
    /\ pc[r] = "search" => call[r].kind = "search"

(***************************************************************************)
(* Each id of the list is still to be looked up, was found or was missed,  *)
(* and only one of these when the list has it once.                        *)
(***************************************************************************)
Split(ids, found, out, left) ==
  /\ found \cup ToSet(out) \cup ToSet(left) = ToSet(ids)
  /\ IsInjective(ids) =>
       /\ IsInjective(out) /\ IsInjective(left)
       /\ found \cap ToSet(out) = {}
       /\ found \cap ToSet(left) = {}
       /\ ToSet(out) \cap ToSet(left) = {}

LookupsRight ==
  \A r \in Requests :
    IF pc[r] \in {"search", "whole", "lookup", "fetch"}
    THEN /\ Split(call[r].ids, ToSet(IdsOf(processed[r])), missed[r], todo[r])
         /\ IsInjective(call[r].ids) => IsInjective(IdsOf(processed[r]))
         /\ pc[r] = "fetch" => todo[r] = <<>>
    ELSE processed[r] = <<>>

(* What is answered, and of that what StoreReview and StoreSearchReview    *)
(* put into the cache.                                                     *)
Storable(value) ==
  \/ output = "submissions" /\ value.shape = "details"
  \/ output = "single_ticket" /\ value.shape = "ticket"
  \/ output = "multiple_tickets" /\ value.shape = "tickets"

AnswersRight ==
  \A r \in Requests :
    /\ Answered(r) => /\ RightFor(call[r].ids, answer[r], withheld)
                      /\ call[r].kind # "report" => ShapedFor(call[r].ids, answer[r])
    /\ pc[r] = "store" => Answered(r) /\ Storable(answer[r])
    /\ pc[r] = "save" => Answered(r) /\ call[r].kind = "search"

IInv == TypeOK /\ CachesRight /\ CallsRight /\ LookupsRight /\ AnswersRight

-----------------------------------------------------------------------------
(* A value that is right stays right when more ids are withheld.           *)
LEMMA RightForLonger ==
  ASSUME NEW ids, NEW value, NEW out, NEW more, out \subseteq more,
         RightFor(ids, value, out)
  PROVE  RightFor(ids, value, more)
BY DEF RightFor

(* A store after Set has the new value or what it had.                     *)
LEMMA PutType ==
  ASSUME NEW K, NEW store \in [K -> Values \cup {Absent}], NEW k \in K, NEW v \in Values,
         NEW after \in Put(store, k, v)
  PROVE  /\ after \in [K -> Values \cup {Absent}]
         /\ \A j \in K : after[j] = store[j] \/ (j = k /\ after[j] = v)
<1>1. CASE after = store
  BY <1>1
<1>2. CASE after = [store EXCEPT ![k] = v]
  BY <1>2
<1> QED BY <1>1, <1>2 DEF Put

LEMMA ValueType ==
  ASSUME NEW shape \in Shapes \cup {"error", "notFound", "panic"}, NEW details \in Seq(Detail)
  PROVE  /\ Value(shape, details) \in Values
         /\ Value(shape, details).shape = shape
         /\ Value(shape, details).details = details
         /\ About(Value(shape, details)) = ToSet(IdsOf(details))
BY DEF Value, Values, About

(* A value that is not a review.                                           *)
LEMMA FailureType ==
  ASSUME NEW shape \in {"error", "notFound", "panic"}
  PROVE  /\ Value(shape, <<>>) \in Values
         /\ Value(shape, <<>>).shape = shape
         /\ Value(shape, <<>>).shape \notin Shapes
<1>1. <<>> \in Seq(Detail)
  BY EmptySeq
<1> QED BY <1>1, ValueType DEF Shapes

(* A review is about its details, in the documented form, or it panics.    *)
LEMMA ReviewType ==
  ASSUME NEW details \in Seq(Detail), output \in Outputs
  PROVE  /\ Review(details) \in Values
         /\ Review(details).shape \in Shapes \cup {"panic"}
         /\ Review(details).shape # "panic" =>
              /\ Review(details).details = details
              /\ Review(details).shape = DocumentedShape
              /\ Review(details).shape # "report" => Storable(Review(details))
<1>1. output \in {"single_ticket", "multiple_tickets", "submissions", "report"}
  BY ReviewAssumption
<1>2. ReviewShape[output] = DocumentedShape /\ DocumentedShape \in Shapes
  BY <1>1 DEF ReviewShape, DocumentedShape, Shapes
<1>3. DocumentedShape # "report" => Storable(Value(DocumentedShape, details))
  BY <1>1, <1>2, ValueType DEF DocumentedShape, Storable
<1>4. CASE Review(details) = Value("panic", <<>>)
  BY <1>4, FailureType
<1>5. CASE Review(details) = Value(DocumentedShape, details)
  BY <1>2, <1>3, <1>5, ValueType DEF Shapes
<1> QED BY <1>2, <1>4, <1>5 DEF Review

-----------------------------------------------------------------------------
(* An answer that is right keeps the invariant.                            *)
LEMMA AnswerKeeps ==
  ASSUME IInv, NEW r \in Requests, call[r] # NoCall,
         NEW value \in Values, NEW stage \in {"store", "save", "done"},
         Answer(r, value, stage),
         UNCHANGED <<output, cached, searches, call>>,
         withheld \subseteq withheld', withheld' \subseteq Ids, writes' \subseteq Detail,
         value.shape \in Shapes =>
           /\ RightFor(call[r].ids, value, withheld')
           /\ call[r].kind # "report" => ShapedFor(call[r].ids, value),
         stage = "store" => value.shape \in Shapes /\ Storable(value),
         stage = "save" => value.shape \in Shapes /\ call[r].kind = "search"
  PROVE  IInv'
<1> USE DEF IInv
<1>1. /\ answer' = [answer EXCEPT ![r] = value] /\ pc' = [pc EXCEPT ![r] = stage]
      /\ todo' = [todo EXCEPT ![r] = <<>>] /\ processed' = [processed EXCEPT ![r] = <<>>]
      /\ missed' = [missed EXCEPT ![r] = <<>>]
  BY DEF Answer
<1>2. value # NoAnswer
  BY ReviewAssumption
<1>3. TypeOK'
  <2>1. /\ answer' \in [Requests -> Values \cup {NoAnswer}]
        /\ pc' \in [Requests -> Stages]
        /\ todo' \in [Requests -> Seq(Ids)] /\ missed' \in [Requests -> Seq(Ids)]
        /\ processed' \in [Requests -> Seq(Detail)]
    BY <1>1, EmptySeq DEF TypeOK, Stages
  <2>2. \A q \in Requests : /\ pc'[q] = "idle" <=> call'[q] = NoCall
                            /\ pc'[q] \in {"store", "save", "done"} <=> answer'[q] # NoAnswer
    BY <1>1, <1>2 DEF TypeOK
  <2> QED BY <2>1, <2>2 DEF TypeOK
<1>4. CachesRight'
  <2>1. \A k \in Keys : cached'[k] # Absent => RightFor(k, cached'[k], withheld')
    BY RightForLonger DEF CachesRight
  <2>2. \A l \in Results : searches'[l] # Absent => RightFor(l, searches'[l], withheld')
    BY RightForLonger DEF CachesRight
  <2>3. \A l \in Results : searches'[l] # Absent => ShapedFor(l, searches[l])'
    BY DEF CachesRight, ShapedFor, DocumentedShape
  <2> QED BY <2>1, <2>2, <2>3 DEF CachesRight
<1>5. CallsRight'
  BY <1>1 DEF CallsRight, TypeOK
<1>6. LookupsRight'
  BY <1>1 DEF LookupsRight, TypeOK
<1>7. AnswersRight'
  <2>1. ASSUME NEW q \in Requests, Answered(q)'
        PROVE  /\ RightFor(call'[q].ids, answer'[q], withheld')
               /\ call'[q].kind # "report" => ShapedFor(call[q].ids, answer[q])'
    <3>1. CASE q = r
      BY <1>1, <2>1, <3>1 DEF TypeOK, Answered, ShapedFor, DocumentedShape
    <3>2. CASE q # r
      <4>1. answer'[q] = answer[q] /\ Answered(q)
        BY <1>1, <2>1, <3>2 DEF TypeOK, Answered
      <4>2. RightFor(call[q].ids, answer[q], withheld')
        BY <4>1, RightForLonger DEF AnswersRight
      <4> QED BY <4>1, <4>2 DEF AnswersRight, ShapedFor, DocumentedShape
    <3> QED BY <3>1, <3>2
  <2>2. ASSUME NEW q \in Requests, pc'[q] = "store" \/ pc'[q] = "save"
        PROVE  /\ Answered(q)'
               /\ pc'[q] = "store" => Storable(answer[q])'
               /\ pc'[q] = "save" => call'[q].kind = "search"
    <3>1. CASE q = r
      BY <1>1, <1>2, <2>2, <3>1 DEF TypeOK, Answered, Storable
    <3>2. CASE q # r
      BY <1>1, <2>2, <3>2 DEF TypeOK, AnswersRight, Answered, Storable
    <3> QED BY <3>1, <3>2
  <2> QED BY <2>1, <2>2 DEF AnswersRight
<1> QED BY <1>3, <1>4, <1>5, <1>6, <1>7

(* The types of what a request that leaves has set.                        *)
LEMMA LeaveType ==
  ASSUME TypeOK, NEW r \in Requests, pc[r] \in {"store", "save", "done"}, Leave(r)
  PROVE  /\ pc' \in [Requests -> Stages]
         /\ call' \in [Requests -> Call \cup {NoCall}]
         /\ answer' \in [Requests -> Values \cup {NoAnswer}]
         /\ \A q \in Requests :
              /\ pc'[q] = "idle" <=> call'[q] = NoCall
              /\ pc'[q] \in {"store", "save", "done"} <=> answer'[q] # NoAnswer
         /\ UNCHANGED <<output, todo, processed, missed, writes, withheld>>
<1>1. /\ pc' = [pc EXCEPT ![r] = "idle"] /\ call' = [call EXCEPT ![r] = NoCall]
      /\ answer' = [answer EXCEPT ![r] = NoAnswer]
      /\ UNCHANGED <<output, todo, processed, missed, writes, withheld>>
  BY DEF Leave, lookup
<1> QED BY <1>1 DEF TypeOK, Stages

(***************************************************************************)
(* A request that leaves keeps the invariant when what it stored is right. *)
(***************************************************************************)
LEMMA LeaveKeeps ==
  ASSUME IInv, NEW r \in Requests, pc[r] \in {"store", "save", "done"}, Leave(r),
         TypeOK', CachesRight'
  PROVE  IInv'
<1> USE DEF IInv
<1>1. /\ pc' = [pc EXCEPT ![r] = "idle"] /\ call' = [call EXCEPT ![r] = NoCall]
      /\ answer' = [answer EXCEPT ![r] = NoAnswer]
      /\ UNCHANGED <<output, lookup, writes, withheld>>
  BY DEF Leave
<1>2. CallsRight'
  BY <1>1 DEF CallsRight, TypeOK
<1>3. LookupsRight'
  <2>1. \A q \in Requests : q # r => pc'[q] = pc[q] /\ call'[q] = call[q]
    BY <1>1 DEF TypeOK
  <2>2. pc'[r] = "idle" /\ UNCHANGED <<todo, processed, missed>>
    BY <1>1 DEF TypeOK, lookup
  <2> QED BY <2>1, <2>2 DEF LookupsRight, Split
<1>4. AnswersRight'
  <2>1. \A q \in Requests : q # r =>
          pc'[q] = pc[q] /\ call'[q] = call[q] /\ answer'[q] = answer[q]
    BY <1>1 DEF TypeOK
  <2>2. pc'[r] = "idle" /\ answer'[r] = NoAnswer
    BY <1>1 DEF TypeOK
  <2> QED BY <1>1, <2>1, <2>2
          DEF AnswersRight, Answered, Storable, ShapedFor, DocumentedShape
<1> QED BY <1>2, <1>3, <1>4

(* So does a request that goes on to another part of its lookup.           *)
LEMMA MoveKeeps ==
  ASSUME IInv, NEW r \in Requests, pc[r] \in {"search", "whole", "lookup"},
         NEW stage \in {"whole", "lookup", "fetch"}, stage = "fetch" => todo[r] = <<>>,
         pc' = [pc EXCEPT ![r] = stage],
         UNCHANGED <<output, cached, searches, call, lookup, writes, answer, withheld>>
  PROVE  IInv'
<1> USE DEF IInv, lookup
<1>1. \A q \in Requests : pc'[q] = IF q = r THEN stage ELSE pc[q]
  BY DEF TypeOK
<1>2. TypeOK'
  <2>1. pc' \in [Requests -> Stages]
    BY DEF TypeOK, Stages
  <2>2. \A q \in Requests : /\ pc'[q] = "idle" <=> call'[q] = NoCall
                            /\ pc'[q] \in {"store", "save", "done"} <=> answer'[q] # NoAnswer
    BY <1>1 DEF TypeOK
  <2> QED BY <2>1, <2>2 DEF TypeOK
<1>3. CachesRight'
  BY DEF CachesRight, ShapedFor, DocumentedShape
<1>4. CallsRight'
  BY <1>1 DEF CallsRight
<1>5. LookupsRight'
  BY <1>1 DEF LookupsRight, Split
<1>6. AnswersRight'
  BY <1>1 DEF AnswersRight, Answered, Storable, ShapedFor, DocumentedShape
<1> QED BY <1>2, <1>3, <1>4, <1>5, <1>6

-----------------------------------------------------------------------------
LEMMA EmptyElements ==
  /\ ToSet(<<>>) = {} /\ IsInjective(<<>>) /\ IdsOf(<<>>) = <<>>
BY DEF ToSet, IsInjective, IdsOf

(* The ids of a list.                                                      *)
LEMMA ListType ==
  ASSUME NEW ids \in Lists
  PROVE  ids \in Seq(Ids) /\ ids # <<>> /\ ToSet(ids) # {} /\ ToSet(ids) \subseteq Ids
<1>1. ids \in Seq(ToSet(ids)) /\ ids # <<>>
  BY ReviewAssumption
<1>2. ToSet(ids) \subseteq Ids
  BY DEF Ids
<1>3. ids \in Seq(Ids)
  BY <1>1, <1>2, SeqMonotonic
<1>4. 1 \in DOMAIN ids
  BY <1>1, EmptySeq, LenProperties
<1> QED BY <1>1, <1>2, <1>3, <1>4 DEF ToSet

(* The id at the head of what is left was missed, or found.                *)
LEMMA SplitMissed ==
  ASSUME NEW ids, NEW found, NEW out \in Seq(Ids), NEW left \in Seq(Ids), left # <<>>,
         Split(ids, found, out, left)
  PROVE  Split(ids, found, Append(out, Head(left)), Tail(left))
<1>1. /\ Head(left) \in Ids
      /\ ToSet(left) = ToSet(Tail(left)) \cup {Head(left)}
      /\ IsInjective(left) => IsInjective(Tail(left)) /\ Head(left) \notin ToSet(Tail(left))
  BY TailElements
<1>2. /\ ToSet(Append(out, Head(left))) = ToSet(out) \cup {Head(left)}
      /\ IsInjective(out) /\ Head(left) \notin ToSet(out) => IsInjective(Append(out, Head(left)))
  BY <1>1, AppendElements
<1> QED BY <1>1, <1>2 DEF Split

LEMMA SplitFound ==
  ASSUME NEW ids, NEW found, NEW out \in Seq(Ids), NEW left \in Seq(Ids), left # <<>>,
         Split(ids, found, out, left)
  PROVE  /\ Split(ids, found \cup {Head(left)}, out, Tail(left))
         /\ IsInjective(ids) => Head(left) \notin found
<1>1. /\ ToSet(left) = ToSet(Tail(left)) \cup {Head(left)}
      /\ IsInjective(left) => IsInjective(Tail(left)) /\ Head(left) \notin ToSet(Tail(left))
  BY TailElements
<1> QED BY <1>1 DEF Split

LEMMA InitIInv == Init => IInv
<1> SUFFICES ASSUME Init PROVE IInv
  OBVIOUS
<1>1. TypeOK
  BY EmptySeq DEF Init, TypeOK, Stages
<1> QED BY <1>1, EmptyElements
        DEF Init, IInv, CachesRight, CallsRight, LookupsRight, AnswersRight, Answered

LEMMA ArriveIInv ==
  ASSUME IInv, NEW r \in Requests, NEW ids \in Lists, NEW nc \in BOOLEAN, NEW kind \in Kinds,
         Arrive(r, ids, nc, kind)
  PROVE  IInv'
<1> USE DEF IInv
<1> DEFINE left == IF nc THEN <<>> ELSE ids
           out == IF nc THEN ids ELSE <<>>
<1>1. /\ pc[r] = "idle"
      /\ kind = "report" => output = "submissions"
      /\ kind = "search" => ids \in Results
      /\ call' = [call EXCEPT ![r] = [ids |-> ids, kind |-> kind]]
      /\ todo' = [todo EXCEPT ![r] = left] /\ missed' = [missed EXCEPT ![r] = out]
      /\ UNCHANGED <<output, cached, searches, processed, writes, answer, withheld>>
  BY DEF Arrive
<1>2. PICK stage \in {"search", "whole", "lookup", "fetch"} :
        /\ pc' = [pc EXCEPT ![r] = stage]
        /\ stage = "search" => kind = "search"
        /\ stage = "fetch" => nc
  BY DEF Arrive, Lookup
<1>3. [ids |-> ids, kind |-> kind] \in Call /\ [ids |-> ids, kind |-> kind] # NoCall
  BY ReviewAssumption DEF Call
<1>4. /\ left \in Seq(Ids) /\ out \in Seq(Ids)
      /\ ToSet(left) \cup ToSet(out) = ToSet(ids) /\ ToSet(left) \cap ToSet(out) = {}
      /\ IsInjective(ids) => IsInjective(left) /\ IsInjective(out)
  BY ListType, EmptyElements, EmptySeq
<1> HIDE DEF left, out
<1>5. \A q \in Requests : /\ pc'[q] = IF q = r THEN stage ELSE pc[q]
                          /\ call'[q] = IF q = r THEN [ids |-> ids, kind |-> kind] ELSE call[q]
                          /\ todo'[q] = IF q = r THEN left ELSE todo[q]
                          /\ missed'[q] = IF q = r THEN out ELSE missed[q]
  BY <1>1, <1>2 DEF TypeOK
<1>6. TypeOK'
  <2>1. /\ call' \in [Requests -> Call \cup {NoCall}]
        /\ pc' \in [Requests -> Stages]
        /\ todo' \in [Requests -> Seq(Ids)] /\ missed' \in [Requests -> Seq(Ids)]
    BY <1>1, <1>2, <1>3, <1>4 DEF TypeOK, Stages
  <2>2. \A q \in Requests : /\ pc'[q] = "idle" <=> call'[q] = NoCall
                            /\ pc'[q] \in {"store", "save", "done"} <=> answer'[q] # NoAnswer
    BY <1>1, <1>3, <1>5 DEF TypeOK
  <2> QED BY <1>1, <2>1, <2>2 DEF TypeOK
<1>7. CachesRight'
  BY <1>1 DEF CachesRight, ShapedFor, DocumentedShape
<1>8. CallsRight'
  BY <1>1, <1>2, <1>5 DEF CallsRight
<1>9. LookupsRight'
  <2>1. processed'[r] = <<>>
    BY <1>1 DEF LookupsRight
  <2>2. Split(ids, ToSet(IdsOf(processed'[r])), out, left) /\ IsInjective(IdsOf(processed'[r]))
    BY <1>4, <2>1, EmptyElements DEF Split
  <2>3. stage = "fetch" => left = <<>>
    BY <1>2 DEF left
  <2> QED BY <1>1, <1>5, <2>2, <2>3 DEF LookupsRight
<1>10. AnswersRight'
  <2>1. ~Answered(r)' /\ pc'[r] \notin {"store", "save"}
    BY <1>1, <1>5 DEF TypeOK, Answered
  <2> QED BY <1>1, <1>5, <2>1 DEF AnswersRight, Answered, Storable, ShapedFor, DocumentedShape
<1> QED BY <1>6, <1>7, <1>8, <1>9, <1>10

LEMMA LookupSearchIInv ==
  ASSUME IInv, NEW r \in Requests, LookupSearch(r)
  PROVE  IInv'
<1> USE DEF IInv
<1>1. /\ pc[r] = "search" /\ call[r] # NoCall /\ call[r].kind = "search"
      /\ UNCHANGED <<output, cached, searches, call, writes, withheld>>
  BY DEF LookupSearch, TypeOK, CallsRight
<1>2. PICK value \in Get(searches, call[r].ids) :
        IF value # Absent
        THEN Answer(r, value, "done")
        ELSE \/ pc' = [pc EXCEPT ![r] = Lookup("search")] /\ UNCHANGED <<answer, lookup>>
             \/ Answer(r, Value("error", <<>>), "done")
  BY DEF LookupSearch
<1>3. CASE value # Absent /\ Answer(r, value, "done")
  <2>1. call[r].ids \in Results
    BY <1>1 DEF CallsRight
  <2>2. /\ value = searches[call[r].ids] /\ value \in Values
        /\ RightFor(call[r].ids, value, withheld)
        /\ ShapedFor(call[r].ids, value)
    BY <1>2, <1>3, <2>1 DEF Get, TypeOK, CachesRight
  <2> QED BY <1>1, <1>3, <2>2, AnswerKeeps DEF TypeOK
<1>4. CASE Answer(r, Value("error", <<>>), "done")
  BY <1>1, <1>4, FailureType, AnswerKeeps DEF TypeOK
<1>5. CASE pc' = [pc EXCEPT ![r] = Lookup("search")] /\ UNCHANGED <<answer, lookup>>
  <2>1. Lookup("search") \in {"whole", "lookup"}
    BY DEF Lookup
  <2> QED BY <1>1, <1>5, <2>1, MoveKeeps
<1> QED BY <1>2, <1>3, <1>4, <1>5

LEMMA LookupWholeIInv ==
  ASSUME IInv, NEW r \in Requests, LookupWhole(r)
  PROVE  IInv'
<1> USE DEF IInv
<1>1. /\ pc[r] = "whole" /\ call[r] # NoCall /\ call[r] \in Call
      /\ UNCHANGED <<output, cached, searches, call, writes, withheld>>
  BY DEF LookupWhole, TypeOK
<1>2. PICK value \in Get(cached, call[r].ids) :
        IF value # Absent
        THEN Answer(r, value, Sent(r, value))
        ELSE pc' = [pc EXCEPT ![r] = "lookup"] /\ UNCHANGED <<answer, lookup>>
  BY DEF LookupWhole
<1>3. CASE value # Absent /\ Answer(r, value, Sent(r, value))
  <2>1. call[r].ids \in Keys
    BY <1>1 DEF Call, Keys
  <2>2. /\ value = cached[call[r].ids] /\ value \in Values /\ value.shape \in Shapes
        /\ RightFor(call[r].ids, value, withheld)
    BY <1>2, <1>3, <2>1 DEF Get, TypeOK, CachesRight, Shapes
  <2>3. ShapedFor(call[r].ids, value)
    <3>1. \/ value.shape = "detail" /\ Len(call[r].ids) = 1
          \/ output = "submissions" /\ value.shape = "details"
          \/ output = "single_ticket" /\ value.shape = "ticket"
          \/ output = "multiple_tickets" /\ value.shape = "tickets"
      BY <1>3, <2>1, <2>2 DEF TypeOK
    <3>2. CASE value.shape = "detail" /\ Len(call[r].ids) = 1
      BY <3>2 DEF ShapedFor
    <3>3. CASE value.shape = DocumentedShape
      BY <3>3 DEF ShapedFor
    <3> QED BY <3>1, <3>2, <3>3 DEF DocumentedShape
  <2>4. Sent(r, value) \in {"save", "done"} /\ (Sent(r, value) = "save" => call[r].kind = "search")
    BY DEF Sent
  <2> QED BY <1>1, <1>3, <2>2, <2>3, <2>4, AnswerKeeps DEF TypeOK
<1>4. CASE pc' = [pc EXCEPT ![r] = "lookup"] /\ UNCHANGED <<answer, lookup>>
  BY <1>1, <1>4, MoveKeeps
<1> QED BY <1>2, <1>3, <1>4

(* The value under the key of one id is for that id.                       *)
LEMMA DecodeType ==
  ASSUME NEW id \in Ids, NEW value \in Values, NEW out, RightFor(<<id>>, value, out)
  PROVE  Decode(value) \in Detail /\ Decode(value).id = id
<1>1. value.details \in Seq(Detail) /\ value.details # <<>>
  BY DEF Values, RightFor
<1>2. 1 \in DOMAIN value.details /\ value.details[1] \in Detail
  BY <1>1, EmptySeq, LenProperties, ElementOfSeq
<1>3. IdsOf(value.details)[1] = value.details[1].id /\ 1 \in DOMAIN IdsOf(value.details)
  BY <1>1, <1>2, IdsOfSeq
<1>4. value.details[1].id \in ToSet(<<id>>)
  BY <1>3 DEF RightFor, About, ToSet
<1>5. ToSet(<<id>>) = {id}
  BY DEF ToSet
<1>6. value.details[1].ticket \in BOOLEAN
  BY <1>2 DEF Detail
<1> QED BY <1>4, <1>5, <1>6 DEF Decode, Detail

LEMMA LookupOneIInv ==
  ASSUME IInv, NEW r \in Requests, LookupOne(r)
  PROVE  IInv'
<1> USE DEF IInv
<1>1. /\ pc[r] = "lookup" /\ todo[r] # <<>> /\ call[r] # NoCall /\ call[r] \in Call
      /\ todo[r] \in Seq(Ids) /\ missed[r] \in Seq(Ids) /\ processed[r] \in Seq(Detail)
      /\ UNCHANGED <<output, cached, searches, call, writes, withheld>>
  BY DEF LookupOne, TypeOK
<1> DEFINE id == Head(todo[r])
<1>2. PICK value \in Get(cached, <<id>>) :
        IF value # Absent /\ ~Decodes(r, value)
        THEN Answer(r, Value("error", <<>>), "done")
        ELSE /\ todo' = [todo EXCEPT ![r] = Tail(@)]
             /\ IF value = Absent
                THEN missed' = [missed EXCEPT ![r] = Append(@, id)]
                     /\ UNCHANGED processed
                ELSE processed' = [processed EXCEPT ![r] = Append(@, Decode(value))]
                     /\ UNCHANGED missed
             /\ UNCHANGED <<pc, answer>>
  BY DEF LookupOne
<1>3. id \in Ids /\ Tail(todo[r]) \in Seq(Ids)
  BY <1>1, TailElements
<1>4. CASE value # Absent /\ ~Decodes(r, value)
  BY <1>1, <1>2, <1>4, FailureType, AnswerKeeps DEF TypeOK
<1>5. CASE ~(value # Absent /\ ~Decodes(r, value))
  <2>1. /\ todo' = [todo EXCEPT ![r] = Tail(todo[r])] /\ UNCHANGED <<pc, answer>>
    BY <1>2, <1>5
  <2>2. /\ missed'[r] \in Seq(Ids) /\ processed'[r] \in Seq(Detail)
        /\ missed' = [missed EXCEPT ![r] = missed'[r]]
        /\ processed' = [processed EXCEPT ![r] = processed'[r]]
        /\ Split(call[r].ids, ToSet(IdsOf(processed'[r])), missed'[r], Tail(todo[r]))
        /\ IsInjective(call[r].ids) => IsInjective(IdsOf(processed'[r]))
    <3>1. /\ Split(call[r].ids, ToSet(IdsOf(processed[r])), missed[r], todo[r])
          /\ IsInjective(call[r].ids) => IsInjective(IdsOf(processed[r]))
      BY <1>1 DEF LookupsRight
    <3>2. CASE value = Absent
      <4>1. missed' = [missed EXCEPT ![r] = Append(missed[r], id)] /\ UNCHANGED processed
        BY <1>2, <1>5, <3>2
      <4>2. missed'[r] = Append(missed[r], id) /\ processed'[r] = processed[r]
        BY <4>1 DEF TypeOK
      <4>3. Append(missed[r], id) \in Seq(Ids)
        BY <1>1, <1>3, AppendElements
      <4>4. Split(call[r].ids, ToSet(IdsOf(processed[r])), Append(missed[r], id), Tail(todo[r]))
        BY <1>1, <3>1, SplitMissed
      <4>5. processed' = [processed EXCEPT ![r] = processed[r]]
        BY <4>1 DEF TypeOK
      <4> QED BY <1>1, <3>1, <4>1, <4>2, <4>3, <4>4, <4>5
    <3>3. CASE value # Absent
      <4>1. processed' = [processed EXCEPT ![r] = Append(processed[r], Decode(value))]
            /\ UNCHANGED missed
        BY <1>2, <1>5, <3>3
      <4>2. missed'[r] = missed[r] /\ processed'[r] = Append(processed[r], Decode(value))
        BY <4>1 DEF TypeOK
      <4>3. <<id>> \in Keys
        BY <1>3 DEF Keys
      <4>4. value \in Values /\ RightFor(<<id>>, value, withheld)
        BY <1>2, <3>3, <4>3 DEF Get, TypeOK, CachesRight
      <4>5. Decode(value) \in Detail /\ Decode(value).id = id
        BY <1>3, <4>4, DecodeType
      <4>6. /\ Append(processed[r], Decode(value)) \in Seq(Detail)
            /\ IdsOf(Append(processed[r], Decode(value))) = Append(IdsOf(processed[r]), id)
            /\ IdsOf(processed[r]) \in Seq(Ids)
        BY <1>1, <4>5, AppendProperties, IdsOfAppend, IdsOfSeq
      <4>7. /\ ToSet(Append(IdsOf(processed[r]), id)) = ToSet(IdsOf(processed[r])) \cup {id}
            /\ IsInjective(IdsOf(processed[r])) /\ id \notin ToSet(IdsOf(processed[r]))
                 => IsInjective(Append(IdsOf(processed[r]), id))
        BY <1>3, <4>6, AppendElements
      <4>8. /\ Split(call[r].ids, ToSet(IdsOf(processed[r])) \cup {id}, missed[r], Tail(todo[r]))
            /\ IsInjective(call[r].ids) => id \notin ToSet(IdsOf(processed[r]))
        BY <1>1, <3>1, SplitFound
      <4>9. missed' = [missed EXCEPT ![r] = missed[r]]
        BY <4>1 DEF TypeOK
      <4> QED BY <1>1, <3>1, <4>1, <4>2, <4>6, <4>7, <4>8, <4>9
    <3> QED BY <3>2, <3>3
  <2>3. TypeOK'
    <3>1. /\ todo' \in [Requests -> Seq(Ids)] /\ missed' \in [Requests -> Seq(Ids)]
          /\ processed' \in [Requests -> Seq(Detail)]
      BY <1>3, <2>1, <2>2 DEF TypeOK
    <3> QED BY <1>1, <2>1, <3>1 DEF TypeOK
  <2>4. CachesRight'
    BY <1>1 DEF CachesRight, ShapedFor, DocumentedShape
  <2>5. CallsRight'
    BY <1>1, <2>1 DEF CallsRight
  <2>6. LookupsRight'
    <3>1. \A q \in Requests : q # r =>
            todo'[q] = todo[q] /\ missed'[q] = missed[q] /\ processed'[q] = processed[q]
      BY <2>1, <2>2 DEF TypeOK
    <3>2. todo'[r] = Tail(todo[r])
      BY <2>1 DEF TypeOK
    <3> QED BY <1>1, <2>1, <2>2, <3>1, <3>2 DEF LookupsRight
  <2>7. AnswersRight'
    BY <1>1, <2>1 DEF AnswersRight, Answered, Storable, ShapedFor, DocumentedShape
  <2> QED BY <2>3, <2>4, <2>5, <2>6, <2>7
<1> QED BY <1>4, <1>5

(* An answer made of details is right when it is about these ids.          *)
LEMMA MadeRight ==
  ASSUME NEW ids \in Lists, NEW details \in Seq(Detail), NEW value, NEW out,
         value.details = details,
         ToSet(IdsOf(details)) \subseteq ToSet(ids), ToSet(IdsOf(details)) # {},
         IsInjective(ids) => IsInjective(IdsOf(details)),
         ToSet(ids) \ ToSet(IdsOf(details)) \subseteq out
  PROVE  RightFor(ids, value, out)
<1>1. details # <<>>
  BY EmptyElements
<1> QED BY <1>1 DEF RightFor, About

LEMMA EndLookupIInv ==
  ASSUME IInv, NEW r \in Requests, EndLookup(r)
  PROVE  IInv'
<1> USE DEF IInv
<1>1. /\ pc[r] = "lookup" /\ todo[r] = <<>> /\ call[r] # NoCall /\ call[r] \in Call
      /\ processed[r] \in Seq(Detail) /\ output \in Outputs /\ call[r].ids \in Lists
      /\ UNCHANGED <<output, cached, searches, call, writes, withheld>>
  BY DEF EndLookup, TypeOK, Call
<1> DEFINE review == IF call[r].kind = "report" THEN Value("report", processed[r])
                     ELSE IF output = "multiple_tickets" THEN Value("details", processed[r])
                     ELSE Review(processed[r])
<1>2. CASE missed[r] # <<>>
  <2>1. pc' = [pc EXCEPT ![r] = "fetch"] /\ UNCHANGED <<answer, lookup>>
    BY <1>2 DEF EndLookup
  <2> QED BY <1>1, <2>1, MoveKeeps
<1>3. CASE missed[r] = <<>>
  <2>1. Answer(r, review, Sent(r, review))
    BY <1>3 DEF EndLookup
  <2>2. /\ review \in Values
        /\ review.shape \in Shapes =>
             /\ review.details = processed[r]
             /\ call[r].kind # "report" => ShapedFor(call[r].ids, review)
        /\ review.shape \in Shapes \cup {"panic"}
    <3>1. CASE call[r].kind = "report"
      BY <1>1, <3>1, ValueType DEF Shapes
    <3>2. CASE call[r].kind # "report" /\ output = "multiple_tickets"
      BY <1>1, <3>2, ValueType DEF Shapes, ShapedFor
    <3>3. CASE call[r].kind # "report" /\ output # "multiple_tickets"
      BY <1>1, <3>3, ReviewType DEF Shapes, ShapedFor
    <3> QED BY <3>1, <3>2, <3>3
  <2>3. /\ ToSet(IdsOf(processed[r])) = ToSet(call[r].ids)
        /\ IsInjective(call[r].ids) => IsInjective(IdsOf(processed[r]))
    BY <1>1, <1>3, EmptyElements DEF LookupsRight, Split
  <2>4. review.shape \in Shapes => RightFor(call[r].ids, review, withheld)
    BY <1>1, <2>2, <2>3, ListType, MadeRight
  <2>5. /\ Sent(r, review) \in {"save", "done"}
        /\ Sent(r, review) = "save" => call[r].kind = "search" /\ review.shape # "panic"
    BY DEF Sent
  <2> HIDE DEF review
  <2> QED BY <1>1, <2>1, <2>2, <2>4, <2>5, AnswerKeeps DEF TypeOK
<1> QED BY <1>2, <1>3

LEMMA FetchFailsIInv ==
  ASSUME IInv, NEW r \in Requests, FetchFails(r)
  PROVE  IInv'
<1> USE DEF IInv
<1>1. /\ call[r] # NoCall /\ withheld \subseteq withheld' /\ withheld' \subseteq Ids
      /\ UNCHANGED <<output, cached, searches, call, writes>>
  <2>1. ToSet(missed[r]) \subseteq Ids
    BY LenProperties, ElementOfSeq DEF TypeOK, ToSet
  <2> QED BY <2>1 DEF FetchFails, TypeOK
<1>2. PICK shape \in {"error", "notFound"} : Answer(r, Value(shape, <<>>), "done")
  BY DEF FetchFails
<1> QED BY <1>1, <1>2, FailureType, AnswerKeeps DEF TypeOK

(* ProcessResponse makes a Detail of each submission.                      *)
LEMMA FetchedDetails ==
  ASSUME NEW found \in Seq(Ids), NEW fetched,
         fetched = [i \in DOMAIN found |-> [id |-> found[i], ticket |-> TRUE]]
  PROVE  fetched \in Seq(Detail) /\ IdsOf(fetched) = found /\ ToSet(fetched) \subseteq Detail
<1>1. Len(found) \in Nat /\ found \in [1..Len(found) -> Ids] /\ DOMAIN found = 1..Len(found)
  BY LenProperties
<1>2. fetched \in [1..Len(found) -> Detail]
  BY <1>1 DEF Detail
<1>3. fetched \in Seq(Detail)
  BY <1>1, <1>2, SeqDef
<1>4. IdsOf(fetched) = [i \in DOMAIN found |-> found[i]]
  BY <1>1 DEF IdsOf
<1> QED BY <1>1, <1>2, <1>3, <1>4 DEF ToSet

LEMMA FetchIInv ==
  ASSUME IInv, NEW r \in Requests, NEW found \in Parts(missed[r]), Fetch(r, found)
  PROVE  IInv'
<1> USE DEF IInv
<1> DEFINE fetched == [i \in DOMAIN found |-> [id |-> found[i], ticket |-> TRUE]]
           details == processed[r] \o fetched
           review == IF call[r].kind = "report" THEN Value("report", details) ELSE Review(details)
<1>1. /\ pc[r] = "fetch" /\ call[r] # NoCall /\ call[r] \in Call
      /\ call[r].ids \in Lists /\ call[r].kind \in Kinds
      /\ processed[r] \in Seq(Detail) /\ missed[r] \in Seq(Ids) /\ output \in Outputs
      /\ writes' = writes \cup ToSet(fetched)
      /\ withheld' = withheld \cup (ToSet(missed[r]) \ ToSet(found))
      /\ Answer(r, review, Fetched(r, review))
      /\ UNCHANGED <<output, cached, searches, call>>
  BY DEF Fetch, TypeOK, Call
<1>2. /\ found \in Seq(ToSet(missed[r])) /\ found # <<>> /\ ToSet(found) \subseteq ToSet(missed[r])
      /\ IsInjective(missed[r]) => IsInjective(found)
  BY <1>1, PartElements
<1>3. ToSet(missed[r]) \subseteq Ids
  BY <1>1, LenProperties, ElementOfSeq DEF ToSet
<1>4. found \in Seq(Ids)
  BY <1>2, <1>3, SeqMonotonic
<1>5. fetched \in Seq(Detail) /\ IdsOf(fetched) = found /\ ToSet(fetched) \subseteq Detail
  BY <1>4, FetchedDetails
<1> HIDE DEF fetched
<1>6. /\ details \in Seq(Detail) /\ IdsOf(processed[r]) \in Seq(Ids)
      /\ IdsOf(details) = IdsOf(processed[r]) \o found
  BY <1>1, <1>5, IdsOfConcat, IdsOfSeq, ConcatProperties
<1>7. /\ ToSet(IdsOf(details)) = ToSet(IdsOf(processed[r])) \cup ToSet(found)
      /\ IsInjective(IdsOf(processed[r])) /\ IsInjective(found)
         /\ ToSet(IdsOf(processed[r])) \cap ToSet(found) = {} => IsInjective(IdsOf(details))
  BY <1>4, <1>6, ConcatElements
<1> HIDE DEF details
<1>8. /\ ToSet(IdsOf(processed[r])) \cup ToSet(missed[r]) = ToSet(call[r].ids)
      /\ IsInjective(call[r].ids) =>
           /\ IsInjective(missed[r]) /\ IsInjective(IdsOf(processed[r]))
           /\ ToSet(IdsOf(processed[r])) \cap ToSet(missed[r]) = {}
  BY <1>1, EmptyElements DEF LookupsRight, Split
<1>9. ToSet(found) # {}
  <2>1. 1 \in DOMAIN found
    BY <1>2, <1>4, EmptySeq, LenProperties
  <2> QED BY <2>1 DEF ToSet
<1>10. /\ review \in Values /\ review.shape \in Shapes \cup {"panic"}
       /\ review.shape \in Shapes =>
            /\ review.details = details
            /\ call[r].kind # "report" =>
                 /\ ShapedFor(call[r].ids, review)
                 /\ review.shape # "report" => Storable(review)
       /\ call[r].kind = "report" => review.shape = "report"
  <2>1. CASE call[r].kind = "report"
    BY <1>6, <2>1, ValueType DEF Shapes
  <2>2. CASE call[r].kind # "report"
    BY <1>1, <1>6, <2>2, ReviewType DEF Shapes, ShapedFor
  <2> QED BY <2>1, <2>2
<1>11. review.shape \in Shapes => RightFor(call[r].ids, review, withheld')
  BY <1>1, <1>2, <1>6, <1>7, <1>8, <1>9, <1>10, MadeRight
<1> HIDE DEF review
<1>12. /\ Fetched(r, review) \in {"store", "save", "done"}
       /\ Fetched(r, review) = "store" => review.shape \in Shapes /\ Storable(review)
       /\ Fetched(r, review) = "save" => review.shape \in Shapes /\ call[r].kind = "search"
  BY <1>10 DEF Fetched, Sent
<1>13. withheld \subseteq withheld' /\ withheld' \subseteq Ids /\ writes' \subseteq Detail
  BY <1>1, <1>3, <1>5 DEF TypeOK
<1> QED BY <1>1, <1>10, <1>11, <1>12, <1>13, AnswerKeeps

(* The deferred StoreReview puts a right review under its list.            *)
LEMMA StoreIInv ==
  ASSUME IInv, NEW r \in Requests, Store(r)
  PROVE  IInv'
<1> USE DEF IInv
<1>1. /\ pc[r] = "store" /\ call[r] # NoCall /\ call[r] \in Call /\ call[r].ids \in Keys
      /\ answer[r] \in Values /\ answer[r] # Absent
      /\ RightFor(call[r].ids, answer[r], withheld) /\ Storable(answer[r])
      /\ Leave(r) /\ UNCHANGED <<output, searches, withheld>>
  <2>1. call[r].ids \in Lists
    BY DEF Store, TypeOK, Call
  <2>2. answer[r] \in Values /\ answer[r] # Absent
    BY ReviewAssumption DEF Store, TypeOK
  <2> QED BY <2>1, <2>2 DEF Store, Leave, TypeOK, AnswersRight, Keys
<1>2. cached' \in Put(cached, call[r].ids, answer[r])
  BY DEF Store
<1>3. /\ cached' \in [Keys -> Values \cup {Absent}]
      /\ \A k \in Keys : cached'[k] = cached[k] \/ (k = call[r].ids /\ cached'[k] = answer[r])
  <2>1. cached \in [Keys -> Values \cup {Absent}] /\ answer[r] \in Values
    BY <1>1 DEF TypeOK
  <2> QED BY <1>1, <1>2, <2>1, PutType
<1>4. /\ pc' = [pc EXCEPT ![r] = "idle"] /\ call' = [call EXCEPT ![r] = NoCall]
      /\ answer' = [answer EXCEPT ![r] = NoAnswer] /\ UNCHANGED <<lookup, writes>>
  BY <1>1 DEF Leave
<1>5. TypeOK'
  <2>1. \A k \in Keys : cached'[k] # Absent =>
          \/ cached'[k].shape = "detail" /\ Len(k) = 1
          \/ output' = "submissions" /\ cached'[k].shape = "details"
          \/ output' = "single_ticket" /\ cached'[k].shape = "ticket"
          \/ output' = "multiple_tickets" /\ cached'[k].shape = "tickets"
    BY <1>1, <1>3 DEF TypeOK, Storable
  <2> QED BY <1>1, <1>3, <1>4, <2>1, LeaveType DEF TypeOK
<1>6. CachesRight'
  BY <1>1, <1>3 DEF CachesRight, ShapedFor, DocumentedShape
<1> QED BY <1>1, <1>5, <1>6, LeaveKeeps

(* The deferred StoreSearchReview does so under the RID.                   *)
LEMMA StoreSearchIInv ==
  ASSUME IInv, NEW r \in Requests, StoreSearch(r)
  PROVE  IInv'
<1> USE DEF IInv
<1>1. /\ pc[r] = "save" /\ call[r] # NoCall /\ call[r].ids \in Results
      /\ answer[r] \in Values /\ answer[r] # Absent /\ answer[r].shape \in Shapes
      /\ RightFor(call[r].ids, answer[r], withheld) /\ ShapedFor(call[r].ids, answer[r])
      /\ Leave(r) /\ UNCHANGED <<output, cached, withheld>>
  <2>1. pc[r] = "save" /\ call[r] # NoCall /\ answer[r] \in Values /\ answer[r] # Absent
    BY ReviewAssumption DEF StoreSearch, TypeOK
  <2>2. call[r].kind = "search" /\ Answered(r)
    BY <2>1 DEF AnswersRight
  <2> QED BY <2>1, <2>2 DEF StoreSearch, Leave, AnswersRight, CallsRight, Answered
<1>2. searches' \in Put(searches, call[r].ids, answer[r])
  BY DEF StoreSearch
<1>3. /\ searches' \in [Results -> Values \cup {Absent}]
      /\ \A l \in Results : searches'[l] = searches[l]
                            \/ (l = call[r].ids /\ searches'[l] = answer[r])
  <2>1. searches \in [Results -> Values \cup {Absent}] /\ answer[r] \in Values
    BY <1>1 DEF TypeOK
  <2> QED BY <1>1, <1>2, <2>1, PutType
<1>4. UNCHANGED <<lookup, writes>>
  BY <1>1 DEF Leave
<1>5. TypeOK'
  <2>1. \A l \in Results : searches'[l] # Absent => searches'[l].shape \in Shapes
    BY <1>1, <1>3 DEF TypeOK
  <2> QED BY <1>1, <1>3, <1>4, <2>1, LeaveType DEF TypeOK
<1>6. CachesRight'
  BY <1>1, <1>3 DEF CachesRight, ShapedFor, DocumentedShape
<1> QED BY <1>1, <1>5, <1>6, LeaveKeeps

LEMMA ReturnIInv ==
  ASSUME IInv, NEW r \in Requests, Return(r)
  PROVE  IInv'
<1> USE DEF IInv
<1>1. /\ pc[r] = "done" /\ Leave(r)
      /\ UNCHANGED <<output, cached, searches, lookup, writes, withheld>>
  BY DEF Return, Leave
<1>2. TypeOK'
  BY <1>1, LeaveType DEF TypeOK
<1>3. CachesRight'
  BY <1>1 DEF CachesRight, ShapedFor, DocumentedShape
<1> QED BY <1>1, <1>2, <1>3, LeaveKeeps

(* A goroutine of ProcessResponse puts a Detail under its id.              *)
LEMMA SetCacheIInv ==
  ASSUME IInv, NEW detail \in writes, SetCache(detail)
  PROVE  IInv'
<1> USE DEF IInv
<1> DEFINE k == <<detail.id>>
           value == Value("detail", <<detail>>)
<1>1. /\ detail \in Detail /\ detail.id \in Ids /\ k \in Keys
      /\ writes' \subseteq Detail
      /\ UNCHANGED <<output, searches, pc, call, lookup, answer, withheld>>
  BY DEF SetCache, TypeOK, Detail, Keys
<1>2. <<detail>> \in Seq(Detail) /\ <<detail>> # <<>>
  BY <1>1
<1>3. value \in Values /\ value.shape = "detail" /\ value.details = <<detail>>
  BY <1>2, ValueType DEF Shapes
<1>4. RightFor(k, value, withheld')
  <2>1. ToSet(k) = {detail.id} /\ IdsOf(<<detail>>) = k /\ IsInjective(k)
    BY DEF ToSet, IdsOf, IsInjective
  <2> QED BY <1>2, <1>3, <2>1 DEF RightFor, About
<1>5. Len(k) = 1
  OBVIOUS
<1> HIDE DEF k, value
<1>6. cached' \in Put(cached, k, value)
  BY DEF SetCache, k, value
<1>7. /\ cached' \in [Keys -> Values \cup {Absent}]
      /\ \A j \in Keys : cached'[j] = cached[j] \/ (j = k /\ cached'[j] = value)
  <2>1. cached \in [Keys -> Values \cup {Absent}] /\ value \in Values
    BY <1>3 DEF TypeOK
  <2> QED BY <1>1, <1>6, <2>1, PutType
<1>8. TypeOK'
  <2>1. \A j \in Keys : cached'[j] # Absent =>
          \/ cached'[j].shape = "detail" /\ Len(j) = 1
          \/ output' = "submissions" /\ cached'[j].shape = "details"
          \/ output' = "single_ticket" /\ cached'[j].shape = "ticket"
          \/ output' = "multiple_tickets" /\ cached'[j].shape = "tickets"
    BY <1>1, <1>3, <1>5, <1>7 DEF TypeOK
  <2> QED BY <1>1, <1>7, <2>1 DEF TypeOK, lookup
<1>9. CachesRight'
  BY <1>1, <1>4, <1>7 DEF CachesRight, ShapedFor, DocumentedShape
<1>10. CallsRight' /\ LookupsRight' /\ AnswersRight'
  BY <1>1 DEF CallsRight, LookupsRight, Split, AnswersRight, Answered, Storable,
              ShapedFor, DocumentedShape, lookup
<1> QED BY <1>8, <1>9, <1>10

-----------------------------------------------------------------------------
LEMMA NextIInv == IInv /\ [Next]_vars => IInv'
<1> SUFFICES ASSUME IInv, [Next]_vars PROVE IInv'
  OBVIOUS
<1>1. ASSUME NEW r \in Requests, NEW ids \in Lists, NEW nc \in BOOLEAN, NEW kind \in Kinds,
             Arrive(r, ids, nc, kind)
      PROVE  IInv'
  BY <1>1, ArriveIInv
<1>2. ASSUME NEW r \in Requests, LookupSearch(r) PROVE IInv'
  BY <1>2, LookupSearchIInv
<1>3. ASSUME NEW r \in Requests, LookupWhole(r) PROVE IInv'
  BY <1>3, LookupWholeIInv
<1>4. ASSUME NEW r \in Requests, LookupOne(r) PROVE IInv'
  BY <1>4, LookupOneIInv
<1>5. ASSUME NEW r \in Requests, EndLookup(r) PROVE IInv'
  BY <1>5, EndLookupIInv
<1>6. ASSUME NEW r \in Requests, FetchFails(r) PROVE IInv'
  BY <1>6, FetchFailsIInv
<1>7. ASSUME NEW r \in Requests, NEW found \in Parts(missed[r]), Fetch(r, found) PROVE IInv'
  BY <1>7, FetchIInv
<1>8. ASSUME NEW r \in Requests, Store(r) PROVE IInv'
  BY <1>8, StoreIInv
<1>9. ASSUME NEW r \in Requests, StoreSearch(r) PROVE IInv'
  BY <1>9, StoreSearchIInv
<1>10. ASSUME NEW r \in Requests, Return(r) PROVE IInv'
  BY <1>10, ReturnIInv
<1>11. ASSUME NEW detail \in writes, SetCache(detail) PROVE IInv'
  BY <1>11, SetCacheIInv
<1>12. CASE UNCHANGED vars
  BY <1>12 DEF vars, lookup, IInv, TypeOK, CachesRight, CallsRight, LookupsRight, Split,
               AnswersRight, Answered, Storable, ShapedFor, DocumentedShape
<1> QED BY <1>1, <1>2, <1>3, <1>4, <1>5, <1>6, <1>7, <1>8, <1>9, <1>10, <1>11, <1>12 DEF Next

(* What the cache, the requests and their answers hold is right.           *)
THEOREM IInvInvariant == Spec => []IInv
BY InitIInv, NextIInv, PTL DEF Spec

(* The types, whatever the lists, outputs and number of requests.          *)
THEOREM ReviewTypes == Spec => []TypeOK
<1>1. IInv => TypeOK
  BY DEF IInv
<1> QED BY <1>1, IInvInvariant, PTL

(***************************************************************************)
(* A review is about submissions that were asked for, each once, whatever  *)
(* the requests that share its cache have left there.                      *)
(***************************************************************************)
THEOREM ReviewsOnlyAsked == Spec => []OnlyAsked
<1>1. IInv => OnlyAsked
  BY DEF IInv, AnswersRight, RightFor, OnlyAsked
<1> QED BY <1>1, IInvInvariant, PTL

(***************************************************************************)
(* No submission is lost between the cache and the remote end: a review    *)
(* leaves out only what the remote end has left out of an answer.          *)
(***************************************************************************)
THEOREM ReviewsDropNothing == Spec => []NothingDropped
<1>1. IInv => NothingDropped
  BY DEF IInv, AnswersRight, RightFor, NothingDropped
<1> QED BY <1>1, IInvInvariant, PTL

(* The form of a review of several submissions, with its one exception.    *)
THEOREM ReviewsAsDocumented == Spec => []ListsAsDocumented
<1>1. IInv => ListsAsDocumented
  BY DEF IInv, AnswersRight, ShapedFor, ListsAsDocumented
<1> QED BY <1>1, IInvInvariant, PTL

=============================================================================
