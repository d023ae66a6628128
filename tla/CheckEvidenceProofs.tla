-------------------------- MODULE CheckEvidenceProofs --------------------------
(***************************************************************************)
(* CheckEvidence's properties for any number of photos, artifacts, calls,  *)
(* messages, restarts, days and mishaps.  IInv is the inductive invariant: *)
(*                                                                         *)
(*   QuotaInv   reservations are numbered without a gap, and a day's       *)
(*              charge never exceeds its quota                             *)
(*   MapInv     a request is mapped to its reservation and to no other     *)
(*   CallInv    what a call knows, by its kind and its next await          *)
(*   HeardInv   a photo waits for one call at a time, and its saved state  *)
(*              says for which                                             *)
(*   ItemInv    what the client's saved state promises of the server       *)
(*   BytesInv   an object belongs to the photo's current artifact          *)
(*   RowInv     rows, markers and results: whose they are and how old      *)
(*   QueueInv   messages name registered evidence; a row that is owed a    *)
(*              result has a message                                       *)
(*   EndInv     once the check is being completed every photo is at rest   *)
(***************************************************************************)
EXTENDS CheckEvidence, TLAPS, FiniteSetTheorems

Evidence == Rows \union tombs
Owner(a) == item[reserved[a].item]
Today(a) == reserved[a].day = day
Runs == {"presign", "put", "register"}
PastHead == {"write", "reread", "restart", "tag", "send"}
Settled == {"succeeded", "permanent_failure", "exhausted"}
Succeeded == {a \in Rows : art[a].st = "succeeded"}

QuotaInv ==
  /\ Reserved = 1 .. Cardinality(Reserved)
  /\ \A a \in Reserved : reserved[a].day <= day
  /\ Cardinality({a \in Reserved : reserved[a].day < day}) <= MaxArtifacts * day
  /\ Cardinality({a \in Reserved : reserved[a].day = day}) <= MaxArtifacts

MapInv ==
  /\ \A a \in Reserved : mapping[reserved[a].item][reserved[a].day] = a
  /\ \A i \in Items, d \in Days : mapping[i][d] # 0 =>
       mapping[i][d] \in Reserved /\ reserved[mapping[i][d]] = [item |-> i, day |-> d]

\* A registration of the photo whose saved state is x.  One that the client
\* gave up and that is not of the photo's artifact finds nothing.
RegisterOK(call, x) ==
  /\ call.pc \in {"head"} \union PastHead
  /\ call.a \in Reserved /\ reserved[call.a].item = call.i
  /\ call.fresh \/ call.pc \in PastHead => object[call.a] # "none" \/ call.a \in tombs
  /\ call.pc \in {"reread", "restart", "tag", "send"} => call.a \in Evidence
  /\ call.pc = "send" => object[call.a] = "registered" \/ call.a \in tombs
  /\ call.a # x.a =>
       call.pc = "head" /\ call.req = 0 /\ ~call.heard /\ ~Today(call.a) /\ object[call.a] = "none"
  /\ ~Today(call.a) /\ x.put = "no" /\ call.a = x.a => call.pc = "head" /\ object[call.a] = "none"

\* A restart acts on the generation its client saw exhausted, or on none.
RestartOK(call, x) ==
  /\ x.registered /\ ~call.fresh /\ call.req <= x.asked
  /\ call.pc \in {"tag", "send"} => call.gen = call.req
  /\ call.pc \in {"head", "write", "reread", "restart"} =>
       /\ call.gen < call.req
       /\ call.a \in Rows =>
            /\ call.gen <= art[call.a].gen
            /\ call.gen = art[call.a].gen =>
                 /\ art[call.a].st = "exhausted" /\ x.restart = call.req
                 /\ x.gen = call.gen /\ x.st \in {"idle", "sending"}

DeleteOK(call, x) ==
  /\ call.pc \in {"read", "write", "objects"}
  /\ call.a \in Reserved /\ reserved[call.a].item = call.i /\ x.a = call.a
  /\ x.deleting \/ x.st = "gone" \/ header = "completed"
  /\ call.pc = "objects" => call.a \in tombs
  /\ call.pc = "objects" /\ call.row => call.a \notin Rows
  /\ call.pc = "write" =>
       /\ call.row => call.a \in Evidence
       /\ ~call.row /\ x.registered => call.a \in tombs \ Rows
       /\ call.row /\ call.status = "completed" /\ call.a \in Rows
            => art[call.a].st = "permanent_failure"

CallOK(call, x) ==
  /\ call.kind = "none" => call = NoCall
  /\ call.kind \in Runs \union {"delete"} => call.i \in Items
  /\ call.kind = "presign" => call.pc \in {"read", "write"}
  /\ call.kind = "put" =>
       call.pc = "write" /\ call.a \in Reserved /\ reserved[call.a] = [item |-> call.i, day |-> day]
  /\ call.kind = "register" => RegisterOK(call, x) /\ (call.req # 0 => RestartOK(call, x))
  /\ call.pc = "restart" => call.req # 0
  /\ call.kind = "delete" => DeleteOK(call, x)
  /\ call.kind = "complete" => call.pc \in {"read", "write"} /\ call.i = NoItem

CallInv == \A c \in Calls : CallOK(calls[c], Heard(c))

\* What the saved state x says of the call the client waits for.
HeardOK(call, x) ==
  /\ call.kind = "delete" => x.deleting
  /\ call.kind \in Runs =>
       /\ x.st = "sending" /\ ~x.deleting
       /\ x.registered => call.kind = "register" /\ call.req # 0
       /\ call.req = x.restart
       /\ call.kind \in {"presign", "put"} => x.restart = 0
       /\ call.kind = "presign" => x.put = "no"
       /\ call.kind = "put" => x.put # "no"
       /\ call.kind \in {"put", "register"} => call.a = x.a
       /\ call.req # 0 /\ call.pc \in {"head", "write", "reread", "restart"} => call.gen = x.gen
       /\ call.kind = "register" /\ call.pc \in {"tag", "send"} /\ call.a \in Rows
            => art[call.a].gen = call.gen

\* The client waits for the call, on behalf of photo i.
Awaited(c, i) == calls[c].heard /\ calls[c].i = i
HeardInv ==
  \A i \in Items, c \in Calls : Awaited(c, i) =>
    /\ HeardOK(calls[c], item[i])
    /\ \A d \in Calls : Awaited(d, i) => c = d

\* An exhausted generation waits for the user, a finished one says how it ended.
Outcome(x) ==
  /\ x.st = "manual" => art[x.a].gen = x.gen /\ art[x.a].st = "exhausted"
  /\ x.st = "analyzed" => art[x.a].st = "succeeded"
  /\ x.st = "blocked" => art[x.a].st \in {"permanent_failure", "succeeded"}
  /\ x.restart # 0 /\ x.st # "gone" =>
       art[x.a].gen = x.restart \/ (art[x.a].gen = x.gen /\ art[x.a].st = "exhausted")

ItemOK(i, x) ==
  /\ IF x.a = 0 THEN x.put = "no" /\ ~x.registered /\ ~x.deleting
     ELSE x.a \in Reserved /\ reserved[x.a].item = i
  /\ x.st = "none" => x = NewItem
  /\ x.st = "gone" => ~x.deleting /\ (x.a = 0 \/ x.a \in tombs)
  /\ x.deleting => x.st \in {"idle", "analyzed", "manual", "stalled", "blocked"}
  /\ x.st \in {"polling", "analyzed", "stalled", "blocked"} => x.registered
  /\ x.registered =>
       /\ x.a \in Evidence /\ x.put = "done"
       /\ object[x.a] = "registered" \/ x.a \in tombs
       /\ x.a \notin tombs \intersect Rows
       /\ x.a \in Rows => Outcome(x)
  /\ x.restart # 0 => x.registered /\ x.st \in {"idle", "sending", "gone"} /\ x.gen < x.restart
  /\ x.restart <= x.asked /\ x.gen <= x.asked
ItemInv == \A i \in Items : ItemOK(i, item[i])

BytesInv ==
  /\ \A a \in Artifacts : object[a] # "none" => a \in Reserved
  /\ \A a \in Artifacts : object[a] = "pending" => Today(a)
  /\ \A a \in Reserved \ (tombs \union lateBytes) :
       object[a] # "none" => Owner(a).a = a /\ Owner(a).put # "no"

\* A deletion was asked for, unless the check was completed since.
LetGo(x) == x.deleting \/ x.st = "gone" \/ header = "completed"

RowInv ==
  /\ Evidence \subseteq Reserved
  /\ tombs \intersect Rows \subseteq lateRows
  /\ \A a \in tombs : Owner(a).a = a /\ LetGo(Owner(a))
  /\ \A a \in Artifacts \ Evidence : analysis[a] = NoAnalysis
  /\ \A a \in Rows :
       /\ Today(a) => object[a] # "none"
       /\ art[a].st # "queued" => object[a] = "registered" \/ a \in tombs
       /\ art[a].gen <= Owner(a).asked
       /\ analysis[a].st # "none" => analysis[a].gen <= art[a].gen
       /\ analysis[a].st \in {"analyzed", "failed"} => analysis[a].gen = art[a].gen
  /\ \A a \in Reserved : analysis[a].gen <= Owner(a).asked
  /\ ResultOfItsGeneration

\* A message for the row's generation is somewhere in the queue.
Message(a) ==
  \E m \in Messages : queue[m].pc # "free" /\ queue[m].a = a /\ queue[m].gen = art[a].gen
\* Photo state x trusts the queue to answer.
Trusting(x) ==
  x.registered /\ x.restart = 0 /\ x.st \in {"idle", "polling", "stalled"}
  /\ x.a \in Rows /\ art[x.a].st = "queued"
QueueInv ==
  /\ \A m \in Messages :
       IF queue[m].pc = "free" THEN queue[m] = NoMessage
       ELSE queue[m].a \in Evidence /\ (object[queue[m].a] = "registered" \/ queue[m].a \in tombs)
  /\ \A a \in Artifacts : art[a].lease # NoLease =>
       LET m == art[a].lease IN
       art[a].st = "running" /\ queue[m].a = a /\ queue[m].gen = art[a].gen /\ queue[m].pc \in {"running", "hidden"}
  /\ \A a \in Rows : art[a].st = "running" => Message(a)
  /\ \A i \in Items : Trusting(item[i]) => Message(item[i].a)

\* Nothing the photo still asks for can change the scorecard.
AtRest(x) ==
  /\ x.st \in {"none", "gone", "analyzed", "blocked"}
  /\ header # "completed" /\ x.deleting => x.st = "blocked"
Ending ==
  check.fin # "no" \/ header = "completed" \/ \E c \in Calls : calls[c].kind = "complete"
Folds(fold) ==
  /\ \A a \in Rows : art[a].st \in Settled
  /\ fold \ (lateRows \union lateDeletes) = Succeeded \ (lateRows \union lateDeletes)
EndInv ==
  /\ Ending => check.finished /\ \A i \in Items : AtRest(item[i])
  /\ \A c \in Calls : header # "completed" /\ Completing(c, "write") => Folds(calls[c].fold)
  /\ header = "completed" => Folds(scorecard)

Inv ==
  /\ QuotaInv /\ MapInv /\ CallInv /\ HeardInv /\ ItemInv
  /\ BytesInv /\ RowInv /\ QueueInv /\ EndInv
IInv == TypeOK /\ Inv

-----------------------------------------------------------------------------
(* Operators *)

\* The intervals up to the elements of S have a least one.
LEMMA LeastIn ==
  ASSUME NEW S, S \subseteq Nat, S # {}
  PROVE  Least(S) \in S
<1> DEFINE Upto == {0 .. x : x \in S}
<1>1. \A x \in S : 0 .. x \in FiniteSubsetsOf(Nat)
  <2> SUFFICES ASSUME NEW x \in S PROVE 0 .. x \in FiniteSubsetsOf(Nat)
    OBVIOUS
  <2>1. x \in Int /\ 0 \in Int /\ 0 .. x \subseteq Nat
    OBVIOUS
  <2>2. IsFiniteSet(0 .. x)
    BY <2>1, FS_Interval
  <2> QED BY <2>1, <2>2 DEF FiniteSubsetsOf
<1>2. PICK I \in Upto : \A J \in Upto : ~ (<<J, I>> \in StrictSubsetOrdering(Nat))
  <2>1. Upto \subseteq FiniteSubsetsOf(Nat) /\ Upto # {}
    BY <1>1
  <2>2. IsWellFoundedOn(StrictSubsetOrdering(Nat), FiniteSubsetsOf(Nat))
    BY FS_StrictSubsetOrderingWellFounded
  <2> HIDE DEF Upto
  <2> QED BY <2>1, <2>2, WFMin
<1>3. PICK x \in S : I = 0 .. x
  OBVIOUS
<1>4. \A y \in S : x <= y
  <2> SUFFICES ASSUME NEW y \in S, y < x PROVE FALSE
    OBVIOUS
  <2>1. 0 .. y \subseteq 0 .. x /\ x \in 0 .. x /\ x \notin 0 .. y /\ 0 .. y \in SUBSET Nat /\ 0 .. x \in SUBSET Nat
    OBVIOUS
  <2>2. <<0 .. y, 0 .. x>> \in StrictSubsetOrdering(Nat)
    BY <2>1 DEF StrictSubsetOrdering
  <2>3. 0 .. y \in Upto
    OBVIOUS
  <2> QED BY <1>2, <1>3, <2>2, <2>3
<1> QED BY <1>4 DEF Least

LEMMA FreeSlots ==
  /\ FreeCalls # {} => Least(FreeCalls) \in Calls /\ calls[Least(FreeCalls)] = NoCall
  /\ FreeMessages # {} => Least(FreeMessages) \in Messages /\ queue[Least(FreeMessages)] = NoMessage
<1>1. FreeCalls \subseteq Nat /\ FreeMessages \subseteq Nat
  BY BoundsAssumption DEF FreeCalls, FreeMessages, Calls, Messages
<1> QED BY <1>1, LeastIn DEF FreeCalls, FreeMessages

LEMMA Zeros ==
  /\ 0 \notin Artifacts /\ 0 \notin Messages /\ Artifacts \subseteq Nat /\ Messages \subseteq Nat
  /\ Days \subseteq Nat /\ Generations \subseteq Nat /\ 0 \in Generations /\ 0 \in Days
  /\ NoItem \notin Items
BY BoundsAssumption, ItemsAssumption DEF Artifacts, Messages, Days, Generations

LEMMA EmptyTypes ==
  /\ NoRow \in RowType /\ NoAnalysis \in AnalysisType /\ NoMessage \in MessageType
  /\ NoCall \in CallType /\ NewItem \in ItemType
<1>1. MaxReceives \in Nat /\ 0 \in 0 .. MaxReceives
  BY BoundsAssumption
<1>2. NoRow \in RowType /\ NoAnalysis \in AnalysisType
  BY Zeros DEF NoRow, RowType, NoAnalysis, AnalysisType
<1>3. NoMessage \in MessageType
  BY <1>1, Zeros DEF NoMessage, MessageType
<1>4. NoCall \in CallType
  BY Zeros DEF NoCall, CallType
<1>5. NewItem \in ItemType
  BY Zeros DEF NewItem, ItemType
<1> QED BY <1>2, <1>3, <1>4, <1>5

-----------------------------------------------------------------------------
(* A photo's saved state and at most one call change *)

\* What a call the client waits for rules out.
LEMMA AwaitedRun ==
  ASSUME IInv, NEW c \in Calls, calls[c].heard, calls[c].kind \in Runs
  PROVE  /\ calls[c].i \in Items /\ Heard(c).st = "sending" /\ ~Ending /\ ~LetGo(Heard(c))
         /\ \A d \in Calls : calls[d].kind = "delete" => calls[d].i # calls[c].i
         /\ \A d \in Calls : Awaited(d, calls[c].i) => d = c
         /\ \A a \in tombs : a \in Reserved /\ reserved[a].item # calls[c].i
<1>1. calls[c].i \in Items
  BY DEF IInv, Inv, CallInv, CallOK
<1>2. /\ Heard(c).st = "sending" /\ ~Heard(c).deleting
      /\ \A d \in Calls : Awaited(d, calls[c].i) => d = c
  BY <1>1 DEF IInv, Inv, HeardInv, HeardOK, Awaited, Heard
<1>3. ~Ending
  BY <1>1, <1>2 DEF IInv, Inv, EndInv, AtRest, Heard
<1>4. ~LetGo(Heard(c))
  BY <1>2, <1>3 DEF LetGo, Ending
<1>5. \A d \in Calls : calls[d].kind = "delete" => calls[d].i # calls[c].i
  <2> SUFFICES ASSUME NEW d \in Calls, calls[d].kind = "delete", calls[d].i = calls[c].i PROVE FALSE
    OBVIOUS
  <2>1. DeleteOK(calls[d], Heard(d))
    BY DEF IInv, Inv, CallInv, CallOK
  <2>2. Heard(d) = Heard(c)
    BY DEF Heard
  <2> HIDE DEF IInv
  <2> QED BY <1>4, <2>1, <2>2 DEF DeleteOK, LetGo
<1>6. \A a \in tombs : a \in Reserved /\ reserved[a].item # calls[c].i
  BY <1>4 DEF IInv, Inv, RowInv, Evidence, Owner, LetGo, Heard
<1> QED BY <1>1, <1>2, <1>3, <1>4, <1>5, <1>6

LEMMA NothingLeft == \A x : CallOK(NoCall, x) /\ ~NoCall.heard /\ NoCall.kind = "none"
BY DEF CallOK, NoCall, Runs

\* What photo i may become, whatever the calls are up to.
ItemMay(i, x) ==
  /\ ItemOK(i, x)
  /\ \A a \in Reserved \ (tombs \union lateBytes) :
       reserved[a].item = i /\ object[a] # "none" => x.a = a /\ x.put # "no"
  /\ \A a \in tombs : reserved[a].item = i => x.a = a /\ LetGo(x)
  /\ x.asked >= item[i].asked
  /\ Ending => AtRest(x)

\* The calls in D become call; the photo and its other calls agree with x.
CallsMay(i, x, D, call) ==
  /\ call = NoCall \/ (call.i = i /\ call.kind # "complete" /\ CallOK(call, x))
  /\ call.heard => /\ HeardOK(call, x)
                   /\ \A d \in Calls \ D : ~Awaited(d, i)
                   /\ \A d, e \in D : d = e
  /\ \A d \in Calls \ D : calls[d].i = i => CallOK(calls[d], x) /\ (calls[d].heard => HeardOK(calls[d], x))

ItemStep(i, x, D, call) ==
  /\ item' = [item EXCEPT ![i] = x]
  /\ calls' = [d \in Calls |-> IF d \in D THEN call ELSE calls[d]]
  /\ UNCHANGED <<server, check, day, history>>
  /\ mishaps' \in 0 .. MaxMishaps

LEMMA QueueKept ==
  ASSUME IInv, NEW i \in Items, NEW x \in ItemType, item' = [item EXCEPT ![i] = x],
         UNCHANGED <<server, queue>>, Trusting(x) => Message(x.a)
  PROVE  queue' \in [Messages -> MessageType] /\ QueueInv'
<1>1. /\ item'[i] = x /\ \A j \in Items \ {i} : item'[j] = item[j]
      /\ Rows' = Rows /\ Evidence' = Evidence
  BY DEF IInv, TypeOK, server, Rows, Evidence
<1>2. \A j \in Items : Trusting(item'[j]) => Message(item'[j].a)
  BY <1>1 DEF IInv, Inv, QueueInv
<1>3. \A a : Message(a)' = Message(a)
  BY DEF Message, server
<1>4. QueueInv'
  BY <1>1, <1>2, <1>3 DEF QueueInv, Trusting, server, IInv, Inv
<1> QED BY <1>4 DEF IInv, TypeOK

LEMMA ItemStepHolds ==
  ASSUME IInv, NEW i \in Items, NEW x \in ItemType, NEW D \in SUBSET Calls, NEW call \in CallType,
         ItemStep(i, x, D, call), ItemMay(i, x), CallsMay(i, x, D, call),
         queue' \in [Messages -> MessageType], QueueInv'
  PROVE  IInv'
<1>1. /\ item \in [Items -> ItemType] /\ item' \in [Items -> ItemType]
      /\ item'[i] = x /\ \A j \in Items \ {i} : item'[j] = item[j]
  BY DEF ItemStep, IInv, TypeOK
<1>2. /\ calls' \in [Calls -> CallType]
      /\ \A d \in D : calls'[d] = call
      /\ \A d \in Calls \ D : calls'[d] = calls[d]
  BY DEF ItemStep, IInv, TypeOK
<1>3. TypeOK'
  BY <1>1, <1>2 DEF ItemStep, server, history, IInv, TypeOK
<1>4. Rows' = Rows /\ Reserved' = Reserved /\ Evidence' = Evidence /\ Succeeded' = Succeeded
  BY DEF ItemStep, server, history, Rows, Reserved, Evidence, Succeeded
<1>5. QuotaInv' /\ MapInv'
  BY <1>4 DEF ItemStep, server, IInv, Inv, QuotaInv, MapInv
<1>6. CallInv'
  <2> SUFFICES ASSUME NEW d \in Calls PROVE CallOK(calls[d], Heard(d))'
    BY DEF CallInv
  <2>1. CallOK(calls'[d], item'[calls'[d].i])
    <3>1. CASE d \in D /\ call = NoCall
      BY <1>2, <3>1, NothingLeft
    <3>2. CASE d \in D /\ call # NoCall
      BY <1>1, <1>2, <3>2 DEF CallsMay
    <3>3. CASE d \notin D /\ calls[d].i = i
      BY <1>1, <1>2, <3>3 DEF CallsMay
    <3>4. CASE d \notin D /\ calls[d].i \in Items \ {i}
      BY <1>1, <1>2, <3>4 DEF IInv, Inv, CallInv, Heard
    <3>5. CASE d \notin D /\ calls[d].i \notin Items
      <4>1. CallOK(calls[d], Heard(d)) /\ calls'[d] = calls[d]
        BY <1>2, <3>5 DEF IInv, Inv, CallInv
      <4>2. calls[d].kind \notin Runs \union {"delete"}
        BY <3>5, <4>1 DEF CallOK
      <4> QED BY <4>1, <4>2 DEF CallOK, Runs
    <3> QED BY <3>1, <3>2, <3>3, <3>4, <3>5
  <2> HIDE DEF IInv
  <2>2. PICK one, z : one = calls'[d] /\ z = item'[one.i] /\ CallOK(one, z)
    BY <2>1
  <2>3. UNCHANGED <<server, day>>
    BY DEF ItemStep
  <2>4. CallOK(one, z)'
    <3>1. RegisterOK(one, z) => RegisterOK(one, z)'
      BY <1>4, <2>3 DEF RegisterOK, server, Today
    <3>2. RestartOK(one, z) => RestartOK(one, z)'
      BY <1>4, <2>3 DEF RestartOK, server
    <3>3. DeleteOK(one, z) => DeleteOK(one, z)'
      BY <1>4, <2>3 DEF DeleteOK, server
    <3> QED BY <1>4, <2>2, <2>3, <3>1, <3>2, <3>3 DEF CallOK, server
  <2> QED BY <2>2, <2>4 DEF Heard, CallOK, RegisterOK, RestartOK, DeleteOK
<1>7. HeardInv'
  <2> SUFFICES ASSUME NEW j \in Items, NEW c \in Calls, Awaited(c, j)'
               PROVE  /\ HeardOK(calls[c], item[j])'
                      /\ \A d \in Calls : Awaited(d, j)' => c = d
    BY DEF HeardInv
  <2>1. \A d \in Calls \ D : Awaited(d, j)' => Awaited(d, j)
    BY <1>2 DEF Awaited
  <2>2. \A d \in D : Awaited(d, j)' => call.heard /\ j = i
    BY <1>2, NothingLeft DEF Awaited, CallsMay
  <2>3. \A d \in Calls : Awaited(d, j)' => c = d
    BY <2>1, <2>2 DEF IInv, Inv, HeardInv, CallsMay
  <2>4. HeardOK(calls'[c], item'[j])
    <3>1. CASE c \in D
      BY <1>1, <1>2, <2>2, <3>1 DEF CallsMay
    <3>2. CASE c \notin D /\ j = i
      BY <1>1, <1>2, <2>1, <3>2 DEF CallsMay, Awaited
    <3>3. CASE c \notin D /\ j # i
      BY <1>1, <1>2, <2>1, <3>3 DEF IInv, Inv, HeardInv
    <3> QED BY <3>1, <3>2, <3>3
  <2> QED BY <2>3, <2>4, <1>4 DEF ItemStep, server, HeardOK
<1>8. ItemInv'
  <2>1. \A j \in Items : ItemOK(j, item'[j])
    BY <1>1 DEF ItemMay, IInv, Inv, ItemInv
  <2> QED BY <2>1, <1>4 DEF ItemInv, ItemOK, Outcome, ItemStep, server
<1>9. BytesInv' /\ RowInv'
  <2>0. \A a \in Reserved : reserved[a].item \in Items
    BY DEF Reserved, IInv, TypeOK
  <2>1. \A a \in Reserved \ (tombs \union lateBytes) :
           object[a] # "none" => Owner(a)'.a = a /\ Owner(a)'.put # "no"
    BY <1>1, <2>0 DEF ItemMay, Owner, IInv, Inv, BytesInv, ItemStep, server
  <2>2. \A a \in tombs : Owner(a)'.a = a /\ LetGo(Owner(a))'
    BY <1>1, <2>0 DEF ItemMay, Owner, IInv, Inv, RowInv, LetGo, Evidence, ItemStep, server
  <2>3. \A a \in Reserved : Owner(a)'.asked >= Owner(a).asked
    BY <1>1, <2>0 DEF ItemMay, Owner, ItemStep, server, ItemType, Generations
  <2>4. \A a \in Reserved : /\ Owner(a).asked \in Nat /\ Owner(a)'.asked \in Nat
                            /\ art[a].gen \in Nat /\ analysis[a].gen \in Nat
    BY <1>1, <2>0, Zeros DEF Owner, ItemStep, server, ItemType, IInv, TypeOK, RowType, AnalysisType, Reserved
  <2>5. BytesInv'
    BY <1>4, <2>1 DEF BytesInv, Today, ItemStep, server, history, IInv, Inv
  <2>6. Rows \subseteq Reserved
    BY DEF IInv, Inv, RowInv, Evidence
  <2>7. \A a \in Rows : art[a].gen <= Owner(a)'.asked
    BY <2>3, <2>4, <2>6 DEF IInv, Inv, RowInv
  <2>8. \A a \in Reserved : analysis[a].gen <= Owner(a)'.asked
    BY <2>3, <2>4 DEF IInv, Inv, RowInv
  <2>9. ResultOfItsGeneration'
    BY <1>4 DEF IInv, Inv, RowInv, ResultOfItsGeneration, IsCurrent, ItemStep, server
  <2>10. RowInv'
    BY <1>4, <2>2, <2>7, <2>8, <2>9 DEF RowInv, Today, ItemStep, server, history, IInv, Inv
  <2> QED BY <2>5, <2>10
<1>10. EndInv'
  <2>1. \A d \in Calls : calls'[d].kind = "complete" => calls'[d] = calls[d]
    BY <1>2, NothingLeft DEF CallsMay
  <2>2. Ending' => Ending
    BY <2>1 DEF Ending, ItemStep, server
  <2>3. Ending => \A j \in Items : AtRest(item'[j])
    BY <1>1 DEF ItemMay, IInv, Inv, EndInv
  <2>4. \A d \in Calls : Completing(d, "write")' => Completing(d, "write") /\ calls'[d] = calls[d]
    BY <2>1 DEF Completing
  <2> QED BY <1>4, <2>2, <2>3, <2>4 DEF EndInv, AtRest, Folds, ItemStep, server, history, IInv, Inv
<1> QED BY <1>3, <1>5, <1>6, <1>7, <1>8, <1>9, <1>10 DEF IInv, Inv

\* The photo stays the same evidence, and a restart under way stays under way.
Keeps(y, x) ==
  /\ x.a = y.a /\ x.registered = y.registered /\ (x.put = y.put \/ x.put # "no")
  /\ x.asked >= y.asked
  /\ LetGo(y) => LetGo(x)
  /\ y.restart # 0 /\ y.st \in {"idle", "sending"}
       => x.restart = y.restart /\ x.gen = y.gen /\ x.st \in {"idle", "sending"}

LEMMA KeptCall ==
  ASSUME IInv, NEW i \in Items, NEW x \in ItemType, Keeps(item[i], x), NEW d \in Calls, calls[d].i = i
  PROVE  CallOK(calls[d], x)
<1>1. CallOK(calls[d], item[i])
  BY DEF IInv, Inv, CallInv, Heard
<1>2. calls[d] \in CallType /\ item[i] \in ItemType
  BY DEF IInv, TypeOK
<1>3. calls[d].req \in Nat /\ x.asked \in Nat /\ item[i].asked \in Nat
  BY <1>2, Zeros DEF CallType, ItemType
<1>4. CASE calls[d].kind = "register"
  <2>1. RegisterOK(calls[d], x)
    BY <1>1, <1>4 DEF CallOK, RegisterOK, Keeps
  <2>2. calls[d].req # 0 => RestartOK(calls[d], x)
    <3>1. SUFFICES ASSUME calls[d].req # 0 PROVE RestartOK(calls[d], x)
      OBVIOUS
    <3>2. RestartOK(calls[d], item[i])
      BY <1>1, <1>4, <3>1 DEF CallOK
    <3> QED BY <1>3, <3>1, <3>2 DEF RestartOK, Keeps
  <2> QED BY <1>1, <1>4, <2>1, <2>2 DEF CallOK
<1>5. CASE calls[d].kind = "delete"
  <2>1. DeleteOK(calls[d], x)
    BY <1>1, <1>5 DEF CallOK, DeleteOK, Keeps, LetGo
  <2> QED BY <1>1, <1>5, <2>1 DEF CallOK
<1>6. CASE calls[d].kind \notin {"register", "delete"}
  BY <1>1, <1>6 DEF CallOK
<1> QED BY <1>4, <1>5, <1>6

LEMMA KeepingStep ==
  ASSUME IInv, NEW i \in Items, NEW x \in ItemType, NEW D \in SUBSET Calls, NEW call \in CallType,
         ItemStep(i, x, D, call), Keeps(item[i], x), ItemOK(i, x),
         UNCHANGED queue, Trusting(x) => Message(x.a),
         Ending => AtRest(x),
         call = NoCall \/ (call.i = i /\ call.kind # "complete" /\ CallOK(call, x)),
         call.heard => /\ HeardOK(call, x)
                       /\ \A d \in Calls \ D : ~Awaited(d, i)
                       /\ \A d, e \in D : d = e,
         \A d \in Calls \ D : Awaited(d, i) => HeardOK(calls[d], x)
  PROVE  IInv'
<1>1. CallsMay(i, x, D, call)
  BY KeptCall DEF CallsMay, Awaited
<1>2. \A a \in Reserved \ (tombs \union lateBytes) :
        reserved[a].item = i /\ object[a] # "none" => x.a = a /\ x.put # "no"
  BY DEF IInv, Inv, BytesInv, Owner, Keeps
<1>3. \A a \in tombs : reserved[a].item = i => x.a = a /\ LetGo(x)
  BY DEF IInv, Inv, RowInv, Owner, Keeps
<1>4. ItemMay(i, x)
  BY <1>2, <1>3 DEF ItemMay, Keeps
<1>5. queue' \in [Messages -> MessageType] /\ QueueInv'
  <2>1. item' = [item EXCEPT ![i] = x] /\ UNCHANGED <<server, queue>>
    BY DEF ItemStep
  <2> QED BY <2>1, QueueKept
<1> QED BY <1>1, <1>4, <1>5, ItemStepHolds

\* Nothing is awaited for a photo that is neither being sent nor deleted.
LEMMA NotAwaited ==
  ASSUME IInv, NEW i \in Items, item[i].st # "sending", NEW d \in Calls, Awaited(d, i)
  PROVE  calls[d].kind = "delete" /\ item[i].deleting
<1>1. HeardOK(calls[d], item[i])
  BY DEF IInv, Inv, HeardInv
<1>2. CallOK(calls[d], item[i]) /\ calls[d] \in CallType /\ i # NoItem
  BY Zeros DEF IInv, Inv, CallInv, Heard, Awaited, TypeOK
<1>3. calls[d].kind # "none" /\ calls[d].kind # "complete"
  BY <1>2 DEF CallOK, Awaited, NoCall
<1>4. calls[d].kind \in {"presign", "put", "register", "delete"}
  BY <1>2, <1>3 DEF CallType
<1> QED BY <1>1, <1>4 DEF HeardOK, Runs

\* Only the saved state of such a photo changes.
LEMMA PhotoStep ==
  ASSUME IInv, NEW i \in Items, NEW x \in ItemType, item' = [item EXCEPT ![i] = x],
         item[i].st # "sending", ~item[i].deleting,
         UNCHANGED <<server, queue, check, calls, day, history>>, mishaps' \in 0 .. MaxMishaps,
         Keeps(item[i], x), ItemOK(i, x), Trusting(x) => Message(x.a), Ending => AtRest(x)
  PROVE  IInv'
<1>1. calls' = [d \in Calls |-> IF d \in {} THEN NoCall ELSE calls[d]]
  BY DEF IInv, TypeOK
<1>2. ItemStep(i, x, {}, NoCall)
  BY <1>1 DEF ItemStep
<1>3. \A d \in Calls : ~Awaited(d, i)
  BY NotAwaited
<1>4. {} \in SUBSET Calls /\ NoCall \in CallType
  BY EmptyTypes
<1> HIDE DEF IInv
<1> QED BY <1>2, <1>3, <1>4, KeepingStep, NothingLeft

LEMMA CaptureHolds ==
  ASSUME IInv, NEW i \in Items, Capture(i)
  PROVE  IInv'
<1> DEFINE x == [NewItem EXCEPT !.st = "idle"]
<1>1. item[i] = NewItem /\ item[i].st = "none" /\ ~check.finished /\ mishaps \in 0 .. MaxMishaps
  BY DEF Capture, IInv, TypeOK, Inv, ItemInv, ItemOK
<1>2. item' = [item EXCEPT ![i] = x] /\ mishaps' = mishaps
      /\ UNCHANGED <<server, queue, check, calls, day, history>>
  BY <1>1 DEF Capture
<1>3. /\ x \in ItemType /\ x.st = "idle" /\ x.a = 0 /\ x.put = "no" /\ x.registered = FALSE
      /\ x.deleting = FALSE /\ x.restart = 0 /\ x.asked = 0 /\ x.gen = 0
  BY Zeros DEF NewItem, ItemType
<1>4. ~Ending
  BY <1>1 DEF IInv, Inv, EndInv
<1>5. item[i].deleting = FALSE /\ item[i].registered = FALSE /\ item[i].a = 0 /\ item[i].put = "no"
      /\ item[i].asked = 0 /\ item[i].restart = 0 /\ item[i].st # "gone"
  BY <1>1 DEF NewItem
<1> HIDE DEF x
<1>6. Keeps(item[i], x) /\ ItemOK(i, x) /\ ~Trusting(x)
  <2>0. x.asked >= item[i].asked
    BY <1>3, <1>5
  <2>4. LetGo(item[i]) => LetGo(x)
    BY <1>3, <1>5 DEF LetGo
  <2>1. Keeps(item[i], x)
    BY <2>0, <2>4, <1>3, <1>5 DEF Keeps
  <2>2. ItemOK(i, x)
    BY <1>3 DEF ItemOK
  <2>3. ~Trusting(x)
    BY <1>3 DEF Trusting
  <2> QED BY <2>1, <2>2, <2>3
<1> QED BY <1>1, <1>2, <1>3, <1>4, <1>5, <1>6, PhotoStep

\* The saved state of a photo, its fields and what they say.
LEMMA ItemFacts ==
  ASSUME IInv, NEW i \in Items
  PROVE  /\ item[i] \in ItemType /\ ItemOK(i, item[i])
         /\ item[i].asked \in Nat /\ item[i].restart \in Nat /\ item[i].gen \in Nat
         /\ item[i].a \in Artifacts \union {0}
         /\ mishaps \in 0 .. MaxMishaps /\ MaxMishaps \in Nat
BY Zeros, BoundsAssumption DEF IInv, TypeOK, Inv, ItemInv, ItemType

LEMMA TapRetryHolds ==
  ASSUME IInv, NEW i \in Items, TapRetry(i)
  PROVE  IInv'
<1> DEFINE y == item[i]
           x == [y EXCEPT !.st = "idle", !.asked = y.asked + 1,
                          !.restart = IF y.st = "manual" /\ y.registered THEN y.asked + 1 ELSE 0]
<1>1. /\ y \in ItemType /\ ItemOK(i, y) /\ y.st \in {"manual", "stalled"}
      /\ ~y.deleting /\ y.asked + 1 \in Generations
  BY ItemFacts, BoundsAssumption DEF TapRetry, ItemType, Generations
<1>2. item' = [item EXCEPT ![i] = x] /\ mishaps' = mishaps
      /\ UNCHANGED <<server, queue, check, calls, day, history>>
  BY DEF TapRetry
<1>3. /\ x \in ItemType /\ x.st = "idle" /\ x.a = y.a /\ x.put = y.put /\ x.registered = y.registered
      /\ x.deleting = y.deleting /\ x.gen = y.gen /\ x.asked = y.asked + 1
      /\ x.restart = IF y.st = "manual" /\ y.registered THEN y.asked + 1 ELSE 0
  BY <1>1, Zeros DEF ItemType
<1>4. y.restart = 0
  BY <1>1 DEF ItemOK
<1>5. ~Ending
  BY <1>1 DEF IInv, Inv, EndInv, AtRest
<1>6. y.asked \in Nat /\ y.gen \in Nat
  BY ItemFacts
<1> HIDE DEF x
<1>7. Keeps(y, x)
  BY <1>1, <1>3, <1>4, <1>6 DEF Keeps, LetGo
<1>8. ItemOK(i, x)
  BY <1>1, <1>3, <1>6 DEF ItemOK, Outcome
<1>9. Trusting(x) => Message(x.a)
  <2>1. Trusting(y) => Message(y.a)
    BY DEF IInv, Inv, QueueInv
  <2>2. Trusting(x) => Trusting(y)
    BY <1>1, <1>3, <1>4, <1>6 DEF Trusting
  <2> QED BY <1>3, <2>1, <2>2
<1> QED BY <1>1, <1>2, <1>3, <1>5, <1>7, <1>8, <1>9, ItemFacts, PhotoStep

LEMMA PollHolds ==
  ASSUME IInv, NEW i \in Items, Poll(i)
  PROVE  IInv'
<1> DEFINE y == item[i]
           found == analysis[y.a]
<1>0. PICK st \in Outcomes(found.st) : item' = [item EXCEPT ![i].st = st, ![i].gen = found.gen]
  BY DEF Poll
<1> DEFINE x == [y EXCEPT !.st = st, !.gen = found.gen]
<1>1. y \in ItemType /\ ItemOK(i, y) /\ y.st = "polling" /\ IsCurrent(y.a)
  BY ItemFacts DEF Poll
<1>2. item' = [item EXCEPT ![i] = x] /\ mishaps' = mishaps
      /\ UNCHANGED <<server, queue, check, calls, day, history>>
  BY <1>0 DEF Poll, IInv, TypeOK
<1>3. /\ y.registered /\ y.restart = 0 /\ ~y.deleting /\ y.a \in Reserved /\ reserved[y.a].item = i
      /\ y.a \in Artifacts
  BY <1>1 DEF ItemOK, Reserved
<1>4. found \in AnalysisType /\ found.gen <= y.asked
  BY <1>3 DEF IInv, TypeOK, Inv, RowInv, Owner
<1>5. /\ st \in {"analyzed", "manual", "blocked"}
      /\ st = "analyzed" => found.st = "analyzed"
      /\ st = "manual" => found.st = "retryable"
      /\ st = "blocked" => found.st # "retryable"
  BY <1>0 DEF Outcomes
<1>6. /\ x \in ItemType /\ x.st = st /\ x.a = y.a /\ x.put = y.put /\ x.registered = y.registered
      /\ x.deleting = y.deleting /\ x.gen = found.gen /\ x.asked = y.asked /\ x.restart = y.restart
  BY <1>1, <1>4, <1>5 DEF ItemType, AnalysisType
<1>7. ~Ending
  BY <1>1 DEF IInv, Inv, EndInv, AtRest
<1>8. y.a \in Rows =>
        /\ st = "manual" => art[y.a].gen = found.gen /\ art[y.a].st = "exhausted"
        /\ st = "analyzed" => art[y.a].st = "succeeded"
        /\ st = "blocked" => art[y.a].st \in {"permanent_failure", "succeeded"}
  <2>1. SUFFICES ASSUME y.a \in Rows
                 PROVE  /\ st = "manual" => art[y.a].gen = found.gen /\ art[y.a].st = "exhausted"
                        /\ st = "analyzed" => art[y.a].st = "succeeded"
                        /\ st = "blocked" => art[y.a].st \in {"permanent_failure", "succeeded"}
    OBVIOUS
  <2>2. found.gen = art[y.a].gen /\ found.st \in {"analyzed", "failed", "retryable"}
    BY <1>1, <1>4, <2>1 DEF IsCurrent, Rows, AnalysisType
  <2> QED BY <1>1, <1>5, <2>1, <2>2 DEF IInv, Inv, RowInv, ResultOfItsGeneration
<1>9. y.asked \in Nat
  BY ItemFacts
<1> HIDE DEF x
<1>10. Keeps(y, x)
  BY <1>1, <1>3, <1>6, <1>9 DEF Keeps, LetGo
<1>11. ItemOK(i, x)
  BY <1>1, <1>3, <1>4, <1>5, <1>6, <1>8 DEF ItemOK, Outcome
<1>12. ~Trusting(x)
  BY <1>5, <1>6 DEF Trusting
<1> QED BY <1>1, <1>2, <1>3, <1>6, <1>7, <1>10, <1>11, <1>12, ItemFacts, PhotoStep

LEMMA MishapCounted == ASSUME IInv, Mishap PROVE mishaps' \in 0 .. MaxMishaps
<1>1. mishaps \in 0 .. MaxMishaps /\ MaxMishaps \in Nat
  BY BoundsAssumption DEF IInv, TypeOK
<1> QED BY <1>1 DEF Mishap

LEMMA PollFailsHolds ==
  ASSUME IInv, NEW i \in Items, PollFails(i)
  PROVE  IInv'
<1>0. PICK st \in {"idle", "stalled"} : item' = [item EXCEPT ![i].st = st]
  BY DEF PollFails
<1> DEFINE y == item[i]
           x == [y EXCEPT !.st = st]
<1>1. y \in ItemType /\ ItemOK(i, y) /\ y.st = "polling" /\ mishaps' \in 0 .. MaxMishaps
  BY ItemFacts, MishapCounted DEF PollFails
<1>2. item' = [item EXCEPT ![i] = x] /\ UNCHANGED <<server, queue, check, calls, day, history>>
  BY <1>0 DEF PollFails
<1>3. /\ x \in ItemType /\ x.st = st /\ x.a = y.a /\ x.put = y.put /\ x.registered = y.registered
      /\ x.deleting = y.deleting /\ x.gen = y.gen /\ x.asked = y.asked /\ x.restart = y.restart
  BY <1>0, <1>1 DEF ItemType
<1>4. y.restart = 0 /\ ~y.deleting
  BY <1>1 DEF ItemOK
<1>5. ~Ending
  BY <1>1 DEF IInv, Inv, EndInv, AtRest
<1>6. y.asked \in Nat
  BY ItemFacts
<1> HIDE DEF x
<1>7. Keeps(y, x) /\ ItemOK(i, x)
  BY <1>0, <1>1, <1>3, <1>4, <1>6 DEF Keeps, LetGo, ItemOK, Outcome
<1>8. Trusting(x) => Message(x.a)
  <2>1. Trusting(y) => Message(y.a)
    BY DEF IInv, Inv, QueueInv
  <2>2. Trusting(x) => Trusting(y)
    BY <1>0, <1>1, <1>3 DEF Trusting
  <2> QED BY <1>3, <2>1, <2>2
<1> QED BY <1>1, <1>2, <1>3, <1>4, <1>5, <1>7, <1>8, PhotoStep

\* A new call for a photo that waits for nothing.
LEMMA BeginStep ==
  ASSUME IInv, NEW i \in Items, NEW x \in ItemType, NEW call \in CallType, Begin(call),
         item' = [item EXCEPT ![i] = x], \A d \in Calls : ~Awaited(d, i),
         UNCHANGED <<server, queue, check, day, mishaps, history>>,
         Keeps(item[i], x), ItemOK(i, x), Trusting(x) => Message(x.a), Ending => AtRest(x),
         call.i = i, call.kind # "complete", CallOK(call, x), HeardOK(call, x)
  PROVE  IInv'
<1> DEFINE c == Least(FreeCalls)
<1>1. c \in Calls /\ calls' = [calls EXCEPT ![c] = call]
  BY FreeSlots DEF Begin
<1> HIDE DEF c
<1>2. calls' = [d \in Calls |-> IF d \in {c} THEN call ELSE calls[d]]
  BY <1>1 DEF IInv, TypeOK
<1>3. ItemStep(i, x, {c}, call)
  BY <1>2, ItemFacts DEF ItemStep
<1>4. {c} \in SUBSET Calls
  BY <1>1
<1> HIDE DEF IInv
<1> QED BY <1>3, <1>4, KeepingStep

\* A call goes on or ends and its photo does not notice.
LEMMA QuietCall ==
  ASSUME IInv, NEW c \in Calls, NEW call \in CallType, calls[c].i \in Items,
         calls' = [calls EXCEPT ![c] = call],
         UNCHANGED <<server, queue, client, day, history>>, mishaps' \in 0 .. MaxMishaps,
         call = NoCall \/ (call.i = calls[c].i /\ call.kind # "complete" /\ CallOK(call, Heard(c))),
         call.heard => calls[c].heard /\ HeardOK(call, Heard(c))
  PROVE  IInv'
<1> DEFINE i == calls[c].i
           x == item[i]
<1>0. i \in Items /\ x \in ItemType
  BY ItemFacts
<1>1. calls' = [d \in Calls |-> IF d \in {c} THEN call ELSE calls[d]]
  BY DEF IInv, TypeOK
<1>2. ItemStep(i, x, {c}, call) /\ UNCHANGED queue
  BY <1>1 DEF ItemStep, client, IInv, TypeOK
<1>3. Keeps(item[i], x) /\ ItemOK(i, x) /\ {c} \in SUBSET Calls
  BY <1>0, ItemFacts DEF Keeps
<1>4. (Trusting(x) => Message(x.a)) /\ (Ending => AtRest(x))
  BY <1>0 DEF IInv, Inv, QueueInv, EndInv
<1>5. \A d \in Calls \ {c} : Awaited(d, i) => HeardOK(calls[d], x)
  BY <1>0 DEF IInv, Inv, HeardInv
<1>6. call.heard => /\ HeardOK(call, x)
                    /\ \A d \in Calls \ {c} : ~Awaited(d, i)
                    /\ \A d, e \in {c} : d = e
  BY <1>0 DEF IInv, Inv, HeardInv, Heard, Awaited
<1>7. call = NoCall \/ (call.i = i /\ call.kind # "complete" /\ CallOK(call, x))
  BY DEF Heard
<1> HIDE DEF i, x, IInv
<1> QED BY <1>0, <1>2, <1>3, <1>4, <1>5, <1>6, <1>7, KeepingStep

\* The photo hears from the call it waits for.
LEMMA AnsweredCall ==
  ASSUME IInv, NEW c \in Calls, NEW call \in CallType, NEW x \in ItemType,
         calls[c].i \in Items, calls[c].heard,
         item' = [item EXCEPT ![calls[c].i] = x], calls' = [calls EXCEPT ![c] = call],
         UNCHANGED <<server, queue, check, day, history>>, mishaps' \in 0 .. MaxMishaps,
         Keeps(Heard(c), x), ItemOK(calls[c].i, x), Trusting(x) => Message(x.a), Ending => AtRest(x),
         call = NoCall \/ (call.i = calls[c].i /\ call.kind # "complete" /\ CallOK(call, x)),
         call.heard => HeardOK(call, x)
  PROVE  IInv'
<1> DEFINE i == calls[c].i
<1>1. calls' = [d \in Calls |-> IF d \in {c} THEN call ELSE calls[d]]
  BY DEF IInv, TypeOK
<1>2. ItemStep(i, x, {c}, call) /\ UNCHANGED queue
  BY <1>1 DEF ItemStep
<1>3. \A d \in Calls \ {c} : ~Awaited(d, i)
  BY DEF IInv, Inv, HeardInv, Awaited
<1>4. Keeps(item[i], x)
  BY DEF Heard
<1> HIDE DEF i, IInv
<1> QED BY <1>2, <1>3, <1>4, KeepingStep DEF i

LEMMA ObservedPhoto ==
  ASSUME IInv, NEW i \in Items, StartRun(i), item[i].registered, item[i].restart = 0
  PROVE  IInv'
<1> DEFINE y == item[i]
           x == [y EXCEPT !.st = "polling"]
<1>1. y \in ItemType /\ ItemOK(i, y) /\ y.st = "idle" /\ ~y.deleting
  BY ItemFacts DEF StartRun
<1>2. item' = [item EXCEPT ![i] = x] /\ mishaps' = mishaps
      /\ UNCHANGED <<server, queue, check, calls, day, history>>
  BY DEF StartRun
<1>3. /\ x \in ItemType /\ x.st = "polling" /\ x.a = y.a /\ x.put = y.put /\ x.registered = y.registered
      /\ x.deleting = y.deleting /\ x.gen = y.gen /\ x.asked = y.asked /\ x.restart = y.restart
  BY <1>1 DEF ItemType
<1>4. ~Ending
  BY <1>1 DEF IInv, Inv, EndInv, AtRest
<1>5. y.asked \in Nat
  BY ItemFacts
<1> HIDE DEF x
<1>6. Keeps(y, x)
  BY <1>1, <1>3, <1>5 DEF Keeps, LetGo
<1>7. ItemOK(i, x)
  BY <1>1, <1>3 DEF ItemOK, Outcome
<1>8. Trusting(x) => Message(x.a)
  <2>1. Trusting(y) => Message(y.a)
    BY DEF IInv, Inv, QueueInv
  <2>2. Trusting(x) => Trusting(y)
    BY <1>1, <1>3 DEF Trusting
  <2> QED BY <1>3, <2>1, <2>2
<1> QED BY <1>1, <1>2, <1>3, <1>4, <1>6, <1>7, <1>8, ItemFacts, PhotoStep

\* The first leg of a run: a restart, a registration or a new reservation.
LEMMA FirstLegFits ==
  ASSUME IInv, NEW i \in Items, NEW x \in ItemType, item[i].st = "idle", ~item[i].deleting,
         ~(item[i].registered /\ item[i].restart = 0), x = [item[i] EXCEPT !.st = "sending"]
  PROVE  /\ FirstLeg(i) \in CallType /\ FirstLeg(i).i = i /\ FirstLeg(i).kind # "complete"
         /\ CallOK(FirstLeg(i), x) /\ HeardOK(FirstLeg(i), x)
<1> DEFINE y == item[i]
           call == FirstLeg(i)
<1>0. y \in ItemType /\ ItemOK(i, y) /\ y.asked \in Nat /\ y.restart \in Nat /\ y.gen \in Nat
  BY ItemFacts
<1>1. /\ x.st = "sending" /\ x.a = y.a /\ x.put = y.put /\ x.registered = y.registered
      /\ x.deleting = FALSE /\ x.gen = y.gen /\ x.asked = y.asked /\ x.restart = y.restart
  BY <1>0 DEF ItemType
<1>2. CASE y.restart # 0
  <2>1. call = [NoCall EXCEPT !.kind = "register", !.pc = "head", !.i = i, !.a = y.a,
                              !.req = y.restart, !.gen = y.gen, !.heard = TRUE]
    BY <1>2 DEF FirstLeg
  <2>2. /\ call \in CallType /\ call.kind = "register" /\ call.pc = "head" /\ call.i = i /\ call.a = y.a
        /\ call.req = y.restart /\ call.gen = y.gen /\ call.heard = TRUE /\ call.fresh = FALSE
    <3> HIDE DEF call, y
    <3>1. call = [kind |-> "register", pc |-> "head", i |-> i, a |-> y.a, heard |-> TRUE, fresh |-> FALSE,
                  req |-> y.restart, gen |-> y.gen, status |-> "none", row |-> FALSE, fold |-> {}]
      BY <2>1 DEF NoCall
    <3>2. y.a \in Artifacts \union {0} /\ y.restart \in Generations /\ y.gen \in Generations
      BY <1>0 DEF ItemType
    <3> HIDE DEF call
    <3> QED BY <3>1, <3>2 DEF CallType
  <2> HIDE DEF call
  <2>3. /\ y.registered /\ y.a \in Reserved /\ reserved[y.a].item = i /\ y.put = "done"
        /\ y.gen < y.restart /\ y.restart <= y.asked
        /\ y.a \in Rows => art[y.a].gen = y.restart \/ (art[y.a].gen = y.gen /\ art[y.a].st = "exhausted")
    BY <1>0, <1>2 DEF ItemOK, Outcome
  <2>4. RegisterOK(call, x)
    BY <1>1, <2>2, <2>3 DEF RegisterOK, PastHead
  <2>5. RestartOK(call, x)
    BY <1>0, <1>1, <2>2, <2>3 DEF RestartOK
  <2>6. CallOK(call, x) /\ HeardOK(call, x)
    BY <1>1, <1>2, <2>2, <2>4, <2>5 DEF CallOK, HeardOK, Runs
  <2> QED BY <2>2, <2>6 DEF call
<1>3. CASE y.restart = 0 /\ HasCheckpoint(i)
  <2>1. call = [NoCall EXCEPT !.kind = "register", !.pc = "head", !.i = i, !.a = y.a, !.heard = TRUE]
    BY <1>3 DEF FirstLeg
  <2>2. /\ call \in CallType /\ call.kind = "register" /\ call.pc = "head" /\ call.i = i /\ call.a = y.a
        /\ call.req = 0 /\ call.heard = TRUE /\ call.fresh = FALSE
    <3>1. call = [kind |-> "register", pc |-> "head", i |-> i, a |-> y.a, heard |-> TRUE, fresh |-> FALSE,
                  req |-> 0, gen |-> 0, status |-> "none", row |-> FALSE, fold |-> {}]
      BY <2>1 DEF NoCall
    <3>2. y.a \in Artifacts \union {0} /\ 0 \in Generations
      BY <1>0, Zeros DEF ItemType
    <3> HIDE DEF call
    <3> QED BY <3>1, <3>2 DEF CallType
  <2> HIDE DEF call
  <2>3. y.a \in Reserved /\ reserved[y.a].item = i /\ y.put # "no" /\ ~y.registered
    BY <1>0, <1>3 DEF ItemOK, HasCheckpoint
  <2>4. RegisterOK(call, x)
    BY <1>1, <2>2, <2>3 DEF RegisterOK, PastHead
  <2>5. CallOK(call, x) /\ HeardOK(call, x)
    BY <1>1, <1>3, <2>2, <2>3, <2>4 DEF CallOK, HeardOK, Runs
  <2> QED BY <2>2, <2>5 DEF call
<1>4. CASE y.restart = 0 /\ ~HasCheckpoint(i)
  <2>1. call = [NoCall EXCEPT !.kind = "presign", !.pc = "read", !.i = i, !.heard = TRUE, !.fresh = TRUE]
    BY <1>4 DEF FirstLeg
  <2>2. /\ call \in CallType /\ call.kind = "presign" /\ call.pc = "read" /\ call.i = i
        /\ call.req = 0 /\ call.heard = TRUE
    <3> HIDE DEF call, y
    <3>1. call = [kind |-> "presign", pc |-> "read", i |-> i, a |-> 0, heard |-> TRUE, fresh |-> TRUE,
                  req |-> 0, gen |-> 0, status |-> "none", row |-> FALSE, fold |-> {}]
      BY <2>1 DEF NoCall
    <3> HIDE DEF call
    <3> QED BY <3>1, Zeros DEF CallType
  <2> HIDE DEF call
  <2>3. y.put = "no" /\ ~y.registered
    BY <1>0, <1>4 DEF ItemOK, HasCheckpoint
  <2>4. CallOK(call, x) /\ HeardOK(call, x)
    BY <1>1, <1>4, <2>2, <2>3 DEF CallOK, HeardOK, Runs
  <2> QED BY <2>2, <2>4 DEF call
<1> QED BY <1>2, <1>3, <1>4

LEMMA StartRunHolds ==
  ASSUME IInv, NEW i \in Items, StartRun(i)
  PROVE  IInv'
<1> DEFINE y == item[i]
           x == [y EXCEPT !.st = "sending"]
<1>1. y \in ItemType /\ ItemOK(i, y) /\ y.st = "idle" /\ ~y.deleting /\ y.asked \in Nat
  BY ItemFacts DEF StartRun
<1>2. CASE y.registered /\ y.restart = 0
  BY <1>2, ObservedPhoto
<1>3. CASE ~(y.registered /\ y.restart = 0)
  <2>1. Begin(FirstLeg(i)) /\ item' = [item EXCEPT ![i] = x]
        /\ UNCHANGED <<server, queue, check, day, mishaps, history>>
    BY <1>3 DEF StartRun
  <2>2. /\ x \in ItemType /\ x.st = "sending" /\ x.a = y.a /\ x.put = y.put /\ x.registered = y.registered
        /\ x.deleting = y.deleting /\ x.gen = y.gen /\ x.asked = y.asked /\ x.restart = y.restart
    BY <1>1 DEF ItemType
  <2>3. ~Ending
    BY <1>1 DEF IInv, Inv, EndInv, AtRest
  <2>4. \A d \in Calls : ~Awaited(d, i)
    BY <1>1, NotAwaited
  <2>5. x = [item[i] EXCEPT !.st = "sending"]
    OBVIOUS
  <2> HIDE DEF x
  <2>6. Keeps(y, x)
    BY <1>1, <2>2 DEF Keeps, LetGo
  <2>7. ItemOK(i, x)
    BY <1>1, <2>2 DEF ItemOK, Outcome
  <2>8. ~Trusting(x)
    BY <2>2 DEF Trusting
  <2>9. /\ FirstLeg(i) \in CallType /\ FirstLeg(i).i = i /\ FirstLeg(i).kind # "complete"
        /\ CallOK(FirstLeg(i), x) /\ HeardOK(FirstLeg(i), x)
    BY <1>1, <1>3, <2>2, <2>5, FirstLegFits
  <2> HIDE DEF IInv
  <2> QED BY <2>1, <2>2, <2>3, <2>4, <2>6, <2>7, <2>8, <2>9, BeginStep
<1> QED BY <1>2, <1>3

LEMMA DeleteCallFits ==
  ASSUME IInv, NEW i \in Items, item[i].a # 0
  PROVE  /\ DeleteCall(i) \in CallType /\ DeleteCall(i).i = i /\ DeleteCall(i).kind = "delete"
         /\ DeleteCall(i).pc = "read" /\ DeleteCall(i).a = item[i].a
         /\ DeleteCall(i).a \in Reserved /\ reserved[DeleteCall(i).a].item = i
         /\ DeleteCall(i).heard = TRUE
<1> DEFINE call == DeleteCall(i)
<1>1. call = [kind |-> "delete", pc |-> "read", i |-> i, a |-> item[i].a, heard |-> TRUE, fresh |-> FALSE,
              req |-> 0, gen |-> 0, status |-> "none", row |-> FALSE, fold |-> {}]
  <2> DEFINE a == item[i].a
  <2>1. call = [NoCall EXCEPT !.kind = "delete", !.pc = "read", !.i = i, !.a = a, !.heard = TRUE]
    BY DEF DeleteCall
  <2> HIDE DEF a, call
  <2>2. call = [kind |-> "delete", pc |-> "read", i |-> i, a |-> a, heard |-> TRUE, fresh |-> FALSE,
                req |-> 0, gen |-> 0, status |-> "none", row |-> FALSE, fold |-> {}]
    BY <2>1 DEF NoCall
  <2> QED BY <2>2 DEF a
<1>2. item[i].a \in Artifacts \union {0} /\ item[i].a \in Reserved /\ reserved[item[i].a].item = i
  BY ItemFacts DEF ItemOK
<1> HIDE DEF call
<1>3. /\ call \in CallType /\ call.i = i /\ call.kind = "delete" /\ call.pc = "read"
      /\ call.a = item[i].a /\ call.heard = TRUE
  BY <1>1, <1>2, Zeros DEF CallType
<1> QED BY <1>2, <1>3 DEF call

LEMMA AskDeleteHolds ==
  ASSUME IInv, NEW i \in Items, AskDelete(i)
  PROVE  IInv'
<1> DEFINE y == item[i]
<1>1. /\ y \in ItemType /\ ItemOK(i, y) /\ ~y.deleting /\ y.asked \in Nat
      /\ y.st \in {"idle", "analyzed", "manual", "stalled", "blocked"}
      /\ check.finished => y.st \in {"manual", "stalled", "blocked"}
  BY ItemFacts DEF AskDelete
<1>2. UNCHANGED <<server, queue, check, day, mishaps, history>>
  BY DEF AskDelete
<1>3. CASE y.a = 0
  <2> DEFINE x == [y EXCEPT !.st = "gone"]
  <2>1. item' = [item EXCEPT ![i] = x] /\ UNCHANGED calls
    BY <1>3 DEF AskDelete
  <2>2. /\ x \in ItemType /\ x.st = "gone" /\ x.a = y.a /\ x.put = y.put /\ x.registered = y.registered
        /\ x.deleting = y.deleting /\ x.gen = y.gen /\ x.asked = y.asked /\ x.restart = y.restart
    BY <1>1 DEF ItemType
  <2>3. ~y.registered /\ y.restart = 0
    BY <1>1, <1>3 DEF ItemOK
  <2> HIDE DEF x
  <2>4. Keeps(y, x)
    BY <1>1, <2>2, <2>3 DEF Keeps, LetGo
  <2>5. ItemOK(i, x) /\ ~Trusting(x)
    BY <1>1, <1>3, <2>2, <2>3 DEF ItemOK, Trusting
  <2>6. AtRest(x)
    BY <1>1, <2>2 DEF AtRest
  <2> QED BY <1>1, <1>2, <2>1, <2>2, <2>4, <2>5, <2>6, ItemFacts, PhotoStep
<1>4. CASE y.a # 0
  <2> DEFINE x == [y EXCEPT !.deleting = TRUE]
             call == DeleteCall(i)
  <2>1. item' = [item EXCEPT ![i] = x] /\ Begin(call)
    BY <1>4 DEF AskDelete
  <2>2. /\ x \in ItemType /\ x.st = y.st /\ x.a = y.a /\ x.put = y.put /\ x.registered = y.registered
        /\ x.deleting = TRUE /\ x.gen = y.gen /\ x.asked = y.asked /\ x.restart = y.restart
    BY <1>1 DEF ItemType
  <2> HIDE DEF x
  <2>3. Keeps(y, x)
    BY <1>1, <2>2 DEF Keeps, LetGo
  <2>4. ItemOK(i, x)
    BY <1>1, <1>4, <2>2 DEF ItemOK, Outcome
  <2>5. Trusting(x) => Message(x.a)
    <3>1. Trusting(x) => Trusting(y)
      BY <2>2 DEF Trusting
    <3> QED BY <2>2, <3>1 DEF IInv, Inv, QueueInv
  <2>6. Ending => AtRest(x)
    BY <1>1, <2>2 DEF IInv, Inv, EndInv, AtRest
  <2>7. \A d \in Calls : ~Awaited(d, i)
    BY <1>1, NotAwaited
  <2>8. call \in CallType /\ call.i = i /\ call.kind = "delete" /\ call.pc = "read" /\ call.a = y.a
        /\ call.a \in Reserved /\ reserved[call.a].item = i
    BY <1>4, DeleteCallFits
  <2> HIDE DEF call
  <2>9. CallOK(call, x) /\ HeardOK(call, x)
    BY <2>2, <2>8 DEF CallOK, DeleteOK, HeardOK, Runs
  <2> HIDE DEF IInv
  <2> QED BY <1>2, <2>1, <2>2, <2>3, <2>4, <2>5, <2>6, <2>7, <2>8, <2>9, BeginStep
<1> QED BY <1>3, <1>4

LEMMA ResumeDeleteHolds ==
  ASSUME IInv, NEW i \in Items, ResumeDelete(i)
  PROVE  IInv'
<1> DEFINE y == item[i]
           call == DeleteCall(i)
<1>1. /\ y \in ItemType /\ ItemOK(i, y) /\ y.deleting /\ ~BeingDeleted(i) /\ y.asked \in Nat
      /\ Begin(call) /\ UNCHANGED <<server, queue, client, day, mishaps, history>>
  BY ItemFacts DEF ResumeDelete
<1>2. y.a # 0 /\ y.st # "sending"
  BY <1>1 DEF ItemOK
<1>3. item' = [item EXCEPT ![i] = y]
  BY <1>1 DEF client, IInv, TypeOK
<1>4. \A d \in Calls : ~Awaited(d, i)
  BY <1>1, <1>2, NotAwaited DEF BeingDeleted, Awaited
<1>5. Keeps(y, y) /\ (Trusting(y) => Message(y.a)) /\ (Ending => AtRest(y))
  <2>1. Keeps(y, y)
    BY <1>1 DEF Keeps
  <2> QED BY <2>1 DEF IInv, Inv, QueueInv, EndInv
<1>6. call \in CallType /\ call.i = i /\ call.kind = "delete" /\ call.pc = "read" /\ call.a = y.a
      /\ call.a \in Reserved /\ reserved[call.a].item = i
  BY <1>2, DeleteCallFits
<1> HIDE DEF call
<1>7. CallOK(call, y) /\ HeardOK(call, y)
  BY <1>1, <1>6 DEF CallOK, DeleteOK, HeardOK, Runs
<1>8. UNCHANGED <<server, queue, check, day, mishaps, history>>
  BY <1>1 DEF client
<1> HIDE DEF IInv, y
<1> QED BY <1>1, <1>3, <1>4, <1>5, <1>6, <1>7, <1>8, BeginStep DEF y

\* What is known of a call under way.
LEMMA CallFacts ==
  ASSUME IInv, NEW c \in Calls, calls[c].kind \in Runs \union {"delete"}
  PROVE  /\ calls[c] \in CallType /\ CallOK(calls[c], Heard(c)) /\ calls[c].i \in Items
         /\ Heard(c) = item[calls[c].i] /\ Heard(c) \in ItemType /\ ItemOK(calls[c].i, Heard(c))
         /\ calls[c].heard => HeardOK(calls[c], Heard(c))
<1>1. calls[c] \in CallType /\ CallOK(calls[c], Heard(c)) /\ Heard(c) = item[calls[c].i]
  BY DEF IInv, TypeOK, Inv, CallInv, Heard
<1>2. calls[c].i \in Items
  BY <1>1 DEF CallOK
<1>3. calls[c].heard => HeardOK(calls[c], Heard(c))
  BY <1>1, <1>2 DEF IInv, Inv, HeardInv, Awaited
<1> QED BY <1>1, <1>2, <1>3, ItemFacts

\* A call ends and its photo does not hear of it.
LEMMA CallEnds ==
  ASSUME IInv, NEW c \in Calls, calls[c].kind \in Runs \union {"delete"}, End(c),
         UNCHANGED <<server, queue, client, day, history>>, mishaps' \in 0 .. MaxMishaps
  PROVE  IInv'
<1>1. calls[c].i \in Items /\ NoCall \in CallType /\ ~NoCall.heard /\ calls' = [calls EXCEPT ![c] = NoCall]
  BY CallFacts, EmptyTypes, NothingLeft DEF End
<1> HIDE DEF IInv
<1> QED BY <1>1, QuietCall

\* A run ends, or is given up, and its photo goes back to be resumed.
LEMMA RunGivenUp ==
  ASSUME IInv, NEW c \in Calls, calls[c].heard, calls[c].kind \in Runs, NEW call \in CallType,
         call = NoCall \/ call = [calls[c] EXCEPT !.heard = FALSE],
         calls' = [calls EXCEPT ![c] = call],
         item' = [item EXCEPT ![calls[c].i] = [Heard(c) EXCEPT !.st = "idle"]],
         UNCHANGED <<server, queue, check, day, history>>, mishaps' \in 0 .. MaxMishaps
  PROVE  IInv'
<1> DEFINE i == calls[c].i
           y == Heard(c)
           x == [y EXCEPT !.st = "idle"]
<1>1. /\ y \in ItemType /\ ItemOK(i, y) /\ i \in Items /\ HeardOK(calls[c], y) /\ y = item[i]
      /\ calls[c] \in CallType
  BY CallFacts
<1>2. /\ x \in ItemType /\ x.st = "idle" /\ x.a = y.a /\ x.put = y.put /\ x.registered = y.registered
      /\ x.deleting = y.deleting /\ x.gen = y.gen /\ x.asked = y.asked /\ x.restart = y.restart
  BY <1>1 DEF ItemType
<1>3. y.st = "sending" /\ ~y.deleting /\ (y.registered => y.restart # 0) /\ ~Ending /\ y.asked \in Nat
  BY <1>1, AwaitedRun, ItemFacts DEF HeardOK
<1> HIDE DEF x, y
<1>4. Keeps(y, x)
  BY <1>2, <1>3 DEF Keeps, LetGo
<1>5. ItemOK(i, x) /\ ~Trusting(x)
  <2>1. ItemOK(i, x)
    BY <1>1, <1>2, <1>3 DEF ItemOK, Outcome
  <2> QED BY <1>2, <1>3, <2>1 DEF Trusting
<1>6. call.heard = FALSE
  BY <1>1, NothingLeft DEF CallType, NoCall
<1>7. call = NoCall \/ (call.i = i /\ call.kind # "complete" /\ CallOK(call, x))
  <2>1. SUFFICES ASSUME call = [calls[c] EXCEPT !.heard = FALSE]
                 PROVE  call.i = i /\ call.kind # "complete" /\ CallOK(call, x)
    OBVIOUS
  <2>2. CallOK(calls[c], x)
    BY <1>1, <1>2, <1>4, KeptCall
  <2>3. /\ call.kind = calls[c].kind /\ call.pc = calls[c].pc /\ call.i = i /\ call.a = calls[c].a
        /\ call.fresh = calls[c].fresh /\ call.req = calls[c].req /\ call.gen = calls[c].gen
    BY <1>1, <2>1 DEF CallType
  <2>4. RegisterOK(calls[c], x) => RegisterOK(call, x)
    BY <1>6, <2>3 DEF RegisterOK
  <2>5. RestartOK(calls[c], x) => RestartOK(call, x)
    BY <2>3 DEF RestartOK
  <2> QED BY <2>2, <2>3, <2>4, <2>5 DEF CallOK, Runs
<1> HIDE DEF IInv, i
<1> QED BY <1>1, <1>2, <1>3, <1>4, <1>5, <1>6, <1>7, AnsweredCall DEF i, x, y

-----------------------------------------------------------------------------
(* The reads of a call *)

Pcs == {"idle", "head", "read", "write", "reread", "restart", "tag", "send", "objects"}
\* A call whose next await is pc, holding generation gen.
AtPc(old, pc, gen) == [old EXCEPT !.pc = pc, !.gen = gen]

LEMMA PcMoves ==
  ASSUME NEW old \in CallType, NEW pc \in Pcs, NEW gen \in Generations
  PROVE  /\ AtPc(old, pc, gen) \in CallType /\ AtPc(old, pc, gen).pc = pc /\ AtPc(old, pc, gen).gen = gen
         /\ AtPc(old, pc, gen).kind = old.kind /\ AtPc(old, pc, gen).i = old.i
         /\ AtPc(old, pc, gen).a = old.a /\ AtPc(old, pc, gen).heard = old.heard
         /\ AtPc(old, pc, gen).fresh = old.fresh /\ AtPc(old, pc, gen).req = old.req
         /\ AtPc(old, pc, gen).status = old.status /\ AtPc(old, pc, gen).row = old.row
         /\ AtPc(old, pc, gen).fold = old.fold
BY DEF CallType, Pcs, AtPc

LEMMA GotoFields ==
  ASSUME IInv, NEW c \in Calls, NEW pc \in Pcs, Goto(c, pc)
  PROVE  \E call \in CallType :
           /\ calls' = [calls EXCEPT ![c] = call]
           /\ call.pc = pc /\ call.gen = calls[c].gen /\ call.kind = calls[c].kind /\ call.i = calls[c].i
           /\ call.a = calls[c].a /\ call.heard = calls[c].heard /\ call.fresh = calls[c].fresh
           /\ call.req = calls[c].req /\ call.status = calls[c].status /\ call.row = calls[c].row
<1>1. calls[c] \in CallType /\ calls[c].gen \in Generations
  BY DEF IInv, TypeOK, CallType
<1>2. calls' = [calls EXCEPT ![c] = AtPc(calls[c], pc, calls[c].gen)]
  BY <1>1 DEF Goto, AtPc, CallType
<1> DEFINE call == AtPc(calls[c], pc, calls[c].gen)
<1>3. /\ call \in CallType
      /\ call.pc = pc /\ call.gen = calls[c].gen /\ call.kind = calls[c].kind /\ call.i = calls[c].i
      /\ call.a = calls[c].a /\ call.heard = calls[c].heard /\ call.fresh = calls[c].fresh
      /\ call.req = calls[c].req /\ call.status = calls[c].status /\ call.row = calls[c].row
  BY <1>1, PcMoves
<1> HIDE DEF call
<1> QED BY <1>2, <1>3 DEF call

LEMMA PresignGoesOn ==
  ASSUME IInv, NEW c \in Calls, calls[c].kind = "presign", NEW pc \in {"read", "write"}, Goto(c, pc),
         UNCHANGED <<server, queue, client, day, history>>, mishaps' \in 0 .. MaxMishaps
  PROVE  IInv'
<1>0. pc \in Pcs
  BY DEF Pcs
<1>1. PICK call \in CallType :
        /\ calls' = [calls EXCEPT ![c] = call]
        /\ call.pc = pc /\ call.kind = "presign" /\ call.i = calls[c].i
        /\ call.heard = calls[c].heard /\ call.req = calls[c].req
  BY <1>0, GotoFields
<1>2. calls[c].i \in Items /\ (calls[c].heard => HeardOK(calls[c], Heard(c)))
  BY CallFacts DEF Runs
<1>3. CallOK(call, Heard(c))
  BY <1>1, <1>2 DEF CallOK, Runs
<1>4. call.heard => calls[c].heard /\ HeardOK(call, Heard(c))
  BY <1>1, <1>2 DEF HeardOK, Runs
<1> HIDE DEF IInv
<1> QED BY <1>1, <1>2, <1>3, <1>4, QuietCall

\* A heard presign: nothing of its photo is registered, restarted or deleted.
LEMMA PresignFacts ==
  ASSUME IInv, NEW c \in Calls, calls[c].kind = "presign", calls[c].heard
  PROVE  /\ Heard(c).put = "no" /\ ~Heard(c).registered /\ Heard(c).restart = 0 /\ calls[c].req = 0
         /\ \A d \in Calls \ {c} : calls[d].i = calls[c].i => ~calls[d].heard /\ calls[d].kind # "delete"
         /\ \A d \in Calls \ {c} :
              calls[d].i = calls[c].i /\ calls[d].kind = "register" => calls[d].req = 0
<1>1. HeardOK(calls[c], Heard(c)) /\ Heard(c) = item[calls[c].i] /\ calls[c].i \in Items
  BY CallFacts DEF Runs
<1>2. Heard(c).put = "no" /\ ~Heard(c).registered /\ Heard(c).restart = 0 /\ calls[c].req = 0
  BY <1>1 DEF HeardOK, Runs
<1>3. \A d \in Calls \ {c} : calls[d].i = calls[c].i => ~calls[d].heard /\ calls[d].kind # "delete"
  BY AwaitedRun DEF Awaited, Runs
<1>4. \A d \in Calls \ {c} :
        calls[d].i = calls[c].i /\ calls[d].kind = "register" => calls[d].req = 0
  BY <1>1, <1>2 DEF IInv, Inv, CallInv, CallOK, RestartOK, Heard
<1> QED BY <1>2, <1>3, <1>4

LEMMA PresignedFields ==
  ASSUME IInv, NEW c \in Calls, calls[c].kind = "presign", calls[c].heard, NEW a \in Artifacts, Presigned(c, a)
  PROVE  \E x \in ItemType, call \in CallType :
           /\ item' = [item EXCEPT ![calls[c].i] = x] /\ calls' = [calls EXCEPT ![c] = call]
           /\ x.a = a /\ x.put = "uncertain" /\ x.st = Heard(c).st /\ x.registered = Heard(c).registered
           /\ x.gen = Heard(c).gen /\ x.restart = Heard(c).restart /\ x.asked = Heard(c).asked
           /\ x.deleting = Heard(c).deleting
           /\ call.kind = "put" /\ call.pc = "write" /\ call.a = a /\ call.i = calls[c].i
           /\ call.req = calls[c].req /\ call.heard
<1> DEFINE y == Heard(c)
           x == [y EXCEPT !.a = a, !.put = "uncertain"]
           old == calls[c]
           call == [old EXCEPT !.kind = "put", !.pc = "write", !.a = a]
<1>1. y \in ItemType /\ old \in CallType /\ old.i \in Items
  BY CallFacts DEF Runs
<1>2. item' = [item EXCEPT ![old.i] = x] /\ calls' = [calls EXCEPT ![c] = call]
  BY DEF Presigned, Heard
<1> HIDE DEF y, old
<1>3. /\ x \in ItemType /\ x.a = a /\ x.put = "uncertain" /\ x.st = y.st /\ x.registered = y.registered
      /\ x.gen = y.gen /\ x.restart = y.restart /\ x.asked = y.asked /\ x.deleting = y.deleting
  BY <1>1 DEF ItemType
<1>4. /\ call \in CallType /\ call.kind = "put" /\ call.pc = "write" /\ call.a = a /\ call.i = old.i
      /\ call.req = old.req /\ call.heard = old.heard
  BY <1>1 DEF CallType
<1> HIDE DEF x, call
<1> QED BY <1>2, <1>3, <1>4 DEF y, old

\* The reservation of today's request is adopted.
LEMMA ReplayAdopted ==
  ASSUME IInv, NEW c \in Calls, calls[c].kind = "presign", calls[c].heard,
         NEW a \in Artifacts, a = mapping[calls[c].i][day], Presigned(c, a),
         UNCHANGED <<server, queue, check, day, history>>, mishaps' \in 0 .. MaxMishaps
  PROVE  IInv'
<1> DEFINE i == calls[c].i
           y == Heard(c)
<1>0. /\ i \in Items /\ y = item[i] /\ ItemOK(i, y) /\ y \in ItemType
      /\ y.st = "sending" /\ ~Ending /\ y.asked \in Nat
  BY CallFacts, AwaitedRun, ItemFacts DEF Runs
<1>1. /\ y.put = "no" /\ ~y.registered /\ y.restart = 0 /\ calls[c].req = 0
      /\ \A d \in Calls \ {c} : calls[d].i = i => ~calls[d].heard /\ calls[d].kind # "delete"
      /\ \A d \in Calls \ {c} : calls[d].i = i /\ calls[d].kind = "register" => calls[d].req = 0
  BY PresignFacts
<1>2. PICK x \in ItemType, call \in CallType :
        /\ item' = [item EXCEPT ![i] = x] /\ calls' = [calls EXCEPT ![c] = call]
        /\ x.a = a /\ x.put = "uncertain" /\ x.st = y.st /\ x.registered = y.registered
        /\ x.gen = y.gen /\ x.restart = y.restart /\ x.asked = y.asked /\ x.deleting = y.deleting
        /\ call.kind = "put" /\ call.pc = "write" /\ call.a = a /\ call.i = i
        /\ call.req = calls[c].req /\ call.heard
  BY PresignedFields
<1>3. a # 0 /\ day \in Days /\ a \in Reserved /\ reserved[a] = [item |-> i, day |-> day]
      /\ reserved[a].item = i /\ reserved[a].day = day
  <2>1. a # 0 /\ day \in Days
    BY Zeros DEF IInv, TypeOK
  <2>2. a \in Reserved /\ reserved[a] = [item |-> i, day |-> day]
    BY <1>0, <2>1 DEF IInv, Inv, MapInv
  <2> QED BY <2>1, <2>2
<1> HIDE DEF i, y
<1>4. ItemStep(i, x, {c}, call)
  BY <1>2 DEF ItemStep, IInv, TypeOK
<1>5. ItemOK(i, x) /\ ~Trusting(x)
  <2>1. ~y.deleting
    BY <1>0 DEF ItemOK
  <2> QED BY <1>0, <1>1, <1>2, <1>3, <2>1 DEF ItemOK, Trusting
<1>6. ItemMay(i, x)
  <2>1. \A b \in Reserved \ (tombs \union lateBytes) : reserved[b].item = i => object[b] = "none"
    BY <1>0, <1>1 DEF IInv, Inv, BytesInv, Owner
  <2>2. \A b \in tombs : reserved[b].item # i
    BY AwaitedRun DEF i, Runs
  <2> QED BY <1>0, <1>2, <1>5, <2>1, <2>2 DEF ItemMay
<1>7. CallOK(call, x) /\ HeardOK(call, x)
  <2>1. ~y.deleting
    BY <1>0 DEF ItemOK
  <2>2. CallOK(call, x)
    BY <1>0, <1>2, <1>3 DEF CallOK, Runs
  <2> QED BY <1>0, <1>1, <1>2, <2>1, <2>2 DEF HeardOK, Runs
<1>8. \A d \in Calls \ {c} : calls[d].i = i => CallOK(calls[d], x)
  <2> SUFFICES ASSUME NEW d \in Calls \ {c}, calls[d].i = i PROVE CallOK(calls[d], x)
    OBVIOUS
  <2>1. CallOK(calls[d], y) /\ calls[d].kind # "delete" /\ ~calls[d].heard
        /\ (calls[d].kind = "register" => calls[d].req = 0)
    BY <1>0, <1>1 DEF IInv, Inv, CallInv, Heard
  <2>2. CASE calls[d].kind = "register"
    <3>1. RegisterOK(calls[d], y) /\ calls[d].a \in Reserved /\ reserved[calls[d].a].item = i
      BY <2>1, <2>2 DEF CallOK, RegisterOK
    <3>2. Today(calls[d].a) => calls[d].a = a
      BY <3>1 DEF Today, IInv, Inv, MapInv, i
    <3>3. calls[d].a # a =>
            calls[d].pc = "head" /\ ~Today(calls[d].a) /\ object[calls[d].a] = "none"
      BY <1>1, <3>1, <3>2 DEF RegisterOK
    <3>4. RegisterOK(calls[d], x)
      BY <1>2, <2>1, <2>2, <3>1, <3>3 DEF RegisterOK
    <3> QED BY <2>1, <2>2, <3>4 DEF CallOK
  <2> QED BY <2>1, <2>2 DEF CallOK
<1>9. CallsMay(i, x, {c}, call)
  BY <1>1, <1>2, <1>7, <1>8 DEF CallsMay, Awaited
<1>10. queue' \in [Messages -> MessageType] /\ QueueInv'
  BY <1>0, <1>2, <1>5, QueueKept
<1> HIDE DEF IInv
<1> QED BY <1>0, <1>4, <1>6, <1>9, <1>10, ItemStepHolds

LEMMA PresignReadHolds ==
  ASSUME IInv, NEW c \in Calls, PresignRead(c)
  PROVE  IInv'
<1> DEFINE a == mapping[calls[c].i][day]
<1>1. /\ calls[c].kind = "presign" /\ mishaps' \in 0 .. MaxMishaps
      /\ UNCHANGED <<server, queue, check, day, history>>
      /\ IF a # 0 THEN Presigned(c, a) ELSE Goto(c, "write") /\ UNCHANGED item
  BY DEF PresignRead, IInv, TypeOK
<1>2. CASE a = 0
  BY <1>1, <1>2, PresignGoesOn DEF client
<1>3. CASE a # 0 /\ ~calls[c].heard
  <2>1. End(c) /\ UNCHANGED client
    BY <1>1, <1>3 DEF Presigned, client
  <2> QED BY <1>1, <2>1, CallEnds DEF Runs
<1>4. CASE a # 0 /\ calls[c].heard
  <2>1. calls[c].i \in Items
    BY <1>1, CallFacts DEF Runs
  <2>2. a \in Artifacts
    BY <1>4, <2>1 DEF IInv, TypeOK
  <2> QED BY <1>1, <1>4, <2>2, ReplayAdopted
<1> QED BY <1>2, <1>3, <1>4

\* What is known of a registration, more if its photo still waits for it.
LEMMA RegisterFacts ==
  ASSUME IInv, NEW c \in Calls, calls[c].kind = "register"
  PROVE  /\ calls[c].i \in Items /\ Heard(c) = item[calls[c].i] /\ Heard(c) \in ItemType
         /\ calls[c] \in CallType /\ calls[c].a \in Reserved /\ calls[c].a \in Artifacts
         /\ reserved[calls[c].a].item = calls[c].i
         /\ ItemOK(calls[c].i, Heard(c)) /\ RegisterOK(calls[c], Heard(c))
         /\ calls[c].req # 0 => RestartOK(calls[c], Heard(c))
         /\ calls[c].heard =>
              /\ HeardOK(calls[c], Heard(c)) /\ calls[c].a = Heard(c).a /\ calls[c].a \notin tombs
              /\ Heard(c).st = "sending" /\ ~Heard(c).deleting /\ ~Ending /\ ~LetGo(Heard(c))
              /\ calls[c].req = Heard(c).restart
              /\ Heard(c).registered => calls[c].req # 0
<1>1. /\ calls[c] \in CallType /\ CallOK(calls[c], Heard(c)) /\ calls[c].i \in Items
      /\ Heard(c) = item[calls[c].i] /\ Heard(c) \in ItemType /\ ItemOK(calls[c].i, Heard(c))
      /\ calls[c].heard => HeardOK(calls[c], Heard(c))
  BY CallFacts DEF Runs
<1>2. RegisterOK(calls[c], Heard(c)) /\ (calls[c].req # 0 => RestartOK(calls[c], Heard(c)))
  BY <1>1 DEF CallOK
<1>3. calls[c].a \in Reserved /\ calls[c].a \in Artifacts /\ reserved[calls[c].a].item = calls[c].i
  BY <1>2 DEF RegisterOK, Reserved
<1>4. SUFFICES ASSUME calls[c].heard
               PROVE  /\ calls[c].a = Heard(c).a /\ calls[c].a \notin tombs
                      /\ Heard(c).st = "sending" /\ ~Heard(c).deleting /\ ~Ending /\ ~LetGo(Heard(c))
                      /\ calls[c].req = Heard(c).restart
                      /\ Heard(c).registered => calls[c].req # 0
  BY <1>1, <1>2, <1>3
<1>5. calls[c].a \notin tombs /\ ~Ending /\ ~LetGo(Heard(c))
  BY <1>3, <1>4, AwaitedRun DEF Runs
<1> QED BY <1>1, <1>4, <1>5 DEF HeardOK, Runs

\* A registration goes on to its next await.
LEMMA RegisterGoesOn ==
  ASSUME IInv, NEW c \in Calls, calls[c].kind = "register", NEW pc \in PastHead, NEW gen \in Generations,
         calls' = [calls EXCEPT ![c] = AtPc(calls[c], pc, gen)],
         UNCHANGED <<server, queue, client, day, mishaps, history>>,
         object[calls[c].a] # "none" \/ calls[c].a \in tombs,
         pc \in {"reread", "restart", "tag", "send"} => calls[c].a \in Evidence,
         pc = "restart" => calls[c].req # 0,
         pc # "send",
         calls[c].a = Heard(c).a /\ (~Today(calls[c].a) => Heard(c).put # "no"),
         calls[c].req # 0 =>
           /\ pc # "tag" => gen = calls[c].gen /\ calls[c].pc \in {"head", "write", "reread", "restart"}
           /\ pc = "tag" => gen = calls[c].req,
         pc = "tag" /\ calls[c].heard /\ calls[c].a \in Rows => art[calls[c].a].gen = gen
  PROVE  IInv'
<1> DEFINE old == calls[c]
           call == AtPc(old, pc, gen)
           y == Heard(c)
<1>1. /\ old.i \in Items /\ old \in CallType /\ RegisterOK(old, y) /\ old.a \in Reserved
      /\ reserved[old.a].item = old.i /\ (old.req # 0 => RestartOK(old, y))
      /\ old.heard => HeardOK(old, y)
      /\ mishaps' \in 0 .. MaxMishaps
  BY RegisterFacts, ItemFacts
<1>2. pc \in Pcs
  BY DEF Pcs, PastHead
<1>3. /\ call \in CallType /\ call.pc = pc /\ call.gen = gen /\ call.kind = "register" /\ call.i = old.i
      /\ call.a = old.a /\ call.heard = old.heard /\ call.fresh = old.fresh /\ call.req = old.req
  BY <1>1, <1>2, PcMoves
<1> HIDE DEF call, y
<1>4. RegisterOK(call, y)
  BY <1>1, <1>3 DEF RegisterOK, y
<1>5. call.req # 0 => RestartOK(call, y)
  <2> SUFFICES ASSUME old.req # 0 PROVE RestartOK(call, y)
    BY <1>3
  <2>1. RestartOK(old, y)
    BY <1>1
  <2>2. CASE pc = "tag"
    BY <1>3, <2>1, <2>2 DEF RestartOK
  <2>3. CASE pc # "tag"
    <3>1. gen = old.gen /\ old.pc \in {"head", "write", "reread", "restart"}
      BY <2>3
    <3>2. call.pc \notin {"tag", "send"} /\ call.gen = old.gen
      BY <1>3, <2>3, <3>1
    <3> QED BY <1>3, <2>1, <3>1, <3>2 DEF RestartOK
  <2> QED BY <2>2, <2>3
<1>6. CallOK(call, y)
  BY <1>1, <1>3, <1>4, <1>5 DEF CallOK, Runs
<1>7. call.heard => calls[c].heard /\ HeardOK(call, y)
  <2> SUFFICES ASSUME old.heard PROVE HeardOK(call, y)
    BY <1>3
  <2>1. HeardOK(old, y)
    BY <1>1
  <2>2. old.req # 0 /\ pc \in {"head", "write", "reread", "restart"} => gen = y.gen
    BY <1>3, <2>1 DEF HeardOK, Runs
  <2>3. old.a \in Rows /\ pc \in {"tag", "send"} => art[old.a].gen = gen
    OBVIOUS
  <2> QED BY <1>3, <2>1, <2>2, <2>3 DEF HeardOK, Runs
<1>8. calls' = [calls EXCEPT ![c] = call] /\ UNCHANGED <<server, queue, client, day, history>>
  BY DEF call
<1> HIDE DEF IInv
<1> QED BY <1>1, <1>3, <1>6, <1>7, <1>8, QuietCall DEF y

\* A registration found nothing: its photo, not registered yet, starts over.
LEMMA RepairHolds ==
  ASSUME IInv, NEW c \in Calls, RegisterHead(c), object[calls[c].a] = "none",
         calls[c].heard, ~calls[c].fresh, calls[c].req = 0
  PROVE  IInv'
<1> DEFINE i == calls[c].i
           y == Heard(c)
           x == [y EXCEPT !.put = "no"]
           call == [NoCall EXCEPT !.kind = "presign", !.pc = "read", !.i = i, !.heard = TRUE, !.fresh = TRUE]
<1>0. /\ calls[c].kind = "register" /\ item' = [item EXCEPT ![i] = x] /\ calls' = [calls EXCEPT ![c] = call]
      /\ UNCHANGED <<server, queue, check, day, history>> /\ mishaps' \in 0 .. MaxMishaps
  BY DEF RegisterHead, Registering, Heard, IInv, TypeOK
<1>1. /\ i \in Items /\ y = item[i] /\ y \in ItemType /\ calls[c].a \in Reserved /\ ItemOK(i, y)
      /\ calls[c].a = y.a /\ y.st = "sending" /\ ~y.deleting /\ ~Ending /\ y.restart = 0 /\ ~y.registered
  BY <1>0, RegisterFacts
<1>2. /\ x \in ItemType /\ x.st = "sending" /\ x.a = y.a /\ x.put = "no" /\ x.registered = y.registered
      /\ x.deleting = y.deleting /\ x.gen = y.gen /\ x.asked = y.asked /\ x.restart = y.restart
  BY <1>1 DEF ItemType
<1>3. /\ call \in CallType /\ call.kind = "presign" /\ call.pc = "read" /\ call.i = i
      /\ call.req = 0 /\ call.heard = TRUE
  <2> HIDE DEF i
  <2>1. call = [NoCall EXCEPT !.kind = "presign", !.pc = "read", !.i = i, !.heard = TRUE, !.fresh = TRUE]
    OBVIOUS
  <2> HIDE DEF call
  <2>2. call = [kind |-> "presign", pc |-> "read", i |-> i, a |-> 0, heard |-> TRUE, fresh |-> TRUE,
                req |-> 0, gen |-> 0, status |-> "none", row |-> FALSE, fold |-> {}]
    BY <2>1 DEF NoCall
  <2> QED BY <1>1, <2>2, Zeros DEF CallType
<1> HIDE DEF x, y, call, i
<1>4. ItemStep(i, x, {c}, call)
  BY <1>0 DEF ItemStep, IInv, TypeOK
<1>5. ItemOK(i, x) /\ ~Trusting(x)
  BY <1>1, <1>2 DEF ItemOK, Trusting
<1>6. ItemMay(i, x)
  <2>1. \A b \in Reserved \ (tombs \union lateBytes) : reserved[b].item = i => object[b] = "none"
    BY <1>0, <1>1 DEF IInv, Inv, BytesInv, Owner
  <2>2. \A b \in tombs : reserved[b].item # i
    BY <1>0, AwaitedRun DEF i, Runs
  <2>3. x.asked >= item[i].asked
    BY <1>1, <1>2, ItemFacts
  <2> QED BY <1>1, <1>2, <1>5, <2>1, <2>2, <2>3 DEF ItemMay
<1>7. CallOK(call, x) /\ HeardOK(call, x)
  BY <1>1, <1>2, <1>3 DEF CallOK, HeardOK, Runs
<1>8. \A d \in Calls \ {c} : calls[d].i = i => CallOK(calls[d], x) /\ ~calls[d].heard
  <2> SUFFICES ASSUME NEW d \in Calls \ {c}, calls[d].i = i PROVE CallOK(calls[d], x) /\ ~calls[d].heard
    OBVIOUS
  <2>1. CallOK(calls[d], y) /\ calls[d].kind # "delete" /\ ~calls[d].heard
    BY <1>0, <1>1, AwaitedRun DEF IInv, Inv, CallInv, Heard, Awaited, Runs, i
  <2>2. CASE calls[d].kind = "register"
    <3>1. RegisterOK(calls[d], y) /\ calls[d].a \in Reserved /\ reserved[calls[d].a].item = i
      BY <2>1, <2>2 DEF CallOK, RegisterOK
    <3>2. calls[d].req = 0
      BY <1>1, <2>1, <2>2 DEF CallOK, RestartOK
    <3>3. calls[d].a \notin tombs
      BY <1>0, <3>1, AwaitedRun DEF i, Runs
    <3>4. calls[d].a = y.a => calls[d].pc = "head"
      BY <1>0, <1>1, <3>1, <3>3 DEF RegisterOK, RegisterHead
    <3>5. RegisterOK(calls[d], x)
      BY <1>1, <1>2, <3>1, <3>4 DEF RegisterOK
    <3> QED BY <2>1, <2>2, <3>2, <3>5 DEF CallOK
  <2> QED BY <2>1, <2>2 DEF CallOK
<1>9. CallsMay(i, x, {c}, call)
  BY <1>3, <1>7, <1>8 DEF CallsMay, Awaited
<1>10. queue' \in [Messages -> MessageType] /\ QueueInv'
  BY <1>0, <1>1, <1>2, <1>5, QueueKept
<1> HIDE DEF IInv
<1> QED BY <1>1, <1>2, <1>3, <1>4, <1>6, <1>9, <1>10, ItemStepHolds

LEMMA RegisterHeadHolds ==
  ASSUME IInv, NEW c \in Calls, RegisterHead(c)
  PROVE  IInv'
<1> DEFINE a == calls[c].a
           y == Heard(c)
<1>1. /\ calls[c].kind = "register" /\ calls[c].pc = "head"
      /\ UNCHANGED <<server, queue, check, day, mishaps, history>>
      /\ mishaps' \in 0 .. MaxMishaps
  BY DEF RegisterHead, Registering, IInv, TypeOK
<1>2. /\ calls[c] \in CallType /\ RegisterOK(calls[c], y) /\ calls[c].gen \in Generations
      /\ (calls[c].req # 0 => RestartOK(calls[c], y)) /\ y = item[calls[c].i]
      /\ ItemOK(calls[c].i, y)
  BY <1>1, RegisterFacts DEF CallType
<1>3. CASE object[a] # "none"
  <2>1. Goto(c, "write") /\ UNCHANGED item
    BY <1>3 DEF RegisterHead
  <2>2. calls' = [calls EXCEPT ![c] = AtPc(calls[c], "write", calls[c].gen)] /\ UNCHANGED client
    BY <1>1, <1>2, <2>1 DEF Goto, AtPc, CallType, client
  <2>3. a = y.a /\ (~Today(a) => y.put # "no")
    BY <1>2, <1>3 DEF RegisterOK
  <2>4. "write" \in PastHead
    BY DEF PastHead
  <2> HIDE DEF y, IInv
  <2> QED BY <1>1, <1>2, <1>3, <2>2, <2>3, <2>4, RegisterGoesOn DEF y
<1>4. CASE object[a] = "none" /\ calls[c].heard /\ ~calls[c].fresh /\ calls[c].req = 0
  BY <1>4, RepairHolds
<1>5. CASE object[a] = "none" /\ ~(calls[c].heard /\ ~calls[c].fresh /\ calls[c].req = 0)
  <2>1. End(c) /\ Hear(c, Blocked(c))
    BY <1>5 DEF RegisterHead
  <2>2. ~calls[c].heard
    <3> SUFFICES ASSUME calls[c].heard PROVE FALSE
      OBVIOUS
    <3>1. a \notin tombs /\ a = y.a
      BY <1>1, RegisterFacts
    <3>2. calls[c].fresh \/ calls[c].req # 0
      BY <1>5
    <3>3. CASE calls[c].fresh
      BY <1>2, <1>5, <3>1, <3>3 DEF RegisterOK
    <3>4. CASE calls[c].req # 0
      BY <1>2, <1>5, <3>1, <3>4 DEF RestartOK, ItemOK
    <3> QED BY <3>2, <3>3, <3>4
  <2>3. UNCHANGED client
    BY <1>1, <2>1, <2>2 DEF Hear, client
  <2> QED BY <1>1, <2>1, <2>3, CallEnds DEF Runs
<1> QED BY <1>3, <1>4, <1>5

\* The photo of an answered registration is registered evidence.
LEMMA RegisteredFits ==
  ASSUME IInv, NEW c \in Calls, calls[c].kind = "register", calls[c].heard,
         calls[c].a \in Rows, object[calls[c].a] = "registered",
         calls[c].req # 0 => art[calls[c].a].gen = calls[c].req
  PROVE  \E x \in ItemType :
           /\ x = Registered(c) /\ x.st = "polling" /\ x.a = calls[c].a /\ x.restart = 0
           /\ ItemMay(calls[c].i, x) /\ CallsMay(calls[c].i, x, {c}, NoCall)
<1> DEFINE i == calls[c].i
           y == Heard(c)
           a == calls[c].a
           x == [y EXCEPT !.st = "polling", !.registered = TRUE, !.put = "done", !.restart = 0,
                          !.gen = IF calls[c].req # 0 THEN 0 ELSE y.gen]
<1>1. /\ i \in Items /\ y = item[i] /\ y \in ItemType /\ a \in Reserved /\ a \in Artifacts
      /\ reserved[a].item = i /\ ItemOK(i, y) /\ a = y.a /\ a \notin tombs
      /\ y.st = "sending" /\ ~y.deleting /\ ~Ending /\ ~LetGo(y)
      /\ (y.registered => calls[c].req # 0) /\ calls[c].req = y.restart
  BY RegisterFacts
<1>2. x = Registered(c)
  BY <1>1 DEF Registered, ItemType
<1> HIDE DEF y
<1>3. /\ x \in ItemType /\ x.st = "polling" /\ x.a = y.a /\ x.put = "done" /\ x.registered = TRUE
      /\ x.deleting = y.deleting /\ x.gen = (IF calls[c].req # 0 THEN 0 ELSE y.gen)
      /\ x.asked = y.asked /\ x.restart = 0
  BY <1>1, Zeros DEF ItemType
<1>4. y.asked \in Nat /\ y.gen \in Nat /\ y.gen <= y.asked /\ y.a # 0
  <2>1. y.asked \in Nat /\ y.gen \in Nat
    BY <1>1, Zeros DEF ItemType
  <2> HIDE DEF IInv
  <2> QED BY <1>1, <2>1, Zeros DEF ItemOK
<1> HIDE DEF x
<1>5. ItemOK(i, x)
  <2>1. a \in Evidence
    BY DEF Evidence
  <2> QED BY <1>1, <1>3, <1>4, <2>1 DEF ItemOK, Outcome
<1>6. ItemMay(i, x)
  <2>1. \A b \in Reserved \ (tombs \union lateBytes) : reserved[b].item = i /\ object[b] # "none" => x.a = b
    BY <1>1, <1>3 DEF IInv, Inv, BytesInv, Owner
  <2>2. \A b \in tombs : reserved[b].item # i
    BY AwaitedRun DEF i, Runs
  <2> QED BY <1>1, <1>3, <1>4, <1>5, <2>1, <2>2 DEF ItemMay
<1>7. \A d \in Calls \ {c} : calls[d].i = i => CallOK(calls[d], x) /\ ~calls[d].heard
  <2> SUFFICES ASSUME NEW d \in Calls \ {c}, calls[d].i = i PROVE CallOK(calls[d], x) /\ ~calls[d].heard
    OBVIOUS
  <2>1. CallOK(calls[d], y) /\ calls[d].kind # "delete" /\ ~calls[d].heard
    BY <1>1, AwaitedRun DEF IInv, Inv, CallInv, Heard, Awaited, Runs, i
  <2>2. CASE calls[d].kind = "register"
    <3>1. RegisterOK(calls[d], y) /\ (calls[d].req # 0 => RestartOK(calls[d], y))
      BY <2>1, <2>2 DEF CallOK
    <3>2. RegisterOK(calls[d], x)
      BY <1>3, <3>1 DEF RegisterOK
    <3>3. calls[d].req # 0 => RestartOK(calls[d], x)
      <4> SUFFICES ASSUME calls[d].req # 0 PROVE RestartOK(calls[d], x)
        OBVIOUS
      <4>1. RestartOK(calls[d], y) /\ y.registered
        BY <3>1 DEF RestartOK
      <4>2. art[a].gen = y.restart /\ a = y.a
        BY <1>1, <4>1
      <4>3. calls[d].a = y.a \/ calls[d].req = 0
        BY <3>1 DEF RegisterOK
      <4>4. calls[d].pc \in {"head", "write", "reread", "restart"}
              => calls[d].gen # art[calls[d].a].gen
        <5> SUFFICES ASSUME calls[d].pc \in {"head", "write", "reread", "restart"},
                            calls[d].gen = art[calls[d].a].gen
                     PROVE  FALSE
          OBVIOUS
        <5>1. y.restart = calls[d].req /\ calls[d].gen < calls[d].req /\ calls[d].a = a
          BY <1>1, <4>1, <4>3 DEF RestartOK
        <5>2. calls[d].req \in Nat /\ calls[d].gen \in Nat
          BY Zeros DEF IInv, TypeOK, CallType
        <5> QED BY <4>2, <5>1, <5>2
      <4> QED BY <1>3, <4>1, <4>4 DEF RestartOK
    <3> QED BY <2>1, <2>2, <3>2, <3>3 DEF CallOK
  <2> QED BY <2>1, <2>2 DEF CallOK
<1>8. CallsMay(i, x, {c}, NoCall)
  BY <1>7, NothingLeft DEF CallsMay, Awaited
<1> QED BY <1>1, <1>2, <1>3, <1>6, <1>8

LEMMA RegisterRereadHolds ==
  ASSUME IInv, NEW c \in Calls, RegisterReread(c)
  PROVE  IInv'
<1> DEFINE a == calls[c].a
           y == Heard(c)
<1>1. /\ calls[c].kind = "register" /\ calls[c].pc = "reread"
      /\ UNCHANGED <<server, queue, check, day, mishaps, history>>
      /\ mishaps' \in 0 .. MaxMishaps
  BY DEF RegisterReread, Registering, IInv, TypeOK
<1>2. /\ calls[c] \in CallType /\ RegisterOK(calls[c], y) /\ calls[c].gen \in Generations
      /\ (calls[c].req # 0 => RestartOK(calls[c], y)) /\ a \in Artifacts /\ calls[c].i \in Items
  BY <1>1, RegisterFacts DEF CallType
<1>3. /\ object[a] # "none" \/ a \in tombs
      /\ a \in Evidence /\ a = y.a /\ (~Today(a) => y.put # "no")
  BY <1>1, <1>2 DEF RegisterOK, PastHead
<1>4. art[a] \in RowType
  BY <1>2 DEF IInv, TypeOK
<1>5. CASE art[a].st = "none"
  <2>1. End(c) /\ Hear(c, Blocked(c))
    BY <1>5 DEF RegisterReread
  <2>2. ~calls[c].heard
    BY <1>1, <1>3, <1>5, RegisterFacts DEF Evidence, Rows
  <2>3. UNCHANGED client
    BY <1>1, <2>1, <2>2 DEF Hear, client
  <2> QED BY <1>1, <2>1, <2>3, CallEnds DEF Runs
<1>6. CASE art[a].st # "none" /\ calls[c].req # 0
  <2>1. Goto(c, "restart") /\ UNCHANGED item
    BY <1>6 DEF RegisterReread
  <2>2. calls' = [calls EXCEPT ![c] = AtPc(calls[c], "restart", calls[c].gen)] /\ UNCHANGED client
    BY <1>1, <1>2, <2>1 DEF Goto, AtPc, CallType, client
  <2>3. "restart" \in PastHead
    BY DEF PastHead
  <2> HIDE DEF y, IInv
  <2> QED BY <1>1, <1>2, <1>3, <1>6, <2>2, <2>3, RegisterGoesOn DEF y
<1>7. CASE art[a].st = "queued" /\ calls[c].req = 0
  <2>1. calls' = [calls EXCEPT ![c].pc = "tag", ![c].gen = art[a].gen] /\ UNCHANGED item
    BY <1>7 DEF RegisterReread
  <2>2. calls' = [calls EXCEPT ![c] = AtPc(calls[c], "tag", art[a].gen)] /\ UNCHANGED client
    BY <1>1, <2>1 DEF AtPc, client
  <2>3. "tag" \in PastHead /\ art[a].gen \in Generations
    BY <1>4 DEF PastHead, RowType
  <2> HIDE DEF y, IInv
  <2> QED BY <1>1, <1>2, <1>3, <1>7, <2>2, <2>3, RegisterGoesOn DEF y
<1>8. CASE art[a].st \notin {"none", "queued"} /\ calls[c].req = 0
  <2>1. End(c) /\ Hear(c, Registered(c))
    BY <1>8 DEF RegisterReread
  <2>2. CASE ~calls[c].heard
    <3>1. UNCHANGED client
      BY <1>1, <2>1, <2>2 DEF Hear, client
    <3> QED BY <1>1, <2>1, <3>1, CallEnds DEF Runs
  <2>3. CASE calls[c].heard
    <3>1. a \in Rows /\ a \notin tombs
      BY <1>1, <1>2, <1>8, <2>3, RegisterFacts DEF Rows
    <3>2. object[a] = "registered"
      BY <1>8, <3>1 DEF IInv, Inv, RowInv
    <3>3. PICK x \in ItemType :
            /\ x = Registered(c) /\ x.st = "polling" /\ x.a = a /\ x.restart = 0
            /\ ItemMay(calls[c].i, x) /\ CallsMay(calls[c].i, x, {c}, NoCall)
      BY <1>1, <1>8, <2>3, <3>1, <3>2, RegisteredFits
    <3>4. item' = [item EXCEPT ![calls[c].i] = x]
      BY <2>1, <2>3, <3>3 DEF Hear
    <3>5. ItemStep(calls[c].i, x, {c}, NoCall)
      BY <1>1, <2>1, <3>4 DEF ItemStep, End, IInv, TypeOK
    <3>6. ~Trusting(x)
      BY <1>8, <3>3 DEF Trusting
    <3>7. queue' \in [Messages -> MessageType] /\ QueueInv'
      BY <1>1, <1>2, <3>4, <3>6, QueueKept
    <3> HIDE DEF IInv
    <3> QED BY <1>2, <3>3, <3>5, <3>7, EmptyTypes, ItemStepHolds
  <2> QED BY <2>2, <2>3
<1> QED BY <1>4, <1>5, <1>6, <1>7, <1>8

\* What a failed analysis means for a deletion after completion.
LEMMA FailedForGood ==
  ASSUME IInv, NEW a \in Rows, analysis[a].st = "failed"
  PROVE  art[a].st = "permanent_failure"
<1>1. analysis[a].gen = art[a].gen /\ IsCurrent(a)
  BY DEF IInv, Inv, RowInv, IsCurrent
<1> QED BY <1>1 DEF IInv, Inv, RowInv, ResultOfItsGeneration

\* What the read of a deletion found.
Found(old, status, row) == [old EXCEPT !.pc = "write", !.status = status, !.row = row]

LEMMA DeleteReadHolds ==
  ASSUME IInv, NEW c \in Calls, DeleteRead(c)
  PROVE  IInv'
<1> DEFINE a == calls[c].a
           i == calls[c].i
           y == Heard(c)
<1>1. /\ calls[c].kind = "delete" /\ calls[c].pc = "read"
      /\ UNCHANGED <<server, queue, check, day, mishaps, history>>
      /\ mishaps' \in 0 .. MaxMishaps
  BY DEF DeleteRead, Deleting, IInv, TypeOK
<1>2. /\ calls[c] \in CallType /\ DeleteOK(calls[c], y) /\ i \in Items /\ y = item[i] /\ y \in ItemType
      /\ ItemOK(i, y) /\ (calls[c].heard => HeardOK(calls[c], y)) /\ y.asked \in Nat
  BY <1>1, CallFacts, ItemFacts DEF CallOK, Runs
<1>3. a \in Reserved /\ a \in Artifacts /\ reserved[a].item = i /\ y.a = a
  BY <1>2 DEF DeleteOK, Reserved
<1>4. CASE MayDelete(a)
  <2> DEFINE old == calls[c]
             call == Found(old, header, art[a].st # "none")
  <2>1. calls' = [calls EXCEPT ![c] = call] /\ UNCHANGED client
    BY <1>1, <1>4 DEF DeleteRead, client, Found
  <2>2. header \in {"none", "in_progress", "completed"} /\ (art[a].st # "none") \in BOOLEAN
    BY DEF IInv, TypeOK
  <2> HIDE DEF old
  <2>3. /\ call \in CallType /\ call.kind = old.kind /\ call.pc = "write" /\ call.i = old.i /\ call.a = old.a
        /\ call.heard = old.heard /\ call.status = header /\ call.row = (art[a].st # "none")
    <3>1. old \in CallType
      BY <1>2 DEF old
    <3>2. PICK s \in {"none", "in_progress", "completed"} : s = header
      BY <2>2
    <3>3. PICK r \in BOOLEAN : r = (art[a].st # "none")
      BY <2>2
    <3> HIDE DEF IInv
    <3>4. call = Found(old, s, r)
      BY <3>2, <3>3
    <3>5. /\ Found(old, s, r) \in CallType /\ Found(old, s, r).kind = old.kind
          /\ Found(old, s, r).pc = "write" /\ Found(old, s, r).i = old.i
          /\ Found(old, s, r).a = old.a /\ Found(old, s, r).heard = old.heard
          /\ Found(old, s, r).status = s /\ Found(old, s, r).row = r
      BY <3>1, ZenonT(30) DEF Found, CallType
    <3> HIDE DEF call
    <3>6. call.row = r
      BY <3>4, <3>5
    <3> QED BY <3>2, <3>3, <3>4, <3>5, <3>6
  <2> HIDE DEF call
  <2>4. call.row => a \in Rows
    BY <1>3, <2>3 DEF Rows
  <2>5. ~call.row /\ y.registered => a \in tombs \ Rows
    BY <1>2, <1>3, <2>3 DEF ItemOK, Evidence, Rows
  <2>6. call.row /\ call.status = "completed" => art[a].st = "permanent_failure"
    BY <1>4, <2>3, <2>4, FailedForGood DEF MayDelete
  <2>7. DeleteOK(call, y)
    BY <1>2, <2>3, <2>4, <2>5, <2>6 DEF DeleteOK, Evidence, old
  <2>8. CallOK(call, y)
    BY <1>1, <1>2, <2>3, <2>7 DEF CallOK, Runs, old
  <2>9. call.heard => calls[c].heard /\ HeardOK(call, y)
    BY <1>1, <1>2, <2>3 DEF HeardOK, Runs, old
  <2>10. call.i = calls[c].i /\ call.kind # "complete"
    BY <1>1, <2>3 DEF old
  <2> HIDE DEF IInv, y, i
  <2> QED BY <1>1, <1>2, <2>1, <2>3, <2>8, <2>9, <2>10, QuietCall DEF y, i, client
<1>5. CASE ~MayDelete(a) /\ ~calls[c].heard
  <2>1. End(c) /\ UNCHANGED client
    BY <1>1, <1>5 DEF DeleteRead, Hear, client
  <2> QED BY <1>1, <2>1, CallEnds
<1>6. CASE ~MayDelete(a) /\ calls[c].heard
  <2> DEFINE x == [y EXCEPT !.deleting = FALSE]
  <2>1. calls' = [calls EXCEPT ![c] = NoCall] /\ item' = [item EXCEPT ![i] = x]
    BY <1>6 DEF DeleteRead, Hear, End
  <2>2. /\ x \in ItemType /\ x.st = y.st /\ x.a = y.a /\ x.put = y.put /\ x.registered = y.registered
        /\ x.deleting = FALSE /\ x.gen = y.gen /\ x.asked = y.asked /\ x.restart = y.restart
    BY <1>2 DEF ItemType
  <2>3. header = "completed"
    BY <1>6 DEF MayDelete
  <2> HIDE DEF x, y
  <2>4. Keeps(y, x)
    BY <1>2, <2>2, <2>3 DEF Keeps, LetGo
  <2>5. y.deleting
    BY <1>1, <1>2, <1>6 DEF HeardOK
  <2>6. ItemOK(i, x)
    BY <1>2, <2>2, <2>5 DEF ItemOK, Outcome
  <2>7. Trusting(x) => Message(x.a)
    <3>1. Trusting(x) => Trusting(y)
      BY <2>2 DEF Trusting
    <3> QED BY <1>2, <2>2, <3>1 DEF IInv, Inv, QueueInv
  <2>8. Ending => AtRest(x)
    BY <1>2, <2>2 DEF IInv, Inv, EndInv, AtRest
  <2> HIDE DEF IInv, i
  <2> QED BY <1>1, <1>2, <1>6, <2>1, <2>2, <2>4, <2>6, <2>7, <2>8, NothingLeft, EmptyTypes, AnsweredCall DEF y, i
<1> QED BY <1>4, <1>5, <1>6

-----------------------------------------------------------------------------
(* The check is created, finished and completed *)

\* Calls that complete the check, the header and the client's own view of it.
CheckStep(D, call) ==
  /\ calls' = [d \in Calls |-> IF d \in D THEN call ELSE calls[d]]
  /\ \A d \in D : calls[d].kind \in {"none", "complete"}
  /\ call = NoCall \/ (call.kind = "complete" /\ call.pc \in {"read", "write"} /\ call.i = NoItem)
  /\ header' \in {"none", "in_progress", "completed"} /\ (header = "completed" => header' = "completed")
  /\ scorecard' \subseteq Artifacts /\ check' \in CheckType /\ mishaps' \in 0 .. MaxMishaps
  /\ UNCHANGED <<art, analysis, tombs, reserved, mapping, object, queue, item, day, history>>

LEMMA CheckStepHolds ==
  ASSUME IInv, NEW D \in SUBSET Calls, NEW call \in CallType, CheckStep(D, call), EndInv'
  PROVE  IInv'
<1>1. /\ calls' \in [Calls -> CallType]
      /\ \A d \in D : calls'[d] = call
      /\ \A d \in Calls \ D : calls'[d] = calls[d]
  BY DEF CheckStep, IInv, TypeOK
<1>2. TypeOK'
  BY <1>1 DEF CheckStep, history, IInv, TypeOK
<1>3. Rows' = Rows /\ Reserved' = Reserved /\ Evidence' = Evidence
  BY DEF CheckStep, Rows, Reserved, Evidence
<1>4. QuotaInv' /\ MapInv'
  BY <1>3 DEF CheckStep, IInv, Inv, QuotaInv, MapInv
<1>5. CallInv'
  <2> SUFFICES ASSUME NEW d \in Calls PROVE CallOK(calls[d], Heard(d))'
    BY DEF CallInv
  <2>1. CASE d \in D
    <3>1. calls'[d] = NoCall \/ (calls'[d].kind = "complete" /\ calls'[d].pc \in {"read", "write"} /\ calls'[d].i = NoItem)
      BY <1>1, <2>1 DEF CheckStep
    <3> QED BY <3>1 DEF CallOK, NoCall, Runs
  <2>2. CASE d \notin D
    <3>1. calls'[d] = calls[d] /\ CallOK(calls[d], Heard(d))
      BY <1>1, <2>2 DEF IInv, Inv, CallInv
    <3> HIDE DEF IInv
    <3>2. PICK one, z : one = calls[d] /\ z = Heard(d) /\ CallOK(one, z)
      BY <3>1
    <3>3. calls'[d] = one /\ Heard(d)' = z
      BY <3>1, <3>2 DEF CheckStep, Heard
    <3>4. RegisterOK(one, z) => RegisterOK(one, z)'
      BY <1>3 DEF CheckStep, RegisterOK, Today
    <3>5. RestartOK(one, z) => RestartOK(one, z)'
      BY <1>3 DEF CheckStep, RestartOK
    <3>6. DeleteOK(one, z) => DeleteOK(one, z)'
      BY <1>3 DEF CheckStep, DeleteOK
    <3>7. CallOK(one, z)'
      BY <1>3, <3>2, <3>4, <3>5, <3>6 DEF CheckStep, CallOK
    <3> QED BY <3>3, <3>7 DEF CallOK, RegisterOK, RestartOK, DeleteOK
  <2> QED BY <2>1, <2>2
<1>6. HeardInv'
  <2>1. \A j \in Items, d \in Calls : Awaited(d, j)' => Awaited(d, j) /\ calls'[d] = calls[d]
    BY <1>1, Zeros, NothingLeft DEF Awaited, CheckStep
  <2>2. \A j \in Items, d \in Calls : Awaited(d, j)' => HeardOK(calls'[d], item'[j])
    BY <2>1 DEF CheckStep, IInv, Inv, HeardInv
  <2>3. \A j \in Items, d \in Calls : Awaited(d, j)' => \A e \in Calls : Awaited(e, j)' => d = e
    BY <2>1 DEF IInv, Inv, HeardInv
  <2> QED BY <1>3, <2>2, <2>3 DEF HeardInv, HeardOK, CheckStep
<1>7. ItemInv' /\ QueueInv'
  BY <1>3 DEF CheckStep, IInv, Inv, ItemInv, ItemOK, Outcome, QueueInv, Message, Trusting
<1>8. BytesInv' /\ RowInv'
  BY <1>3 DEF CheckStep, history, IInv, Inv, BytesInv, RowInv, Owner, LetGo, Today, ResultOfItsGeneration,
     IsCurrent
<1> QED BY <1>2, <1>4, <1>5, <1>6, <1>7, <1>8 DEF IInv, Inv

\* EndInv after such a step, if the header stays and completions only go on.
LEMMA EndKept ==
  ASSUME IInv, UNCHANGED <<header, scorecard, art, item, lateRows, lateDeletes>>,
         Ending' => check'.finished /\ \A i \in Items : AtRest(item[i]),
         \A d \in Calls : header # "completed" /\ Completing(d, "write")'
                            => Folds(calls'[d].fold)
  PROVE  EndInv'
<1>1. Rows' = Rows /\ Succeeded' = Succeeded
  BY DEF Rows, Succeeded
<1> QED BY <1>1 DEF EndInv, AtRest, Folds, IInv, Inv

LEMMA CheckAlone ==
  ASSUME IInv, UNCHANGED <<server, queue, item, calls, day, mishaps, history>>, check' \in CheckType,
         Ending' => check'.finished /\ \A i \in Items : AtRest(item[i])
  PROVE  IInv'
<1>1. \A d \in Calls : header # "completed" /\ Completing(d, "write")' => Folds(calls'[d].fold)
  BY DEF Completing, IInv, Inv, EndInv
<1>2. UNCHANGED <<header, scorecard, art, item, lateRows, lateDeletes>>
  BY DEF server, history
<1>3. EndInv'
  BY <1>1, <1>2, EndKept
<1>4. CheckStep({}, NoCall)
  BY DEF CheckStep, server, IInv, TypeOK
<1> HIDE DEF IInv
<1> QED BY <1>3, <1>4, EmptyTypes, CheckStepHolds

LEMMA CreateCheckHolds ==
  ASSUME IInv, CreateCheck
  PROVE  IInv'
<1>1. /\ header = "none" /\ header' = "in_progress"
      /\ UNCHANGED <<scorecard, art, analysis, tombs, reserved, mapping, object, queue, client, calls, day,
                     mishaps, history>>
  BY DEF CreateCheck
<1>2. Rows' = Rows /\ Succeeded' = Succeeded /\ (Ending' => Ending)
  BY <1>1 DEF Rows, Succeeded, Ending, client
<1>3. EndInv'
  BY <1>1, <1>2 DEF client, history, IInv, Inv, EndInv, AtRest, Folds, Completing
<1>4. CheckStep({}, NoCall)
  BY <1>1 DEF CheckStep, client, IInv, TypeOK
<1> HIDE DEF IInv
<1> QED BY <1>3, <1>4, EmptyTypes, CheckStepHolds

LEMMA FinishHolds ==
  ASSUME IInv, Finish
  PROVE  IInv'
<1>1. check \in CheckType /\ check' = [check EXCEPT !.finished = TRUE]
      /\ UNCHANGED <<server, queue, item, calls, day, mishaps, history>>
  BY DEF Finish, IInv, TypeOK
<1>2. check' \in CheckType /\ check'.finished /\ check'.fin = check.fin
  BY <1>1 DEF CheckType
<1>3. Ending' => Ending
  BY <1>1, <1>2 DEF Ending, server
<1> QED BY <1>1, <1>2, <1>3, CheckAlone DEF IInv, Inv, EndInv

LEMMA ExpectedIsNumber == ExpectedArtifacts \in Nat
<1>1. {i \in Items : Live(i)} \in SUBSET Items
  OBVIOUS
<1>2. IsFiniteSet({i \in Items : Live(i)})
  BY <1>1, ItemsAssumption, FS_Subset
<1> QED BY <1>2, FS_CardinalityType DEF ExpectedArtifacts

LEMMA StartFinalizeHolds ==
  ASSUME IInv, StartFinalize
  PROVE  IInv'
<1>1. /\ check \in CheckType /\ check.finished /\ ReadyForScorecard
      /\ check' = IF ExpectedArtifacts = 0 THEN [check EXCEPT !.done = TRUE]
                  ELSE [check EXCEPT !.fin = "waiting", !.expected = ExpectedArtifacts]
      /\ UNCHANGED <<server, queue, item, calls, day, mishaps, history>>
  BY DEF StartFinalize, IInv, TypeOK
<1>2. check' \in CheckType /\ check'.finished
  BY <1>1, ExpectedIsNumber DEF CheckType
<1>3. \A i \in Items : AtRest(item[i])
  <2> SUFFICES ASSUME NEW i \in Items PROVE AtRest(item[i])
    OBVIOUS
  <2>1. ~item[i].deleting /\ (Live(i) => item[i].st \in {"analyzed", "blocked"})
    BY <1>1 DEF ReadyForScorecard
  <2>2. item[i].st \in {"none", "gone", "analyzed", "blocked"}
    BY <2>1 DEF Live
  <2> QED BY <2>1, <2>2 DEF AtRest
<1> QED BY <1>1, <1>2, <1>3, CheckAlone

LEMMA WaitTimesOutHolds ==
  ASSUME IInv, WaitTimesOut
  PROVE  IInv'
<1>1. check \in CheckType /\ check.fin = "waiting" /\ check' = [check EXCEPT !.fin = "no"]
      /\ UNCHANGED <<server, queue, item, calls, day, mishaps, history>>
  BY DEF WaitTimesOut, IInv, TypeOK
<1>2. check' \in CheckType /\ check'.finished = check.finished
  BY <1>1 DEF CheckType
<1>3. Ending
  BY <1>1 DEF Ending
<1> QED BY <1>1, <1>2, <1>3, CheckAlone DEF IInv, Inv, EndInv

LEMMA WaitedHolds ==
  ASSUME IInv, Waited
  PROVE  IInv'
<1> DEFINE call == [NoCall EXCEPT !.kind = "complete", !.pc = "read", !.heard = TRUE]
           c == Least(FreeCalls)
<1>1. /\ check \in CheckType /\ check.fin = "waiting" /\ check' = [check EXCEPT !.fin = "calling"]
      /\ UNCHANGED <<server, queue, item, day, mishaps, history>> /\ Begin(call)
  BY DEF Waited, IInv, TypeOK
<1>2. c \in Calls /\ calls[c] = NoCall /\ calls' = [calls EXCEPT ![c] = call]
  BY <1>1, FreeSlots DEF Begin
<1>3. call \in CallType /\ call.kind = "complete" /\ call.pc = "read" /\ call.i = NoItem
  <2>1. call = [NoCall EXCEPT !.kind = "complete", !.pc = "read", !.heard = TRUE]
    OBVIOUS
  <2> HIDE DEF call
  <2>2. call = [kind |-> "complete", pc |-> "read", i |-> NoItem, a |-> 0, heard |-> TRUE, fresh |-> FALSE,
                req |-> 0, gen |-> 0, status |-> "none", row |-> FALSE, fold |-> {}]
    BY <2>1 DEF NoCall
  <2> QED BY <2>2, Zeros DEF CallType
<1> HIDE DEF call, c
<1>4. check' \in CheckType /\ check'.finished = check.finished
  BY <1>1 DEF CheckType
<1>5. calls' = [d \in Calls |-> IF d \in {c} THEN call ELSE calls[d]]
  BY <1>2 DEF IInv, TypeOK
<1>6. Ending
  BY <1>1 DEF Ending
<1>7. \A d \in Calls : header # "completed" /\ Completing(d, "write")' => Folds(calls'[d].fold)
  <2>1. \A d \in Calls : Completing(d, "write")' => Completing(d, "write") /\ calls'[d] = calls[d]
    BY <1>3, <1>5 DEF Completing
  <2> QED BY <2>1 DEF IInv, Inv, EndInv
<1>8. EndInv'
  <2>1. UNCHANGED <<header, scorecard, art, item, lateRows, lateDeletes>>
    BY <1>1 DEF server, history
  <2>2. Ending' => check'.finished /\ \A i \in Items : AtRest(item[i])
    BY <1>4, <1>6 DEF IInv, Inv, EndInv
  <2> QED BY <1>7, <2>1, <2>2, EndKept
<1>9. CheckStep({c}, call)
  <2>1. calls[c].kind = "none"
    BY <1>2, NothingLeft
  <2> QED BY <1>1, <1>3, <1>4, <1>5, <2>1 DEF CheckStep, server, IInv, TypeOK
<1> HIDE DEF IInv
<1> QED BY <1>2, <1>3, <1>8, <1>9, CheckStepHolds

\* A completion ends or is given up; the client hears of it or not.
LEMMA CompletionEnds ==
  ASSUME IInv, NEW c \in Calls, calls[c].kind = "complete", NEW call \in CallType,
         call = NoCall \/ call = [calls[c] EXCEPT !.heard = FALSE],
         calls' = [calls EXCEPT ![c] = call], check' \in CheckType, check'.finished = check.finished,
         UNCHANGED <<server, queue, item, day, history>>, mishaps' \in 0 .. MaxMishaps
  PROVE  IInv'
<1>1. /\ calls[c] \in CallType /\ calls[c].pc \in {"read", "write"} /\ calls[c].i = NoItem
      /\ calls' = [d \in Calls |-> IF d \in {c} THEN call ELSE calls[d]]
  BY DEF IInv, TypeOK, Inv, CallInv, CallOK
<1>2. Ending
  BY DEF Ending
<1>3. call # NoCall => /\ call.kind = "complete" /\ call.pc = calls[c].pc /\ call.i = NoItem
                       /\ call.fold = calls[c].fold
  BY <1>1 DEF CallType
<1>4. \A d \in Calls : header # "completed" /\ Completing(d, "write")' => Folds(calls'[d].fold)
  <2> SUFFICES ASSUME NEW d \in Calls, header # "completed", Completing(d, "write")'
               PROVE  Folds(calls'[d].fold)
    OBVIOUS
  <2>1. Completing(d, "write") /\ calls'[d].fold = calls[d].fold
    BY <1>1, <1>3, NothingLeft DEF Completing
  <2> QED BY <2>1 DEF IInv, Inv, EndInv
<1>5. EndInv'
  <2>1. UNCHANGED <<header, scorecard, art, item, lateRows, lateDeletes>>
    BY DEF server, history
  <2>2. Ending' => check'.finished /\ \A i \in Items : AtRest(item[i])
    BY <1>2 DEF IInv, Inv, EndInv
  <2> QED BY <1>4, <2>1, <2>2, EndKept
<1>6. CheckStep({c}, call)
  BY <1>1, <1>3 DEF CheckStep, server, IInv, TypeOK
<1> HIDE DEF IInv
<1> QED BY <1>5, <1>6, CheckStepHolds

\* What Tell leaves of the client's view of the check.
LEMMA TellFits ==
  ASSUME IInv, NEW c \in Calls, NEW done \in BOOLEAN, Tell(c, done)
  PROVE  check' \in CheckType /\ check'.finished = check.finished
<1>1. check \in CheckType
  BY DEF IInv, TypeOK
<1>2. check.done \in BOOLEAN
  BY <1>1 DEF CheckType
<1>3. CASE calls[c].heard
  <2>1. check' = [check EXCEPT !.fin = "no", !.done = done \/ check.done]
    BY <1>3 DEF Tell
  <2>2. (done \/ check.done) \in BOOLEAN
    BY <1>2
  <2> QED BY <1>1, <2>1, <2>2 DEF CheckType
<1>4. CASE ~calls[c].heard
  BY <1>1, <1>4 DEF Tell
<1> QED BY <1>3, <1>4

\* With every row covered the analyses fold to the rows that succeeded.
LEMMA CoveredFolds ==
  ASSUME IInv, Covered
  PROVE  Fold \in SUBSET Artifacts /\ Folds(Fold)
<1>1. \A a \in Rows : art[a].st \in Settled
  <2> SUFFICES ASSUME NEW a \in Rows PROVE art[a].st \in Settled
    OBVIOUS
  <2>1. IsCurrent(a) /\ a \in Artifacts
    BY DEF Covered, Rows
  <2>2. analysis[a].st \in {"analyzed", "failed", "retryable"}
    BY <2>1 DEF IsCurrent, IInv, TypeOK, AnalysisType
  <2> QED BY <2>1, <2>2 DEF Settled, IInv, Inv, RowInv, ResultOfItsGeneration
<1>2. Fold = Succeeded
  <2>1. \A a \in Rows : (art[a].st = "succeeded") = (IsCurrent(a) /\ analysis[a].st = "analyzed")
    BY DEF IInv, Inv, RowInv, ResultOfItsGeneration
  <2> QED BY <2>1 DEF Fold, Succeeded, Rows
<1> QED BY <1>1, <1>2 DEF Folds, Succeeded, Rows

LEMMA CompleteReadHolds ==
  ASSUME IInv, NEW c \in Calls, CompleteRead(c)
  PROVE  IInv'
<1>1. /\ calls[c].kind = "complete" /\ calls[c].pc = "read"
      /\ UNCHANGED <<server, queue, item, day, mishaps, history>> /\ mishaps' \in 0 .. MaxMishaps
  BY DEF CompleteRead, Completing, IInv, TypeOK
<1>2. CASE header = "completed" \/ Covered
  <2> DEFINE old == calls[c]
             fold == Fold
             call == [old EXCEPT !.pc = "write", !.fold = fold]
  <2>1. calls' = [calls EXCEPT ![c] = call] /\ UNCHANGED check
    BY <1>2 DEF CompleteRead
  <2>2. old \in CallType /\ fold \in SUBSET Artifacts /\ old.i = NoItem
    BY <1>1 DEF IInv, TypeOK, Fold, Inv, CallInv, CallOK
  <2> HIDE DEF old, fold
  <2>3. /\ call \in CallType /\ call.kind = old.kind /\ call.pc = "write" /\ call.i = NoItem
        /\ call.fold = fold
    BY <2>2 DEF CallType
  <2> HIDE DEF call
  <2>4. calls' = [d \in Calls |-> IF d \in {c} THEN call ELSE calls[d]]
    BY <2>1 DEF IInv, TypeOK
  <2>5. \A d \in Calls : header # "completed" /\ Completing(d, "write")' => Folds(calls'[d].fold)
    <3> SUFFICES ASSUME NEW d \in Calls, header # "completed", Completing(d, "write")'
                 PROVE  Folds(calls'[d].fold)
      OBVIOUS
    <3>1. CASE d = c
      BY <1>2, <2>3, <2>4, <3>1, CoveredFolds DEF fold
    <3>2. CASE d # c
      BY <2>4, <3>2 DEF Completing, IInv, Inv, EndInv
    <3> QED BY <3>1, <3>2
  <2>6. EndInv'
    <3>1. UNCHANGED <<header, scorecard, art, item, lateRows, lateDeletes>>
      BY <1>1 DEF server, history
    <3>2. Ending' => check'.finished /\ \A i \in Items : AtRest(item[i])
      BY <1>1, <2>1 DEF IInv, Inv, EndInv, Ending
    <3> QED BY <2>5, <3>1, <3>2, EndKept
  <2>7. CheckStep({c}, call)
    BY <1>1, <2>1, <2>3, <2>4 DEF CheckStep, server, IInv, TypeOK, old
  <2> HIDE DEF IInv
  <2> QED BY <2>3, <2>6, <2>7, CheckStepHolds
<1>3. CASE ~(header = "completed" \/ Covered)
  <2>1. End(c) /\ Tell(c, FALSE)
    BY <1>3 DEF CompleteRead
  <2>2. check' \in CheckType /\ check'.finished = check.finished
    BY <2>1, TellFits
  <2> HIDE DEF IInv
  <2> QED BY <1>1, <2>1, <2>2, EmptyTypes, CompletionEnds DEF End
<1> QED BY <1>2, <1>3

LEMMA CompleteCollidesHolds ==
  ASSUME IInv, NEW c \in Calls, CompleteCollides(c)
  PROVE  IInv'
<1>1. /\ calls[c].kind = "complete" /\ UNCHANGED <<server, queue, item, day, history>>
      /\ mishaps' \in 0 .. MaxMishaps /\ End(c) /\ Tell(c, TRUE)
  BY MishapCounted DEF CompleteCollides, Completing
<1>2. check' \in CheckType /\ check'.finished = check.finished
  BY <1>1, TellFits
<1> HIDE DEF IInv
<1> QED BY <1>1, <1>2, EmptyTypes, CompletionEnds DEF End

LEMMA CompleteWriteHolds ==
  ASSUME IInv, NEW c \in Calls, CompleteWrite(c)
  PROVE  IInv'
<1>1. /\ calls[c].kind = "complete" /\ calls[c].pc = "write" /\ header' = "completed"
      /\ scorecard' = IF header = "completed" THEN scorecard ELSE calls[c].fold
      /\ End(c) /\ Tell(c, TRUE)
      /\ UNCHANGED <<art, analysis, tombs, reserved, mapping, object, queue, item, day, mishaps, history>>
  BY DEF CompleteWrite, Completing
<1>2. check' \in CheckType /\ check'.finished = check.finished
  BY <1>1, TellFits
<1>3. calls' = [d \in Calls |-> IF d \in {c} THEN NoCall ELSE calls[d]]
  BY <1>1 DEF End, IInv, TypeOK
<1>4. scorecard \subseteq Artifacts /\ calls[c].fold \subseteq Artifacts
  BY DEF IInv, TypeOK, CallType
<1>5. CheckStep({c}, NoCall)
  BY <1>1, <1>2, <1>3, <1>4 DEF CheckStep, IInv, TypeOK
<1>6. Folds(scorecard')
  BY <1>1 DEF IInv, Inv, EndInv, Completing
<1>7. check.finished /\ \A i \in Items : AtRest(item[i])
  BY <1>1 DEF Ending, IInv, Inv, EndInv
<1>8. EndInv'
  <2>1. Rows' = Rows /\ Succeeded' = Succeeded
    BY <1>1 DEF Rows, Succeeded
  <2>2. Folds(scorecard)'
    BY <1>1, <1>6, <2>1 DEF Folds, history
  <2>3. \A i \in Items : AtRest(item[i])'
    BY <1>1, <1>7 DEF AtRest
  <2> QED BY <1>1, <1>2, <1>7, <2>2, <2>3 DEF EndInv
<1> HIDE DEF IInv
<1> QED BY <1>5, <1>8, EmptyTypes, CheckStepHolds

-----------------------------------------------------------------------------
(* Calls that fail, die or are given up *)

\* What the client's state becomes when it gives up a call.
LEMMA GivenUp ==
  ASSUME IInv, NEW c \in Calls, GaveUp(c), NEW call \in CallType, calls[c] # NoCall,
         call = NoCall \/ (calls[c].heard /\ call = [calls[c] EXCEPT !.heard = FALSE]),
         calls' = [calls EXCEPT ![c] = call],
         UNCHANGED <<server, queue, day, history>>, mishaps' \in 0 .. MaxMishaps
  PROVE  IInv'
<1>1. calls[c] \in CallType /\ calls[c].kind # "none"
  BY DEF IInv, TypeOK, Inv, CallInv, CallOK
<1>2. CASE calls[c].kind = "complete"
  <2>1. check \in CheckType /\ UNCHANGED item
    BY <1>2 DEF GaveUp, IInv, TypeOK
  <2>2. check' \in CheckType /\ check'.finished = check.finished
    BY <1>2, <2>1 DEF GaveUp, CheckType
  <2> HIDE DEF IInv
  <2> QED BY <1>2, <2>1, <2>2, CompletionEnds
<1>3. CASE calls[c].kind \in Runs /\ calls[c].heard
  <2>1. item' = [item EXCEPT ![calls[c].i] = [Heard(c) EXCEPT !.st = "idle"]] /\ UNCHANGED check
    BY <1>3 DEF GaveUp, Runs, Heard
  <2> HIDE DEF IInv
  <2> QED BY <1>3, <2>1, RunGivenUp
<1>4. CASE calls[c].kind = "delete" \/ (calls[c].kind \in Runs /\ ~calls[c].heard)
  <2>1. UNCHANGED client
    BY <1>4 DEF GaveUp, Runs, client
  <2>2. calls[c].kind \in Runs \union {"delete"}
    BY <1>4
  <2>3. CASE call = NoCall
    <3> HIDE DEF IInv
    <3> QED BY <2>1, <2>2, <2>3, CallEnds DEF End
  <2>4. CASE call = [calls[c] EXCEPT !.heard = FALSE] /\ calls[c].kind = "delete"
    <3>1. /\ CallOK(calls[c], Heard(c)) /\ calls[c].i \in Items
          /\ call.kind = "delete" /\ call.pc = calls[c].pc /\ call.i = calls[c].i /\ call.a = calls[c].a
          /\ call.row = calls[c].row /\ call.status = calls[c].status /\ call.heard = FALSE
      BY <1>1, <2>2, <2>4, CallFacts DEF CallType
    <3>2. CallOK(call, Heard(c))
      BY <2>4, <3>1 DEF CallOK, DeleteOK, Runs
    <3> HIDE DEF IInv
    <3> QED BY <2>1, <3>1, <3>2, QuietCall
  <2> QED BY <1>4, <2>3, <2>4
<1> QED BY <1>1, <1>2, <1>3, <1>4 DEF CallType, Runs

LEMMA CallDiesHolds ==
  ASSUME IInv, NEW c \in Calls, CallDies(c)
  PROVE  IInv'
<1>1. /\ mishaps' \in 0 .. MaxMishaps /\ GaveUp(c) /\ calls[c] # NoCall
      /\ calls' = [calls EXCEPT ![c] = NoCall] /\ UNCHANGED <<server, queue, day, history>>
  BY MishapCounted DEF CallDies, End
<1> HIDE DEF IInv
<1> QED BY <1>1, EmptyTypes, GivenUp

LEMMA AbandonHolds ==
  ASSUME IInv, NEW c \in Calls, Abandon(c)
  PROVE  IInv'
<1> DEFINE call == [calls[c] EXCEPT !.heard = FALSE]
<1>1. /\ mishaps' \in 0 .. MaxMishaps /\ GaveUp(c) /\ calls[c].heard
      /\ calls' = [calls EXCEPT ![c] = call] /\ UNCHANGED <<server, queue, day, history>>
  BY MishapCounted DEF Abandon
<1>2. calls[c] # NoCall /\ call \in CallType
  <2>1. calls[c] # NoCall
    BY <1>1, NothingLeft
  <2>2. calls[c] \in CallType
    BY DEF IInv, TypeOK
  <2> QED BY <2>1, <2>2 DEF CallType
<1>3. call = [calls[c] EXCEPT !.heard = FALSE]
  OBVIOUS
<1> HIDE DEF IInv, call
<1> QED BY <1>1, <1>2, <1>3, GivenUp

-----------------------------------------------------------------------------
(* The analysis worker *)

\* Rows keep their generation and, once settled, their status.
Steady ==
  \A a \in Artifacts :
    /\ art'[a].gen = art[a].gen /\ (art'[a].st = "none" <=> art[a].st = "none")
    /\ art[a].st \in Settled => art'[a].st = art[a].st

WorkerFrame ==
  /\ art' \in [Artifacts -> RowType] /\ analysis' \in [Artifacts -> AnalysisType]
  /\ queue' \in [Messages -> MessageType] /\ mishaps' \in 0 .. MaxMishaps
  /\ UNCHANGED <<header, scorecard, tombs, reserved, mapping, object, client, calls, day, history>>

LEMMA WorkerHolds ==
  ASSUME IInv, WorkerFrame, Steady, RowInv', QueueInv'
  PROVE  IInv'
<1>1. TypeOK'
  BY DEF WorkerFrame, client, history, IInv, TypeOK
<1>2. Rows' = Rows /\ Reserved' = Reserved /\ Evidence' = Evidence /\ Rows \subseteq Artifacts
  BY DEF WorkerFrame, Steady, Rows, Reserved, Evidence
<1>3. Reserved \subseteq Artifacts
  BY DEF Reserved
<1>4. QuotaInv' /\ MapInv' /\ BytesInv'
  BY <1>2 DEF WorkerFrame, client, history, IInv, Inv, QuotaInv, MapInv, BytesInv, Owner, Today
<1>5. \A a \in Rows : /\ art'[a].gen = art[a].gen
                      /\ art[a].st = "exhausted" => art'[a].st = "exhausted"
                      /\ art[a].st = "succeeded" => art'[a].st = "succeeded"
                      /\ art[a].st = "permanent_failure" => art'[a].st = "permanent_failure"
  BY <1>2 DEF Steady, Settled
<1>6. CallInv'
  <2> SUFFICES ASSUME NEW d \in Calls PROVE CallOK(calls[d], Heard(d))'
    BY DEF CallInv
  <2>1. calls'[d] = calls[d] /\ Heard(d)' = Heard(d) /\ CallOK(calls[d], Heard(d))
    BY DEF WorkerFrame, client, Heard, IInv, Inv, CallInv
  <2>2. RegisterOK(calls[d], Heard(d)) => RegisterOK(calls[d], Heard(d))'
    BY <1>2, <2>1 DEF RegisterOK, WorkerFrame, Today
  <2>3. RestartOK(calls[d], Heard(d)) => RestartOK(calls[d], Heard(d))'
    BY <1>2, <1>5, <2>1 DEF RestartOK
  <2>4. DeleteOK(calls[d], Heard(d)) => DeleteOK(calls[d], Heard(d))'
    BY <1>2, <1>5, <2>1 DEF DeleteOK, WorkerFrame
  <2> HIDE DEF IInv, WorkerFrame
  <2>5. day' = day /\ \A a \in Artifacts : reserved'[a] = reserved[a]
    BY DEF WorkerFrame
  <2> QED BY <1>2, <1>3, <2>1, <2>2, <2>3, <2>4, <2>5 DEF CallOK
<1>7. HeardInv'
  <2> SUFFICES ASSUME NEW i \in Items, NEW c \in Calls, Awaited(c, i)'
               PROVE  HeardOK(calls[c], item[i])' /\ \A d \in Calls : Awaited(d, i)' => c = d
    BY DEF HeardInv
  <2>1. \A d \in Calls : Awaited(d, i)' = Awaited(d, i) /\ calls'[d] = calls[d] /\ item'[i] = item[i]
    BY DEF Awaited, WorkerFrame, client
  <2>2. HeardOK(calls[c], item[i]) /\ \A d \in Calls : Awaited(d, i) => c = d
    BY <2>1 DEF IInv, Inv, HeardInv
  <2>3. HeardOK(calls[c], item[i])'
    BY <1>2, <1>5, <2>1, <2>2 DEF HeardOK
  <2> QED BY <2>1, <2>2, <2>3
<1>8. ItemInv'
  <2> SUFFICES ASSUME NEW i \in Items PROVE ItemOK(i, item[i])'
    BY DEF ItemInv
  <2>1. item'[i] = item[i] /\ ItemOK(i, item[i])
    BY DEF WorkerFrame, client, IInv, Inv, ItemInv
  <2>2. item[i].a \in Rows /\ Outcome(item[i]) => Outcome(item[i])'
    BY <1>5, <2>1 DEF Outcome
  <2> HIDE DEF IInv
  <2> QED BY <1>2, <2>1, <2>2 DEF ItemOK, WorkerFrame
<1>9. EndInv'
  <2>1. \A fold : Folds(fold) => Folds(fold)'
    <3> SUFFICES ASSUME NEW fold, Folds(fold) PROVE Folds(fold)'
      OBVIOUS
    <3>1. \A a \in Rows : art'[a].st = art[a].st
      BY <1>2 DEF Folds, Steady
    <3>2. Succeeded' = Succeeded
      BY <1>2, <3>1 DEF Succeeded
    <3> QED BY <1>2, <3>1, <3>2 DEF Folds, WorkerFrame, history
  <2> QED BY <2>1 DEF EndInv, Ending, AtRest, Completing, WorkerFrame, client, IInv, Inv
<1> QED BY <1>1, <1>4, <1>6, <1>7, <1>8, <1>9 DEF IInv, Inv

\* Rows are only claimed and released.
LEMMA RowsKept ==
  ASSUME IInv, WorkerFrame, Steady, analysis' = analysis,
         \A a \in Artifacts : art'[a].st \in Settled => art[a].st = art'[a].st,
         \A a \in Rows : art'[a].st # art[a].st => object[a] = "registered" \/ a \in tombs
  PROVE  RowInv'
<1>1. Rows' = Rows /\ Reserved' = Reserved /\ Evidence' = Evidence /\ Rows \subseteq Artifacts
  BY DEF WorkerFrame, Steady, Rows, Reserved, Evidence
<1>2. \A a \in Artifacts : IsCurrent(a)' = IsCurrent(a)
  BY DEF Steady, IsCurrent
<1>3. \A a \in Rows : \A st \in Settled : (art'[a].st = st) = (art[a].st = st)
  BY <1>1 DEF Steady, Settled
<1>4. ResultOfItsGeneration'
  <2>1. ResultOfItsGeneration
    BY DEF IInv, Inv, RowInv
  <2> QED BY <1>1, <1>2, <1>3, <2>1 DEF ResultOfItsGeneration, Settled
<1>5. \A a \in Rows :
       /\ Today(a)' => object'[a] # "none"
       /\ art'[a].st # "queued" => object'[a] = "registered" \/ a \in tombs'
       /\ art'[a].gen <= Owner(a)'.asked
       /\ analysis'[a].st # "none" => analysis'[a].gen <= art'[a].gen
       /\ analysis'[a].st \in {"analyzed", "failed"} => analysis'[a].gen = art'[a].gen
  BY <1>1 DEF IInv, Inv, RowInv, WorkerFrame, client, Steady, Today, Owner
<1> QED BY <1>1, <1>4, <1>5 DEF RowInv, IInv, Inv, WorkerFrame, client, history, LetGo, Owner

\* A message is moved on, and stays what it is about.
LEMMA MessageMoves ==
  ASSUME IInv, NEW m \in Messages, NEW msg \in MessageType, queue' = [queue EXCEPT ![m] = msg],
         queue[m].pc # "free", msg.pc # "free", msg.a = queue[m].a, msg.gen = queue[m].gen,
         UNCHANGED <<tombs, object, item>>, Steady, art' \in [Artifacts -> RowType],
         \A a \in Artifacts : art'[a].lease # NoLease =>
           IF art'[a].lease = m
           THEN /\ art'[a].st = "running" /\ queue[m].a = a /\ queue[m].gen = art[a].gen
                /\ msg.pc \in {"running", "hidden"}
           ELSE art'[a] = art[a],
         \A a \in Artifacts : art[a].st # art'[a].st => a = queue[m].a /\ art[a].gen = queue[m].gen
  PROVE  queue' \in [Messages -> MessageType] /\ QueueInv'
<1>1. /\ queue' \in [Messages -> MessageType] /\ queue'[m] = msg
      /\ \A n \in Messages \ {m} : queue'[n] = queue[n]
  BY DEF IInv, TypeOK
<1>2. Rows' = Rows /\ Evidence' = Evidence /\ Rows \subseteq Artifacts
  BY DEF Steady, Rows, Evidence
<1>3. \A a \in Artifacts : Message(a) => Message(a)'
  <2> SUFFICES ASSUME NEW a \in Artifacts, Message(a) PROVE Message(a)'
    OBVIOUS
  <2>1. PICK n \in Messages : queue[n].pc # "free" /\ queue[n].a = a /\ queue[n].gen = art[a].gen
    BY DEF Message
  <2>2. queue'[n].pc # "free" /\ queue'[n].a = a /\ queue'[n].gen = art'[a].gen
    BY <1>1, <2>1 DEF Steady
  <2> QED BY <2>2 DEF Message
<1>4. \A a \in Artifacts : art[a].st # art'[a].st => Message(a)'
  BY <1>1 DEF Message, Steady
<1>5. \A n \in Messages :
       IF queue'[n].pc = "free" THEN queue'[n] = NoMessage
       ELSE queue'[n].a \in Evidence' /\ (object'[queue'[n].a] = "registered" \/ queue'[n].a \in tombs')
  BY <1>1, <1>2 DEF IInv, Inv, QueueInv
<1>6. \A a \in Artifacts : art'[a].lease # NoLease =>
       /\ art'[a].st = "running" /\ queue'[art'[a].lease].a = a /\ queue'[art'[a].lease].gen = art'[a].gen
       /\ queue'[art'[a].lease].pc \in {"running", "hidden"}
  <2> SUFFICES ASSUME NEW a \in Artifacts, art'[a].lease # NoLease
               PROVE  /\ art'[a].st = "running" /\ queue'[art'[a].lease].a = a
                      /\ queue'[art'[a].lease].gen = art'[a].gen
                      /\ queue'[art'[a].lease].pc \in {"running", "hidden"}
    OBVIOUS
  <2>1. CASE art'[a].lease = m
    BY <1>1, <2>1 DEF Steady
  <2>2. CASE art'[a].lease # m
    <3>1. art'[a] = art[a] /\ art[a].lease \in Messages
      BY <2>2 DEF IInv, TypeOK, RowType
    <3> QED BY <1>1, <2>2, <3>1 DEF IInv, Inv, QueueInv
  <2> QED BY <2>1, <2>2
<1>7. \A a \in Rows : art'[a].st = "running" => Message(a)'
  BY <1>2, <1>3, <1>4 DEF IInv, Inv, QueueInv
<1>8. \A i \in Items : Trusting(item[i])' => Message(item[i].a)'
  <2> SUFFICES ASSUME NEW i \in Items, Trusting(item[i])' PROVE Message(item[i].a)'
    OBVIOUS
  <2>1. item[i].a \in Rows /\ item'[i] = item[i]
    BY <1>2 DEF Trusting
  <2>2. CASE art[item[i].a].st = art'[item[i].a].st
    <3>1. Trusting(item[i])
      BY <1>2, <2>2 DEF Trusting
    <3> QED BY <1>2, <1>3, <2>1, <3>1 DEF IInv, Inv, QueueInv
  <2>3. CASE art[item[i].a].st # art'[item[i].a].st
    BY <1>2, <1>4, <2>1, <2>3
  <2> QED BY <2>2, <2>3
<1>9. QueueInv'
  BY <1>2, <1>5, <1>6, <1>7, <1>8 DEF QueueInv
<1> QED BY <1>1, <1>9


\* A message is moved on alone.
LEMMA ParkHolds ==
  ASSUME IInv, NEW m \in Messages, NEW msg \in MessageType, queue' = [queue EXCEPT ![m] = msg],
         queue[m].pc # "free", msg.pc # "free", msg.a = queue[m].a, msg.gen = queue[m].gen,
         msg.pc \in {"running", "hidden"} \/ \A a \in Artifacts : art[a].lease # m,
         UNCHANGED <<server, client, calls, day, history>>, mishaps' \in 0 .. MaxMishaps
  PROVE  IInv'
<1>1. art \in [Artifacts -> RowType] /\ analysis \in [Artifacts -> AnalysisType]
  BY DEF IInv, TypeOK
<1>2. UNCHANGED <<header, scorecard, art, analysis, tombs, reserved, mapping, object, item, client>>
  BY DEF server, client
<1>3. Steady
  BY <1>2 DEF Steady
<1>4. \A a \in Artifacts : art'[a].lease # NoLease =>
        IF art'[a].lease = m
        THEN /\ art'[a].st = "running" /\ queue[m].a = a /\ queue[m].gen = art[a].gen
             /\ msg.pc \in {"running", "hidden"}
        ELSE art'[a] = art[a]
  BY <1>2 DEF IInv, Inv, QueueInv
<1>5. queue' \in [Messages -> MessageType] /\ QueueInv'
  <2> HIDE DEF IInv
  <2> QED BY <1>1, <1>2, <1>3, <1>4, MessageMoves
<1>6. WorkerFrame
  BY <1>1, <1>2, <1>5 DEF WorkerFrame
<1> HIDE DEF IInv
<1>7. RowInv'
  BY <1>2, <1>3, <1>6, RowsKept
<1> QED BY <1>3, <1>5, <1>6, <1>7, WorkerHolds

LEMMA ReceiveHolds ==
  ASSUME IInv, NEW m \in Messages, Receive(m)
  PROVE  IInv'
<1> DEFINE msg == IF OutOfDeliveries(m) THEN [queue[m] EXCEPT !.pc = "dead"]
                  ELSE [queue[m] EXCEPT !.pc = "received", !.n = @ + 1]
<1>1. /\ queue[m].pc = "visible" /\ queue[m] \in MessageType /\ MaxReceives \in Nat
      /\ mishaps' \in 0 .. MaxMishaps /\ UNCHANGED <<server, client, calls, day, history>>
  BY BoundsAssumption DEF Receive, IInv, TypeOK
<1>2. queue' = [queue EXCEPT ![m] = msg]
  BY DEF Receive, IInv, TypeOK
<1>3. /\ msg \in MessageType /\ msg.pc # "free" /\ msg.a = queue[m].a /\ msg.gen = queue[m].gen
  <2>1. CASE OutOfDeliveries(m)
    BY <1>1, <2>1 DEF MessageType
  <2>2. CASE ~OutOfDeliveries(m)
    <3>1. queue[m].n + 1 \in 0 .. MaxReceives
      BY <1>1, <2>2 DEF MessageType, OutOfDeliveries
    <3> QED BY <1>1, <2>2, <3>1 DEF MessageType
  <2> QED BY <2>1, <2>2
<1>4. \A a \in Artifacts : art[a].lease # m
  <2>1. m # NoLease
    BY DEF Messages, NoLease
  <2> QED BY <1>1, <2>1 DEF IInv, Inv, QueueInv
<1> HIDE DEF IInv, msg
<1> QED BY <1>1, <1>2, <1>3, <1>4, ParkHolds

LEMMA RunDiesHolds ==
  ASSUME IInv, NEW m \in Messages, RunDies(m)
  PROVE  IInv'
<1> DEFINE msg == [queue[m] EXCEPT !.pc = "hidden"]
<1>1. /\ queue[m].pc # "free" /\ queue[m] \in MessageType
      /\ mishaps' \in 0 .. MaxMishaps /\ UNCHANGED <<server, client, calls, day, history>>
  BY MishapCounted DEF RunDies, IInv, TypeOK
<1>2. queue' = [queue EXCEPT ![m] = msg]
  BY DEF RunDies, Park, IInv, TypeOK
<1>3. msg \in MessageType /\ msg.pc = "hidden" /\ msg.a = queue[m].a /\ msg.gen = queue[m].gen
  BY <1>1 DEF MessageType
<1> HIDE DEF IInv, msg
<1> QED BY <1>1, <1>2, <1>3, ParkHolds

LEMMA ReappearHolds ==
  ASSUME IInv, NEW m \in Messages, Reappear(m)
  PROVE  IInv'
<1> DEFINE msg == [queue[m] EXCEPT !.pc = "visible"]
<1>1. /\ queue[m].pc = "hidden" /\ queue[m] \in MessageType /\ art[queue[m].a].lease # m
      /\ mishaps' \in 0 .. MaxMishaps /\ UNCHANGED <<server, client, calls, day, history>>
  BY DEF Reappear, IInv, TypeOK
<1>2. queue' = [queue EXCEPT ![m] = msg]
  BY DEF Reappear, Park, IInv, TypeOK
<1>3. msg \in MessageType /\ msg.pc = "visible" /\ msg.a = queue[m].a /\ msg.gen = queue[m].gen
  BY <1>1 DEF MessageType
<1>4. \A a \in Artifacts : art[a].lease # m
  <2>1. m # NoLease
    BY DEF Messages, NoLease
  <2> QED BY <1>1, <2>1 DEF IInv, Inv, QueueInv
<1> HIDE DEF IInv, msg
<1> QED BY <1>1, <1>2, <1>3, <1>4, ParkHolds

LEMMA LeaseLapsesHolds ==
  ASSUME IInv, NEW a \in Artifacts, LeaseLapses(a)
  PROVE  IInv'
<1>1. /\ art \in [Artifacts -> RowType] /\ queue \in [Messages -> MessageType]
      /\ art' = [art EXCEPT ![a].lease = NoLease] /\ art[a].lease # NoLease
      /\ UNCHANGED <<header, scorecard, analysis, tombs, reserved, mapping, object, queue, client,
                     calls, day, mishaps, history, item>>
  BY DEF LeaseLapses, IInv, TypeOK, client
<1>2. /\ art' \in [Artifacts -> RowType] /\ art'[a] = [art[a] EXCEPT !.lease = NoLease]
      /\ \A b \in Artifacts \ {a} : art'[b] = art[b]
  BY <1>1 DEF RowType
<1>3. /\ \A b \in Artifacts : art'[b].st = art[b].st /\ art'[b].gen = art[b].gen
      /\ \A b \in Artifacts : art'[b].lease # NoLease => art'[b] = art[b]
  BY <1>1, <1>2 DEF RowType
<1>4. Steady /\ WorkerFrame
  BY <1>1, <1>2, <1>3 DEF Steady, WorkerFrame, IInv, TypeOK
<1>5. RowInv'
  <2> HIDE DEF IInv
  <2> QED BY <1>1, <1>3, <1>4, RowsKept
<1>6. QueueInv'
  <2>1. Rows' = Rows /\ Evidence' = Evidence /\ Rows \subseteq Artifacts
    BY <1>1, <1>3 DEF Rows, Evidence
  <2>2. \A b \in Artifacts : Message(b)' = Message(b)
    BY <1>1, <1>3 DEF Message
  <2>3. \A i \in Items : Trusting(item[i]) = Trusting(item[i])'
    BY <1>1, <1>3, <2>1 DEF Trusting
  <2>4. \A i \in Items : Trusting(item[i])' => Message(item[i].a)'
    BY <1>1, <2>1, <2>2, <2>3 DEF IInv, Inv, QueueInv, Trusting
  <2>5. \A b \in Rows' : art'[b].st = "running" => Message(b)'
    BY <1>3, <2>1, <2>2 DEF IInv, Inv, QueueInv
  <2> QED BY <1>1, <1>3, <2>1, <2>4, <2>5 DEF IInv, Inv, QueueInv
<1> HIDE DEF IInv
<1> QED BY <1>4, <1>5, <1>6, WorkerHolds

\* A message is gone: its row is settled, or another run holds it.
LEMMA MessageGone ==
  ASSUME IInv, NEW m \in Messages, queue' = [queue EXCEPT ![m] = NoMessage], queue[m].pc # "free",
         UNCHANGED <<tombs, object, item>>, Steady, art' \in [Artifacts -> RowType],
         \A a \in Artifacts : art'[a].lease # NoLease => art'[a] = art[a] /\ art[a].lease # m,
         \A a \in Artifacts : art[a].st # art'[a].st => art'[a].st \in Settled,
         \A a \in Artifacts :
           queue[m].a = a /\ queue[m].gen = art[a].gen /\ art'[a].st \in {"queued", "running"} =>
             art'[a].st = "running" /\ art'[a].lease # NoLease
  PROVE  queue' \in [Messages -> MessageType] /\ QueueInv'
<1>1. /\ queue' \in [Messages -> MessageType] /\ queue'[m] = NoMessage
      /\ \A n \in Messages \ {m} : queue'[n] = queue[n]
  BY EmptyTypes DEF IInv, TypeOK
<1>2. Rows' = Rows /\ Evidence' = Evidence /\ Rows \subseteq Artifacts
  BY DEF Steady, Rows, Evidence
<1>3. \A n \in Messages :
       IF queue'[n].pc = "free" THEN queue'[n] = NoMessage
       ELSE queue'[n].a \in Evidence' /\ (object'[queue'[n].a] = "registered" \/ queue'[n].a \in tombs')
  BY <1>1, <1>2 DEF IInv, Inv, QueueInv, NoMessage
<1>4. \A a \in Artifacts : art'[a].lease # NoLease =>
       /\ art'[a].lease \in Messages \ {m}
       /\ art'[a].st = "running" /\ queue'[art'[a].lease].a = a /\ queue'[art'[a].lease].gen = art'[a].gen
       /\ queue'[art'[a].lease].pc \in {"running", "hidden"}
  <2> SUFFICES ASSUME NEW a \in Artifacts, art'[a].lease # NoLease
               PROVE  /\ art'[a].lease \in Messages \ {m}
                      /\ art'[a].st = "running" /\ queue'[art'[a].lease].a = a
                      /\ queue'[art'[a].lease].gen = art'[a].gen
                      /\ queue'[art'[a].lease].pc \in {"running", "hidden"}
    OBVIOUS
  <2>1. art'[a] = art[a] /\ art[a].lease \in Messages \ {m}
    BY DEF IInv, TypeOK, RowType
  <2> QED BY <1>1, <2>1 DEF IInv, Inv, QueueInv
<1>5. \A a \in Artifacts : Message(a) /\ art'[a].st \in {"queued", "running"} => Message(a)'
  <2> SUFFICES ASSUME NEW a \in Artifacts, Message(a), art'[a].st \in {"queued", "running"}
               PROVE  Message(a)'
    OBVIOUS
  <2>1. PICK n \in Messages : queue[n].pc # "free" /\ queue[n].a = a /\ queue[n].gen = art[a].gen
    BY DEF Message
  <2>2. CASE n # m
    <3>1. queue'[n].pc # "free" /\ queue'[n].a = a /\ queue'[n].gen = art'[a].gen
      BY <1>1, <2>1, <2>2 DEF Steady
    <3> QED BY <3>1 DEF Message
  <2>3. CASE n = m
    <3>1. art'[a].lease # NoLease
      BY <2>1, <2>3
    <3>2. /\ art'[a].lease \in Messages /\ queue'[art'[a].lease].a = a
          /\ queue'[art'[a].lease].gen = art'[a].gen /\ queue'[art'[a].lease].pc \in {"running", "hidden"}
      BY <1>4, <3>1
    <3> QED BY <3>2 DEF Message
  <2> QED BY <2>2, <2>3
<1>6. \A a \in Rows : art'[a].st = "running" => Message(a)'
  BY <1>2, <1>5 DEF IInv, Inv, QueueInv, Settled
<1>7. \A i \in Items : Trusting(item[i])' => Message(item[i].a)'
  <2> SUFFICES ASSUME NEW i \in Items, Trusting(item[i])' PROVE Message(item[i].a)'
    OBVIOUS
  <2>1. item[i].a \in Rows /\ item'[i] = item[i] /\ art'[item[i].a].st = "queued"
    BY <1>2 DEF Trusting
  <2>2. Trusting(item[i])
    BY <1>2, <2>1 DEF Trusting, Settled
  <2> QED BY <1>2, <1>5, <2>1, <2>2 DEF IInv, Inv, QueueInv
<1>8. QueueInv'
  BY <1>2, <1>3, <1>4, <1>6, <1>7 DEF QueueInv
<1> QED BY <1>1, <1>8

\* What is known of the message a run holds.
LEMMA MessageFacts ==
  ASSUME IInv, NEW m \in Messages, queue[m].pc # "free"
  PROVE  /\ queue[m] \in MessageType /\ queue[m].a \in Artifacts /\ queue[m].a \in Evidence
         /\ object[queue[m].a] = "registered" \/ queue[m].a \in tombs
         /\ m # NoLease
         /\ \A a \in Artifacts : art[a].lease = m =>
              /\ art[a].st = "running" /\ queue[m].a = a /\ queue[m].gen = art[a].gen
              /\ queue[m].pc \in {"running", "hidden"}
<1>1. m # NoLease
  BY DEF Messages, NoLease
<1>2. queue[m].a \in Evidence /\ (object[queue[m].a] = "registered" \/ queue[m].a \in tombs)
  BY DEF IInv, Inv, QueueInv
<1>3. queue[m] \in MessageType /\ queue[m].a \in Artifacts
  BY <1>2 DEF IInv, TypeOK, Evidence, Rows
<1>4. \A a \in Artifacts : art[a].lease = m =>
        /\ art[a].st = "running" /\ queue[m].a = a /\ queue[m].gen = art[a].gen
        /\ queue[m].pc \in {"running", "hidden"}
  BY <1>1 DEF IInv, Inv, QueueInv
<1> QED BY <1>1, <1>2, <1>3, <1>4

LEMMA ClaimHolds ==
  ASSUME IInv, NEW m \in Messages, Claim(m)
  PROVE  IInv'
<1>1. /\ queue[m].pc = "received" /\ queue[m].pc # "free"
      /\ UNCHANGED <<header, scorecard, analysis, tombs, reserved, mapping, object, client, calls,
                     day, mishaps, history, item>>
  BY DEF Claim, client
<1>2. PICK a \in Artifacts :
      /\ a = queue[m].a /\ queue[m] \in MessageType /\ a \in Evidence /\ m # NoLease
      /\ object[a] = "registered" \/ a \in tombs
      /\ \A b \in Artifacts : art[b].lease # m
  <2> HIDE DEF IInv
  <2> QED BY <1>1, MessageFacts
<1>3. art \in [Artifacts -> RowType] /\ analysis \in [Artifacts -> AnalysisType] /\ mishaps \in 0 .. MaxMishaps
  BY DEF IInv, TypeOK
<1>4. CASE MayClaim(art[a], queue[m].gen)
  <2> DEFINE msg == [queue[m] EXCEPT !.pc = "running"]
  <2>1. art' = [art EXCEPT ![a].st = "running", ![a].lease = m] /\ queue' = [queue EXCEPT ![m] = msg]
    BY <1>2, <1>4 DEF Claim, Park, IInv, TypeOK
  <2>2. msg \in MessageType /\ msg.pc = "running" /\ msg.a = a /\ msg.gen = queue[m].gen
    BY <1>2 DEF MessageType
  <2>3. art[a].gen = queue[m].gen /\ art[a].st \in {"queued", "running"}
    BY <1>4 DEF MayClaim
  <2>4. /\ art'[a] = [art[a] EXCEPT !.st = "running", !.lease = m]
        /\ \A b \in Artifacts \ {a} : art'[b] = art[b]
    BY <1>2, <1>3, <2>1 DEF RowType
  <2>5. art'[a] \in RowType /\ art'[a].st = "running" /\ art'[a].gen = art[a].gen /\ art'[a].lease = m
    <3>1. art[a] \in RowType
      BY <1>3
    <3> HIDE DEF IInv
    <3> QED BY <2>4, <3>1 DEF RowType, Statuses
  <2>6. art' \in [Artifacts -> RowType]
    <3>1. art' = [b \in Artifacts |-> IF b = a THEN art'[a] ELSE art[b]]
      BY <1>2, <1>3, <2>1
    <3> QED BY <1>3, <2>5, <3>1
  <2> HIDE DEF msg
  <2>7. Steady
    BY <2>3, <2>4, <2>5 DEF Steady, Settled
  <2>8. queue' \in [Messages -> MessageType] /\ QueueInv'
    <3>1. \A b \in Artifacts : art'[b].lease # NoLease =>
            IF art'[b].lease = m
            THEN /\ art'[b].st = "running" /\ queue[m].a = b /\ queue[m].gen = art[b].gen
                 /\ msg.pc \in {"running", "hidden"}
            ELSE art'[b] = art[b]
      <4> SUFFICES ASSUME NEW b \in Artifacts, art'[b].lease # NoLease
                   PROVE  IF art'[b].lease = m
                          THEN /\ art'[b].st = "running" /\ queue[m].a = b /\ queue[m].gen = art[b].gen
                               /\ msg.pc \in {"running", "hidden"}
                          ELSE art'[b] = art[b]
        OBVIOUS
      <4> HIDE DEF IInv
      <4>1. CASE b = a
        BY <1>2, <2>2, <2>3, <2>5, <4>1
      <4>2. CASE b # a
        BY <1>2, <2>4, <4>2
      <4> QED BY <4>1, <4>2
    <3>2. \A b \in Artifacts : art[b].st # art'[b].st => b = queue[m].a /\ art[b].gen = queue[m].gen
      BY <1>2, <2>3, <2>4
    <3> HIDE DEF IInv
    <3>3. msg.pc # "free" /\ msg.a = queue[m].a
      BY <1>2, <2>2
    <3> QED BY <1>1, <2>1, <2>2, <2>6, <2>7, <3>1, <3>2, <3>3, MessageMoves
  <2>9. WorkerFrame
    BY <1>1, <1>3, <2>6, <2>8 DEF WorkerFrame
  <2>10. RowInv'
    <3>1. \A b \in Artifacts : art'[b].st \in Settled => art[b].st = art'[b].st
      BY <2>4, <2>5 DEF Settled
    <3>2. \A b \in Rows : art'[b].st # art[b].st => object[b] = "registered" \/ b \in tombs
      BY <1>2, <2>4 DEF Rows
    <3> HIDE DEF IInv
    <3> QED BY <1>1, <2>7, <2>9, <3>1, <3>2, RowsKept
  <2> HIDE DEF IInv
  <2> QED BY <2>7, <2>8, <2>9, <2>10, WorkerHolds
<1>5. CASE ~MayClaim(art[a], queue[m].gen)
  <2>1. art' = art /\ queue' = [queue EXCEPT ![m] = NoMessage]
    BY <1>2, <1>5 DEF Claim, Ack
  <2>2. Steady
    BY <2>1 DEF Steady
  <2>3. \A b \in Artifacts :
          queue[m].a = b /\ queue[m].gen = art[b].gen /\ art'[b].st \in {"queued", "running"} =>
            art'[b].st = "running" /\ art'[b].lease # NoLease
    BY <1>2, <1>5, <2>1 DEF MayClaim
  <2> HIDE DEF IInv
  <2>4. queue' \in [Messages -> MessageType] /\ QueueInv'
    BY <1>1, <1>2, <1>3, <2>1, <2>2, <2>3, MessageGone
  <2>5. WorkerFrame
    BY <1>1, <1>3, <2>1, <2>4 DEF WorkerFrame
  <2>6. RowInv'
    BY <1>1, <2>1, <2>2, <2>5, RowsKept
  <2> QED BY <2>2, <2>4, <2>5, <2>6, WorkerHolds
<1> QED BY <1>4, <1>5

\* A result and its row are fenced together.
LEMMA PublishHolds ==
  ASSUME IInv, NEW m \in Messages, NEW st, NEW found,
         \/ st = "succeeded" /\ found = "analyzed"
         \/ st = "permanent_failure" /\ found = "failed"
         \/ st = "exhausted" /\ found = "retryable",
         queue[m].pc # "free", Publish(m, st, found)
  PROVE  IInv'
<1>1. /\ queue' = [queue EXCEPT ![m] = NoMessage]
      /\ UNCHANGED <<header, scorecard, tombs, reserved, mapping, object, client, calls,
                     day, mishaps, history, item>>
  BY DEF Publish, Ack, client
<1>2. PICK a \in Artifacts :
      /\ a = queue[m].a /\ queue[m] \in MessageType /\ a \in Evidence /\ m # NoLease
      /\ object[a] = "registered" \/ a \in tombs
      /\ \A b \in Artifacts : art[b].lease = m =>
           art[b].st = "running" /\ b = a /\ queue[m].gen = art[b].gen
  <2> HIDE DEF IInv
  <2> QED BY MessageFacts
<1>3. art \in [Artifacts -> RowType] /\ analysis \in [Artifacts -> AnalysisType] /\ mishaps \in 0 .. MaxMishaps
  BY DEF IInv, TypeOK
<1>4. CASE MayPublish(art[a], queue[m].gen)
  <2>1. /\ art' = [art EXCEPT ![a].st = st, ![a].lease = NoLease]
        /\ analysis' = [analysis EXCEPT ![a] = [st |-> found, gen |-> queue[m].gen]]
    BY <1>2, <1>4 DEF Publish
  <2>2. art[a].gen = queue[m].gen /\ art[a].st \in {"queued", "running"} /\ st \in Settled
    BY <1>4 DEF MayPublish, Settled
  <2>3. /\ art'[a] = [art[a] EXCEPT !.st = st, !.lease = NoLease]
        /\ \A b \in Artifacts \ {a} : art'[b] = art[b] /\ analysis'[b] = analysis[b]
        /\ analysis'[a] = [st |-> found, gen |-> art[a].gen]
    BY <1>2, <1>3, <2>1, <2>2 DEF RowType
  <2>4. /\ art'[a] \in RowType /\ art'[a].st = st /\ art'[a].gen = art[a].gen /\ art'[a].lease = NoLease
        /\ analysis'[a] \in AnalysisType /\ analysis'[a].st = found /\ analysis'[a].gen = art[a].gen
    <3>1. art[a] \in RowType /\ found \in {"analyzed", "failed", "retryable"} /\ st \in Statuses
      BY <1>3 DEF Statuses
    <3> HIDE DEF IInv
    <3>2. art[a].gen \in Generations
      BY <3>1 DEF RowType
    <3> HIDE DEF IInv
    <3>3. analysis'[a] \in AnalysisType /\ analysis'[a].st = found /\ analysis'[a].gen = art[a].gen
      BY <2>3, <3>1, <3>2 DEF AnalysisType
    <3>4. art'[a] \in RowType /\ art'[a].st = st /\ art'[a].gen = art[a].gen /\ art'[a].lease = NoLease
      BY <2>3, <3>1 DEF RowType
    <3> QED BY <3>3, <3>4
  <2>5. art' \in [Artifacts -> RowType] /\ analysis' \in [Artifacts -> AnalysisType]
    <3>1. /\ art' = [b \in Artifacts |-> IF b = a THEN art'[a] ELSE art[b]]
          /\ analysis' = [b \in Artifacts |-> IF b = a THEN analysis'[a] ELSE analysis[b]]
      BY <1>2, <1>3, <2>1
    <3> QED BY <1>3, <2>4, <3>1
  <2>6. Steady
    BY <2>2, <2>3, <2>4 DEF Steady, Settled
  <2>7. queue' \in [Messages -> MessageType] /\ QueueInv'
    <3>1. \A b \in Artifacts : art'[b].lease # NoLease => art'[b] = art[b] /\ art[b].lease # m
      BY <1>2, <2>3, <2>4
    <3>2. \A b \in Artifacts : art[b].st # art'[b].st => art'[b].st \in Settled
      BY <2>2, <2>3, <2>4
    <3>3. \A b \in Artifacts :
            queue[m].a = b /\ queue[m].gen = art[b].gen /\ art'[b].st \in {"queued", "running"} =>
              art'[b].st = "running" /\ art'[b].lease # NoLease
      BY <1>2, <2>2, <2>4 DEF Settled
    <3> HIDE DEF IInv
    <3> QED BY <1>1, <2>5, <2>6, <3>1, <3>2, <3>3, MessageGone
  <2>8. WorkerFrame
    BY <1>1, <1>3, <2>5, <2>7 DEF WorkerFrame
  <2>9. a \in Rows /\ Rows' = Rows /\ Evidence' = Evidence /\ Reserved' = Reserved /\ Rows \subseteq Artifacts
    BY <1>1, <1>2, <2>2, <2>6 DEF Rows, Evidence, Steady, Reserved
  <2>10. ResultOfItsGeneration'
    <3>1. \A b \in Rows : b # a => IsCurrent(b)' = IsCurrent(b) /\ art'[b].st = art[b].st /\ analysis'[b].st = analysis[b].st
      BY <2>3, <2>9 DEF IsCurrent
    <3>2. IsCurrent(a)'
      <4>1. analysis'[a].st # "none"
        BY <2>4
      <4> HIDE DEF IInv
      <4> QED BY <2>4, <4>1 DEF IsCurrent
    <3>3. \A b \in Rows :
            /\ (art[b].st = "succeeded") = (IsCurrent(b) /\ analysis[b].st = "analyzed")
            /\ (art[b].st = "exhausted") = (IsCurrent(b) /\ analysis[b].st = "retryable")
            /\ (art[b].st = "permanent_failure") = (IsCurrent(b) /\ analysis[b].st = "failed")
      BY DEF IInv, Inv, RowInv, ResultOfItsGeneration
    <3>4. ASSUME NEW b \in Rows', b # a
          PROVE  /\ (art'[b].st = "succeeded") = (IsCurrent(b)' /\ analysis'[b].st = "analyzed")
                 /\ (art'[b].st = "exhausted") = (IsCurrent(b)' /\ analysis'[b].st = "retryable")
                 /\ (art'[b].st = "permanent_failure") = (IsCurrent(b)' /\ analysis'[b].st = "failed")
      <4> HIDE DEF IInv
      <4> QED BY <2>9, <3>1, <3>3, <3>4
    <3>5. /\ (art'[a].st = "succeeded") = (IsCurrent(a)' /\ analysis'[a].st = "analyzed")
          /\ (art'[a].st = "exhausted") = (IsCurrent(a)' /\ analysis'[a].st = "retryable")
          /\ (art'[a].st = "permanent_failure") = (IsCurrent(a)' /\ analysis'[a].st = "failed")
      BY <2>4, <3>2
    <3> HIDE DEF IInv
    <3> QED BY <3>4, <3>5 DEF ResultOfItsGeneration
  <2>11. /\ \A i \in Items : item'[i] = item[i]
         /\ day' = day /\ object' = object /\ tombs' = tombs /\ reserved' = reserved
    BY <1>1
  <2>12. \A b \in Rows :
       /\ Today(b)' => object'[b] # "none"
       /\ art'[b].st # "queued" => object'[b] = "registered" \/ b \in tombs'
       /\ art'[b].gen <= Owner(b)'.asked
       /\ analysis'[b].st # "none" => analysis'[b].gen <= art'[b].gen
       /\ analysis'[b].st \in {"analyzed", "failed"} => analysis'[b].gen = art'[b].gen
    <3> SUFFICES ASSUME NEW b \in Rows
                 PROVE  /\ Today(b)' => object'[b] # "none"
                        /\ art'[b].st # "queued" => object'[b] = "registered" \/ b \in tombs'
                        /\ art'[b].gen <= Owner(b)'.asked
                        /\ analysis'[b].st # "none" => analysis'[b].gen <= art'[b].gen
                        /\ analysis'[b].st \in {"analyzed", "failed"} => analysis'[b].gen = art'[b].gen
      OBVIOUS
    <3>1. /\ Today(b)' = Today(b) /\ Owner(b)' = Owner(b) /\ b \in Artifacts
          /\ Today(b) => object[b] # "none"
          /\ art[b].st # "queued" => object[b] = "registered" \/ b \in tombs
          /\ art[b].gen <= Owner(b).asked
          /\ analysis[b].st # "none" => analysis[b].gen <= art[b].gen
          /\ analysis[b].st \in {"analyzed", "failed"} => analysis[b].gen = art[b].gen
      BY <1>1, <2>9, <2>11 DEF Today, Owner, IInv, Inv, RowInv
    <3>2. art[b].gen \in Nat
      BY <3>1, <1>3, BoundsAssumption DEF RowType, Generations
    <3> HIDE DEF IInv
    <3>3. CASE b = a
      BY <1>2, <2>4, <2>11, <3>1, <3>2, <3>3
    <3>4. CASE b # a
      BY <2>3, <2>11, <3>1, <3>4
    <3> QED BY <3>3, <3>4
  <2>13. \A b \in Reserved : analysis'[b].gen <= Owner(b)'.asked
    <3> SUFFICES ASSUME NEW b \in Reserved PROVE analysis'[b].gen <= Owner(b)'.asked
      OBVIOUS
    <3>1. /\ b \in Artifacts /\ Owner(b)' = Owner(b) /\ analysis[b].gen <= Owner(b).asked
          /\ b \in Rows => art[b].gen <= Owner(b).asked
      BY <1>1 DEF Reserved, Owner, IInv, Inv, RowInv
    <3> HIDE DEF IInv
    <3> QED BY <2>3, <2>4, <2>9, <3>1
  <2>14. \A b \in Artifacts \ Evidence' : analysis'[b] = NoAnalysis
    BY <1>2, <2>3, <2>9 DEF IInv, Inv, RowInv
  <2>15. /\ Evidence' \subseteq Reserved' /\ tombs' \intersect Rows' \subseteq lateRows'
         /\ \A b \in tombs' : Owner(b)'.a = b /\ LetGo(Owner(b))'
    BY <1>1, <2>9, <2>11 DEF IInv, Inv, RowInv, Owner, LetGo, history
  <2>16. RowInv'
    <3> HIDE DEF IInv
    <3> QED BY <2>9, <2>10, <2>12, <2>13, <2>14, <2>15 DEF RowInv
  <2> HIDE DEF IInv
  <2> QED BY <2>6, <2>7, <2>8, <2>16, WorkerHolds
<1>5. CASE ~MayPublish(art[a], queue[m].gen)
  <2>1. art' = art /\ analysis' = analysis
    BY <1>2, <1>5 DEF Publish
  <2>2. Steady
    BY <2>1 DEF Steady
  <2>3. \A b \in Artifacts : art[b].lease # m
    BY <1>2, <1>5 DEF MayPublish
  <2>4. \A b \in Artifacts :
          queue[m].a = b /\ queue[m].gen = art[b].gen /\ art'[b].st \in {"queued", "running"} =>
            art'[b].st = "running" /\ art'[b].lease # NoLease
    BY <1>2, <1>5, <2>1 DEF MayPublish
  <2> HIDE DEF IInv
  <2>5. queue' \in [Messages -> MessageType] /\ QueueInv'
    BY <1>1, <1>3, <2>1, <2>2, <2>3, <2>4, MessageGone
  <2>6. WorkerFrame
    BY <1>1, <1>3, <2>1, <2>5 DEF WorkerFrame
  <2>7. RowInv'
    BY <1>1, <2>1, <2>2, <2>6, RowsKept
  <2> QED BY <2>2, <2>5, <2>6, <2>7, WorkerHolds
<1> QED BY <1>4, <1>5

LEMMA AnalyzeHolds ==
  ASSUME IInv, NEW m \in Messages, Analyze(m)
  PROVE  IInv'
<1>1. queue[m].pc # "free" /\ (Publish(m, "succeeded", "analyzed") \/ Publish(m, "permanent_failure", "failed"))
  BY DEF Analyze
<1> HIDE DEF IInv
<1> QED BY <1>1, PublishHolds

LEMMA DeadLetterHolds ==
  ASSUME IInv, NEW m \in Messages, DeadLetter(m)
  PROVE  IInv'
<1>1. queue[m].pc # "free" /\ Publish(m, "exhausted", "retryable")
  BY DEF DeadLetter
<1> HIDE DEF IInv
<1> QED BY <1>1, PublishHolds

LEMMA AnalyzeFailsHolds ==
  ASSUME IInv, NEW m \in Messages, AnalyzeFails(m)
  PROVE  IInv'
<1> DEFINE msg == [queue[m] EXCEPT !.pc = "visible"]
<1>1. queue[m].pc = "running" /\ queue[m].pc # "free"
  BY DEF AnalyzeFails
<1>2. CASE OutOfDeliveries(m)
  <2>1. Publish(m, "exhausted", "retryable")
    BY <1>2 DEF AnalyzeFails
  <2> HIDE DEF IInv
  <2> QED BY <1>1, <2>1, PublishHolds
<1>3. CASE ~OutOfDeliveries(m)
  <2>1. /\ Release(queue[m].a, queue[m].gen) /\ queue' = [queue EXCEPT ![m] = msg]
        /\ UNCHANGED <<header, scorecard, analysis, tombs, reserved, mapping, object, client,
                       calls, day, mishaps, history, item>>
    BY <1>3 DEF AnalyzeFails, Park, IInv, TypeOK, client
  <2>2. PICK a \in Artifacts :
        /\ a = queue[m].a /\ queue[m] \in MessageType /\ a \in Evidence /\ m # NoLease
        /\ object[a] = "registered" \/ a \in tombs
        /\ \A b \in Artifacts : art[b].lease = m =>
             art[b].st = "running" /\ b = a /\ queue[m].gen = art[b].gen
    <3> HIDE DEF IInv
    <3> QED BY <1>1, MessageFacts
  <2>3. art \in [Artifacts -> RowType] /\ analysis \in [Artifacts -> AnalysisType] /\ mishaps \in 0 .. MaxMishaps
    BY DEF IInv, TypeOK
  <2>4. msg \in MessageType /\ msg.pc = "visible" /\ msg.a = a /\ msg.gen = queue[m].gen
    BY <2>2 DEF MessageType
  <2>5. /\ art' \in [Artifacts -> RowType]
        /\ \A b \in Artifacts : art'[b].gen = art[b].gen
        /\ \A b \in Artifacts : art'[b] = art[b] \/
             /\ b = a /\ art[b].gen = queue[m].gen /\ art[b].st = "running"
             /\ art'[b].st = "queued" /\ art'[b].lease = NoLease
        /\ \A b \in Artifacts : art'[b].lease # NoLease => art'[b] = art[b] /\ art[b].lease # m
    <3>1. CASE art[a].gen = queue[m].gen /\ art[a].st = "running"
      <4>1. art' = [art EXCEPT ![a] = [art[a] EXCEPT !.st = "queued", !.lease = NoLease]]
        BY <2>1, <2>2, <2>3, <3>1 DEF Release
      <4> DEFINE row == [art[a] EXCEPT !.st = "queued", !.lease = NoLease]
      <4>2. row \in RowType /\ row.st = "queued" /\ row.lease = NoLease /\ row.gen = art[a].gen
        BY <2>2, <2>3 DEF RowType, Statuses, NoLease
      <4> HIDE DEF row
      <4>3. /\ art' \in [Artifacts -> RowType] /\ art'[a] = row
            /\ \A b \in Artifacts \ {a} : art'[b] = art[b]
        BY <2>2, <2>3, <4>1, <4>2 DEF row
      <4> QED BY <2>2, <3>1, <4>2, <4>3
    <3>2. CASE ~(art[a].gen = queue[m].gen /\ art[a].st = "running")
      <4>1. art' = art
        BY <2>1, <2>2, <3>2 DEF Release
      <4> QED BY <2>2, <2>3, <3>2, <4>1
    <3> QED BY <3>1, <3>2
  <2> HIDE DEF msg
  <2>6. Steady
    BY <2>5 DEF Steady, Settled
  <2>7. queue' \in [Messages -> MessageType] /\ QueueInv'
    <3>1. \A b \in Artifacts : art'[b].lease # NoLease =>
            IF art'[b].lease = m
            THEN /\ art'[b].st = "running" /\ queue[m].a = b /\ queue[m].gen = art[b].gen
                 /\ msg.pc \in {"running", "hidden"}
            ELSE art'[b] = art[b]
      BY <2>5
    <3>2. \A b \in Artifacts : art[b].st # art'[b].st => b = queue[m].a /\ art[b].gen = queue[m].gen
      BY <2>2, <2>5
    <3>3. msg.pc # "free" /\ msg.a = queue[m].a
      BY <2>2, <2>4
    <3> HIDE DEF IInv
    <3> QED BY <1>1, <2>1, <2>4, <2>5, <2>6, <3>1, <3>2, <3>3, MessageMoves
  <2>8. WorkerFrame
    BY <2>1, <2>3, <2>5, <2>7 DEF WorkerFrame
  <2>9. RowInv'
    <3>1. \A b \in Artifacts : art'[b].st \in Settled => art[b].st = art'[b].st
      BY <2>5 DEF Settled
    <3>2. \A b \in Rows : art'[b].st # art[b].st => object[b] = "registered" \/ b \in tombs
      BY <2>2, <2>5 DEF Rows
    <3> HIDE DEF IInv
    <3> QED BY <2>1, <2>6, <2>8, <3>1, <3>2, RowsKept
  <2> HIDE DEF IInv
  <2> QED BY <2>6, <2>7, <2>8, <2>9, WorkerHolds
<1> QED BY <1>2, <1>3

-----------------------------------------------------------------------------
(* The writes of a registration *)

\* A new message for registered evidence.
LEMMA QueueGrows ==
  ASSUME IInv, NEW m \in Messages, queue[m] = NoMessage, NEW msg \in MessageType,
         queue' = [queue EXCEPT ![m] = msg], msg.pc = "visible", msg.a \in Evidence,
         object[msg.a] = "registered" \/ msg.a \in tombs,
         NEW i \in Items, NEW x \in ItemType, item' = [item EXCEPT ![i] = x], UNCHANGED server,
         Trusting(x) => Message(x.a) \/ (msg.a = x.a /\ msg.gen = art[x.a].gen)
  PROVE  queue' \in [Messages -> MessageType] /\ QueueInv'
<1>1. /\ queue' \in [Messages -> MessageType] /\ queue'[m] = msg
      /\ \A n \in Messages \ {m} : queue'[n] = queue[n]
      /\ item'[i] = x /\ \A j \in Items \ {i} : item'[j] = item[j]
  BY DEF IInv, TypeOK
<1>2. Rows' = Rows /\ Evidence' = Evidence /\ UNCHANGED <<art, tombs, object>>
  BY DEF server, Rows, Evidence
<1>3. \A a : Message(a) => Message(a)'
  <2> SUFFICES ASSUME NEW a, Message(a) PROVE Message(a)'
    OBVIOUS
  <2>1. PICK n \in Messages : queue[n].pc # "free" /\ queue[n].a = a /\ queue[n].gen = art[a].gen
    BY DEF Message
  <2>2. n # m
    BY <2>1 DEF NoMessage
  <2>3. queue'[n] = queue[n]
    BY <1>1, <2>2
  <2> QED BY <1>2, <2>1, <2>3 DEF Message
<1>4. msg.a = x.a /\ msg.gen = art[x.a].gen => Message(x.a)'
  <2> SUFFICES ASSUME msg.a = x.a, msg.gen = art[x.a].gen PROVE Message(x.a)'
    OBVIOUS
  <2>1. queue'[m].pc # "free" /\ queue'[m].a = x.a /\ queue'[m].gen = art'[x.a].gen
    BY <1>1, <1>2
  <2> QED BY <2>1 DEF Message
<1>5. \A n \in Messages :
       IF queue'[n].pc = "free" THEN queue'[n] = NoMessage
       ELSE queue'[n].a \in Evidence' /\ (object'[queue'[n].a] = "registered" \/ queue'[n].a \in tombs')
  BY <1>1, <1>2 DEF IInv, Inv, QueueInv
<1>6. \A a \in Artifacts : art[a].lease # NoLease => art[a].lease \in Messages \ {m}
  <2>1. \A a \in Artifacts : art[a].lease \in Messages \union {NoLease}
    BY DEF IInv, TypeOK, RowType
  <2>2. queue[m].pc = "free"
    BY DEF NoMessage
  <2> QED BY <2>1, <2>2 DEF IInv, Inv, QueueInv
<1>7. \A a \in Artifacts : art'[a].lease # NoLease =>
       /\ art'[a].st = "running" /\ queue'[art'[a].lease].a = a /\ queue'[art'[a].lease].gen = art'[a].gen
       /\ queue'[art'[a].lease].pc \in {"running", "hidden"}
  BY <1>1, <1>2, <1>6 DEF IInv, Inv, QueueInv
<1>8. \A a \in Rows : art'[a].st = "running" => Message(a)'
  BY <1>2, <1>3 DEF IInv, Inv, QueueInv
<1>9. \A j \in Items : Trusting(item[j])' => Message(item[j].a)'
  <2> SUFFICES ASSUME NEW j \in Items, Trusting(item[j])' PROVE Message(item[j].a)'
    OBVIOUS
  <2>1. CASE j = i
    <3>1. Trusting(x) /\ item'[j] = x
      BY <1>1, <1>2, <2>1 DEF Trusting
    <3>2. Message(x.a)'
      BY <1>3, <1>4, <3>1
    <3> QED BY <3>1, <3>2 DEF Message
  <2>2. CASE j # i
    <3>1. Trusting(item[j]) /\ item'[j] = item[j]
      BY <1>1, <1>2, <2>2 DEF Trusting
    <3>2. Message(item[j].a)
      BY <3>1 DEF IInv, Inv, QueueInv
    <3>3. PICK n \in Messages : queue[n].pc # "free" /\ queue[n].a = item[j].a /\ queue[n].gen = art[item[j].a].gen
      BY <3>2 DEF Message
    <3>4. queue'[n] = queue[n]
      BY <1>1, <3>3 DEF NoMessage
    <3> QED BY <1>2, <3>1, <3>3, <3>4 DEF Message
  <2> QED BY <2>1, <2>2
<1>10. QueueInv'
  BY <1>2, <1>5, <1>7, <1>8, <1>9 DEF QueueInv
<1> QED BY <1>1, <1>10

\* A photo and its other calls agree with the state it is in.
LEMMA StaysAsItIs ==
  ASSUME IInv, NEW c \in Calls, calls[c].i \in Items
  PROVE  ItemMay(calls[c].i, Heard(c)) /\ CallsMay(calls[c].i, Heard(c), {c}, NoCall)
<1> DEFINE i == calls[c].i
           x == item[i]
<1>1. Heard(c) = x /\ ItemOK(i, x) /\ x.asked \in Nat
  BY ItemFacts DEF Heard
<1>2. ItemMay(i, x)
  <2>1. \A a \in Reserved \ (tombs \union lateBytes) :
          reserved[a].item = i /\ object[a] # "none" => x.a = a /\ x.put # "no"
    BY DEF IInv, Inv, BytesInv, Owner
  <2>2. \A a \in tombs : reserved[a].item = i => x.a = a /\ LetGo(x)
    BY DEF IInv, Inv, RowInv, Owner
  <2>3. Ending => AtRest(x)
    BY DEF IInv, Inv, EndInv
  <2> QED BY <1>1, <2>1, <2>2, <2>3 DEF ItemMay
<1>3. CallsMay(i, x, {c}, NoCall)
  BY NothingLeft DEF CallsMay, IInv, Inv, CallInv, HeardInv, Heard, Awaited
<1> QED BY <1>1, <1>2, <1>3

LEMMA RegisterSendHolds ==
  ASSUME IInv, NEW c \in Calls, RegisterSend(c)
  PROVE  IInv'
<1> DEFINE i == calls[c].i
           old == calls[c]
           y == Heard(c)
           m == Least(FreeMessages)
           msg == [pc |-> "visible", a |-> old.a, gen |-> old.gen, n |-> 0]
<1>1. /\ old.kind = "register" /\ old.pc = "send" /\ FreeMessages # {}
      /\ queue' = [queue EXCEPT ![m] = msg]
      /\ End(c) /\ Hear(c, Registered(c)) /\ UNCHANGED <<server, check, day, history>>
      /\ mishaps' \in 0 .. MaxMishaps
  BY DEF RegisterSend, Registering, IInv, TypeOK
<1>2. /\ old \in CallType /\ RegisterOK(old, y) /\ (old.req # 0 => RestartOK(old, y))
      /\ old.a \in Artifacts /\ i \in Items /\ y \in ItemType
      /\ old.heard => HeardOK(old, y) /\ old.a \notin tombs
  BY <1>1, RegisterFacts
<1>3. old.a \in Evidence /\ (object[old.a] = "registered" \/ old.a \in tombs)
  BY <1>1, <1>2 DEF RegisterOK
<1>4. m \in Messages /\ queue[m] = NoMessage
  BY <1>1, FreeSlots
<1>5. msg \in MessageType /\ msg.pc = "visible" /\ msg.a = old.a /\ msg.gen = old.gen
  <2>1. 0 \in 0 .. MaxReceives /\ old.gen \in Generations
    BY <1>2, BoundsAssumption DEF CallType
  <2> QED BY <1>2, <2>1 DEF MessageType
<1>6. calls' = [d \in Calls |-> IF d \in {c} THEN NoCall ELSE calls[d]]
  BY <1>1 DEF End, IInv, TypeOK
<1> HIDE DEF m, msg
<1>7. CASE ~old.heard
  <2>1. item' = [item EXCEPT ![i] = y]
    BY <1>1, <1>7 DEF Hear, Heard, IInv, TypeOK
  <2>2. ItemMay(i, y) /\ CallsMay(i, y, {c}, NoCall)
    BY <1>2, StaysAsItIs
  <2>3. Trusting(y) => Message(y.a)
    BY <1>2 DEF Heard, IInv, Inv, QueueInv
  <2> HIDE DEF IInv, y, i
  <2>4. queue' \in [Messages -> MessageType] /\ QueueInv'
    BY <1>1, <1>2, <1>3, <1>4, <1>5, <2>1, <2>3, QueueGrows
  <2>5. ItemStep(i, y, {c}, NoCall)
    BY <1>1, <1>6, <2>1 DEF ItemStep
  <2> QED BY <1>2, <2>2, <2>4, <2>5, EmptyTypes, ItemStepHolds
<1>8. CASE old.heard
  <2>1. old.a \in Rows /\ object[old.a] = "registered" /\ art[old.a].gen = old.gen
    BY <1>1, <1>2, <1>3, <1>8 DEF Evidence, HeardOK, Runs
  <2>2. old.req # 0 => art[old.a].gen = old.req
    BY <1>1, <1>2, <2>1 DEF RestartOK
  <2>3. PICK x \in ItemType :
          /\ x = Registered(c) /\ x.st = "polling" /\ x.a = old.a /\ x.restart = 0
          /\ ItemMay(i, x) /\ CallsMay(i, x, {c}, NoCall)
    BY <1>1, <1>8, <2>1, <2>2, RegisteredFits
  <2>4. item' = [item EXCEPT ![i] = x]
    BY <1>1, <1>8, <2>3 DEF Hear
  <2> HIDE DEF IInv, y, i
  <2>5. queue' \in [Messages -> MessageType] /\ QueueInv'
    BY <1>1, <1>2, <1>3, <1>4, <1>5, <2>1, <2>3, <2>4, QueueGrows
  <2>6. ItemStep(i, x, {c}, NoCall)
    BY <1>1, <1>6, <2>4 DEF ItemStep
  <2> QED BY <1>2, <2>3, <2>5, <2>6, EmptyTypes, ItemStepHolds
<1> QED BY <1>7, <1>8

\* The object of a registration is tagged.
LEMMA TaggedHolds ==
  ASSUME IInv, NEW c \in Calls, RegisterTag(c), object[calls[c].a] # "none"
  PROVE  IInv'
<1> DEFINE old == calls[c]
<1>1. /\ old.kind = "register" /\ old.pc = "tag" /\ Goto(c, "send")
      /\ object' = [object EXCEPT ![old.a] = "registered"]
      /\ UNCHANGED <<header, scorecard, art, analysis, tombs, reserved, mapping, queue, item, check, day,
                     mishaps, history, lateBytes, lateRows, lateDeletes>>
  BY DEF RegisterTag, Registering, history
<1>2. PICK call \in CallType :
        /\ calls' = [calls EXCEPT ![c] = call]
        /\ call.pc = "send" /\ call.gen = old.gen /\ call.kind = "register" /\ call.i = old.i
        /\ call.a = old.a /\ call.heard = old.heard /\ call.fresh = old.fresh
        /\ call.req = old.req
  BY <1>1, GotoFields DEF Pcs
<1>3. PICK y \in ItemType :
      /\ y = Heard(c) /\ old \in CallType /\ RegisterOK(old, y) /\ (old.req # 0 => RestartOK(old, y))
      /\ old.a \in Artifacts /\ old.a \in Reserved /\ old.i \in Items /\ (old.heard => HeardOK(old, y))
  BY <1>1, RegisterFacts
<1>4. /\ object' \in [Artifacts -> {"none", "pending", "registered"}] /\ object'[old.a] = "registered"
      /\ \A a \in Artifacts \ {old.a} : object'[a] = object[a]
  BY <1>1, <1>3 DEF IInv, TypeOK
<1>5. /\ \A a \in Artifacts : (object'[a] = "none") = (object[a] = "none")
      /\ \A a \in Artifacts : object[a] = "registered" => object'[a] = "registered"
      /\ \A a \in Artifacts : object'[a] = "pending" => object[a] = "pending"
  BY <1>4
<1>6. /\ calls' \in [Calls -> CallType] /\ calls'[c] = call
      /\ \A d \in Calls \ {c} : calls'[d] = calls[d]
  BY <1>2 DEF IInv, TypeOK
<1>7. /\ Rows' = Rows /\ Reserved' = Reserved /\ Evidence' = Evidence
      /\ Rows \subseteq Artifacts /\ Reserved \subseteq Artifacts
      /\ Evidence \subseteq Artifacts
  BY <1>1 DEF Rows, Reserved, Evidence, IInv, TypeOK
<1>8. TypeOK'
  BY <1>1, <1>4, <1>6 DEF IInv, TypeOK
<1>9. QuotaInv' /\ MapInv'
  BY <1>1, <1>7 DEF IInv, Inv, QuotaInv, MapInv
<1>10. CallInv'
  <2> SUFFICES ASSUME NEW d \in Calls PROVE CallOK(calls[d], Heard(d))'
    BY DEF CallInv
  <2>1. CASE d = c
    <3>1. Heard(c)' = y
      BY <1>1, <1>2, <1>3, <1>6 DEF Heard
    <3>2. RegisterOK(call, y)'
      BY <1>1, <1>2, <1>3, <1>4, <1>5, <1>7 DEF RegisterOK, Today, PastHead
    <3>3. call.req # 0 => RestartOK(call, y)'
      BY <1>1, <1>2, <1>3, <1>7 DEF RestartOK
    <3> HIDE DEF IInv
    <3> QED BY <1>1, <1>2, <1>3, <1>6, <2>1, <3>1, <3>2, <3>3 DEF CallOK, Runs
  <2>2. CASE d # c
    <3>1. calls'[d] = calls[d] /\ Heard(d)' = Heard(d) /\ CallOK(calls[d], Heard(d))
      BY <1>1, <1>6, <2>2 DEF Heard, IInv, Inv, CallInv
    <3> HIDE DEF IInv
    <3>2. RegisterOK(calls[d], Heard(d)) => RegisterOK(calls[d], Heard(d))'
      BY <1>1, <1>5, <1>7, <3>1 DEF RegisterOK, Today
    <3>3. RestartOK(calls[d], Heard(d)) => RestartOK(calls[d], Heard(d))'
      BY <1>1, <1>7, <3>1 DEF RestartOK
    <3>4. DeleteOK(calls[d], Heard(d)) => DeleteOK(calls[d], Heard(d))'
      BY <1>1, <1>7, <3>1 DEF DeleteOK
    <3> QED BY <1>1, <1>7, <3>1, <3>2, <3>3, <3>4 DEF CallOK
  <2> QED BY <2>1, <2>2
<1>11. HeardInv'
  <2> SUFFICES ASSUME NEW i \in Items, NEW d \in Calls, Awaited(d, i)'
               PROVE  HeardOK(calls[d], item[i])' /\ \A e \in Calls : Awaited(e, i)' => d = e
    BY DEF HeardInv
  <2>1. \A e \in Calls : Awaited(e, i)' = Awaited(e, i)
    BY <1>2, <1>6 DEF Awaited
  <2>2. HeardOK(calls[d], item[i]) /\ \A e \in Calls : Awaited(e, i) => d = e
    BY <2>1 DEF IInv, Inv, HeardInv
  <2>3. HeardOK(calls[d], item[i])'
    <3>1. CASE d = c
      BY <1>1, <1>2, <1>6, <1>7, <2>2, <3>1 DEF HeardOK, Runs
    <3>2. CASE d # c
      BY <1>1, <1>6, <1>7, <2>2, <3>2 DEF HeardOK, Runs
    <3> QED BY <3>1, <3>2
  <2> QED BY <2>1, <2>2, <2>3
<1>12. ItemInv'
  <2> SUFFICES ASSUME NEW i \in Items PROVE ItemOK(i, item[i])'
    BY DEF ItemInv
  <2>1. item'[i] = item[i] /\ ItemOK(i, item[i]) /\ item[i].a \in Artifacts \union {0}
    BY <1>1, ItemFacts DEF IInv, Inv, ItemInv
  <2>2. Outcome(item[i])' = Outcome(item[i])
    BY <1>1 DEF Outcome
  <2> HIDE DEF IInv
  <2> QED BY <1>1, <1>5, <1>7, <2>1, <2>2 DEF ItemOK
<1>13. BytesInv'
  BY <1>1, <1>3, <1>5, <1>7 DEF IInv, Inv, BytesInv, Owner, Today
<1>14. RowInv'
  <2>1. ResultOfItsGeneration'
    BY <1>1, <1>7 DEF IInv, Inv, RowInv, ResultOfItsGeneration, IsCurrent
  <2>2. \A a \in Rows :
          /\ Today(a)' => object'[a] # "none"
          /\ art'[a].st # "queued" => object'[a] = "registered" \/ a \in tombs'
    BY <1>1, <1>5, <1>7 DEF IInv, Inv, RowInv, Today
  <2> QED BY <1>1, <1>7, <2>1, <2>2 DEF IInv, Inv, RowInv, LetGo, Owner
<1>15. QueueInv'
  <2>1. \A a : Message(a)' = Message(a)
    BY <1>1 DEF Message
  <2>2. \A m \in Messages :
          IF queue'[m].pc = "free" THEN queue'[m] = NoMessage
          ELSE queue'[m].a \in Evidence' /\ (object'[queue'[m].a] = "registered" \/ queue'[m].a \in tombs')
    BY <1>1, <1>5, <1>7 DEF IInv, Inv, QueueInv
  <2>3. \A i \in Items : Trusting(item[i])' => Message(item[i].a)'
    BY <1>1, <1>7, <2>1 DEF IInv, Inv, QueueInv, Trusting
  <2> QED BY <1>1, <1>7, <2>1, <2>2, <2>3 DEF IInv, Inv, QueueInv
<1>16. EndInv'
  <2>1. \A d \in Calls : calls'[d].kind = "complete" => calls'[d] = calls[d]
    BY <1>2, <1>6
  <2>2. Ending' => Ending
    BY <1>1, <2>1 DEF Ending
  <2>3. \A d \in Calls : Completing(d, "write")' => Completing(d, "write") /\ calls'[d] = calls[d]
    BY <2>1 DEF Completing
  <2>4. UNCHANGED <<header, scorecard, art, item, lateRows, lateDeletes>> /\ check' = check
    BY <1>1
  <2> HIDE DEF IInv
  <2>5. \A d \in Calls : header # "completed" /\ Completing(d, "write")' => Folds(calls'[d].fold)
    BY <2>3 DEF IInv, Inv, EndInv
  <2>6. Ending' => check'.finished /\ \A i \in Items : AtRest(item[i])
    BY <2>2, <2>4 DEF IInv, Inv, EndInv
  <2> QED BY <2>4, <2>5, <2>6, EndKept
<1> QED BY <1>8, <1>9, <1>10, <1>11, <1>12, <1>13, <1>14, <1>15, <1>16 DEF IInv, Inv

LEMMA RegisterTagHolds ==
  ASSUME IInv, NEW c \in Calls, RegisterTag(c)
  PROVE  IInv'
<1>1. CASE object[calls[c].a] # "none"
  BY <1>1, TaggedHolds
<1>2. CASE object[calls[c].a] = "none"
  <2>1. /\ calls[c].kind = "register" /\ calls[c].kind \in Runs /\ calls' = [calls EXCEPT ![c] = NoCall]
        /\ UNCHANGED <<server, queue, check, day, history>> /\ mishaps' \in 0 .. MaxMishaps
        /\ End(c) /\ Hear(c, [Heard(c) EXCEPT !.st = "idle"])
    BY <1>2 DEF RegisterTag, Registering, End, Runs, server, IInv, TypeOK
  <2>2. CASE calls[c].heard
    <3>1. item' = [item EXCEPT ![calls[c].i] = [Heard(c) EXCEPT !.st = "idle"]]
      BY <2>1, <2>2 DEF Hear
    <3> HIDE DEF IInv
    <3> QED BY <2>1, <2>2, <3>1, EmptyTypes, RunGivenUp
  <2>3. CASE ~calls[c].heard
    <3>1. UNCHANGED client
      BY <2>1, <2>3 DEF Hear, client
    <3> HIDE DEF IInv
    <3> QED BY <2>1, <3>1, CallEnds
  <2> QED BY <2>2, <2>3
<1> QED BY <1>1, <1>2

\* A row is put, or put back, to be analysed: a registration or a restart.
QueuedAgain(c, gen) ==
  LET a == calls[c].a IN
  \/ a \notin Evidence /\ gen = 0 /\ calls[c].pc = "write"
  \/ /\ a \in Rows /\ art[a].st = "exhausted" /\ art[a].gen = calls[c].gen
     /\ calls[c].req # 0 /\ gen = calls[c].req /\ calls[c].pc = "restart"

\* What such a call finds.
LEMMA QueuedFacts ==
  ASSUME IInv, NEW c \in Calls, calls[c].kind = "register", NEW gen, QueuedAgain(c, gen),
         NEW a, a = calls[c].a, NEW y, y = Heard(c)
  PROVE  /\ y.a = a /\ ~Ending /\ gen \in Generations /\ gen <= y.asked
         /\ y.registered => a \in Rows /\ y.st \in {"idle", "sending"} /\ y.restart = gen /\ gen # 0
         /\ calls[c].req # 0 => gen = calls[c].req /\ y.registered
         /\ a \notin Rows => a \notin tombs /\ ~y.registered
         /\ a \in Rows => art[a].gen < gen /\ art[a].st = "exhausted" /\ art[a].lease = NoLease
         /\ analysis[a].st \notin {"analyzed", "failed"}
         /\ analysis[a].st # "none" => analysis[a].gen < gen
         /\ object[a] # "none" \/ a \in tombs
         /\ Today(a) => object[a] # "none"
         /\ ~Today(a) => y.put # "no"
<1>1. /\ calls[c] \in CallType /\ RegisterOK(calls[c], y) /\ (calls[c].req # 0 => RestartOK(calls[c], y))
      /\ a \in Artifacts /\ a \in Reserved /\ y = item[calls[c].i] /\ calls[c].i \in Items
      /\ ItemOK(calls[c].i, y) /\ y \in ItemType /\ reserved[a].item = calls[c].i
  BY RegisterFacts
<1>2. /\ y.a = a /\ (object[a] # "none" \/ a \in tombs) /\ (~Today(a) => y.put # "no")
      /\ calls[c].pc \in {"write", "restart"}
  BY <1>1 DEF QueuedAgain, RegisterOK, PastHead
<1>3. /\ calls[c].req \in Nat /\ calls[c].gen \in Nat /\ y.asked \in Nat
      /\ calls[c].req \in Generations /\ 0 \in Generations
  BY <1>1, Zeros, ItemFacts DEF CallType
<1>4. CASE a \notin Evidence
  <2>1. gen = 0 /\ a \notin Rows /\ a \notin tombs
    BY <1>4 DEF QueuedAgain, Evidence
  <2>2. ~y.registered
    BY <1>1, <1>2, <1>4 DEF ItemOK
  <2>3. calls[c].req = 0
    BY <1>1, <2>2 DEF RestartOK
  <2>4. analysis[a].st = "none"
    BY <1>1, <1>4 DEF IInv, Inv, RowInv, NoAnalysis
  <2>5. ~Ending
    <3>1. y.st # "none" /\ y.st \notin {"gone", "analyzed", "blocked"}
      BY <1>1, <1>2, <2>1, <2>2, Zeros DEF ItemOK, NewItem
    <3> QED BY <1>1, <3>1 DEF IInv, Inv, EndInv, AtRest
  <2> QED BY <1>2, <1>3, <2>1, <2>2, <2>3, <2>4, <2>5
<1>5. CASE a \in Evidence
  <2>1. a \in Rows /\ art[a].st = "exhausted" /\ art[a].gen = calls[c].gen /\ calls[c].req # 0 /\ gen = calls[c].req
    BY <1>5 DEF QueuedAgain
  <2>2. /\ y.registered /\ y.restart = gen /\ y.st \in {"idle", "sending"} /\ art[a].gen < gen /\ gen <= y.asked
    BY <1>1, <1>2, <2>1 DEF RestartOK
  <2>3. ~Ending
    BY <1>1, <2>2 DEF IInv, Inv, EndInv, AtRest
  <2>4. art[a].lease = NoLease
    BY <1>1, <2>1 DEF IInv, Inv, QueueInv
  <2>5. /\ analysis[a].st = "retryable" /\ analysis[a].gen = art[a].gen
    <3>1. IsCurrent(a) /\ analysis[a].st = "retryable"
      BY <2>1 DEF IInv, Inv, RowInv, ResultOfItsGeneration
    <3> QED BY <2>1, <3>1 DEF IsCurrent
  <2>6. Today(a) => object[a] # "none"
    BY <2>1 DEF IInv, Inv, RowInv
  <2> QED BY <1>2, <1>3, <2>1, <2>2, <2>3, <2>4, <2>5, <2>6
<1> QED BY <1>4, <1>5

LEMMA QueuedHolds ==
  ASSUME IInv, NEW c \in Calls, calls[c].kind = "register", NEW gen, QueuedAgain(c, gen),
         art' = [art EXCEPT ![calls[c].a] = [st |-> "queued", gen |-> gen, lease |-> NoLease]],
         calls' = [calls EXCEPT ![c] = AtPc(calls[c], "tag", gen)],
         UNCHANGED <<header, scorecard, analysis, tombs, reserved, mapping, object, queue, item, check, day,
                     mishaps, lateBytes, lateRows, lateDeletes>>
  PROVE  IInv'
<1> DEFINE old == calls[c]
<1>1. PICK a \in Artifacts, y \in ItemType, i \in Items :
        /\ a = old.a /\ y = Heard(c) /\ i = old.i /\ y = item[i] /\ a \in Reserved /\ reserved[a].item = i
        /\ old \in CallType /\ RegisterOK(old, y) /\ (old.req # 0 => RestartOK(old, y))
        /\ old.heard => HeardOK(old, y)
        /\ ItemOK(i, y)
  BY RegisterFacts
<1>2. /\ y.a = a /\ ~Ending /\ gen \in Generations /\ gen <= y.asked
      /\ y.registered => a \in Rows /\ y.st \in {"idle", "sending"} /\ y.restart = gen /\ gen # 0
      /\ old.req # 0 => gen = old.req /\ y.registered
      /\ a \notin Rows => a \notin tombs /\ ~y.registered
      /\ a \in Rows => art[a].gen < gen /\ art[a].st = "exhausted" /\ art[a].lease = NoLease
      /\ analysis[a].st \notin {"analyzed", "failed"}
      /\ analysis[a].st # "none" => analysis[a].gen < gen
      /\ object[a] # "none" \/ a \in tombs
      /\ Today(a) => object[a] # "none"
      /\ ~Today(a) => y.put # "no"
  <2>1. a = calls[c].a /\ y = Heard(c)
    BY <1>1
  <2> HIDE DEF IInv
  <2> QED BY <2>1, QueuedFacts
<1>3. PICK call \in CallType :
        /\ calls' = [calls EXCEPT ![c] = call]
        /\ call.pc = "tag" /\ call.gen = gen /\ call.kind = "register" /\ call.i = i /\ call.a = a
        /\ call.heard = old.heard /\ call.fresh = old.fresh /\ call.req = old.req
  <2> DEFINE call == AtPc(old, "tag", gen)
  <2>1. /\ call \in CallType /\ call.pc = "tag" /\ call.gen = gen /\ call.kind = "register" /\ call.i = i
        /\ call.a = a /\ call.heard = old.heard /\ call.fresh = old.fresh /\ call.req = old.req
    <3>1. "tag" \in Pcs
      BY DEF Pcs
    <3> QED BY <1>1, <1>2, <3>1, PcMoves
  <2> HIDE DEF call
  <2> QED BY <2>1 DEF call
<1>4. /\ calls' \in [Calls -> CallType] /\ calls'[c] = call
      /\ \A d \in Calls \ {c} : calls'[d] = calls[d]
  BY <1>3 DEF IInv, TypeOK
<1>5. /\ art' \in [Artifacts -> RowType] /\ art'[a].st = "queued" /\ art'[a].gen = gen /\ art'[a].lease = NoLease
      /\ \A b \in Artifacts \ {a} : art'[b] = art[b]
  <2> DEFINE row == [st |-> "queued", gen |-> gen, lease |-> NoLease]
  <2>1. row \in RowType /\ row.st = "queued" /\ row.gen = gen /\ row.lease = NoLease
    BY <1>2 DEF RowType, Statuses
  <2>2. art' = [art EXCEPT ![a] = row] /\ art \in [Artifacts -> RowType]
    BY <1>1 DEF IInv, TypeOK
  <2> HIDE DEF row, IInv
  <2> QED BY <2>1, <2>2
<1>6. /\ Rows' = Rows \union {a} /\ Reserved' = Reserved /\ Evidence' = Evidence \union {a}
      /\ Rows \subseteq Artifacts /\ Reserved \subseteq Artifacts /\ Evidence \subseteq Artifacts
      /\ Rows \subseteq Evidence
  BY <1>1, <1>5 DEF Rows, Reserved, Evidence, IInv, TypeOK
<1>7. /\ \A j \in Items : item'[j] = item[j]
      /\ object' = object /\ tombs' = tombs /\ reserved' = reserved /\ day' = day /\ header' = header
  OBVIOUS
<1>8. TypeOK'
  BY <1>4, <1>5 DEF IInv, TypeOK
<1>9. QuotaInv' /\ MapInv' /\ BytesInv'
  BY <1>6 DEF IInv, Inv, QuotaInv, MapInv, BytesInv, Owner, Today
<1>10. CallInv'
  <2> SUFFICES ASSUME NEW d \in Calls PROVE CallOK(calls[d], Heard(d))'
    BY DEF CallInv
  <2>1. CASE d = c
    <3>1. Heard(c)' = y
      BY <1>1, <1>3, <1>4 DEF Heard
    <3>2. RegisterOK(call, y)'
      BY <1>1, <1>2, <1>3, <1>6, <1>7 DEF RegisterOK, Today, PastHead
    <3>3. call.req # 0 => RestartOK(call, y)'
      BY <1>1, <1>2, <1>3, <1>5, <1>6 DEF RestartOK
    <3> HIDE DEF IInv
    <3> QED BY <1>1, <1>3, <1>4, <2>1, <3>1, <3>2, <3>3 DEF CallOK, Runs
  <2>2. CASE d # c
    <3>1. PICK kall, x : kall \in CallType /\ kall = calls[d] /\ x = Heard(d) /\ CallOK(kall, x)
      BY DEF IInv, TypeOK, Inv, CallInv
    <3>2. calls'[d] = kall /\ Heard(d)' = x
      BY <1>4, <2>2, <3>1 DEF Heard
    <3>3. /\ kall.kind \in {"register", "delete"} => kall.a \in Reserved /\ reserved[kall.a].item = kall.i /\ kall.i \in Items
      BY <3>1 DEF CallOK, RegisterOK, DeleteOK, Runs
    <3>4. kall.kind \in {"register", "delete"} /\ kall.a = a => x = y
      BY <1>1, <3>1, <3>3 DEF Heard
    <3>5. kall.gen \in Nat /\ kall.req \in Nat /\ gen \in Nat /\ \A b \in Artifacts : art[b].gen \in Nat
      BY <1>2, <3>1, Zeros DEF CallType, IInv, TypeOK, RowType
    <3> HIDE DEF IInv
    <3>6. RegisterOK(kall, x) => RegisterOK(kall, x)'
      BY <1>6, <1>7 DEF RegisterOK, Today
    <3>7. kall.kind = "register" /\ RegisterOK(kall, x) /\ RestartOK(kall, x) => RestartOK(kall, x)'
      <4> SUFFICES ASSUME kall.kind = "register", RegisterOK(kall, x), RestartOK(kall, x) PROVE RestartOK(kall, x)'
        OBVIOUS
      <4>1. CASE kall.a = a
        <5>1. x = y /\ y.registered /\ a \in Rows /\ art[a].gen < gen
          BY <1>2, <3>4, <4>1 DEF RestartOK
        <5>2. kall.gen <= art[a].gen \/ kall.pc \in {"tag", "send"}
          BY <4>1, <5>1 DEF RestartOK, RegisterOK, PastHead
        <5> QED BY <1>5, <1>6, <3>5, <4>1, <5>1, <5>2 DEF RestartOK
      <4>2. CASE kall.a # a
        <5>1. kall.a \in Artifacts /\ art'[kall.a] = art[kall.a] /\ (kall.a \in Rows' <=> kall.a \in Rows)
          BY <1>5, <1>6, <3>3, <4>2
        <5> QED BY <5>1 DEF RestartOK
      <4> QED BY <4>1, <4>2
    <3>8. kall.kind = "delete" /\ DeleteOK(kall, x) => DeleteOK(kall, x)'
      <4> SUFFICES ASSUME kall.kind = "delete", DeleteOK(kall, x) PROVE DeleteOK(kall, x)'
        OBVIOUS
      <4>1. CASE kall.a = a
        <5>1. x = y
          BY <3>4, <4>1
        <5>2. kall.pc = "objects" /\ kall.row => FALSE
          BY <1>2, <4>1 DEF DeleteOK
        <5>3. kall.pc = "write" /\ ~kall.row /\ x.registered => FALSE
          BY <1>2, <4>1, <5>1 DEF DeleteOK
        <5>4. kall.pc = "write" /\ kall.row => a \in Rows
          BY <1>2, <4>1 DEF DeleteOK, Evidence
        <5>5. kall.pc = "write" /\ kall.row => kall.status # "completed"
          BY <1>2, <4>1, <5>4 DEF DeleteOK
        <5> QED BY <1>6, <1>7, <4>1, <5>2, <5>3, <5>5 DEF DeleteOK
      <4>2. CASE kall.a # a
        <5>1. kall.a \in Artifacts /\ art'[kall.a] = art[kall.a] /\ (kall.a \in Rows' <=> kall.a \in Rows)
              /\ (kall.a \in Evidence' <=> kall.a \in Evidence)
          BY <1>5, <1>6, <3>3, <4>2
        <5> QED BY <1>6, <1>7, <5>1 DEF DeleteOK
      <4> QED BY <4>1, <4>2
    <3>9. CallOK(kall, x)'
      BY <1>6, <1>7, <3>1, <3>6, <3>7, <3>8 DEF CallOK
    <3> QED BY <3>2, <3>9 DEF CallOK, RegisterOK, RestartOK, DeleteOK
  <2> QED BY <2>1, <2>2
<1>11. HeardInv'
  <2> SUFFICES ASSUME NEW j \in Items, NEW d \in Calls, Awaited(d, j)'
               PROVE  HeardOK(calls[d], item[j])' /\ \A e \in Calls : Awaited(e, j)' => d = e
    BY DEF HeardInv
  <2>1. \A e \in Calls : Awaited(e, j)' = Awaited(e, j)
    BY <1>1, <1>3, <1>4 DEF Awaited
  <2>2. HeardOK(calls[d], item[j]) /\ \A e \in Calls : Awaited(e, j) => d = e
    BY <2>1 DEF IInv, Inv, HeardInv
  <2>3. HeardOK(calls[d], item[j])'
    <3>1. CASE d = c
      <4>1. j = i /\ old.heard
        BY <1>1, <2>1, <3>1 DEF Awaited
      <4>2. HeardOK(old, y) /\ item'[j] = y
        BY <1>1, <1>7, <4>1
      <4> HIDE DEF IInv
      <4>3. HeardOK(call, y)'
        BY <1>1, <1>3, <1>5, <4>2 DEF HeardOK, Runs
      <4> QED BY <1>4, <3>1, <4>2, <4>3 DEF HeardOK
    <3>2. CASE d # c
      <4>1. PICK kall \in CallType : kall = calls[d] /\ calls'[d] = kall /\ HeardOK(kall, item[j]) /\ kall.i = j
        BY <1>4, <2>1, <2>2, <3>2 DEF IInv, TypeOK, Awaited
      <4>2. CallOK(kall, item[j])
        BY <4>1 DEF IInv, Inv, CallInv, Heard
      <4> HIDE DEF IInv
      <4>3. kall.kind = "register" /\ kall.pc \in {"tag", "send"} /\ kall.a \in Rows' => art'[kall.a].gen = kall.gen
        <5> SUFFICES ASSUME kall.kind = "register", kall.pc \in {"tag", "send"}, kall.a \in Rows'
                     PROVE  art'[kall.a].gen = kall.gen
          OBVIOUS
        <5>1. RegisterOK(kall, item[j]) /\ kall.a \in Reserved /\ reserved[kall.a].item = j /\ kall.a \in Evidence
          BY <4>1, <4>2 DEF CallOK, RegisterOK
        <5>2. CASE kall.a = a
          <6>1. j = i /\ item[j] = y
            BY <1>1, <5>1, <5>2
          <6>2. a \in Rows
            BY <1>2, <5>1, <5>2 DEF Evidence
          <6>3. a \in Rows => FALSE \/ y.registered
            BY <1>1, <1>2, <6>2 DEF QueuedAgain, Evidence
          <6>4. kall.req = y.restart /\ kall.req = gen /\ kall.req # 0
            BY <1>2, <4>1, <6>1, <6>2, <6>3 DEF HeardOK, Runs
          <6>5. kall.gen = kall.req
            BY <4>1, <4>2, <6>4 DEF CallOK, RestartOK
          <6> QED BY <1>5, <5>2, <6>4, <6>5
        <5>3. CASE kall.a # a
          BY <1>5, <1>6, <4>1, <5>1, <5>3 DEF HeardOK, Runs
        <5> QED BY <5>2, <5>3
      <4>4. HeardOK(kall, item[j])'
        BY <1>7, <4>1, <4>3 DEF HeardOK
      <4> QED BY <1>7, <4>1, <4>4 DEF HeardOK
    <3> QED BY <3>1, <3>2
  <2> QED BY <2>1, <2>2, <2>3
<1>12. ItemInv'
  <2> SUFFICES ASSUME NEW j \in Items PROVE ItemOK(j, item[j])'
    BY DEF ItemInv
  <2>1. PICK x : x = item[j] /\ item'[j] = x /\ ItemOK(j, x) /\ x.a \in Artifacts \union {0}
    BY <1>7, ItemFacts DEF IInv, Inv, ItemInv
  <2> HIDE DEF IInv
  <2>2. x.registered => x.a \in Artifacts
    BY <1>6, <2>1 DEF ItemOK
  <2>3. x.registered /\ x.a \in Rows' => Outcome(x)'
    <3> SUFFICES ASSUME x.registered, x.a \in Rows' PROVE Outcome(x)'
      OBVIOUS
    <3>1. CASE x.a = a
      <4>1. j = i
        BY <1>1, <2>1, <3>1, Zeros DEF ItemOK
      <4>2. x = y
        BY <1>1, <2>1, <4>1
      <4> QED BY <1>2, <1>5, <2>1, <3>1, <4>2 DEF Outcome
    <3>2. CASE x.a # a
      BY <1>5, <1>6, <2>1, <2>2, <3>2 DEF ItemOK, Outcome
    <3> QED BY <3>1, <3>2
  <2>4. x.registered => x.a \notin tombs \intersect Rows'
    <3> SUFFICES ASSUME x.registered PROVE x.a \notin tombs \intersect Rows'
      OBVIOUS
    <3>1. CASE x.a = a
      <4>1. j = i
        BY <1>1, <2>1, <3>1, Zeros DEF ItemOK
      <4> QED BY <1>1, <1>2, <2>1, <3>1, <4>1 DEF ItemOK
    <3>2. CASE x.a # a
      BY <1>6, <2>1, <3>2 DEF ItemOK
    <3> QED BY <3>1, <3>2
  <2>5. ItemOK(j, x)'
    BY <1>6, <1>7, <2>1, <2>3, <2>4 DEF ItemOK
  <2> QED BY <2>1, <2>5 DEF ItemOK, Outcome
<1>13. RowInv'
  <2>1. \A b \in Artifacts \ {a} : IsCurrent(b)' = IsCurrent(b)
    BY <1>5 DEF IsCurrent
  <2>2. ~IsCurrent(a)'
    <3>1. analysis[a].st # "none" => analysis[a].gen # gen
      BY <1>2, Zeros DEF IInv, TypeOK, AnalysisType
    <3> QED BY <1>5, <3>1 DEF IsCurrent
  <2>3. ResultOfItsGeneration'
    <3>1. \A b \in Rows' : b # a => b \in Rows
      BY <1>6
    <3>2. ASSUME NEW b \in Rows', b # a
          PROVE  /\ (art'[b].st = "succeeded") = (IsCurrent(b)' /\ analysis'[b].st = "analyzed")
                 /\ (art'[b].st = "exhausted") = (IsCurrent(b)' /\ analysis'[b].st = "retryable")
                 /\ (art'[b].st = "permanent_failure") = (IsCurrent(b)' /\ analysis'[b].st = "failed")
      <4>1. b \in Rows /\ b \in Artifacts /\ art'[b] = art[b] /\ analysis'[b] = analysis[b]
            /\ IsCurrent(b)' = IsCurrent(b)
        BY <1>5, <1>6, <2>1, <3>2
      <4>2. /\ (art[b].st = "succeeded") = (IsCurrent(b) /\ analysis[b].st = "analyzed")
            /\ (art[b].st = "exhausted") = (IsCurrent(b) /\ analysis[b].st = "retryable")
            /\ (art[b].st = "permanent_failure") = (IsCurrent(b) /\ analysis[b].st = "failed")
        BY <4>1 DEF IInv, Inv, RowInv, ResultOfItsGeneration
      <4> HIDE DEF IInv
      <4> QED BY <4>1, <4>2
    <3>3. /\ (art'[a].st = "succeeded") = (IsCurrent(a)' /\ analysis'[a].st = "analyzed")
          /\ (art'[a].st = "exhausted") = (IsCurrent(a)' /\ analysis'[a].st = "retryable")
          /\ (art'[a].st = "permanent_failure") = (IsCurrent(a)' /\ analysis'[a].st = "failed")
      BY <1>5, <2>2
    <3> HIDE DEF IInv
    <3> QED BY <3>2, <3>3 DEF ResultOfItsGeneration
  <2>4. \A b \in Reserved : Owner(b)' = Owner(b) /\ (LetGo(Owner(b)) => LetGo(Owner(b))')
    BY DEF Owner, LetGo
  <2>5. \A b \in Rows' :
          /\ Today(b)' => object'[b] # "none"
          /\ art'[b].st # "queued" => object'[b] = "registered" \/ b \in tombs'
          /\ art'[b].gen <= Owner(b)'.asked
          /\ analysis'[b].st # "none" => analysis'[b].gen <= art'[b].gen
          /\ analysis'[b].st \in {"analyzed", "failed"} => analysis'[b].gen = art'[b].gen
    <3> SUFFICES ASSUME NEW b \in Rows'
                 PROVE  /\ Today(b)' => object'[b] # "none"
                        /\ art'[b].st # "queued" => object'[b] = "registered" \/ b \in tombs'
                        /\ art'[b].gen <= Owner(b)'.asked
                        /\ analysis'[b].st # "none" => analysis'[b].gen <= art'[b].gen
                        /\ analysis'[b].st \in {"analyzed", "failed"} => analysis'[b].gen = art'[b].gen
      OBVIOUS
    <3>1. CASE b = a
      <4>1. Owner(a)' = y /\ Today(a)' = Today(a) /\ analysis[a].gen \in Nat /\ gen \in Nat
        BY <1>1, <1>2, Zeros DEF Owner, Today, IInv, TypeOK, AnalysisType
      <4> QED BY <1>2, <1>5, <3>1, <4>1
    <3>2. CASE b # a
      <4>1. b \in Rows /\ b \in Artifacts /\ art'[b] = art[b]
        BY <1>5, <1>6, <3>2
      <4> QED BY <4>1 DEF IInv, Inv, RowInv, Today, Owner
    <3> QED BY <3>1, <3>2
  <2>6. /\ Evidence' \subseteq Reserved' /\ tombs' \intersect Rows' \subseteq lateRows'
        /\ \A b \in tombs' : Owner(b)'.a = b /\ LetGo(Owner(b))'
    BY <1>1, <1>2, <1>6 DEF IInv, Inv, RowInv, Owner, LetGo
  <2>7. /\ \A b \in Artifacts \ Evidence' : analysis'[b] = NoAnalysis
        /\ \A b \in Reserved' : analysis'[b].gen <= Owner(b)'.asked
    BY <1>6 DEF IInv, Inv, RowInv, Owner
  <2> HIDE DEF IInv
  <2> QED BY <2>3, <2>5, <2>6, <2>7 DEF RowInv
<1>14. QueueInv'
  <2>1. \A m \in Messages :
          IF queue'[m].pc = "free" THEN queue'[m] = NoMessage
          ELSE queue'[m].a \in Evidence' /\ (object'[queue'[m].a] = "registered" \/ queue'[m].a \in tombs')
    BY <1>6 DEF IInv, Inv, QueueInv
  <2>2. \A b \in Artifacts \ {a} : Message(b)' = Message(b)
    BY <1>5 DEF Message
  <2>3. \A b \in Artifacts : art'[b].lease # NoLease =>
          /\ art'[b].st = "running" /\ queue'[art'[b].lease].a = b
          /\ queue'[art'[b].lease].gen = art'[b].gen /\ queue'[art'[b].lease].pc \in {"running", "hidden"}
    BY <1>5 DEF IInv, Inv, QueueInv
  <2>4. \A b \in Rows' : art'[b].st = "running" => Message(b)'
    <3> SUFFICES ASSUME NEW b \in Rows', art'[b].st = "running" PROVE Message(b)'
      OBVIOUS
    <3>1. b # a /\ b \in Rows /\ b \in Artifacts /\ art'[b] = art[b]
      BY <1>5, <1>6
    <3> QED BY <2>2, <3>1 DEF IInv, Inv, QueueInv
  <2>5. \A j \in Items : Trusting(item[j])' => Message(item[j].a)'
    <3> SUFFICES ASSUME NEW j \in Items, Trusting(item[j])' PROVE Message(item[j].a)'
      OBVIOUS
    <3>1. item'[j] = item[j] /\ ItemOK(j, item[j]) /\ item[j].a \in Rows' /\ item[j].registered /\ item[j].restart = 0
      BY <1>7, ItemFacts DEF Trusting
    <3>2. item[j].a # a
      BY <1>1, <1>2, <3>1, Zeros DEF ItemOK
    <3>3. item[j].a \in Rows /\ item[j].a \in Artifacts /\ art'[item[j].a] = art[item[j].a]
      BY <1>5, <1>6, <3>1, <3>2
    <3>4. Trusting(item[j])
      BY <3>1, <3>3 DEF Trusting
    <3>5. Message(item[j].a)
      BY <3>4 DEF IInv, Inv, QueueInv
    <3> QED BY <3>1, <3>3, <3>5 DEF Message
  <2> HIDE DEF IInv
  <2> QED BY <2>1, <2>3, <2>4, <2>5 DEF QueueInv
<1>15. EndInv'
  <2>1. \A d \in Calls : calls'[d].kind = "complete" => calls'[d] = calls[d]
    BY <1>3, <1>4
  <2>2. ~Ending'
    BY <1>2, <2>1 DEF Ending
  <2> HIDE DEF IInv
  <2> QED BY <2>2 DEF EndInv, Ending, Completing
<1> QED BY <1>8, <1>9, <1>10, <1>11, <1>12, <1>13, <1>14, <1>15 DEF IInv, Inv

LEMMA RegisterWriteHolds ==
  ASSUME IInv, NEW c \in Calls, RegisterWrite(c)
  PROVE  IInv'
<1> DEFINE a == calls[c].a
           y == Heard(c)
<1>1. /\ calls[c].kind = "register" /\ calls[c].pc = "write"
      /\ UNCHANGED <<header, scorecard, analysis, tombs, reserved, mapping, object, queue, check,
                     day, mishaps, history, lateBytes, lateRows, lateDeletes>>
      /\ mishaps' \in 0 .. MaxMishaps
  BY DEF RegisterWrite, Registering, IInv, TypeOK, history
<1>2. /\ calls[c] \in CallType /\ RegisterOK(calls[c], y) /\ calls[c].gen \in Generations
      /\ a \in Artifacts /\ (calls[c].heard => a \notin tombs)
      /\ (calls[c].req # 0 => RestartOK(calls[c], y))
  BY <1>1, RegisterFacts DEF CallType
<1>3. CASE NotDeleted(a) /\ art[a].st = "none"
  <2>1. /\ art' = [art EXCEPT ![a] = [NoRow EXCEPT !.st = "queued"]]
        /\ calls' = [calls EXCEPT ![c].pc = "tag", ![c].gen = 0] /\ item' = item
    BY <1>3 DEF RegisterWrite, NotDeleted
  <2>2. [NoRow EXCEPT !.st = "queued"] = [st |-> "queued", gen |-> 0, lease |-> NoLease]
    BY DEF NoRow
  <2>3. calls' = [calls EXCEPT ![c] = AtPc(calls[c], "tag", 0)]
    BY <2>1 DEF AtPc
  <2>4. QueuedAgain(c, 0)
    BY <1>1, <1>3 DEF QueuedAgain, NotDeleted, Evidence, Rows
  <2> HIDE DEF IInv
  <2> QED BY <1>1, <2>1, <2>2, <2>3, <2>4, QueuedHolds
<1>4. CASE NotDeleted(a) /\ art[a].st # "none"
  <2>1. Goto(c, "reread") /\ UNCHANGED <<art, item>>
    BY <1>4 DEF RegisterWrite, NotDeleted
  <2>2. /\ calls' = [calls EXCEPT ![c] = AtPc(calls[c], "reread", calls[c].gen)]
        /\ UNCHANGED <<server, queue, client, day, mishaps, history>>
    BY <1>1, <1>2, <2>1 DEF Goto, AtPc, CallType, client, server
  <2>3. "reread" \in PastHead /\ a \in Evidence
    BY <1>2, <1>4 DEF PastHead, Evidence, Rows
  <2>4. a = y.a /\ (~Today(a) => y.put # "no") /\ (object[a] # "none" \/ a \in tombs)
    BY <1>1, <1>2 DEF RegisterOK, PastHead
  <2> HIDE DEF y, IInv
  <2> QED BY <1>1, <1>2, <2>2, <2>3, <2>4, RegisterGoesOn DEF y
<1>5. CASE ~NotDeleted(a)
  <2>1. End(c) /\ Hear(c, Blocked(c)) /\ UNCHANGED art
    BY <1>5 DEF RegisterWrite
  <2>2. ~calls[c].heard
    BY <1>2, <1>5 DEF NotDeleted
  <2>3. UNCHANGED <<server, queue, client, day, history>>
    BY <1>1, <2>1, <2>2 DEF Hear, client, server
  <2> HIDE DEF IInv
  <2> QED BY <1>1, <2>1, <2>3, CallEnds DEF Runs
<1> QED BY <1>3, <1>4, <1>5

LEMMA RegisterRestartHolds ==
  ASSUME IInv, NEW c \in Calls, RegisterRestart(c)
  PROVE  IInv'
<1> DEFINE a == calls[c].a
           y == Heard(c)
           req == calls[c].req
<1>1. /\ calls[c].kind = "register" /\ calls[c].pc = "restart"
      /\ UNCHANGED <<header, scorecard, analysis, tombs, reserved, mapping, object, queue, check,
                     day, mishaps, history, lateBytes, lateRows, lateDeletes>>
      /\ mishaps' \in 0 .. MaxMishaps
  BY DEF RegisterRestart, Registering, IInv, TypeOK, history
<1>2. /\ calls[c] \in CallType /\ RegisterOK(calls[c], y) /\ req \in Generations /\ req # 0
      /\ a \in Artifacts /\ RestartOK(calls[c], y) /\ ItemOK(calls[c].i, y)
      /\ calls[c].heard => HeardOK(calls[c], y) /\ a \notin tombs /\ req = y.restart /\ y.st = "sending"
                           /\ y.a = a
  <2>1. req # 0
    BY <1>1, CallFacts DEF Runs, CallOK
  <2> QED BY <1>1, <2>1, RegisterFacts DEF CallType
<1>3. /\ a \in Evidence /\ a = y.a /\ (~Today(a) => y.put # "no") /\ (object[a] # "none" \/ a \in tombs)
  BY <1>1, <1>2 DEF RegisterOK, PastHead
<1>4. CASE art[a].st # "none" /\ MayRestart(art[a], calls[c].gen)
  <2>1. /\ art' = [art EXCEPT ![a] = [st |-> "queued", gen |-> req, lease |-> NoLease]]
        /\ calls' = [calls EXCEPT ![c].pc = "tag", ![c].gen = req] /\ item' = item
    BY <1>4 DEF RegisterRestart
  <2>2. calls' = [calls EXCEPT ![c] = AtPc(calls[c], "tag", req)]
    BY <2>1 DEF AtPc
  <2>3. QueuedAgain(c, req)
    BY <1>1, <1>2, <1>4 DEF QueuedAgain, MayRestart, Rows
  <2> HIDE DEF IInv
  <2> QED BY <1>1, <2>1, <2>2, <2>3, QueuedHolds
<1>5. CASE art[a].st # "none" /\ ~MayRestart(art[a], calls[c].gen) /\ art[a].gen = req
  <2>1. calls' = [calls EXCEPT ![c].pc = "tag", ![c].gen = req] /\ UNCHANGED <<art, item>>
    BY <1>5 DEF RegisterRestart
  <2>2. /\ calls' = [calls EXCEPT ![c] = AtPc(calls[c], "tag", req)]
        /\ UNCHANGED <<server, queue, client, day, mishaps, history>>
    BY <1>1, <2>1 DEF AtPc, client, server
  <2>3. "tag" \in PastHead
    BY DEF PastHead
  <2> HIDE DEF y, IInv
  <2> QED BY <1>1, <1>2, <1>3, <1>5, <2>2, <2>3, RegisterGoesOn DEF y
<1>6. CASE art[a].st = "none" \/ (~MayRestart(art[a], calls[c].gen) /\ art[a].gen # req)
  <2>1. End(c) /\ Hear(c, Blocked(c)) /\ UNCHANGED art
    BY <1>6 DEF RegisterRestart
  <2>2. ~calls[c].heard
    <3> SUFFICES ASSUME calls[c].heard PROVE FALSE
      OBVIOUS
    <3>1. a \in Rows
      BY <1>2, <1>3 DEF Evidence
    <3>2. calls[c].gen = y.gen /\ y.registered /\ y.restart = req /\ y.st = "sending" /\ y.a = a
      BY <1>1, <1>2 DEF HeardOK, RestartOK, Runs
    <3>3. art[a].gen = req \/ (art[a].gen = y.gen /\ art[a].st = "exhausted")
      BY <1>2, <3>1, <3>2 DEF ItemOK, Outcome
    <3> QED BY <1>6, <3>1, <3>2, <3>3 DEF MayRestart, Rows
  <2>3. UNCHANGED <<server, queue, client, day, history>>
    BY <1>1, <2>1, <2>2 DEF Hear, client, server
  <2> HIDE DEF IInv
  <2> QED BY <1>1, <2>1, <2>3, CallEnds DEF Runs
<1> QED BY <1>4, <1>5, <1>6

-----------------------------------------------------------------------------
(* The writes of a presign and the PUT of the bytes *)

LEMMA ProductGrows ==
  ASSUME NEW k \in Nat, NEW p \in Nat, NEW q \in Nat, p <= q
  PROVE  k * p <= k * q
<1>1. PICK r \in Nat : q = p + r
  <2>1. q - p \in Nat /\ q = p + (q - p)
    OBVIOUS
  <2> QED BY <2>1
<1>2. k * r >= 0
  OBVIOUS
<1>3. k * q = k * p + k * r
  BY <1>1
<1> QED BY <1>2, <1>3

LEMMA ArtifactsFinite == IsFiniteSet(Artifacts)
<1>1. 1 \in Int /\ MaxArtifacts * (MaxDays + 1) \in Int
  BY BoundsAssumption
<1> QED BY <1>1, FS_Interval DEF Artifacts

\* While the day's quota lasts there is a number for a new reservation.
LEMMA QuotaRoom ==
  ASSUME IInv, QuotaLeft
  PROVE  /\ NextArtifact \in Artifacts /\ NextArtifact \notin Reserved
         /\ IsFiniteSet(Reserved) /\ Cardinality(Reserved) \in Nat
         /\ NextArtifact = Cardinality(Reserved) + 1
<1> DEFINE N == Cardinality(Reserved)
           P == {a \in Reserved : reserved[a].day < day}
           T == {a \in Reserved : reserved[a].day = day}
<1>1. MaxArtifacts \in Nat /\ MaxDays \in Nat /\ day \in Nat /\ day <= MaxDays
  BY BoundsAssumption DEF IInv, TypeOK, Days
<1>2. IsFiniteSet(Artifacts)
  BY ArtifactsFinite
<1>3. IsFiniteSet(Reserved) /\ IsFiniteSet(P) /\ IsFiniteSet(T)
  <2>1. Reserved \subseteq Artifacts /\ P \subseteq Artifacts /\ T \subseteq Artifacts
    BY DEF Reserved
  <2> HIDE DEF P, T
  <2> QED BY <1>2, <2>1, FS_Subset
<1>4. N \in Nat /\ Cardinality(P) \in Nat /\ Cardinality(T) \in Nat
  BY <1>3, FS_CardinalityType
<1>5. Reserved = P \union T /\ P \intersect T = {}
  <2>1. \A a \in Reserved : reserved[a].day \in Nat /\ reserved[a].day <= day
    BY Zeros DEF Reserved, IInv, TypeOK, Inv, QuotaInv
  <2> QED BY <1>1, <2>1
<1>6. N = Cardinality(P) + Cardinality(T)
  <2> HIDE DEF P, T
  <2>1. Cardinality(P \union T) = Cardinality(P) + Cardinality(T) - Cardinality(P \intersect T)
    BY <1>3, FS_Union
  <2>2. Cardinality(P \intersect T) = 0
    BY <1>5, FS_EmptySet
  <2> QED BY <1>4, <1>5, <2>1, <2>2
<1>7. Cardinality(P) <= MaxArtifacts * day /\ Cardinality(T) < MaxArtifacts
  BY DEF QuotaLeft, IInv, Inv, QuotaInv
<1>8. N + 1 <= MaxArtifacts * (MaxDays + 1)
  <2> HIDE DEF P, T, N
  <2>1. MaxArtifacts * (day + 1) <= MaxArtifacts * (MaxDays + 1)
    <3>1. day + 1 \in Nat /\ MaxDays + 1 \in Nat /\ day + 1 <= MaxDays + 1
      BY <1>1
    <3> QED BY <1>1, <3>1, ProductGrows
  <2>2. MaxArtifacts * (day + 1) = MaxArtifacts * day + MaxArtifacts
    BY <1>1
  <2>3. MaxArtifacts * day \in Nat /\ MaxArtifacts * (MaxDays + 1) \in Nat
    BY <1>1
  <2> QED BY <1>1, <1>4, <1>6, <1>7, <2>1, <2>2, <2>3
<1>9. NextArtifact = N + 1 /\ NextArtifact \in Artifacts
  BY <1>1, <1>4, <1>8 DEF NextArtifact, Artifacts
<1>10. NextArtifact \notin Reserved
  BY <1>4, <1>9 DEF IInv, Inv, QuotaInv
<1> QED BY <1>3, <1>4, <1>9, <1>10

\* A reservation: the photo that waits for it adopts it.
LEMMA ReserveHolds ==
  ASSUME IInv, NEW c \in Calls, calls[c].kind = "presign",
         Unmapped(calls[c].i), QuotaLeft, Presigned(c, NextArtifact),
         reserved' = [reserved EXCEPT ![NextArtifact] = [item |-> calls[c].i, day |-> day]],
         mapping' = [mapping EXCEPT ![calls[c].i][day] = NextArtifact],
         UNCHANGED <<header, scorecard, art, analysis, tombs, object, queue, check, day, mishaps,
                     lateBytes, lateRows, lateDeletes>>
  PROVE  IInv'
<1>1. PICK a \in Artifacts :
        /\ a = NextArtifact /\ a \notin Reserved
        /\ IsFiniteSet(Reserved) /\ Cardinality(Reserved) \in Nat /\ a = Cardinality(Reserved) + 1
  BY QuotaRoom
<1>2. PICK i \in Items, y \in ItemType, old \in CallType :
        /\ i = calls[c].i /\ y = Heard(c) /\ y = item[i] /\ old = calls[c] /\ ItemOK(i, y)
        /\ CallOK(old, y) /\ y.asked \in Nat
        /\ old.heard =>
             /\ y.put = "no" /\ ~y.registered /\ y.restart = 0 /\ old.req = 0 /\ y.st = "sending" /\ ~Ending
             /\ \A d \in Calls \ {c} : calls[d].i = i => ~calls[d].heard /\ calls[d].kind # "delete"
             /\ \A d \in Calls \ {c} : calls[d].i = i /\ calls[d].kind = "register" => calls[d].req = 0
             /\ \A b \in tombs : reserved[b].item # i
  <2>1. calls[c].kind \in Runs
    BY DEF Runs
  <2>2. /\ calls[c].i \in Items /\ Heard(c) \in ItemType /\ Heard(c) = item[calls[c].i]
        /\ calls[c] \in CallType /\ ItemOK(calls[c].i, Heard(c)) /\ CallOK(calls[c], Heard(c))
    BY <2>1, CallFacts
  <2>3. Heard(c).asked \in Nat
    BY <2>2, ItemFacts
  <2>4. calls[c].heard =>
             /\ Heard(c).put = "no" /\ ~Heard(c).registered /\ Heard(c).restart = 0 /\ calls[c].req = 0
             /\ \A d \in Calls \ {c} : calls[d].i = calls[c].i => ~calls[d].heard /\ calls[d].kind # "delete"
             /\ \A d \in Calls \ {c} :
                  calls[d].i = calls[c].i /\ calls[d].kind = "register" => calls[d].req = 0
    BY PresignFacts
  <2>5. calls[c].heard =>
             Heard(c).st = "sending" /\ ~Ending /\ \A b \in tombs : reserved[b].item # calls[c].i
    BY <2>1, AwaitedRun
  <2> HIDE DEF IInv
  <2> QED BY <2>2, <2>3, <2>4, <2>5
<1>3. PICK x \in ItemType, call \in CallType :
        /\ item' = [item EXCEPT ![i] = x] /\ calls' = [calls EXCEPT ![c] = call]
        /\ x.st = y.st /\ x.registered = y.registered /\ x.gen = y.gen /\ x.restart = y.restart
        /\ x.asked = y.asked /\ x.deleting = y.deleting
        /\ \/ /\ old.heard /\ x.a = a /\ x.put = "uncertain"
              /\ call.kind = "put" /\ call.pc = "write" /\ call.a = a /\ call.i = i
              /\ call.req = old.req /\ call.heard
           \/ ~old.heard /\ x = y /\ call = NoCall
  <2>1. CASE old.heard
    <3>1. Presigned(c, a)
      BY <1>1 DEF Presigned
    <3>2. calls[c].heard
      BY <1>2, <2>1
    <3>3. PICK x \in ItemType, call \in CallType :
           /\ item' = [item EXCEPT ![calls[c].i] = x] /\ calls' = [calls EXCEPT ![c] = call]
           /\ x.a = a /\ x.put = "uncertain" /\ x.st = Heard(c).st
           /\ x.registered = Heard(c).registered
           /\ x.gen = Heard(c).gen /\ x.restart = Heard(c).restart /\ x.asked = Heard(c).asked
           /\ x.deleting = Heard(c).deleting
           /\ call.kind = "put" /\ call.pc = "write" /\ call.a = a /\ call.i = calls[c].i
           /\ call.req = calls[c].req /\ call.heard
      <4> HIDE DEF IInv
      <4> QED BY <3>1, <3>2, PresignedFields
    <3> HIDE DEF IInv
    <3> WITNESS x \in ItemType, call \in CallType
    <3> QED BY <1>2, <2>1, <3>3
  <2>2. CASE ~old.heard
    <3>1. item' = [item EXCEPT ![i] = y] /\ calls' = [calls EXCEPT ![c] = NoCall]
      BY <1>2, <2>2 DEF Presigned, End, IInv, TypeOK
    <3> HIDE DEF IInv
    <3> QED BY <1>2, <2>2, <3>1, EmptyTypes
  <2> QED BY <2>1, <2>2
<1>4. /\ calls' \in [Calls -> CallType] /\ calls'[c] = call
      /\ \A d \in Calls \ {c} : calls'[d] = calls[d]
      /\ item' \in [Items -> ItemType] /\ item'[i] = x /\ \A j \in Items \ {i} : item'[j] = item[j]
  BY <1>3 DEF IInv, TypeOK
<1>5. /\ reserved' \in [Artifacts -> [item : Items \union {NoItem}, day : Days]]
      /\ reserved'[a] = [item |-> i, day |-> day] /\ reserved'[a].item = i /\ reserved'[a].day = day
      /\ \A b \in Artifacts \ {a} : reserved'[b] = reserved[b]
      /\ day \in Days
  <2>1. day \in Days /\ reserved \in [Artifacts -> [item : Items \union {NoItem}, day : Days]]
    BY DEF IInv, TypeOK
  <2>2. reserved' = [reserved EXCEPT ![a] = [item |-> i, day |-> day]]
    BY <1>1, <1>2
  <2>3. PICK r \in [item : Items \union {NoItem}, day : Days] :
          r = [item |-> i, day |-> day] /\ r.item = i /\ r.day = day
    <3>1. [item |-> i, day |-> day] \in [item : Items \union {NoItem}, day : Days]
      BY <2>1
    <3> HIDE DEF IInv
    <3> QED BY <3>1
  <2> HIDE DEF IInv
  <2>4. reserved' = [reserved EXCEPT ![a] = r]
    BY <2>2, <2>3
  <2>5. /\ reserved' \in [Artifacts -> [item : Items \union {NoItem}, day : Days]]
        /\ reserved'[a] = r /\ \A b \in Artifacts \ {a} : reserved'[b] = reserved[b]
    <3> DEFINE R == [item : Items \union {NoItem}, day : Days]
    <3>1. reserved \in [Artifacts -> R] /\ r \in R
      BY <2>1, <2>3
    <3> HIDE DEF R
    <3>2. /\ reserved' \in [Artifacts -> R]
          /\ reserved'[a] = r /\ \A b \in Artifacts \ {a} : reserved'[b] = reserved[b]
      BY <2>4, <3>1
    <3> QED BY <3>2 DEF R
  <2> QED BY <2>1, <2>3, <2>5
<1>6. /\ mapping' \in [Items -> [Days -> Artifacts \union {0}]] /\ mapping'[i][day] = a
      /\ \A j \in Items, d \in Days : j # i \/ d # day => mapping'[j][d] = mapping[j][d]
      /\ mapping[i][day] = 0
  <2>1. mapping' = [mapping EXCEPT ![i][day] = a] /\ mapping \in [Items -> [Days -> Artifacts \union {0}]]
    BY <1>1, <1>2 DEF IInv, TypeOK
  <2>2. mapping[i][day] = 0
    BY <1>2 DEF Unmapped
  <2> HIDE DEF IInv
  <2>3. PICK f \in [Days -> Artifacts \union {0}] :
          f = [mapping[i] EXCEPT ![day] = a] /\ f[day] = a
          /\ \A d \in Days \ {day} : f[d] = mapping[i][d]
    <3>1. mapping[i] \in [Days -> Artifacts \union {0}] /\ day \in Days
      BY <1>5, <2>1
    <3> DEFINE g == mapping[i]
               f == [g EXCEPT ![day] = a]
    <3>2. g \in [Days -> Artifacts \union {0}]
      BY <3>1
    <3> HIDE DEF g
    <3>3. /\ f \in [Days -> Artifacts \union {0}] /\ f[day] = a
          /\ \A d \in Days \ {day} : f[d] = g[d]
      BY <3>1, <3>2
    <3>4. f = [mapping[i] EXCEPT ![day] = a] /\ g = mapping[i]
      BY DEF g
    <3> HIDE DEF f
    <3> QED BY <3>3, <3>4
  <2>4. mapping' = [mapping EXCEPT ![i] = f]
    BY <2>1, <2>3
  <2>5. /\ mapping' \in [Items -> [Days -> Artifacts \union {0}]] /\ mapping'[i] = f
        /\ \A j \in Items \ {i} : mapping'[j] = mapping[j]
    BY <2>1, <2>4
  <2> QED BY <1>5, <2>2, <2>3, <2>5
<1>7. /\ Reserved' = Reserved \union {a} /\ Reserved \subseteq Artifacts
      /\ \A b \in Reserved : b # a /\ reserved'[b] = reserved[b]
      /\ Rows' = Rows /\ Evidence' = Evidence /\ Rows \subseteq Evidence /\ Evidence \subseteq Reserved
      /\ tombs \subseteq Evidence
  <2>1. i # NoItem
    BY Zeros
  <2>2. Reserved' = Reserved \union {a} /\ Reserved \subseteq Artifacts
    BY <1>1, <1>5, <2>1 DEF Reserved
  <2>3. Rows' = Rows /\ Evidence' = Evidence /\ Rows \subseteq Evidence /\ tombs \subseteq Evidence
    BY DEF Rows, Evidence
  <2>4. Evidence \subseteq Reserved
    BY DEF IInv, Inv, RowInv
  <2> HIDE DEF IInv
  <2> QED BY <1>1, <1>5, <2>2, <2>3, <2>4
<1>8. /\ day' = day /\ object' = object /\ tombs' = tombs /\ header' = header /\ art' = art
      /\ analysis' = analysis /\ queue' = queue
  OBVIOUS
<1>9. TypeOK'
  BY <1>4, <1>5, <1>6 DEF IInv, TypeOK
<1>10. \A b \in Reserved : Today(b)' = Today(b)
  BY <1>7, <1>8 DEF Today
<1>11. QuotaInv'
  <2>1. Reserved = 1 .. Cardinality(Reserved) /\ Reserved' = 1 .. (Cardinality(Reserved) + 1)
    <3>1. Reserved = 1 .. Cardinality(Reserved)
      BY DEF IInv, Inv, QuotaInv
    <3> DEFINE N == Cardinality(Reserved)
    <3>2. N \in Nat /\ Reserved = 1 .. N /\ a = N + 1
      BY <1>1, <3>1
    <3> HIDE DEF N, IInv
    <3>3. (1 .. N) \union {a} = 1 .. (N + 1)
      BY <3>2
    <3>4. Reserved' = 1 .. (N + 1)
      BY <1>7, <3>2, <3>3
    <3> QED BY <3>1, <3>4 DEF N
  <2>2. Cardinality(Reserved') = Cardinality(Reserved) + 1
    BY <1>1, <1>7, FS_AddElement
  <2>3. {b \in Reserved' : reserved'[b].day < day'} = {b \in Reserved : reserved[b].day < day}
    <3>1. day \in Nat
      BY <1>5, Zeros
    <3>2. ~(reserved'[a].day < day)
      BY <1>5, <3>1
    <3> HIDE DEF IInv
    <3> QED BY <1>7, <1>8, <3>2
  <2>4. {b \in Reserved' : reserved'[b].day = day'} = {b \in Reserved : reserved[b].day = day} \union {a}
    BY <1>5, <1>7, <1>8
  <2> DEFINE T == {b \in Reserved : reserved[b].day = day}
  <2>5. IsFiniteSet(T) /\ Cardinality(T) \in Nat
    <3>1. T \subseteq Reserved
      OBVIOUS
    <3> HIDE DEF T
    <3> QED BY <1>1, <3>1, FS_Subset, FS_CardinalityType
  <2>6. Cardinality(T) < MaxArtifacts
    BY DEF QuotaLeft
  <2>7. Cardinality(T \union {a}) <= MaxArtifacts
    <3>1. a \notin T
      BY <1>1
    <3> HIDE DEF T
    <3>2. Cardinality(T \union {a}) = Cardinality(T) + 1
      BY <2>5, <3>1, FS_AddElement
    <3> QED BY <2>5, <2>6, <3>2, BoundsAssumption
  <2>8. \A b \in Reserved' : reserved'[b].day <= day'
    BY <1>5, <1>7, <1>8, Zeros DEF IInv, Inv, QuotaInv
  <2>9. Cardinality({b \in Reserved : reserved[b].day < day}) <= MaxArtifacts * day
    BY DEF IInv, Inv, QuotaInv
  <2> HIDE DEF IInv
  <2>10. Cardinality({b \in Reserved' : reserved'[b].day < day'}) <= MaxArtifacts * day'
    BY <1>8, <2>3, <2>9
  <2>11. Cardinality({b \in Reserved' : reserved'[b].day = day'}) <= MaxArtifacts
    BY <2>4, <2>7
  <2>12. Reserved' = 1 .. Cardinality(Reserved')
    BY <2>1, <2>2
  <2> QED BY <2>8, <2>10, <2>11, <2>12 DEF QuotaInv
<1>12. MapInv'
  <2>1. \A b \in Reserved' : mapping'[reserved'[b].item][reserved'[b].day] = b
    <3> SUFFICES ASSUME NEW b \in Reserved' PROVE mapping'[reserved'[b].item][reserved'[b].day] = b
      OBVIOUS
    <3>1. CASE b = a
      BY <1>5, <1>6, <3>1
    <3>2. CASE b # a
      <4>1. b \in Reserved /\ reserved'[b] = reserved[b] /\ mapping[reserved[b].item][reserved[b].day] = b
            /\ reserved[b].item \in Items /\ reserved[b].day \in Days /\ b # 0
        BY <1>7, <3>2, Zeros DEF IInv, TypeOK, Inv, MapInv, Reserved
      <4> QED BY <1>6, <4>1
    <3> QED BY <3>1, <3>2
  <2>2. \A j \in Items, d \in Days : mapping'[j][d] # 0 =>
          mapping'[j][d] \in Reserved' /\ reserved'[mapping'[j][d]] = [item |-> j, day |-> d]
    <3> SUFFICES ASSUME NEW j \in Items, NEW d \in Days, mapping'[j][d] # 0
                 PROVE  mapping'[j][d] \in Reserved' /\ reserved'[mapping'[j][d]] = [item |-> j, day |-> d]
      OBVIOUS
    <3>1. CASE j = i /\ d = day
      BY <1>5, <1>6, <1>7, <3>1
    <3>2. CASE j # i \/ d # day
      <4>1. mapping'[j][d] = mapping[j][d]
        BY <1>6, <3>2
      <4>2. mapping[j][d] \in Reserved /\ reserved[mapping[j][d]] = [item |-> j, day |-> d]
        BY <4>1 DEF IInv, Inv, MapInv
      <4> QED BY <1>7, <4>1, <4>2
    <3> QED BY <3>1, <3>2
  <2> QED BY <2>1, <2>2 DEF MapInv
<1>13. CallInv'
  <2> SUFFICES ASSUME NEW d \in Calls PROVE CallOK(calls[d], Heard(d))'
    BY DEF CallInv
  <2>1. CASE d = c
    <3>1. CASE call = NoCall
      <4>1. calls'[d] = NoCall
        BY <1>4, <2>1, <3>1
      <4> HIDE DEF IInv
      <4> QED BY <4>1 DEF CallOK, NoCall, Runs
    <3>2. CASE call # NoCall
      <4>1. call.kind = "put" /\ call.pc = "write" /\ call.a = a /\ call.i = i /\ calls'[d] = call
        BY <1>3, <1>4, <2>1, <3>2
      <4>2. a \in Reserved' /\ reserved'[a] = [item |-> i, day |-> day']
        BY <1>5, <1>7, <1>8
      <4> HIDE DEF IInv
      <4> QED BY <4>1, <4>2 DEF CallOK, Runs
    <3> QED BY <3>1, <3>2
  <2>2. CASE d # c
    <3>1. PICK kall, z : kall \in CallType /\ kall = calls[d] /\ z = Heard(d) /\ CallOK(kall, z)
      BY DEF IInv, TypeOK, Inv, CallInv
    <3>2. calls'[d] = kall
      BY <1>4, <2>2, <3>1
    <3>3. CASE kall.i = i
      <4>1. z = y /\ Heard(d)' = x
        BY <1>2, <1>4, <3>1, <3>2, <3>3 DEF Heard
      <4>2. kall.kind = "delete" /\ DeleteOK(kall, y) => DeleteOK(kall, x)'
        <5> SUFFICES ASSUME kall.kind = "delete", DeleteOK(kall, y) PROVE DeleteOK(kall, x)'
          OBVIOUS
        <5>1. ~old.heard
          BY <1>2, <2>2, <3>1, <3>3
        <5>2. x = y
          BY <1>3, <5>1
        <5> HIDE DEF IInv
        <5> QED BY <1>7, <1>8, <5>2 DEF DeleteOK
      <4>3. kall.kind = "register" /\ RegisterOK(kall, y) => RegisterOK(kall, x)'
        <5> SUFFICES ASSUME kall.kind = "register", RegisterOK(kall, y) PROVE RegisterOK(kall, x)'
          OBVIOUS
        <5>1. kall.a \in Reserved /\ kall.a # a /\ reserved[kall.a].item = i /\ reserved'[kall.a] = reserved[kall.a]
              /\ Today(kall.a)' = Today(kall.a)
          BY <1>7, <1>10, <3>3 DEF RegisterOK
        <5>2. CASE ~old.heard
          <6>1. x = y
            BY <1>3, <5>2
          <6> HIDE DEF IInv
          <6> QED BY <1>7, <1>8, <5>1, <6>1 DEF RegisterOK
        <5>3. CASE old.heard
          <6>1. ~Today(kall.a)
            <7>1. mapping[i][reserved[kall.a].day] = kall.a
              BY <5>1 DEF IInv, Inv, MapInv
            <7>2. kall.a # 0
              BY <1>7, <5>1, Zeros
            <7> HIDE DEF IInv
            <7> QED BY <1>6, <7>1, <7>2 DEF Today
          <6>2. ~kall.heard /\ kall.req = 0 /\ y.put = "no"
            BY <1>2, <2>2, <3>1, <3>3, <5>3
          <6>3. kall.pc = "head" /\ object[kall.a] = "none"
            BY <6>1, <6>2 DEF RegisterOK
          <6>4. x.a = a
            BY <1>3, <5>3
          <6> HIDE DEF IInv
          <6> QED BY <1>7, <1>8, <5>1, <6>1, <6>2, <6>3, <6>4 DEF RegisterOK, PastHead
        <5> QED BY <5>2, <5>3
      <4>4. kall.kind = "register" /\ RestartOK(kall, y) => RestartOK(kall, x)'
        BY <1>3, <1>7, <1>8 DEF RestartOK
      <4> HIDE DEF IInv
      <4>5. CallOK(kall, x)'
        BY <1>7, <1>8, <3>1, <4>1, <4>2, <4>3, <4>4 DEF CallOK, Runs
      <4> QED BY <3>2, <4>1, <4>5 DEF CallOK, RegisterOK, RestartOK, DeleteOK
    <3>4. CASE kall.i # i
      <4>1. kall.kind \in Runs \union {"delete"} => Heard(d)' = z
        BY <1>4, <3>1, <3>2, <3>4 DEF Heard, CallOK
      <4> HIDE DEF IInv
      <4>2. RegisterOK(kall, z) => RegisterOK(kall, z)'
        BY <1>7, <1>8, <1>10 DEF RegisterOK
      <4>3. RestartOK(kall, z) => RestartOK(kall, z)'
        BY <1>7, <1>8 DEF RestartOK
      <4>4. DeleteOK(kall, z) => DeleteOK(kall, z)'
        BY <1>7, <1>8 DEF DeleteOK
      <4>5. CallOK(kall, z)'
        BY <1>7, <1>8, <3>1, <4>2, <4>3, <4>4 DEF CallOK, Runs
      <4>6. CASE kall.kind \in Runs \union {"delete"}
        BY <3>2, <4>1, <4>5, <4>6 DEF CallOK, RegisterOK, RestartOK, DeleteOK
      <4>7. CASE kall.kind \notin Runs \union {"delete"}
        BY <3>2, <4>5, <4>7 DEF CallOK, Runs
      <4> QED BY <4>6, <4>7
    <3> QED BY <3>3, <3>4
  <2> QED BY <2>1, <2>2
<1>14. HeardInv'
  <2> SUFFICES ASSUME NEW j \in Items, NEW d \in Calls, Awaited(d, j)'
               PROVE  HeardOK(calls[d], item[j])' /\ \A e \in Calls : Awaited(e, j)' => d = e
    BY DEF HeardInv
  <2>1. \A e \in Calls : Awaited(e, j)' => Awaited(e, j)
    <3> SUFFICES ASSUME NEW e \in Calls, Awaited(e, j)' PROVE Awaited(e, j)
      OBVIOUS
    <3>1. CASE e = c
      BY <1>2, <1>3, <1>4, <3>1, NothingLeft DEF Awaited
    <3>2. CASE e # c
      BY <1>4, <3>2 DEF Awaited
    <3> QED BY <3>1, <3>2
  <2>2. HeardOK(calls[d], item[j]) /\ \A e \in Calls : Awaited(e, j) => d = e
    BY <2>1 DEF IInv, Inv, HeardInv
  <2>3. HeardOK(calls[d], item[j])'
    <3>1. CASE d = c
      <4>1. old.heard /\ j = i /\ call.kind = "put" /\ call.a = a /\ call.req = old.req
        BY <1>2, <1>3, <1>4, <2>1, <3>1, NothingLeft DEF Awaited
      <4>2. HeardOK(old, y)
        BY <1>2, <2>2, <3>1, <4>1
      <4>3. calls'[d] = call /\ item'[j] = x /\ x.a = a /\ x.put = "uncertain"
        BY <1>3, <1>4, <3>1, <4>1
      <4>4. y.st = "sending" /\ ~y.deleting /\ ~y.registered /\ y.restart = 0 /\ old.req = 0
        BY <1>2, <4>1, <4>2 DEF HeardOK, Runs
      <4> HIDE DEF IInv
      <4> QED BY <1>3, <4>1, <4>3, <4>4 DEF HeardOK, Runs
    <3>2. CASE d # c
      <4>1. calls'[d] = calls[d]
        BY <1>4, <3>2
      <4>2. j = i => ~old.heard
        BY <1>2, <2>1, <3>2 DEF Awaited
      <4>3. item'[j] = item[j]
        BY <1>2, <1>3, <1>4, <4>2
      <4> HIDE DEF IInv
      <4> QED BY <1>7, <1>8, <2>2, <4>1, <4>3 DEF HeardOK
    <3> QED BY <3>1, <3>2
  <2> QED BY <2>1, <2>2, <2>3
<1>15. ItemInv'
  <2> SUFFICES ASSUME NEW j \in Items PROVE ItemOK(j, item[j])'
    BY DEF ItemInv
  <2>1. CASE j = i /\ old.heard
    <3>1. /\ item'[j] = x /\ x.a = a /\ a # 0 /\ a \in Reserved' /\ reserved'[a].item = i /\ ~x.registered
          /\ x.restart = 0 /\ x.st = "sending" /\ ~y.deleting
      <4>1. y.st = "sending" /\ ~y.registered /\ y.restart = 0
        BY <1>2, <2>1
      <4>2. ~y.deleting
        BY <1>2, <4>1 DEF ItemOK
      <4> QED BY <1>3, <1>4, <1>5, <1>7, <2>1, <4>1, <4>2, Zeros
    <3>2. x.restart <= x.asked /\ x.gen <= x.asked
      BY <1>2, <1>3 DEF ItemOK
    <3> HIDE DEF IInv
    <3> QED BY <1>3, <2>1, <3>1, <3>2 DEF ItemOK
  <2>2. CASE ~(j = i /\ old.heard)
    <3>1. PICK z : z = item[j] /\ item'[j] = z /\ ItemOK(j, z)
      BY <1>2, <1>3, <1>4, <2>2 DEF IInv, Inv, ItemInv
    <3>2. Outcome(z)' = Outcome(z)
      BY <1>8 DEF Outcome
    <3> HIDE DEF IInv
    <3>3. ItemOK(j, z)'
      BY <1>7, <1>8, <3>1, <3>2 DEF ItemOK
    <3> QED BY <3>1, <3>3 DEF ItemOK, Outcome
  <2> QED BY <2>1, <2>2
<1>16. \A b \in Reserved : /\ b \in Artifacts /\ Owner(b)'.asked = Owner(b).asked
                           /\ reserved[b].item = i => Owner(b) = y /\ Owner(b)' = x
                           /\ reserved[b].item # i => Owner(b)' = Owner(b)
  <2>1. \A b \in Reserved : b \in Artifacts /\ reserved[b].item \in Items
    BY DEF Reserved, IInv, TypeOK
  <2> HIDE DEF IInv
  <2> QED BY <1>2, <1>3, <1>4, <1>7, <2>1 DEF Owner
<1>17. BytesInv'
  <2>1. object[a] = "none"
    BY <1>1 DEF IInv, Inv, BytesInv
  <2>2. \A b \in Artifacts : object[b] # "none" => b \in Reserved
    BY DEF IInv, Inv, BytesInv
  <2>3. \A b \in Artifacts : object[b] = "pending" => Today(b)
    BY DEF IInv, Inv, BytesInv
  <2>4. \A b \in Reserved \ (tombs \union lateBytes) :
          object[b] # "none" => Owner(b)'.a = b /\ Owner(b)'.put # "no"
    <3> SUFFICES ASSUME NEW b \in Reserved \ (tombs \union lateBytes), object[b] # "none"
                 PROVE  Owner(b)'.a = b /\ Owner(b)'.put # "no"
      OBVIOUS
    <3>1. Owner(b).a = b /\ Owner(b).put # "no"
      BY DEF IInv, Inv, BytesInv
    <3>2. CASE reserved[b].item = i
      <4>1. ~old.heard
        BY <1>2, <1>16, <3>1, <3>2
      <4> QED BY <1>3, <1>16, <3>1, <3>2, <4>1
    <3>3. CASE reserved[b].item # i
      BY <1>16, <3>1, <3>3
    <3> QED BY <3>2, <3>3
  <2> HIDE DEF IInv
  <2>5. \A b \in Reserved' \ (tombs' \union lateBytes') :
          object'[b] # "none" => Owner(b)'.a = b /\ Owner(b)'.put # "no"
    BY <1>7, <1>8, <2>1, <2>4
  <2>6. \A b \in Artifacts : object'[b] = "pending" => Today(b)'
    BY <1>8, <1>10, <2>2, <2>3
  <2> QED BY <1>7, <1>8, <2>2, <2>5, <2>6 DEF BytesInv
<1>18. RowInv'
  <2>1. ResultOfItsGeneration'
    BY <1>7, <1>8 DEF IInv, Inv, RowInv, ResultOfItsGeneration, IsCurrent
  <2>2. \A b \in tombs : Owner(b)'.a = b /\ LetGo(Owner(b))'
    <3> SUFFICES ASSUME NEW b \in tombs PROVE Owner(b)'.a = b /\ LetGo(Owner(b))'
      OBVIOUS
    <3>1. b \in Reserved /\ Owner(b).a = b /\ LetGo(Owner(b))
      BY <1>7 DEF IInv, Inv, RowInv
    <3>2. Owner(b)' = Owner(b)
      BY <1>2, <1>3, <1>16, <3>1
    <3> HIDE DEF IInv
    <3> QED BY <1>8, <3>1, <3>2 DEF LetGo
  <2>3. \A b \in Rows :
          /\ Today(b)' => object'[b] # "none"
          /\ art'[b].st # "queued" => object'[b] = "registered" \/ b \in tombs'
          /\ art'[b].gen <= Owner(b)'.asked
          /\ analysis'[b].st # "none" => analysis'[b].gen <= art'[b].gen
          /\ analysis'[b].st \in {"analyzed", "failed"} => analysis'[b].gen = art'[b].gen
    BY <1>7, <1>8, <1>10, <1>16 DEF IInv, Inv, RowInv
  <2>4. analysis[a] = NoAnalysis /\ Owner(a)' = x
    BY <1>1, <1>4, <1>5, <1>7 DEF IInv, Inv, RowInv, Owner
  <2>5. \A b \in Reserved' : analysis'[b].gen <= Owner(b)'.asked
    <3>1. \A b \in Reserved : analysis[b].gen <= Owner(b)'.asked
      BY <1>16 DEF IInv, Inv, RowInv
    <3>2. NoAnalysis.gen <= x.asked
      BY <1>2, <1>3 DEF NoAnalysis
    <3> HIDE DEF IInv
    <3> QED BY <1>7, <1>8, <2>4, <3>1, <3>2
  <2>6. /\ tombs' \intersect Rows' \subseteq lateRows'
        /\ \A b \in Artifacts \ Evidence' : analysis'[b] = NoAnalysis
    BY <1>7, <1>8 DEF IInv, Inv, RowInv
  <2> HIDE DEF IInv
  <2> QED BY <1>7, <1>8, <2>1, <2>2, <2>3, <2>5, <2>6 DEF RowInv
<1>19. QueueInv'
  <2>1. \A m \in Messages :
          IF queue'[m].pc = "free" THEN queue'[m] = NoMessage
          ELSE queue'[m].a \in Evidence' /\ (object'[queue'[m].a] = "registered" \/ queue'[m].a \in tombs')
    BY <1>7, <1>8 DEF IInv, Inv, QueueInv
  <2>2. \A b : Message(b)' = Message(b)
    BY <1>8 DEF Message
  <2>3. \A j \in Items : Trusting(item[j])' => Message(item[j].a)'
    <3> SUFFICES ASSUME NEW j \in Items, Trusting(item[j])' PROVE Message(item[j].a)'
      OBVIOUS
    <3>1. item'[j] = item[j]
      <4>1. CASE j = i
        <5>1. ~old.heard
          BY <1>2, <1>3, <1>4, <4>1 DEF Trusting
        <5> QED BY <1>2, <1>3, <1>4, <4>1, <5>1
      <4>2. CASE j # i
        BY <1>4, <4>2
      <4> QED BY <4>1, <4>2
    <3>2. Trusting(item[j])
      BY <1>7, <1>8, <3>1 DEF Trusting
    <3>3. Message(item[j].a)
      BY <3>2 DEF IInv, Inv, QueueInv
    <3> QED BY <1>8, <3>1, <3>3 DEF Message
  <2>4. /\ \A b \in Artifacts : art'[b].lease # NoLease =>
             LET m == art'[b].lease IN
             art'[b].st = "running" /\ queue'[m].a = b /\ queue'[m].gen = art'[b].gen
             /\ queue'[m].pc \in {"running", "hidden"}
        /\ \A b \in Rows' : art'[b].st = "running" => Message(b)'
    BY <1>7, <1>8, <2>2 DEF IInv, Inv, QueueInv
  <2> HIDE DEF IInv
  <2> QED BY <2>1, <2>3, <2>4 DEF QueueInv
<1>20. EndInv'
  <2>1. \A d \in Calls : calls'[d].kind = "complete" => calls'[d] = calls[d]
    BY <1>3, <1>4, NothingLeft
  <2>2. Ending' => Ending
    BY <1>8, <2>1 DEF Ending
  <2>3. CASE ~Ending
    <3> HIDE DEF IInv
    <3> QED BY <1>8, <2>2, <2>3 DEF EndInv, Ending, Completing
  <2>4. CASE Ending
    <3>1. item' = item
      BY <1>2, <1>3, <2>4 DEF IInv, TypeOK
    <3>2. \A d \in Calls : Completing(d, "write")' => Completing(d, "write") /\ calls'[d] = calls[d]
      BY <2>1 DEF Completing
    <3>3. \A d \in Calls : header # "completed" /\ Completing(d, "write")' => Folds(calls'[d].fold)
      BY <3>2 DEF IInv, Inv, EndInv
    <3>4. check'.finished /\ \A j \in Items : AtRest(item[j])
      BY <2>4 DEF IInv, Inv, EndInv
    <3> HIDE DEF IInv
    <3> QED BY <3>1, <3>3, <3>4, EndKept
  <2> QED BY <2>3, <2>4
<1> QED BY <1>9, <1>11, <1>12, <1>13, <1>14, <1>15, <1>17, <1>18, <1>19, <1>20 DEF IInv, Inv

\* Out of quota: the user has to tap.
LEMMA NoQuotaHolds ==
  ASSUME IInv, NEW c \in Calls, calls[c].kind = "presign", calls[c].heard,
         item' = [item EXCEPT ![calls[c].i] = [Heard(c) EXCEPT !.st = "manual"]],
         calls' = [calls EXCEPT ![c] = NoCall],
         UNCHANGED <<server, queue, check, day, history>>, mishaps' \in 0 .. MaxMishaps
  PROVE  IInv'
<1> DEFINE i == calls[c].i
           y == Heard(c)
           x == [y EXCEPT !.st = "manual"]
<1>1. calls[c].kind \in Runs
  BY DEF Runs
<1>2. y \in ItemType /\ ItemOK(i, y) /\ i \in Items /\ y = item[i] /\ y.asked \in Nat
  BY <1>1, CallFacts, ItemFacts
<1>3. /\ x \in ItemType /\ x.st = "manual" /\ x.a = y.a /\ x.put = y.put /\ x.registered = y.registered
      /\ x.deleting = y.deleting /\ x.gen = y.gen /\ x.asked = y.asked /\ x.restart = y.restart
  BY <1>2 DEF ItemType
<1>4. /\ y.st = "sending" /\ ~Ending /\ ~LetGo(y) /\ ~y.deleting /\ ~y.registered /\ y.restart = 0
  BY <1>1, AwaitedRun, PresignFacts DEF LetGo
<1>5. item' = [item EXCEPT ![i] = x]
  OBVIOUS
<1> HIDE DEF x, y, i
<1>6. Keeps(y, x)
  BY <1>2, <1>3, <1>4 DEF Keeps
<1>7. ItemOK(i, x)
  BY <1>2, <1>3, <1>4 DEF ItemOK
<1>8. ~Trusting(x)
  BY <1>3, <1>4 DEF Trusting
<1>9. NoCall \in CallType /\ ~NoCall.heard
  BY EmptyTypes, NothingLeft
<1> HIDE DEF IInv
<1> QED BY <1>2, <1>3, <1>4, <1>5, <1>6, <1>7, <1>8, <1>9, AnsweredCall DEF i, y

LEMMA PresignWriteHolds ==
  ASSUME IInv, NEW c \in Calls, PresignWrite(c)
  PROVE  IInv'
<1>1. /\ calls[c].kind = "presign" /\ calls[c].kind \in Runs
      /\ UNCHANGED <<header, scorecard, art, analysis, tombs, object, queue, check, day, history>>
  BY DEF PresignWrite, Runs
<1>2. CASE /\ Unmapped(calls[c].i) /\ QuotaLeft
           /\ reserved' = [reserved EXCEPT ![NextArtifact] = [item |-> calls[c].i, day |-> day]]
           /\ mapping' = [mapping EXCEPT ![calls[c].i][day] = NextArtifact]
           /\ Presigned(c, NextArtifact) /\ UNCHANGED mishaps
  <2>1. UNCHANGED <<header, scorecard, art, analysis, tombs, object, queue, check, day, mishaps,
                     lateBytes, lateRows, lateDeletes>>
    BY <1>1, <1>2 DEF history
  <2> HIDE DEF IInv
  <2> QED BY <1>1, <1>2, <2>1, ReserveHolds
<1>3. CASE Goto(c, "read") /\ UNCHANGED <<reserved, mapping, item, mishaps>>
  <2>1. UNCHANGED <<server, queue, client, day, history>> /\ mishaps' \in 0 .. MaxMishaps
    BY <1>1, <1>3 DEF server, client, IInv, TypeOK
  <2> HIDE DEF IInv
  <2> QED BY <1>1, <1>3, <2>1, PresignGoesOn
<1>4. CASE /\ Mishap /\ End(c) /\ Hear(c, [Heard(c) EXCEPT !.st = "manual"])
           /\ UNCHANGED <<reserved, mapping>>
  <2>1. UNCHANGED <<server, queue, check, day, history>> /\ mishaps' \in 0 .. MaxMishaps
    BY <1>1, <1>4, MishapCounted DEF server
  <2>2. CASE calls[c].heard
    <3>1. item' = [item EXCEPT ![calls[c].i] = [Heard(c) EXCEPT !.st = "manual"]]
          /\ calls' = [calls EXCEPT ![c] = NoCall]
      BY <1>4, <2>2 DEF Hear, End
    <3> HIDE DEF IInv
    <3> QED BY <1>1, <2>1, <2>2, <3>1, NoQuotaHolds
  <2>3. CASE ~calls[c].heard
    <3>1. UNCHANGED client
      BY <1>4, <2>1, <2>3 DEF Hear, client
    <3> HIDE DEF IInv
    <3> QED BY <1>1, <1>4, <2>1, <3>1, CallEnds
  <2> QED BY <2>2, <2>3
<1>5. \/ /\ Unmapped(calls[c].i) /\ QuotaLeft
         /\ reserved' = [reserved EXCEPT ![NextArtifact] = [item |-> calls[c].i, day |-> day]]
         /\ mapping' = [mapping EXCEPT ![calls[c].i][day] = NextArtifact]
         /\ Presigned(c, NextArtifact) /\ UNCHANGED mishaps
      \/ Goto(c, "read") /\ UNCHANGED <<reserved, mapping, item, mishaps>>
      \/ /\ Mishap /\ End(c) /\ Hear(c, [Heard(c) EXCEPT !.st = "manual"])
         /\ UNCHANGED <<reserved, mapping>>
  BY DEF PresignWrite
<1> QED BY <1>2, <1>3, <1>4, <1>5

\* The leg after the upload.
RegisterLeg(old) == [old EXCEPT !.kind = "register", !.pc = "head"]

LEMMA RegisterLegFits ==
  ASSUME NEW old \in CallType
  PROVE  /\ RegisterLeg(old) \in CallType /\ RegisterLeg(old).kind = "register" /\ RegisterLeg(old).pc = "head"
         /\ RegisterLeg(old).i = old.i /\ RegisterLeg(old).a = old.a /\ RegisterLeg(old).heard = old.heard
         /\ RegisterLeg(old).req = old.req /\ RegisterLeg(old).gen = old.gen
         /\ RegisterLeg(old).fresh = old.fresh
BY DEF RegisterLeg, CallType

\* What is known of an upload.
LEMMA PutFacts ==
  ASSUME IInv, NEW c \in Calls, calls[c].kind = "put"
  PROVE  /\ calls[c] \in CallType /\ calls[c].i \in Items /\ calls[c].a \in Reserved /\ calls[c].a \in Artifacts
         /\ reserved[calls[c].a].item = calls[c].i /\ Today(calls[c].a)
         /\ Heard(c) = item[calls[c].i] /\ Heard(c) \in ItemType /\ ItemOK(calls[c].i, Heard(c))
         /\ calls[c].heard =>
              /\ Heard(c).put # "no" /\ Heard(c).a = calls[c].a /\ ~Heard(c).registered /\ calls[c].req = 0
              /\ Heard(c).st = "sending" /\ ~Heard(c).deleting /\ Heard(c).restart = 0 /\ ~Ending
              /\ calls[c].a \notin tombs
<1>1. calls[c].kind \in Runs
  BY DEF Runs
<1>2. /\ calls[c] \in CallType /\ CallOK(calls[c], Heard(c)) /\ calls[c].i \in Items
      /\ Heard(c) = item[calls[c].i] /\ Heard(c) \in ItemType /\ ItemOK(calls[c].i, Heard(c))
      /\ calls[c].heard => HeardOK(calls[c], Heard(c))
  BY <1>1, CallFacts
<1>3. /\ calls[c].a \in Reserved /\ calls[c].a \in Artifacts
      /\ reserved[calls[c].a].item = calls[c].i /\ Today(calls[c].a)
  BY <1>2 DEF CallOK, Reserved, Today
<1>4. calls[c].heard => ~Ending /\ calls[c].a \notin tombs
  BY <1>1, <1>3, AwaitedRun
<1>5. calls[c].heard =>
        /\ Heard(c).put # "no" /\ Heard(c).a = calls[c].a /\ ~Heard(c).registered /\ calls[c].req = 0
        /\ Heard(c).st = "sending" /\ ~Heard(c).deleting /\ Heard(c).restart = 0
  BY <1>2 DEF HeardOK, Runs
<1> QED BY <1>2, <1>3, <1>4, <1>5

\* The bytes are there already.
LEMMA PutAgainHolds ==
  ASSUME IInv, NEW c \in Calls, PutMedia(c), object[calls[c].a] # "none"
  PROVE  IInv'
<1>1. /\ calls[c].kind = "put" /\ calls[c].kind \in Runs
      /\ UNCHANGED <<server, queue, client, day, history>> /\ mishaps' \in 0 .. MaxMishaps
      /\ IF calls[c].heard THEN calls' = [calls EXCEPT ![c].kind = "register", ![c].pc = "head"] ELSE End(c)
  BY DEF PutMedia, server, client, history, Runs, IInv, TypeOK
<1>2. CASE calls[c].heard
  <2>1. PICK old \in CallType, y \in ItemType :
          /\ old = calls[c] /\ y = Heard(c) /\ old.i \in Items /\ old.a \in Reserved
          /\ reserved[old.a].item = old.i /\ Today(old.a) /\ old.heard
          /\ y.put # "no" /\ y.a = old.a /\ ~y.registered /\ old.req = 0
          /\ y.st = "sending" /\ ~y.deleting /\ y.restart = 0
    BY <1>1, <1>2, PutFacts
  <2>2. calls' = [calls EXCEPT ![c] = RegisterLeg(old)]
    BY <1>1, <1>2, <2>1 DEF RegisterLeg
  <2> DEFINE call == RegisterLeg(old)
  <2>3. /\ call \in CallType /\ call.kind = "register" /\ call.pc = "head" /\ call.i = old.i
        /\ call.a = old.a /\ call.heard = old.heard /\ call.req = old.req
    BY RegisterLegFits
  <2> HIDE DEF call, IInv
  <2>4. CallOK(call, y)
    BY <2>1, <2>3 DEF CallOK, RegisterOK, PastHead, Runs
  <2>5. HeardOK(call, y)
    BY <2>1, <2>3 DEF HeardOK, Runs
  <2>6. calls' = [calls EXCEPT ![c] = call]
    BY <2>2 DEF call
  <2> QED BY <1>1, <1>2, <2>1, <2>3, <2>4, <2>5, <2>6, QuietCall
<1>3. CASE ~calls[c].heard
  <2> HIDE DEF IInv
  <2> QED BY <1>1, <1>3, CallEnds
<1> QED BY <1>2, <1>3

\* The bytes arrive, in time or after the client gave the upload up.
LEMMA PutFirstHolds ==
  ASSUME IInv, NEW c \in Calls, PutMedia(c), object[calls[c].a] = "none"
  PROVE  IInv'
<1>1. /\ calls[c].kind = "put" /\ object' = [object EXCEPT ![calls[c].a] = "pending"]
      /\ lateBytes' = IF ~calls[c].heard THEN lateBytes \union {calls[c].a} ELSE lateBytes
      /\ IF calls[c].heard
         THEN /\ item' = [item EXCEPT ![calls[c].i].put = "done"]
              /\ calls' = [calls EXCEPT ![c].kind = "register", ![c].pc = "head"]
         ELSE End(c) /\ UNCHANGED item
      /\ UNCHANGED <<header, scorecard, art, analysis, tombs, reserved, mapping, queue, check, day,
                     mishaps, lateRows, lateDeletes>>
  BY DEF PutMedia
<1>2. PICK i \in Items, y \in ItemType, old \in CallType, a \in Artifacts :
        /\ old = calls[c] /\ y = Heard(c) /\ y = item[i] /\ i = old.i /\ a = old.a
        /\ a \in Reserved /\ reserved[a].item = i /\ Today(a) /\ ItemOK(i, y)
        /\ old.heard =>
             /\ y.put # "no" /\ y.a = a /\ ~y.registered /\ old.req = 0
             /\ y.st = "sending" /\ ~y.deleting /\ y.restart = 0 /\ ~Ending /\ a \notin tombs
  <2> HIDE DEF IInv
  <2> QED BY <1>1, PutFacts
<1>3. PICK x \in ItemType, call \in CallType :
        /\ item' = [item EXCEPT ![i] = x] /\ calls' = [calls EXCEPT ![c] = call]
        /\ x.st = y.st /\ x.registered = y.registered /\ x.gen = y.gen /\ x.restart = y.restart
        /\ x.asked = y.asked /\ x.deleting = y.deleting /\ x.a = y.a
        /\ \/ /\ old.heard /\ x.put = "done"
              /\ call.kind = "register" /\ call.pc = "head" /\ call.a = a /\ call.i = i
              /\ call.req = 0 /\ call.heard
           \/ ~old.heard /\ x = y /\ call = NoCall
  <2>1. CASE old.heard
    <3> DEFINE x == [y EXCEPT !.put = "done"]
               call == RegisterLeg(old)
    <3>1. /\ call \in CallType /\ call.kind = "register" /\ call.pc = "head" /\ call.i = old.i
          /\ call.a = old.a /\ call.heard = old.heard /\ call.req = old.req
      BY RegisterLegFits
    <3>2. /\ x \in ItemType /\ x.st = y.st /\ x.registered = y.registered /\ x.gen = y.gen
          /\ x.restart = y.restart /\ x.asked = y.asked /\ x.deleting = y.deleting /\ x.a = y.a
          /\ x.put = "done"
      BY DEF ItemType
    <3>3. item' = [item EXCEPT ![i] = x] /\ calls' = [calls EXCEPT ![c] = call]
      <4>1. item' = [item EXCEPT ![i].put = "done"]
        BY <1>1, <1>2, <2>1
      <4>2. calls' = [calls EXCEPT ![c].kind = "register", ![c].pc = "head"]
        BY <1>1, <1>2, <2>1
      <4> HIDE DEF IInv
      <4>3. item' = [item EXCEPT ![i] = x]
        BY <1>2, <4>1
      <4>4. calls' = [calls EXCEPT ![c] = call]
        BY <1>2, <4>2 DEF RegisterLeg
      <4> QED BY <4>3, <4>4
    <3> HIDE DEF x, call, IInv
    <3>4. x \in ItemType /\ call \in CallType
      BY <3>1, <3>2
    <3> USE <3>4
    <3> WITNESS x \in ItemType, call \in CallType
    <3> QED BY <1>2, <2>1, <3>1, <3>2, <3>3
  <2>2. CASE ~old.heard
    <3>1. item' = [item EXCEPT ![i] = y] /\ calls' = [calls EXCEPT ![c] = NoCall]
      BY <1>1, <1>2, <2>2 DEF End, IInv, TypeOK
    <3> HIDE DEF IInv
    <3> QED BY <1>2, <2>2, <3>1, EmptyTypes
  <2> QED BY <2>1, <2>2
<1>4. /\ calls' \in [Calls -> CallType] /\ calls'[c] = call
      /\ \A d \in Calls \ {c} : calls'[d] = calls[d]
      /\ item' \in [Items -> ItemType] /\ item'[i] = x /\ \A j \in Items \ {i} : item'[j] = item[j]
  BY <1>3 DEF IInv, TypeOK
<1>5. /\ object' \in [Artifacts -> {"none", "pending", "registered"}] /\ object'[a] = "pending"
      /\ \A b \in Artifacts \ {a} : object'[b] = object[b]
      /\ object[a] = "none"
  BY <1>1, <1>2 DEF IInv, TypeOK
<1>6. /\ day' = day /\ reserved' = reserved /\ tombs' = tombs /\ header' = header /\ art' = art
      /\ analysis' = analysis /\ queue' = queue /\ check' = check /\ scorecard' = scorecard
      /\ lateRows' = lateRows /\ lateDeletes' = lateDeletes
      /\ lateBytes' = IF old.heard THEN lateBytes ELSE lateBytes \union {a}
  BY <1>1, <1>2
<1>7. /\ Rows' = Rows /\ Reserved' = Reserved /\ Evidence' = Evidence
      /\ Rows \subseteq Artifacts /\ Reserved \subseteq Artifacts /\ Evidence \subseteq Artifacts
      /\ \A b : Today(b)' = Today(b)
  BY <1>6 DEF Rows, Reserved, Evidence, Today, IInv, TypeOK
<1>8. a \notin Rows
  BY <1>2, <1>5 DEF IInv, Inv, RowInv
<1>9. /\ \A b \in Artifacts : object[b] # "none" => object'[b] # "none"
      /\ \A b \in Artifacts : object[b] = "registered" => object'[b] = "registered"
  BY <1>5
<1>10. TypeOK'
  BY <1>1, <1>2, <1>4, <1>5, <1>6 DEF IInv, TypeOK
<1>11. QuotaInv' /\ MapInv'
  BY <1>1, <1>7 DEF IInv, Inv, QuotaInv, MapInv
<1>12. CallInv'
  <2> SUFFICES ASSUME NEW d \in Calls PROVE CallOK(calls[d], Heard(d))'
    BY DEF CallInv
  <2>1. CASE d = c /\ ~old.heard
    <3>1. calls'[d] = NoCall
      BY <1>3, <1>4, <2>1
    <3> HIDE DEF IInv
    <3> QED BY <3>1 DEF CallOK, NoCall, Runs
  <2>2. CASE d = c /\ old.heard
    <3>1. calls'[d] = call /\ Heard(d)' = x /\ x.a = a /\ x.put = "done"
      BY <1>2, <1>3, <1>4, <2>2 DEF Heard
    <3>2. call.kind = "register" /\ call.pc = "head" /\ call.a = a /\ call.i = i /\ call.req = 0
      BY <1>3, <2>2
    <3> HIDE DEF IInv
    <3>3. RegisterOK(call, x)'
      BY <1>2, <1>5, <1>6, <1>7, <3>1, <3>2 DEF RegisterOK, PastHead
    <3>4. CallOK(call, x)'
      BY <3>2, <3>3 DEF CallOK, Runs
    <3> QED BY <3>1, <3>4 DEF CallOK, RegisterOK, RestartOK, DeleteOK
  <2>3. CASE d # c
    <3>1. PICK kall, z : kall \in CallType /\ kall = calls[d] /\ z = Heard(d) /\ CallOK(kall, z)
      BY DEF IInv, TypeOK, Inv, CallInv
    <3>2. calls'[d] = kall
      BY <1>4, <2>3, <3>1
    <3>3. PICK w : w = Heard(d)'
      OBVIOUS
    <3>4. kall.kind \in Runs \union {"delete"} =>
            /\ w.a = z.a /\ w.st = z.st /\ w.registered = z.registered /\ w.gen = z.gen
            /\ w.restart = z.restart /\ w.asked = z.asked /\ w.deleting = z.deleting
            /\ z.put # "no" => w.put # "no"
            /\ kall.i # i => w = z
      <4>1. kall.kind \in Runs \union {"delete"} => kall.i \in Items
        BY <3>1 DEF CallOK
      <4>2. CASE kall.i = i
        <5>1. z = y /\ w = x
          BY <1>2, <1>4, <3>1, <3>2, <3>3, <4>2 DEF Heard
        <5> HIDE DEF IInv
        <5> QED BY <1>3, <4>2, <5>1
      <4>3. CASE kall.i \in Items \ {i}
        <5>1. w = z
          BY <1>4, <3>1, <3>2, <3>3, <4>3 DEF Heard
        <5> QED BY <5>1
      <4> QED BY <4>1, <4>2, <4>3
    <3> HIDE DEF IInv
    <3>5. kall.kind = "register" /\ RegisterOK(kall, z) => RegisterOK(kall, w)'
      <4> SUFFICES ASSUME kall.kind = "register", RegisterOK(kall, z) PROVE RegisterOK(kall, w)'
        OBVIOUS
      <4>1. w.a = z.a /\ (z.put # "no" => w.put # "no")
        BY <3>4 DEF Runs
      <4>2. kall.a \in Artifacts /\ (~Today(kall.a) => object'[kall.a] = object[kall.a])
        BY <1>2, <1>5, <1>7 DEF RegisterOK
      <4> QED BY <1>6, <1>7, <1>9, <4>1, <4>2 DEF RegisterOK, PastHead
    <3>6. kall.kind = "register" /\ RestartOK(kall, z) => RestartOK(kall, w)'
      BY <1>6, <1>7, <3>4 DEF RestartOK, Runs
    <3>7. kall.kind = "delete" /\ DeleteOK(kall, z) => DeleteOK(kall, w)'
      BY <1>6, <1>7, <3>4 DEF DeleteOK
    <3>8. CallOK(kall, w)'
      BY <1>6, <1>7, <3>1, <3>5, <3>6, <3>7 DEF CallOK, Runs
    <3> QED BY <3>2, <3>3, <3>8 DEF CallOK, RegisterOK, RestartOK, DeleteOK
  <2> QED BY <2>1, <2>2, <2>3
<1>13. HeardInv'
  <2> SUFFICES ASSUME NEW j \in Items, NEW d \in Calls, Awaited(d, j)'
               PROVE  HeardOK(calls[d], item[j])' /\ \A e \in Calls : Awaited(e, j)' => d = e
    BY DEF HeardInv
  <2>1. \A e \in Calls : Awaited(e, j)' => Awaited(e, j)
    <3> SUFFICES ASSUME NEW e \in Calls, Awaited(e, j)' PROVE Awaited(e, j)
      OBVIOUS
    <3>1. CASE e = c
      BY <1>2, <1>3, <1>4, <3>1, NothingLeft DEF Awaited
    <3>2. CASE e # c
      BY <1>4, <3>2 DEF Awaited
    <3> QED BY <3>1, <3>2
  <2>2. HeardOK(calls[d], item[j]) /\ \A e \in Calls : Awaited(e, j) => d = e
    BY <2>1 DEF IInv, Inv, HeardInv
  <2>3. HeardOK(calls[d], item[j])'
    <3>1. CASE d = c
      <4>1. old.heard /\ j = i /\ call.kind = "register" /\ call.pc = "head" /\ call.a = a /\ call.req = 0
        BY <1>2, <1>3, <1>4, <2>1, <3>1, NothingLeft DEF Awaited
      <4>2. calls'[d] = call /\ item'[j] = x
        BY <1>4, <3>1, <4>1
      <4> HIDE DEF IInv
      <4> QED BY <1>2, <1>3, <4>1, <4>2 DEF HeardOK, Runs
    <3>2. CASE d # c
      <4>1. calls'[d] = calls[d]
        BY <1>4, <3>2
      <4>2. j = i => ~old.heard
        BY <1>2, <2>1, <2>2, <3>2 DEF Awaited
      <4>3. item'[j] = item[j]
        BY <1>2, <1>3, <1>4, <4>2
      <4> HIDE DEF IInv
      <4> QED BY <1>6, <1>7, <2>2, <4>1, <4>3 DEF HeardOK
    <3> QED BY <3>1, <3>2
  <2> QED BY <2>1, <2>2, <2>3
<1>14. ItemInv'
  <2> SUFFICES ASSUME NEW j \in Items PROVE ItemOK(j, item[j])'
    BY DEF ItemInv
  <2>1. PICK z \in ItemType : z = item[j] /\ ItemOK(j, z)
    BY DEF IInv, TypeOK, Inv, ItemInv
  <2>2. z.a \in Artifacts \union {0}
    BY DEF ItemType
  <2>3. CASE j = i /\ old.heard
    <3>1. item'[j] = x /\ z = y
      BY <1>2, <1>4, <2>1, <2>3
    <3> HIDE DEF IInv
    <3>2. /\ x.a = a /\ a # 0 /\ a \in Reserved' /\ reserved'[a].item = i /\ x.st = "sending"
          /\ x.deleting = FALSE /\ ~x.registered /\ x.restart = 0
      BY <1>2, <1>3, <1>6, <1>7, <2>3, Zeros
    <3>3. x.restart <= x.asked /\ x.gen <= x.asked
      BY <1>2, <1>3 DEF ItemOK
    <3>4. ItemOK(i, x)'
      BY <3>2, <3>3 DEF ItemOK
    <3> QED BY <2>3, <3>1, <3>4 DEF ItemOK, Outcome
  <2>4. CASE ~(j = i /\ old.heard)
    <3>1. item'[j] = z
      BY <1>2, <1>3, <1>4, <2>1, <2>4
    <3>2. Outcome(z)' = Outcome(z)
      BY <1>6 DEF Outcome
    <3> HIDE DEF IInv
    <3>3. ItemOK(j, z)'
      BY <1>6, <1>7, <1>9, <2>1, <2>2, <3>2 DEF ItemOK
    <3> QED BY <3>1, <3>3 DEF ItemOK, Outcome
  <2> QED BY <2>3, <2>4
<1>15. \A b \in Reserved :
         /\ Owner(b)'.asked = Owner(b).asked /\ Owner(b)'.a = Owner(b).a
         /\ LetGo(Owner(b)) => LetGo(Owner(b))'
         /\ Owner(b).put # "no" => Owner(b)'.put # "no"
         /\ reserved[b].item = i => Owner(b)' = x
  <2> SUFFICES ASSUME NEW b \in Reserved
               PROVE  /\ Owner(b)'.asked = Owner(b).asked /\ Owner(b)'.a = Owner(b).a
                      /\ LetGo(Owner(b)) => LetGo(Owner(b))'
                      /\ Owner(b).put # "no" => Owner(b)'.put # "no"
                      /\ reserved[b].item = i => Owner(b)' = x
    OBVIOUS
  <2>1. reserved[b].item \in Items
    BY DEF Reserved, IInv, TypeOK
  <2>2. reserved'[b] = reserved[b]
    BY <1>6
  <2> HIDE DEF IInv
  <2>3. CASE reserved[b].item = i
    <3>1. Owner(b) = y /\ Owner(b)' = x
      BY <1>2, <1>4, <2>2, <2>3 DEF Owner
    <3>2. LetGo(y) => LetGo(x)'
      BY <1>3, <1>6 DEF LetGo
    <3> QED BY <1>3, <1>6, <3>1, <3>2 DEF LetGo
  <2>4. CASE reserved[b].item # i
    <3>1. Owner(b)' = Owner(b)
      BY <1>4, <2>1, <2>2, <2>4 DEF Owner
    <3> QED BY <1>6, <2>4, <3>1 DEF LetGo
  <2> QED BY <2>3, <2>4
<1>16. BytesInv'
  <2>1. \A b \in Reserved \ (tombs \union lateBytes) :
          object[b] # "none" => Owner(b).a = b /\ Owner(b).put # "no"
    BY DEF IInv, Inv, BytesInv
  <2>2. \A b \in Reserved' \ (tombs' \union lateBytes') :
          object'[b] # "none" => Owner(b)'.a = b /\ Owner(b)'.put # "no"
    <3> SUFFICES ASSUME NEW b \in Reserved, b \notin tombs, b \notin lateBytes', object'[b] # "none"
                 PROVE  Owner(b)'.a = b /\ Owner(b)'.put # "no"
      BY <1>6, <1>7
    <3>1. CASE b = a
      <4>1. old.heard
        BY <1>6, <3>1
      <4>2. Owner(b)' = x
        BY <1>2, <1>15, <3>1
      <4> HIDE DEF IInv
      <4> QED BY <1>2, <1>3, <3>1, <4>1, <4>2
    <3>2. CASE b # a
      <4>1. object[b] # "none" /\ b \notin lateBytes
        BY <1>5, <1>6, <1>7, <3>2
      <4> HIDE DEF IInv
      <4> QED BY <1>15, <2>1, <4>1
    <3> QED BY <3>1, <3>2
  <2>3. \A b \in Artifacts : object'[b] # "none" => b \in Reserved'
    BY <1>2, <1>5, <1>7 DEF IInv, Inv, BytesInv
  <2>4. \A b \in Artifacts : object'[b] = "pending" => Today(b)'
    BY <1>2, <1>5, <1>7 DEF IInv, Inv, BytesInv
  <2> QED BY <2>2, <2>3, <2>4 DEF BytesInv
<1>17. RowInv'
  <2>1. ResultOfItsGeneration'
    BY <1>6, <1>7 DEF IInv, Inv, RowInv, ResultOfItsGeneration, IsCurrent
  <2>2. \A b \in Rows :
          /\ Today(b)' => object'[b] # "none"
          /\ art'[b].st # "queued" => object'[b] = "registered" \/ b \in tombs'
          /\ analysis'[b].st # "none" => analysis'[b].gen <= art'[b].gen
          /\ analysis'[b].st \in {"analyzed", "failed"} => analysis'[b].gen = art'[b].gen
    BY <1>6, <1>7, <1>9 DEF IInv, Inv, RowInv
  <2>3. Rows \subseteq Reserved /\ tombs \subseteq Reserved
    BY DEF IInv, Inv, RowInv, Evidence
  <2>4. \A b \in Rows : art'[b].gen <= Owner(b)'.asked
    BY <1>6, <1>15, <2>3 DEF IInv, Inv, RowInv
  <2>5. \A b \in tombs : Owner(b)'.a = b /\ LetGo(Owner(b))'
    BY <1>15, <2>3 DEF IInv, Inv, RowInv
  <2>6. \A b \in Reserved : analysis'[b].gen <= Owner(b)'.asked
    BY <1>6, <1>15 DEF IInv, Inv, RowInv
  <2> QED BY <1>6, <1>7, <2>1, <2>2, <2>4, <2>5, <2>6 DEF IInv, Inv, RowInv
<1>18. QueueInv'
  <2>1. \A b : Message(b)' = Message(b)
    BY <1>6 DEF Message
  <2>2. \A m \in Messages : queue[m] \in MessageType
    BY DEF IInv, TypeOK
  <2>3. \A m \in Messages :
          IF queue'[m].pc = "free" THEN queue'[m] = NoMessage
          ELSE queue'[m].a \in Evidence' /\ (object'[queue'[m].a] = "registered" \/ queue'[m].a \in tombs')
    BY <1>6, <1>7, <1>9 DEF IInv, Inv, QueueInv
  <2>4. \A j \in Items : Trusting(item[j])' => Message(item[j].a)'
    <3> SUFFICES ASSUME NEW j \in Items, Trusting(item[j])' PROVE Message(item[j].a)'
      OBVIOUS
    <3>1. Trusting(item[j]) /\ item'[j].a = item[j].a
      <4>1. CASE j = i
        BY <1>2, <1>3, <1>4, <1>6, <1>7, <4>1 DEF Trusting
      <4>2. CASE j # i
        BY <1>4, <1>6, <1>7, <4>2 DEF Trusting
      <4> QED BY <4>1, <4>2
    <3>2. Message(item[j].a)
      BY <3>1 DEF IInv, Inv, QueueInv
    <3> QED BY <1>6, <3>1, <3>2 DEF Message
  <2> QED BY <1>6, <1>7, <2>1, <2>3, <2>4 DEF IInv, Inv, QueueInv
<1>19. EndInv'
  <2>1. \A d \in Calls : calls'[d].kind = "complete" => calls'[d] = calls[d]
    BY <1>3, <1>4, NothingLeft
  <2>2. Ending' => Ending
    BY <1>6, <2>1 DEF Ending
  <2>3. CASE ~Ending
    <3> HIDE DEF IInv
    <3> QED BY <1>6, <2>2, <2>3 DEF EndInv, Ending, Completing
  <2>4. CASE Ending
    <3>1. item' = item
      BY <1>2, <1>3, <2>4 DEF IInv, TypeOK
    <3>2. \A d \in Calls : Completing(d, "write")' => Completing(d, "write") /\ calls'[d] = calls[d]
      BY <2>1 DEF Completing
    <3>3. \A d \in Calls : header # "completed" /\ Completing(d, "write")' => Folds(calls'[d].fold)
      BY <3>2 DEF IInv, Inv, EndInv
    <3>4. check'.finished /\ \A j \in Items : AtRest(item[j])
      BY <1>6, <2>4 DEF IInv, Inv, EndInv
    <3> HIDE DEF IInv
    <3> QED BY <1>6, <3>1, <3>3, <3>4, EndKept
  <2> QED BY <2>3, <2>4
<1> QED BY <1>10, <1>11, <1>12, <1>13, <1>14, <1>16, <1>17, <1>18, <1>19 DEF IInv, Inv

LEMMA PutMediaHolds ==
  ASSUME IInv, NEW c \in Calls, PutMedia(c)
  PROVE  IInv'
BY PutAgainHolds, PutFirstHolds

\* The marker is written and the row the read found goes.
LEMMA MarkedHolds ==
  ASSUME IInv, NEW c \in Calls, DeleteWrite(c), header = calls[c].status
  PROVE  IInv'
<1>1. /\ calls[c].kind = "delete" /\ calls[c].pc = "write" /\ Goto(c, "objects")
      /\ tombs' = tombs \union {calls[c].a}
      /\ art' = IF calls[c].row THEN [art EXCEPT ![calls[c].a] = NoRow] ELSE art
      /\ lateRows' = (IF calls[c].row THEN lateRows ELSE lateRows \union ({calls[c].a} \intersect Rows))
      /\ lateDeletes' = (IF calls[c].row THEN lateDeletes \union ({calls[c].a} \intersect BeingFolded)
                         ELSE lateDeletes)
      /\ UNCHANGED <<header, scorecard, analysis, reserved, mapping, object, queue, item, check, day,
                     mishaps, lateBytes>>
  BY DEF DeleteWrite, Deleting, client
<1>2. PICK old \in CallType, y \in ItemType, i \in Items, a \in Artifacts :
        /\ old = calls[c] /\ y = Heard(c) /\ y = item[i] /\ i = old.i /\ a = old.a
        /\ DeleteOK(old, y) /\ ItemOK(i, y) /\ a \in Reserved /\ reserved[a].item = i /\ y.a = a
        /\ (old.heard => HeardOK(old, y))
  <2>1. calls[c].a \in Artifacts /\ DeleteOK(calls[c], Heard(c))
    BY <1>1 DEF Reserved, IInv, Inv, CallInv, CallOK, DeleteOK
  <2> HIDE DEF IInv
  <2>2. /\ calls[c] \in CallType /\ Heard(c) \in ItemType /\ calls[c].i \in Items
        /\ Heard(c) = item[calls[c].i] /\ ItemOK(calls[c].i, Heard(c))
        /\ calls[c].heard => HeardOK(calls[c], Heard(c))
    BY <1>1, CallFacts
  <2> QED BY <2>1, <2>2 DEF DeleteOK
<1>3. PICK call \in CallType :
        /\ calls' = [calls EXCEPT ![c] = call]
        /\ call.pc = "objects" /\ call.kind = "delete" /\ call.i = i /\ call.a = a
        /\ call.heard = old.heard /\ call.req = old.req /\ call.row = old.row
  BY <1>1, <1>2, GotoFields DEF Pcs
<1>4. /\ calls' \in [Calls -> CallType] /\ calls'[c] = call
      /\ \A d \in Calls \ {c} : calls'[d] = calls[d]
  BY <1>3 DEF IInv, TypeOK
<1>5. /\ art' \in [Artifacts -> RowType]
      /\ \A b \in Artifacts \ {a} : art'[b] = art[b]
      /\ old.row => art'[a] = NoRow
      /\ ~old.row => art' = art
  BY <1>1, <1>2, EmptyTypes DEF IInv, TypeOK
<1>6. /\ Rows' = (IF old.row THEN Rows \ {a} ELSE Rows) /\ Reserved' = Reserved
      /\ Evidence' = Evidence \union {a} /\ tombs' = tombs \union {a}
      /\ Rows \subseteq Artifacts /\ Reserved \subseteq Artifacts /\ Evidence \subseteq Artifacts
      /\ Rows' \subseteq Rows /\ \A b \in Rows' : art'[b] = art[b]
      /\ Rows \subseteq Evidence /\ tombs \subseteq Evidence
  <2>1. Reserved' = Reserved /\ Reserved \subseteq Artifacts /\ Rows \subseteq Artifacts /\ tombs \subseteq Artifacts
    BY <1>1 DEF Reserved, Rows, IInv, TypeOK
  <2>2. Rows' = (IF old.row THEN Rows \ {a} ELSE Rows)
    <3>1. NoRow.st = "none"
      BY DEF NoRow
    <3> HIDE DEF IInv
    <3> QED BY <1>5, <3>1 DEF Rows
  <2>3. \A b \in Rows' : art'[b] = art[b]
    BY <1>5, <2>1, <2>2
  <2> HIDE DEF IInv
  <2> QED BY <1>1, <1>2, <2>1, <2>2, <2>3 DEF Evidence
<1>7. /\ day' = day /\ object' = object /\ reserved' = reserved /\ header' = header /\ item' = item
      /\ analysis' = analysis /\ queue' = queue /\ check' = check /\ scorecard' = scorecard
      /\ \A b : Today(b)' = Today(b)
  BY <1>1 DEF Today
<1>8. /\ \A b \in Rows' : Today(b) => object[b] # "none"
      /\ lateRows' = (IF old.row THEN lateRows ELSE lateRows \union ({a} \intersect Rows))
      /\ lateDeletes' = (IF old.row THEN lateDeletes \union ({a} \intersect BeingFolded) ELSE lateDeletes)
      /\ tombs' \intersect Rows' \subseteq lateRows'
  <2>1. /\ lateRows' = (IF old.row THEN lateRows ELSE lateRows \union ({a} \intersect Rows))
        /\ lateDeletes' = (IF old.row THEN lateDeletes \union ({a} \intersect BeingFolded) ELSE lateDeletes)
    BY <1>1, <1>2
  <2>2. tombs \intersect Rows \subseteq lateRows /\ \A b \in Rows : Today(b) => object[b] # "none"
    BY DEF IInv, Inv, RowInv
  <2> HIDE DEF IInv
  <2> QED BY <1>6, <2>1, <2>2
<1>9. TypeOK'
  BY <1>1, <1>2, <1>4, <1>5, <1>6, <1>8 DEF IInv, TypeOK
<1>10. QuotaInv' /\ MapInv'
  BY <1>1, <1>6 DEF IInv, Inv, QuotaInv, MapInv
<1>11. CallInv'
  <2> SUFFICES ASSUME NEW d \in Calls PROVE CallOK(calls[d], Heard(d))'
    BY DEF CallInv
  <2>1. CASE d = c
    <3>1. calls'[d] = call /\ Heard(d)' = y
      BY <1>2, <1>3, <1>4, <1>7, <2>1 DEF Heard
    <3> HIDE DEF IInv
    <3>2. DeleteOK(call, y)'
      BY <1>2, <1>3, <1>6, <1>7 DEF DeleteOK
    <3>3. CallOK(call, y)'
      BY <1>2, <1>3, <3>2 DEF CallOK, Runs
    <3> QED BY <3>1, <3>3 DEF CallOK, RegisterOK, RestartOK, DeleteOK
  <2>2. CASE d # c
    <3>1. PICK kall, z : kall \in CallType /\ kall = calls[d] /\ z = Heard(d) /\ CallOK(kall, z)
      BY DEF IInv, TypeOK, Inv, CallInv
    <3>2. calls'[d] = kall /\ Heard(d)' = z
      BY <1>4, <1>7, <2>2, <3>1 DEF Heard
    <3> HIDE DEF IInv
    <3>3. RegisterOK(kall, z) => RegisterOK(kall, z)'
      BY <1>6, <1>7 DEF RegisterOK, PastHead
    <3>4. RestartOK(kall, z) => RestartOK(kall, z)'
      BY <1>6, <1>7 DEF RestartOK
    <3>5. DeleteOK(kall, z) => DeleteOK(kall, z)'
      BY <1>6, <1>7 DEF DeleteOK
    <3>6. CallOK(kall, z)'
      BY <1>6, <1>7, <3>1, <3>3, <3>4, <3>5 DEF CallOK, Runs
    <3> QED BY <3>2, <3>6 DEF CallOK, RegisterOK, RestartOK, DeleteOK
  <2> QED BY <2>1, <2>2
<1>12. HeardInv'
  <2> SUFFICES ASSUME NEW j \in Items, NEW d \in Calls, Awaited(d, j)'
               PROVE  HeardOK(calls[d], item[j])' /\ \A e \in Calls : Awaited(e, j)' => d = e
    BY DEF HeardInv
  <2>1. \A e \in Calls : Awaited(e, j)' = Awaited(e, j)
    BY <1>2, <1>3, <1>4 DEF Awaited
  <2>2. HeardOK(calls[d], item[j]) /\ \A e \in Calls : Awaited(e, j) => d = e
    BY <2>1 DEF IInv, Inv, HeardInv
  <2>3. HeardOK(calls[d], item[j])'
    <3>1. CASE d = c
      <4>1. calls'[d] = call /\ item'[j] = item[j] /\ item[j].deleting
        BY <1>1, <1>2, <1>4, <1>7, <2>2, <3>1 DEF HeardOK
      <4> HIDE DEF IInv
      <4> QED BY <1>3, <4>1 DEF HeardOK, Runs
    <3>2. CASE d # c
      <4>1. calls'[d] = calls[d] /\ item'[j] = item[j]
        BY <1>4, <1>7, <3>2
      <4> HIDE DEF IInv
      <4> QED BY <1>6, <2>2, <4>1 DEF HeardOK
    <3> QED BY <3>1, <3>2
  <2> QED BY <2>1, <2>2, <2>3
<1>13. ItemInv'
  <2> SUFFICES ASSUME NEW j \in Items PROVE ItemOK(j, item[j])'
    BY DEF ItemInv
  <2>1. PICK z \in ItemType : z = item[j] /\ item'[j] = z /\ ItemOK(j, z)
    BY <1>7 DEF IInv, TypeOK, Inv, ItemInv
  <2>2. z.a \in Rows' => Outcome(z)' = Outcome(z)
    BY <1>6 DEF Outcome
  <2>3. z.registered => z.a \notin tombs' \intersect Rows'
    <3>1. CASE z.a = a
      <4>1. z.registered => z = y
        BY <1>2, <1>6, <2>1, <3>1, Zeros DEF ItemOK
      <4>2. y.registered /\ ~old.row => a \notin Rows
        BY <1>1, <1>2 DEF DeleteOK
      <4> HIDE DEF IInv
      <4> QED BY <1>6, <3>1, <4>1, <4>2
    <3>2. CASE z.a # a
      <4> HIDE DEF IInv
      <4> QED BY <1>6, <2>1, <3>2 DEF ItemOK
    <3> QED BY <3>1, <3>2
  <2> HIDE DEF IInv
  <2>4. ItemOK(j, z)'
    BY <1>6, <1>7, <2>1, <2>2, <2>3 DEF ItemOK
  <2> QED BY <2>1, <2>4 DEF ItemOK, Outcome
<1>14. BytesInv'
  BY <1>1, <1>6, <1>7 DEF IInv, Inv, BytesInv, Owner
<1>15. RowInv'
  <2>1. ResultOfItsGeneration'
    BY <1>6, <1>7 DEF IInv, Inv, RowInv, ResultOfItsGeneration, IsCurrent
  <2>2. \A b \in Reserved : Owner(b)' = Owner(b) /\ (LetGo(Owner(b)))' = LetGo(Owner(b))
    BY <1>7 DEF Owner, LetGo
  <2>3. \A b \in tombs' : Owner(b)'.a = b /\ LetGo(Owner(b))'
    <3>1. Owner(a).a = a /\ LetGo(Owner(a))
      BY <1>2 DEF Owner, LetGo, DeleteOK
    <3>2. \A b \in tombs : b \in Reserved /\ Owner(b).a = b /\ LetGo(Owner(b))
      BY DEF IInv, Inv, RowInv, Evidence
    <3> HIDE DEF IInv
    <3> QED BY <1>2, <1>6, <2>2, <3>1, <3>2
  <2>4. \A b \in Rows' :
          /\ Today(b)' => object'[b] # "none"
          /\ art'[b].st # "queued" => object'[b] = "registered" \/ b \in tombs'
          /\ art'[b].gen <= Owner(b)'.asked
          /\ analysis'[b].st # "none" => analysis'[b].gen <= art'[b].gen
          /\ analysis'[b].st \in {"analyzed", "failed"} => analysis'[b].gen = art'[b].gen
    <3>1. Rows \subseteq Reserved
      BY <1>6 DEF IInv, Inv, RowInv
    <3> QED BY <1>6, <1>7, <2>2, <3>1 DEF IInv, Inv, RowInv
  <2>5. Evidence' \subseteq Reserved'
    BY <1>2, <1>6 DEF IInv, Inv, RowInv
  <2>6. \A b \in Artifacts \ Evidence' : analysis'[b] = NoAnalysis
    BY <1>6, <1>7 DEF IInv, Inv, RowInv
  <2>7. \A b \in Reserved' : analysis'[b].gen <= Owner(b)'.asked
    BY <1>6, <1>7, <2>2 DEF IInv, Inv, RowInv
  <2> HIDE DEF IInv
  <2> QED BY <1>8, <2>1, <2>3, <2>4, <2>5, <2>6, <2>7 DEF RowInv
<1>16. QueueInv'
  <2>1. \A b \in Rows' : Message(b) => Message(b)'
    <3> HIDE DEF IInv
    <3> QED BY <1>6, <1>7 DEF Message
  <2>2. \A m \in Messages :
          IF queue'[m].pc = "free" THEN queue'[m] = NoMessage
          ELSE queue'[m].a \in Evidence' /\ (object'[queue'[m].a] = "registered" \/ queue'[m].a \in tombs')
    BY <1>6, <1>7 DEF IInv, Inv, QueueInv
  <2>3. \A j \in Items : Trusting(item[j])' => Message(item[j].a)'
    <3> SUFFICES ASSUME NEW j \in Items, Trusting(item[j])' PROVE Message(item[j].a)'
      OBVIOUS
    <3>1. item[j].a \in Rows' /\ Trusting(item[j])
      BY <1>6, <1>7 DEF Trusting
    <3>2. Message(item[j].a)
      BY <3>1 DEF IInv, Inv, QueueInv
    <3> HIDE DEF IInv
    <3> QED BY <1>6, <1>7, <3>1, <3>2 DEF Message
  <2>4. \A b \in Artifacts : art'[b].lease # NoLease => art'[b] = art[b]
    <3>1. NoRow.lease = NoLease
      BY DEF NoRow
    <3> HIDE DEF IInv
    <3> QED BY <1>5, <3>1
  <2>5. \A b \in Artifacts : art'[b].lease # NoLease =>
          LET m == art'[b].lease IN
          art'[b].st = "running" /\ queue'[m].a = b /\ queue'[m].gen = art'[b].gen
          /\ queue'[m].pc \in {"running", "hidden"}
    BY <1>7, <2>4 DEF IInv, Inv, QueueInv
  <2>6. \A b \in Rows' : art'[b].st = "running" => Message(b)'
    BY <1>6, <2>1 DEF IInv, Inv, QueueInv
  <2> HIDE DEF IInv
  <2> QED BY <2>2, <2>3, <2>5, <2>6 DEF QueueInv
<1>17. EndInv'
  <2>1. \A d \in Calls : calls'[d].kind = "complete" => calls'[d] = calls[d]
    BY <1>3, <1>4
  <2>2. Ending' => Ending
    BY <1>7, <2>1 DEF Ending
  <2>3. header = "completed" /\ old.row /\ a \in Succeeded => a \in lateRows
    BY <1>1, <1>2 DEF DeleteOK, Succeeded
  <2>4. ASSUME NEW fold, Folds(fold), header = "completed" \/ fold \subseteq BeingFolded
        PROVE  Folds(fold)'
    <3> DEFINE late == lateRows \union lateDeletes
               lateNow == lateRows' \union lateDeletes'
    <3>1. \A b \in Rows' : art'[b].st \in Settled
      BY <1>6, <2>4 DEF Folds
    <3>2. Succeeded' = Succeeded \intersect Rows' /\ Succeeded \subseteq Rows
      BY <1>6 DEF Succeeded
    <3>3. late \subseteq lateNow
      BY <1>8
    <3>4. fold \ late = Succeeded \ late
      BY <2>4 DEF Folds
    <3> HIDE DEF IInv
    <3>5. \A b \in Succeeded : b \notin Rows' => b \in lateNow
      <4> SUFFICES ASSUME NEW b \in Succeeded, b \notin Rows', b \notin lateNow PROVE FALSE
        OBVIOUS
      <4>1. b = a /\ old.row
        BY <1>6, <3>2
      <4>2. header # "completed"
        BY <2>3, <3>3, <4>1
      <4>3. b \in BeingFolded
        BY <2>4, <3>3, <3>4, <4>2
      <4> QED BY <1>8, <4>1, <4>3
    <3>6. fold \ lateNow = Succeeded' \ lateNow
      <4> HIDE DEF late, lateNow
      <4> QED BY <3>2, <3>3, <3>4, <3>5
    <3> QED BY <3>1, <3>6 DEF Folds
  <2>5. \A d \in Calls : header' # "completed" /\ Completing(d, "write")' => Folds(calls[d].fold)'
    <3> SUFFICES ASSUME NEW d \in Calls, header' # "completed", Completing(d, "write")'
                 PROVE  Folds(calls[d].fold)'
      OBVIOUS
    <3>1. Completing(d, "write") /\ calls'[d] = calls[d]
      BY <2>1 DEF Completing
    <3>2. PICK fold : fold = calls[d].fold
      OBVIOUS
    <3>3. Folds(fold)
      BY <1>7, <3>1, <3>2 DEF IInv, Inv, EndInv
    <3> HIDE DEF IInv
    <3>a. fold \subseteq BeingFolded
      BY <3>1, <3>2 DEF BeingFolded, Completing
    <3>4. Folds(fold)'
      BY <2>4, <3>3, <3>a
    <3> HIDE DEF IInv
    <3> QED BY <3>1, <3>2, <3>4 DEF Folds
  <2>6. header' = "completed" => Folds(scorecard)'
    <3> SUFFICES ASSUME header = "completed" PROVE Folds(scorecard)'
      BY <1>7
    <3>1. PICK fold : fold = scorecard
      OBVIOUS
    <3>2. Folds(fold)
      BY <3>1 DEF IInv, Inv, EndInv
    <3>3. Folds(fold)'
      BY <2>4, <3>2
    <3> HIDE DEF IInv
    <3> QED BY <1>7, <3>1, <3>3 DEF Folds
  <2>7. Ending' => check'.finished /\ \A j \in Items : AtRest(item[j])'
    BY <1>7, <2>2 DEF IInv, Inv, EndInv, AtRest
  <2> HIDE DEF IInv
  <2> QED BY <2>5, <2>6, <2>7 DEF EndInv, Folds
<1> QED BY <1>9, <1>10, <1>11, <1>12, <1>13, <1>14, <1>15, <1>16, <1>17 DEF IInv, Inv

LEMMA DeleteWriteHolds ==
  ASSUME IInv, NEW c \in Calls, DeleteWrite(c)
  PROVE  IInv'
<1>1. CASE header = calls[c].status
  BY <1>1, MarkedHolds
<1>2. CASE header # calls[c].status
  <2>1. /\ calls[c].kind \in Runs \union {"delete"} /\ End(c)
        /\ UNCHANGED <<server, queue, client, day, history>> /\ mishaps' \in 0 .. MaxMishaps
    BY <1>2 DEF DeleteWrite, Deleting, server, history, IInv, TypeOK
  <2> HIDE DEF IInv
  <2> QED BY <2>1, CallEnds
<1> QED BY <1>1, <1>2

\* The bytes of the row that the deletion found are removed.
LEMMA DeleteObjectsHolds ==
  ASSUME IInv, NEW c \in Calls, DeleteObjects(c)
  PROVE  IInv'
<1>1. /\ calls[c].kind = "delete" /\ calls[c].pc = "objects" /\ calls' = [calls EXCEPT ![c] = NoCall]
      /\ object' = IF calls[c].row THEN [object EXCEPT ![calls[c].a] = "none"] ELSE object
      /\ Hear(c, [Heard(c) EXCEPT !.st = "gone", !.deleting = FALSE])
      /\ UNCHANGED <<header, scorecard, art, analysis, tombs, reserved, mapping, queue, check, day,
                     mishaps, lateBytes, lateRows, lateDeletes>>
  BY DEF DeleteObjects, Deleting, End, history
<1>2. PICK old \in CallType, y \in ItemType, i \in Items, a \in Artifacts :
        /\ old = calls[c] /\ y = Heard(c) /\ y = item[i] /\ i = old.i /\ a = old.a
        /\ ItemOK(i, y) /\ a \in Reserved /\ reserved[a].item = i /\ y.a = a
        /\ a \in tombs /\ (old.row => a \notin Rows) /\ (old.heard => y.deleting)
  <2>1. calls[c].a \in Artifacts /\ DeleteOK(calls[c], Heard(c))
    BY <1>1 DEF Reserved, IInv, Inv, CallInv, CallOK, DeleteOK
  <2> HIDE DEF IInv
  <2>2. /\ calls[c] \in CallType /\ Heard(c) \in ItemType /\ calls[c].i \in Items
        /\ Heard(c) = item[calls[c].i] /\ ItemOK(calls[c].i, Heard(c))
        /\ calls[c].heard => Heard(c).deleting
    BY <1>1, CallFacts DEF HeardOK
  <2> QED BY <1>1, <2>1, <2>2 DEF DeleteOK
<1>3. PICK x \in ItemType :
        /\ item' = [item EXCEPT ![i] = x]
        /\ x.a = y.a /\ x.put = y.put /\ x.registered = y.registered /\ x.gen = y.gen
        /\ x.restart = y.restart /\ x.asked = y.asked
        /\ (x = y \/ (x.st = "gone" /\ x.deleting = FALSE))
  <2>1. CASE old.heard
    <3> DEFINE x == [y EXCEPT !.st = "gone", !.deleting = FALSE]
    <3>1. /\ x \in ItemType /\ x.a = y.a /\ x.put = y.put /\ x.registered = y.registered /\ x.gen = y.gen
          /\ x.restart = y.restart /\ x.asked = y.asked /\ x.st = "gone" /\ x.deleting = FALSE
      BY DEF ItemType
    <3>2. item' = [item EXCEPT ![i] = x]
      BY <1>1, <1>2, <2>1 DEF Hear
    <3> HIDE DEF x, IInv
    <3> QED BY <3>1, <3>2
  <2>2. CASE ~old.heard
    <3>1. item' = [item EXCEPT ![i] = y]
      BY <1>1, <1>2, <2>2 DEF Hear, IInv, TypeOK
    <3> HIDE DEF IInv
    <3> QED BY <3>1
  <2> QED BY <2>1, <2>2
<1>4. /\ calls' \in [Calls -> CallType] /\ calls'[c] = NoCall
      /\ \A d \in Calls \ {c} : calls'[d] = calls[d]
      /\ item' \in [Items -> ItemType] /\ item'[i] = x /\ \A j \in Items \ {i} : item'[j] = item[j]
  BY <1>1, <1>3, EmptyTypes DEF IInv, TypeOK
<1>5. /\ object' \in [Artifacts -> {"none", "pending", "registered"}]
      /\ \A b \in Artifacts : object'[b] = object[b] \/ (object'[b] = "none" /\ b \in tombs /\ b \notin Rows)
  BY <1>1, <1>2 DEF IInv, TypeOK
<1>6. /\ day' = day /\ reserved' = reserved /\ tombs' = tombs /\ header' = header /\ art' = art
      /\ analysis' = analysis /\ queue' = queue /\ check' = check /\ scorecard' = scorecard
      /\ lateRows' = lateRows /\ lateBytes' = lateBytes /\ lateDeletes' = lateDeletes
  BY <1>1
<1>7. /\ Rows' = Rows /\ Reserved' = Reserved /\ Evidence' = Evidence /\ Succeeded' = Succeeded
      /\ Rows \subseteq Artifacts /\ Reserved \subseteq Artifacts /\ Evidence \subseteq Artifacts
      /\ \A b : Today(b)' = Today(b)
  BY <1>6 DEF Rows, Reserved, Evidence, Succeeded, Today, IInv, TypeOK
<1>8. y.registered => a \notin Rows
  BY <1>2 DEF ItemOK
<1>9. TypeOK'
  BY <1>1, <1>4, <1>5 DEF IInv, TypeOK
<1>10. QuotaInv' /\ MapInv'
  BY <1>1, <1>7 DEF IInv, Inv, QuotaInv, MapInv
<1>11. CallInv'
  <2> SUFFICES ASSUME NEW d \in Calls PROVE CallOK(calls[d], Heard(d))'
    BY DEF CallInv
  <2>1. CASE d = c
    <3>1. calls'[d] = NoCall
      BY <1>4, <2>1
    <3> HIDE DEF IInv
    <3> QED BY <3>1 DEF CallOK, NoCall, Runs
  <2>2. CASE d # c
    <3>1. PICK kall, z : kall \in CallType /\ kall = calls[d] /\ z = Heard(d) /\ CallOK(kall, z)
      BY DEF IInv, TypeOK, Inv, CallInv
    <3>2. calls'[d] = kall
      BY <1>4, <2>2, <3>1
    <3>3. PICK w : w = Heard(d)'
      OBVIOUS
    <3>4. kall.kind \in Runs \union {"delete"} =>
            /\ w.a = z.a /\ w.registered = z.registered /\ w.gen = z.gen /\ w.put = z.put
            /\ w.restart = z.restart /\ w.asked = z.asked
            /\ w.deleting \/ w.st = "gone" \/ w = z
            /\ w = z \/ (z = y /\ w = x)
      <4>1. kall.kind \in Runs \union {"delete"} => kall.i \in Items
        BY <3>1 DEF CallOK
      <4>2. CASE kall.i = i
        <5>1. z = y /\ w = x
          BY <1>2, <1>4, <3>1, <3>2, <3>3, <4>2 DEF Heard
        <5> HIDE DEF IInv
        <5> QED BY <1>3, <4>2, <5>1
      <4>3. CASE kall.i \in Items \ {i}
        <5>1. w = z
          BY <1>4, <3>1, <3>2, <3>3, <4>3 DEF Heard
        <5> QED BY <5>1
      <4> QED BY <4>1, <4>2, <4>3
    <3> HIDE DEF IInv
    <3>5. kall.kind = "register" /\ RegisterOK(kall, z) => RegisterOK(kall, w)'
      <4> SUFFICES ASSUME kall.kind = "register", RegisterOK(kall, z) PROVE RegisterOK(kall, w)'
        OBVIOUS
      <4>1. w.a = z.a /\ w.put = z.put
        BY <3>4 DEF Runs
      <4>2. /\ kall.a \in Artifacts
            /\ object[kall.a] = "none" => object'[kall.a] = "none"
            /\ object'[kall.a] = object[kall.a] \/ kall.a \in tombs
        BY <1>5, <1>7 DEF RegisterOK
      <4> QED BY <1>6, <1>7, <4>1, <4>2 DEF RegisterOK, PastHead
    <3>6. kall.kind = "register" /\ kall.req # 0 /\ RegisterOK(kall, z) /\ RestartOK(kall, z) => RestartOK(kall, w)'
      <4> SUFFICES ASSUME kall.kind = "register", kall.req # 0, RegisterOK(kall, z), RestartOK(kall, z)
                   PROVE  RestartOK(kall, w)'
        OBVIOUS
      <4>1. CASE w = z
        BY <1>6, <1>7, <4>1 DEF RestartOK
      <4>2. CASE z = y /\ w = x
        <5>1. kall.a = a
          BY <1>2, <4>2 DEF RegisterOK
        <5>2. kall.a \notin Rows
          BY <1>8, <4>2, <5>1 DEF RestartOK
        <5> QED BY <1>3, <1>6, <1>7, <4>2, <5>2 DEF RestartOK
      <4> QED BY <3>4, <4>1, <4>2 DEF Runs
    <3>7. kall.kind = "delete" /\ DeleteOK(kall, z) => DeleteOK(kall, w)'
      BY <1>6, <1>7, <3>4 DEF DeleteOK
    <3>8. CallOK(kall, w)'
      BY <1>6, <1>7, <3>1, <3>5, <3>6, <3>7 DEF CallOK, Runs
    <3> QED BY <3>2, <3>3, <3>8 DEF CallOK, RegisterOK, RestartOK, DeleteOK
  <2> QED BY <2>1, <2>2
<1>12. HeardInv'
  <2> SUFFICES ASSUME NEW j \in Items, NEW d \in Calls, Awaited(d, j)'
               PROVE  HeardOK(calls[d], item[j])' /\ \A e \in Calls : Awaited(e, j)' => d = e
    BY DEF HeardInv
  <2>1. \A e \in Calls : Awaited(e, j)' => Awaited(e, j) /\ e # c
    <3> SUFFICES ASSUME NEW e \in Calls, Awaited(e, j)' PROVE Awaited(e, j) /\ e # c
      OBVIOUS
    <3>1. e # c
      BY <1>4, NothingLeft DEF Awaited
    <3> QED BY <1>4, <3>1 DEF Awaited
  <2>2. HeardOK(calls[d], item[j]) /\ \A e \in Calls : Awaited(e, j) => d = e
    BY <2>1 DEF IInv, Inv, HeardInv
  <2>3. calls'[d] = calls[d]
    BY <1>4, <2>1
  <2>4. item'[j] = item[j]
    <3>1. CASE j = i /\ old.heard
      BY <1>2, <2>1, <2>2, <3>1 DEF Awaited
    <3>2. CASE j = i /\ ~old.heard
      <4>1. item' = item
        BY <1>1, <1>2, <3>2 DEF Hear
      <4> QED BY <4>1
    <3>3. CASE j # i
      BY <1>4, <3>3
    <3> QED BY <3>1, <3>2, <3>3
  <2> HIDE DEF IInv
  <2>5. HeardOK(calls[d], item[j])'
    BY <1>6, <1>7, <2>2, <2>3, <2>4 DEF HeardOK
  <2> QED BY <2>1, <2>2, <2>5
<1>13. ItemInv'
  <2> SUFFICES ASSUME NEW j \in Items PROVE ItemOK(j, item[j])'
    BY DEF ItemInv
  <2>1. PICK z \in ItemType : z = item[j] /\ ItemOK(j, z)
    BY DEF IInv, TypeOK, Inv, ItemInv
  <2>2. z.a \in Artifacts \union {0}
    BY DEF ItemType
  <2>3. CASE item'[j] = z
    <3>1. Outcome(z)' = Outcome(z)
      BY <1>6 DEF Outcome
    <3> HIDE DEF IInv
    <3>2. ItemOK(j, z)'
      BY <1>5, <1>6, <1>7, <2>1, <2>2, <3>1 DEF ItemOK
    <3> QED BY <2>3, <3>2 DEF ItemOK, Outcome
  <2>4. CASE item'[j] # z
    <3>1. j = i /\ z = y /\ item'[j] = x /\ x.st = "gone" /\ x.deleting = FALSE
      BY <1>2, <1>3, <1>4, <2>1, <2>4
    <3> HIDE DEF IInv
    <3>2. /\ x.a = a /\ a # 0 /\ a \in Reserved' /\ reserved'[a].item = i /\ a \in tombs' /\ a \in Evidence'
      BY <1>2, <1>3, <1>6, <1>7, Zeros DEF Evidence
    <3>3. y.registered => y.put = "done" /\ a \notin Rows'
      BY <1>2, <1>7, <1>8 DEF ItemOK
    <3>4. /\ y.restart # 0 => y.registered /\ y.gen < y.restart
          /\ y.restart <= y.asked /\ y.gen <= y.asked
      BY <1>2 DEF ItemOK
    <3>5. ItemOK(i, x)'
      BY <1>3, <3>1, <3>2, <3>3, <3>4 DEF ItemOK
    <3> QED BY <3>1, <3>5 DEF ItemOK, Outcome
  <2> QED BY <2>3, <2>4
<1>14. \A b \in Reserved :
         /\ Owner(b)'.asked = Owner(b).asked /\ Owner(b)'.a = Owner(b).a /\ Owner(b)'.put = Owner(b).put
         /\ LetGo(Owner(b)) => LetGo(Owner(b))'
  <2> SUFFICES ASSUME NEW b \in Reserved
               PROVE  /\ Owner(b)'.asked = Owner(b).asked /\ Owner(b)'.a = Owner(b).a
                      /\ Owner(b)'.put = Owner(b).put /\ (LetGo(Owner(b)) => LetGo(Owner(b))')
    OBVIOUS
  <2>1. reserved[b].item \in Items
    BY DEF Reserved, IInv, TypeOK
  <2> HIDE DEF IInv
  <2>2. CASE reserved[b].item = i
    <3>1. Owner(b) = y /\ Owner(b)' = x
      BY <1>2, <1>4, <1>6, <2>2 DEF Owner
    <3> QED BY <1>3, <1>6, <3>1 DEF LetGo
  <2>3. CASE reserved[b].item # i
    <3>1. Owner(b)' = Owner(b)
      BY <1>4, <1>6, <2>1, <2>3 DEF Owner
    <3> QED BY <1>6, <3>1 DEF LetGo
  <2> QED BY <2>2, <2>3
<1>15. BytesInv'
  <2>1. \A b \in Artifacts : object'[b] # "none" => object'[b] = object[b]
    BY <1>5
  <2> QED BY <1>6, <1>7, <1>14, <2>1 DEF IInv, Inv, BytesInv
<1>16. RowInv'
  <2>1. ResultOfItsGeneration'
    BY <1>6, <1>7 DEF IInv, Inv, RowInv, ResultOfItsGeneration, IsCurrent
  <2>2. \A b \in Rows : object'[b] = object[b]
    BY <1>5, <1>7
  <2>3. \A b \in Rows :
          /\ Today(b)' => object'[b] # "none"
          /\ art'[b].st # "queued" => object'[b] = "registered" \/ b \in tombs'
          /\ analysis'[b].st # "none" => analysis'[b].gen <= art'[b].gen
          /\ analysis'[b].st \in {"analyzed", "failed"} => analysis'[b].gen = art'[b].gen
    BY <1>6, <1>7, <2>2 DEF IInv, Inv, RowInv
  <2>4. Rows \subseteq Reserved /\ tombs \subseteq Reserved
    BY DEF IInv, Inv, RowInv, Evidence
  <2>5. \A b \in Rows : art'[b].gen <= Owner(b)'.asked
    BY <1>6, <1>14, <2>4 DEF IInv, Inv, RowInv
  <2>6. \A b \in tombs : Owner(b)'.a = b /\ LetGo(Owner(b))'
    BY <1>14, <2>4 DEF IInv, Inv, RowInv
  <2>7. \A b \in Reserved : analysis'[b].gen <= Owner(b)'.asked
    BY <1>6, <1>14 DEF IInv, Inv, RowInv
  <2> QED BY <1>6, <1>7, <2>1, <2>3, <2>5, <2>6, <2>7 DEF IInv, Inv, RowInv
<1>17. QueueInv'
  <2>1. \A b : Message(b)' = Message(b)
    BY <1>6 DEF Message
  <2>2. \A m \in Messages :
          IF queue'[m].pc = "free" THEN queue'[m] = NoMessage
          ELSE queue'[m].a \in Evidence' /\ (object'[queue'[m].a] = "registered" \/ queue'[m].a \in tombs')
    BY <1>5, <1>6, <1>7 DEF IInv, Inv, QueueInv
  <2>3. \A j \in Items : Trusting(item[j])' => Message(item[j].a)'
    <3> SUFFICES ASSUME NEW j \in Items, Trusting(item[j])' PROVE Message(item[j].a)'
      OBVIOUS
    <3>1. Trusting(item[j]) /\ item'[j].a = item[j].a
      <4>1. CASE j = i
        BY <1>2, <1>3, <1>4, <1>6, <1>7, <4>1 DEF Trusting
      <4>2. CASE j # i
        BY <1>4, <1>6, <1>7, <4>2 DEF Trusting
      <4> QED BY <4>1, <4>2
    <3>2. Message(item[j].a)
      BY <3>1 DEF IInv, Inv, QueueInv
    <3> QED BY <1>6, <3>1, <3>2 DEF Message
  <2> QED BY <1>6, <1>7, <2>1, <2>2, <2>3 DEF IInv, Inv, QueueInv
<1>18. EndInv'
  <2>1. \A d \in Calls : calls'[d].kind = "complete" => calls'[d] = calls[d]
    BY <1>4, NothingLeft
  <2>2. Ending' => Ending
    BY <1>6, <2>1 DEF Ending
  <2>3. Ending => \A j \in Items : AtRest(item'[j])
    BY <1>2, <1>3, <1>4 DEF IInv, Inv, EndInv, AtRest
  <2>4. \A d \in Calls : Completing(d, "write")' => Completing(d, "write") /\ calls'[d] = calls[d]
    BY <2>1 DEF Completing
  <2> QED BY <1>6, <1>7, <2>2, <2>3, <2>4 DEF EndInv, AtRest, Folds, IInv, Inv
<1> QED BY <1>9, <1>10, <1>11, <1>12, <1>13, <1>15, <1>16, <1>17, <1>18 DEF IInv, Inv
-----------------------------------------------------------------------------
(* The day turns *)

LEMMA NextDaysQuota ==
  ASSUME NEW n \in Nat, NEW d \in Nat
  PROVE  n * d + n = n * (d + 1)
OBVIOUS

LEMMA NightHolds ==
  ASSUME IInv, Night
  PROVE  IInv'
<1>1. /\ day < MaxDays /\ day' = day + 1 /\ \A d \in Calls : calls[d] = NoCall
      /\ \A m \in Messages : queue[m] = NoMessage
      /\ object' = [b \in Artifacts |-> IF object[b] = "pending" THEN "none" ELSE object[b]]
      /\ UNCHANGED <<header, scorecard, art, analysis, tombs, reserved, mapping, queue, item, check,
                     calls, mishaps, lateBytes, lateRows, lateDeletes>>
  BY DEF Night, client, history
<1>2. day \in Nat /\ day' \in Days /\ MaxArtifacts \in Nat
  BY <1>1, BoundsAssumption DEF IInv, TypeOK, Days
<1>3. /\ object' \in [Artifacts -> {"none", "pending", "registered"}]
      /\ \A b \in Artifacts : object[b] = "registered" => object'[b] = "registered"
      /\ \A b \in Artifacts : object'[b] # "none" => object'[b] = "registered" /\ object[b] = "registered"
  BY <1>1 DEF IInv, TypeOK
<1>4. /\ Rows' = Rows /\ Reserved' = Reserved /\ Evidence' = Evidence /\ Succeeded' = Succeeded
      /\ Rows \subseteq Artifacts /\ Reserved \subseteq Artifacts /\ Evidence \subseteq Artifacts
      /\ reserved \in [Artifacts -> [item : Items \union {NoItem}, day : Days]]
  BY <1>1 DEF Rows, Reserved, Evidence, Succeeded, IInv, TypeOK
<1>5. \A b \in Reserved : ~Today(b)'
  BY <1>1, <1>2, <1>4, Zeros DEF IInv, Inv, QuotaInv, Today
<1>6. TypeOK'
  BY <1>1, <1>2, <1>3 DEF IInv, TypeOK
<1>7. QuotaInv'
  <2> DEFINE Past == {b \in Reserved : reserved[b].day < day}
             Now == {b \in Reserved : reserved[b].day = day}
  <2>1. Cardinality(Past) <= MaxArtifacts * day /\ Cardinality(Now) <= MaxArtifacts
    BY DEF IInv, Inv, QuotaInv
  <2>2. \A b \in Reserved : reserved[b].day \in Nat /\ reserved[b].day <= day
    BY <1>4, Zeros DEF IInv, Inv, QuotaInv
  <2>3. IsFiniteSet(Reserved)
    BY <1>4, ArtifactsFinite, FS_Subset
  <2>4. Past \subseteq Reserved /\ Now \subseteq Reserved
    OBVIOUS
  <2>5. {b \in Reserved' : reserved'[b].day < day'} = Past \union Now
    BY <1>1, <1>2, <1>4, <2>2
  <2>6. {b \in Reserved' : reserved'[b].day = day'} = {}
    BY <1>1, <1>2, <1>4, <2>2
  <2>7. Reserved' = 1 .. Cardinality(Reserved')
    BY <1>4 DEF IInv, Inv, QuotaInv
  <2>8. \A b \in Reserved' : reserved'[b].day <= day'
    BY <1>1, <1>2, <1>4, <2>2
  <2> HIDE DEF IInv, Past, Now
  <2>9. IsFiniteSet(Past) /\ IsFiniteSet(Now)
    BY <2>3, <2>4, FS_Subset
  <2>10. IsFiniteSet(Past \union Now) /\ Cardinality(Past \union Now) <= Cardinality(Past) + Cardinality(Now)
    <3>1. IsFiniteSet(Past \intersect Now)
      BY <2>9, FS_Intersection
    <3>2. Cardinality(Past \union Now) = Cardinality(Past) + Cardinality(Now) - Cardinality(Past \intersect Now)
      BY <2>9, FS_Union
    <3> QED BY <2>9, <3>1, <3>2, FS_Union, FS_CardinalityType
  <2>11. Cardinality(Past \union Now) <= MaxArtifacts * day'
    <3>1. Cardinality(Past) \in Nat /\ Cardinality(Now) \in Nat /\ Cardinality(Past \union Now) \in Nat
      BY <2>9, <2>10, FS_CardinalityType
    <3>2. MaxArtifacts * day + MaxArtifacts = MaxArtifacts * (day + 1)
      BY <1>2, NextDaysQuota
    <3>3. PICK p \in Int : p = MaxArtifacts * day
      BY <1>2
    <3>4. Cardinality(Past \union Now) <= p + MaxArtifacts
      BY <1>2, <2>1, <2>10, <3>1, <3>3
    <3> QED BY <1>1, <3>2, <3>3, <3>4
  <2>12. Cardinality({b \in Reserved' : reserved'[b].day < day'}) <= MaxArtifacts * day'
    BY <2>5, <2>11
  <2>13. Cardinality({b \in Reserved' : reserved'[b].day = day'}) <= MaxArtifacts
    BY <1>2, <2>6, FS_EmptySet
  <2> QED BY <2>7, <2>8, <2>12, <2>13 DEF QuotaInv
<1>8. MapInv'
  BY <1>1, <1>4 DEF IInv, Inv, MapInv
<1>9. CallInv'
  <2>1. \A d \in Calls : calls'[d] = NoCall
    BY <1>1
  <2> HIDE DEF IInv
  <2>2. ASSUME NEW d \in Calls
        PROVE  CallOK(calls[d], Heard(d))'
    <3>1. calls'[d] = NoCall
      BY <2>1
    <3> QED BY <3>1 DEF CallOK, NoCall, Runs
  <2> QED BY <2>2 DEF CallInv
<1>10. HeardInv'
  <2>1. \A d \in Calls : ~calls'[d].heard
    BY <1>1, NothingLeft
  <2> HIDE DEF IInv
  <2> QED BY <2>1 DEF HeardInv, Awaited
<1>11. ItemInv'
  <2> SUFFICES ASSUME NEW j \in Items PROVE ItemOK(j, item[j])'
    BY DEF ItemInv
  <2>1. PICK z \in ItemType : z = item[j] /\ ItemOK(j, z) /\ item'[j] = z
    BY <1>1 DEF IInv, TypeOK, Inv, ItemInv
  <2>2. z.a \in Artifacts \union {0}
    BY DEF ItemType
  <2>3. Outcome(z)' = Outcome(z)
    BY <1>1 DEF Outcome
  <2>4. reserved' = reserved /\ tombs' = tombs
    BY <1>1
  <2> HIDE DEF IInv
  <2>5. ItemOK(j, z)'
    BY <1>3, <1>4, <2>1, <2>2, <2>3, <2>4 DEF ItemOK
  <2> QED BY <2>1, <2>5 DEF ItemOK, Outcome
<1>12. BytesInv'
  BY <1>1, <1>3, <1>4 DEF IInv, Inv, BytesInv, Owner
<1>13. RowInv'
  <2>1. ResultOfItsGeneration'
    BY <1>1, <1>4 DEF IInv, Inv, RowInv, ResultOfItsGeneration, IsCurrent
  <2>2. \A b \in Rows :
          /\ Today(b)' => object'[b] # "none"
          /\ art'[b].st # "queued" => object'[b] = "registered" \/ b \in tombs'
    BY <1>1, <1>3, <1>4, <1>5 DEF IInv, Inv, RowInv, Evidence
  <2> QED BY <1>1, <1>4, <2>1, <2>2 DEF IInv, Inv, RowInv, LetGo, Owner
<1>14. QueueInv'
  <2>1. \A b : Message(b)' = Message(b)
    BY <1>1 DEF Message
  <2>2. \A m \in Messages :
          IF queue'[m].pc = "free" THEN queue'[m] = NoMessage
          ELSE queue'[m].a \in Evidence' /\ (object'[queue'[m].a] = "registered" \/ queue'[m].a \in tombs')
    BY <1>1 DEF NoMessage
  <2>3. \A i \in Items : Trusting(item[i])' => Message(item[i].a)'
    BY <1>1, <1>4, <2>1 DEF IInv, Inv, QueueInv, Trusting
  <2> QED BY <1>1, <1>4, <2>1, <2>2, <2>3 DEF IInv, Inv, QueueInv
<1>15. EndInv'
  <2>1. UNCHANGED <<header, scorecard, art, item, lateRows, lateDeletes>> /\ check' = check /\ calls' = calls
    BY <1>1
  <2>2. (Ending' <=> Ending) /\ \A d \in Calls : Completing(d, "write")' <=> Completing(d, "write")
    BY <2>1 DEF Ending, Completing
  <2>3. \A d \in Calls : header # "completed" /\ Completing(d, "write")' => Folds(calls'[d].fold)
    BY <2>1, <2>2 DEF IInv, Inv, EndInv
  <2>4. Ending' => check'.finished /\ \A i \in Items : AtRest(item[i])
    BY <2>1, <2>2 DEF IInv, Inv, EndInv
  <2> HIDE DEF IInv
  <2> QED BY <2>1, <2>3, <2>4, EndKept
<1> QED BY <1>6, <1>7, <1>8, <1>9, <1>10, <1>11, <1>12, <1>13, <1>14, <1>15 DEF IInv, Inv
-----------------------------------------------------------------------------
(* The initial states and every step *)

LEMMA InitHolds == Init => IInv
<1> SUFFICES ASSUME Init PROVE IInv
  OBVIOUS
<1>1. /\ header = "none" /\ scorecard = {} /\ tombs = {} /\ check = NewCheck /\ day = 0 /\ mishaps = 0
      /\ lateBytes = {} /\ lateRows = {} /\ lateDeletes = {}
      /\ art = [a \in Artifacts |-> NoRow] /\ analysis = [a \in Artifacts |-> NoAnalysis]
      /\ reserved = [a \in Artifacts |-> [item |-> NoItem, day |-> 0]]
      /\ mapping = [i \in Items |-> [d \in Days |-> 0]] /\ object = [a \in Artifacts |-> "none"]
      /\ queue = [m \in Messages |-> NoMessage] /\ item = [i \in Items |-> NewItem]
      /\ calls = [c \in Calls |-> NoCall]
  BY DEF Init
<1>2. Rows = {} /\ Reserved = {} /\ Evidence = {}
  BY <1>1 DEF Rows, Reserved, Evidence, NoRow
<1>3. TypeOK
  <2>1. NewCheck \in CheckType /\ 0 \in Days /\ 0 \in 0 .. MaxMishaps
    BY BoundsAssumption DEF NewCheck, CheckType, Days
  <2>2. [item |-> NoItem, day |-> 0] \in [item : Items \union {NoItem}, day : Days]
    BY <2>1
  <2> QED BY <1>1, <2>1, <2>2, EmptyTypes DEF TypeOK
<1>4. QuotaInv
  <2>1. Cardinality({}) = 0 /\ MaxArtifacts \in Nat /\ MaxArtifacts * 0 = 0
    BY FS_EmptySet, BoundsAssumption
  <2>2. {} = 1 .. 0
    OBVIOUS
  <2>3. {a \in Reserved : reserved[a].day < day} = {} /\ {a \in Reserved : reserved[a].day = day} = {}
    BY <1>2
  <2> QED BY <1>1, <1>2, <2>1, <2>2, <2>3 DEF QuotaInv
<1>5. MapInv
  BY <1>1, <1>2 DEF MapInv
<1>6. CallInv /\ HeardInv
  BY <1>1, NothingLeft DEF CallInv, HeardInv, Awaited
<1>7. \A i \in Items : ItemOK(i, item[i])
  <2>1. ASSUME NEW i \in Items PROVE ItemOK(i, NewItem)
    BY DEF ItemOK, NewItem
  <2> QED BY <1>1, <2>1
<1>8. BytesInv
  BY <1>1, <1>2 DEF BytesInv
<1>9. RowInv
  BY <1>1, <1>2 DEF RowInv, ResultOfItsGeneration
<1>10. QueueInv
  BY <1>1, <1>2 DEF QueueInv, Trusting, NewItem, NoMessage, NoRow
<1>11. EndInv
  BY <1>1 DEF EndInv, Ending, Completing, NewCheck, NoCall
<1> QED BY <1>3, <1>4, <1>5, <1>6, <1>7, <1>8, <1>9, <1>10, <1>11 DEF IInv, Inv, ItemInv

LEMMA StutterHolds ==
  ASSUME IInv, UNCHANGED vars
  PROVE  IInv'
<1>1. mishaps \in 0 .. MaxMishaps /\ check' = check /\ check \in CheckType
  BY DEF IInv, TypeOK, vars, client
<1>2. UNCHANGED <<server, queue, item, calls, day, mishaps, history>>
  BY DEF vars, client
<1>3. Ending' => check'.finished /\ \A i \in Items : AtRest(item[i])
  BY <1>1, <1>2 DEF server, Ending, IInv, Inv, EndInv
<1> HIDE DEF IInv
<1> QED BY <1>1, <1>2, <1>3, CheckAlone

LEMMA NextHolds == IInv /\ [Next]_vars => IInv'
<1> HIDE DEF IInv
<1>1. ASSUME IInv, NEW i \in Items, UserStep(i) \/ ClientStep(i) PROVE IInv'
  BY <1>1, CaptureHolds, TapRetryHolds, AskDeleteHolds, StartRunHolds, PollHolds, ResumeDeleteHolds
     DEF UserStep, ClientStep
<1>2. ASSUME IInv, CreateCheck \/ Finish \/ FinalStep PROVE IInv'
  BY <1>2, CreateCheckHolds, FinishHolds, StartFinalizeHolds, WaitedHolds, WaitTimesOutHolds DEF FinalStep
<1>3. ASSUME IInv, NEW c \in Calls, CallStep(c) PROVE IInv'
  BY <1>3, PresignReadHolds, PresignWriteHolds, PutMediaHolds, RegisterHeadHolds, RegisterWriteHolds,
     RegisterRereadHolds, RegisterRestartHolds, RegisterTagHolds, RegisterSendHolds, DeleteReadHolds,
     DeleteWriteHolds, DeleteObjectsHolds, CompleteReadHolds, CompleteWriteHolds DEF CallStep
<1>4. ASSUME IInv, NEW m \in Messages, WorkerStep(m) PROVE IInv'
  BY <1>4, ReceiveHolds, ClaimHolds, AnalyzeHolds, AnalyzeFailsHolds, DeadLetterHolds, ReappearHolds
     DEF WorkerStep
<1>5. ASSUME IInv, Fault PROVE IInv'
  BY <1>5, CallDiesHolds, AbandonHolds, CompleteCollidesHolds, RunDiesHolds, PollFailsHolds, NightHolds
     DEF Fault
<1> QED BY <1>1, <1>2, <1>3, <1>4, <1>5, LeaseLapsesHolds, StutterHolds DEF Next

-----------------------------------------------------------------------------
(* The theorems *)

\* The inductive invariant: how reservations are numbered and mapped, what every call,
\* photo and message may still rely on, and what a completed check can no longer change.
THEOREM Invariance == Spec => []IInv
<1>1. Init => IInv
  BY InitHolds
<1>2. IInv /\ [Next]_vars => IInv'
  BY NextHolds
<1> QED BY <1>1, <1>2, PTL DEF Spec

\* Every variable keeps its type; in particular the number a reservation gets stays
\* within the quotas of the days so far, however often calls are repeated or given up.
THEOREM TypeCorrect == Spec => []TypeOK
<1>1. IInv => TypeOK
  BY DEF IInv
<1> QED BY <1>1, Invariance, PTL

\* A photo's request reserves, and is charged to the quota, once, whatever presigns of it
\* race or are repeated (reserveUpload's condition on the mapping row).
THEOREM OneReservation == Spec => []ReservedOnce
<1>1. IInv => ReservedOnce
  BY DEF IInv, Inv, MapInv, ReservedOnce
<1> QED BY <1>1, Invariance, PTL

\* No photo is evidence twice, unless an upload the client gave up lands late
\* (uploadArtifact's repair after media_upload_missing).
THEOREM OneEvidencePerPhoto == Spec => []EvidenceOnce
<1>1. IInv => EvidenceOnce
  <2> SUFFICES ASSUME IInv, NEW a \in Rows \ lateBytes, NEW b \in Rows \ lateBytes,
                      reserved[a].item = reserved[b].item, object[a] # "none", object[b] # "none"
               PROVE  a = b
    BY DEF EvidenceOnce
  <2>1. ASSUME NEW e \in Rows \ lateBytes, object[e] # "none"
        PROVE  Owner(e).a = e
    <3>1. e \in Reserved
      BY DEF IInv, Inv, RowInv, Evidence
    <3>2. CASE e \in tombs
      BY <3>2 DEF IInv, Inv, RowInv
    <3>3. CASE e \notin tombs
      BY <2>1, <3>1, <3>3 DEF IInv, Inv, BytesInv
    <3> QED BY <3>2, <3>3
  <2> QED BY <2>1 DEF Owner
<1> QED BY <1>1, Invariance, PTL

\* However late a message of an earlier generation is delivered, a finished row shows
\* the outcome of its own generation (publishAnalysis, restartAnalysis).
THEOREM ResultsMatchTheirGeneration == Spec => []ResultOfItsGeneration
<1>1. IInv => ResultOfItsGeneration
  BY DEF IInv, Inv, RowInv
<1> QED BY <1>1, Invariance, PTL

\* A photo that the client observes as registered has a message of its generation under
\* way until it is finished, whatever calls and runs died (registerArtifact sends before
\* it answers; the dead-letter handler finishes what ran out of deliveries).
THEOREM NothingWaitsForNothing == Spec => []WaitingIsDelivered
<1>1. IInv => WaitingIsDelivered
  <2> SUFFICES ASSUME IInv, NEW i \in Items, item[i].st = "polling", item[i].a \in Rows,
                      art[item[i].a].st \in {"queued", "running"}
               PROVE  Message(item[i].a)
    BY DEF WaitingIsDelivered, Message
  <2>1. item[i].registered /\ item[i].restart = 0
    BY DEF IInv, Inv, ItemInv, ItemOK
  <2>2. CASE art[item[i].a].st = "running"
    BY <2>2 DEF IInv, Inv, QueueInv
  <2>3. CASE art[item[i].a].st = "queued"
    <3>1. Trusting(item[i])
      BY <2>1, <2>3 DEF Trusting
    <3> QED BY <3>1 DEF IInv, Inv, QueueInv
  <2> QED BY <2>2, <2>3
<1> QED BY <1>1, Invariance, PTL

\* What a completed check froze stays true of its rows: nothing of it waits, and its
\* scorecard folds exactly what succeeded (completeCheck's coverage gate against late
\* registrations, restarts and deletions), up to the rows that escaped a deletion and
\* those deleted while the completion that read them was yet to write.
THEOREM ScorecardStaysWhole == Spec => []ScorecardIsWhole
<1>1. IInv => ScorecardIsWhole
  <2> SUFFICES ASSUME IInv, header = "completed"
               PROVE  /\ \A a \in Rows : art[a].st \notin {"queued", "running"}
                      /\ \A a \in Rows \ (lateRows \union lateBytes) :
                           art[a].st \in {"succeeded", "permanent_failure"}
                      /\ scorecard \ (lateRows \union lateDeletes) =
                           {a \in Rows : art[a].st = "succeeded"} \ (lateRows \union lateDeletes)
    BY DEF ScorecardIsWhole
  <2>1. Ending /\ Folds(scorecard) /\ \A i \in Items : AtRest(item[i])
    BY DEF Ending, IInv, Inv, EndInv
  <2>2. \A a \in Rows : art[a].st \notin {"queued", "running"}
    BY <2>1 DEF Folds, Settled
  <2>3. ASSUME NEW a \in Rows \ (lateRows \union lateBytes)
        PROVE  art[a].st \in {"succeeded", "permanent_failure"}
    <3>1. a \in Reserved /\ a \notin tombs /\ reserved[a].item \in Items
      BY DEF IInv, TypeOK, Inv, RowInv, Evidence, Reserved
    <3>2. object[a] # "none"
      BY <2>2, <3>1 DEF IInv, Inv, RowInv
    <3>3. Owner(a).a = a /\ Owner(a).put # "no"
      BY <3>1, <3>2 DEF IInv, Inv, BytesInv
    <3>4. PICK x : x = Owner(a) /\ AtRest(x) /\ ItemOK(reserved[a].item, x)
      BY <2>1, <3>1 DEF Owner, IInv, Inv, ItemInv
    <3>5. x.st \in {"analyzed", "blocked"}
      <4>1. x.st # "none"
        BY <3>3, <3>4 DEF ItemOK, NewItem
      <4>2. x.st # "gone"
        BY <3>1, <3>3, <3>4, Zeros DEF ItemOK, Rows
      <4> QED BY <3>4, <4>1, <4>2 DEF AtRest
    <3> QED BY <3>3, <3>4, <3>5 DEF ItemOK, Outcome
  <2>4. scorecard \ (lateRows \union lateDeletes) =
          {a \in Rows : art[a].st = "succeeded"} \ (lateRows \union lateDeletes)
    BY <2>1 DEF Folds, Succeeded
  <2> QED BY <2>2, <2>3, <2>4
<1> QED BY <1>1, Invariance, PTL

\* Deleted evidence stays out: a marker without a row never gets a row, nor a new
\* analysis (evidencePublicationGuards; publishAnalysis's fence on the row).
THEOREM DeletedStaysOut == Spec => LateEvidenceStaysOut
<1> DEFINE Step == \A a \in tombs : art[a].st = "none" => art'[a].st = "none" /\ analysis'[a] = analysis[a]
<1>1. IInv /\ [Next]_vars => [Step]_vars
  <2> SUFFICES ASSUME IInv, Next, NEW a \in tombs, art[a].st = "none"
               PROVE  art'[a].st = "none" /\ analysis'[a] = analysis[a]
    OBVIOUS
  <2>1. /\ art \in [Artifacts -> RowType] /\ analysis \in [Artifacts -> AnalysisType] /\ a \in Artifacts
        /\ NoRow.st = "none"
    BY DEF IInv, TypeOK, NoRow
  <2> HIDE DEF IInv
  <2>2. ASSUME NEW i \in Items, UserStep(i) \/ ClientStep(i) PROVE art' = art /\ analysis' = analysis
    BY <2>2 DEF UserStep, ClientStep, Capture, TapRetry, AskDelete, StartRun, Poll, ResumeDelete, server
  <2>3. ASSUME CreateCheck \/ Finish \/ FinalStep PROVE art' = art /\ analysis' = analysis
    BY <2>3 DEF CreateCheck, Finish, FinalStep, StartFinalize, Waited, WaitTimesOut, server
  <2>4. ASSUME Fault PROVE art' = art /\ analysis' = analysis
    BY <2>4 DEF Fault, CallDies, Abandon, CompleteCollides, RunDies, PollFails, Night, server
  <2>5. ASSUME NEW c \in Calls, CallStep(c) PROVE art'[a].st = "none" /\ analysis'[a] = analysis[a]
    <3>1. CASE RegisterWrite(c)
      <4>1. analysis' = analysis /\ (art' = art \/
              (calls[c].a \notin tombs /\ art' = [art EXCEPT ![calls[c].a] = [NoRow EXCEPT !.st = "queued"]]))
        BY <3>1 DEF RegisterWrite, NotDeleted
      <4> QED BY <2>1, <4>1
    <3>2. CASE RegisterRestart(c)
      <4>1. analysis' = analysis /\ (art' = art \/
              (art[calls[c].a].st # "none" /\
               art' = [art EXCEPT ![calls[c].a] = [st |-> "queued", gen |-> calls[c].req, lease |-> NoLease]]))
        BY <3>2 DEF RegisterRestart
      <4> QED BY <2>1, <4>1
    <3>3. CASE DeleteWrite(c)
      <4>1. analysis' = analysis /\ (art' = art \/ art' = [art EXCEPT ![calls[c].a] = NoRow])
        BY <3>3 DEF DeleteWrite
      <4> QED BY <2>1, <4>1
    <3>4. CASE ~(RegisterWrite(c) \/ RegisterRestart(c) \/ DeleteWrite(c))
      <4>1. art' = art /\ analysis' = analysis
        BY <2>5, <3>4 DEF CallStep, PresignRead, PresignWrite, PutMedia, RegisterHead, RegisterReread,
           RegisterTag, RegisterSend, DeleteRead, DeleteObjects, CompleteRead, CompleteWrite, server
      <4> QED BY <4>1
    <3> QED BY <3>1, <3>2, <3>3, <3>4
  <2>6. ASSUME NEW m \in Messages, NEW st, NEW found, Publish(m, st, found)
        PROVE  art'[a].st = "none" /\ analysis'[a] = analysis[a]
    <3>1. CASE MayPublish(art[queue[m].a], queue[m].gen)
      <4>1. /\ art' = [art EXCEPT ![queue[m].a].st = st, ![queue[m].a].lease = NoLease]
            /\ analysis' = [analysis EXCEPT ![queue[m].a] = [st |-> found, gen |-> queue[m].gen]]
            /\ art[queue[m].a].st # "none"
        BY <2>6, <3>1 DEF Publish, MayPublish
      <4> QED BY <2>1, <4>1
    <3>2. CASE ~MayPublish(art[queue[m].a], queue[m].gen)
      BY <2>6, <3>2 DEF Publish
    <3> QED BY <3>1, <3>2
  <2>7. ASSUME NEW m \in Messages, WorkerStep(m) PROVE art'[a].st = "none" /\ analysis'[a] = analysis[a]
    <3>1. CASE Claim(m)
      <4>1. analysis' = analysis /\ (art' = art \/
              (art[queue[m].a].st # "none" /\
               art' = [art EXCEPT ![queue[m].a].st = "running", ![queue[m].a].lease = m]))
        BY <3>1 DEF Claim, MayClaim
      <4> QED BY <2>1, <4>1
    <3>2. CASE Analyze(m) \/ DeadLetter(m)
      BY <2>6, <3>2 DEF Analyze, DeadLetter
    <3>3. CASE AnalyzeFails(m)
      <4>1. CASE OutOfDeliveries(m)
        BY <2>6, <3>3, <4>1 DEF AnalyzeFails
      <4>2. CASE ~OutOfDeliveries(m)
        <5>1. analysis' = analysis /\ (art' = art \/
                (art[queue[m].a].st = "running" /\
                 art' = [art EXCEPT ![queue[m].a].st = "queued", ![queue[m].a].lease = NoLease]))
          BY <3>3, <4>2 DEF AnalyzeFails, Release
        <5> QED BY <2>1, <5>1
      <4> QED BY <4>1, <4>2
    <3>4. CASE Receive(m) \/ Reappear(m)
      BY <3>4 DEF Receive, Reappear, server
    <3> QED BY <2>7, <3>1, <3>2, <3>3, <3>4 DEF WorkerStep
  <2>8. ASSUME NEW b \in Artifacts, LeaseLapses(b) PROVE art'[a].st = "none" /\ analysis'[a] = analysis[a]
    <3>1. analysis' = analysis /\ art' = [art EXCEPT ![b].lease = NoLease]
      BY <2>8 DEF LeaseLapses
    <3>2. art'[a].st = art[a].st
      BY <2>1, <3>1 DEF RowType
    <3> QED BY <3>1, <3>2
  <2> QED BY <2>2, <2>3, <2>4, <2>5, <2>7, <2>8 DEF Next
<1>2. LateEvidenceStaysOut <=> [][Step]_vars
  BY DEF LateEvidenceStaysOut
<1> QED BY <1>1, <1>2, Invariance, PTL DEF Spec
=============================================================================
