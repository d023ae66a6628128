-------------------------------- MODULE Complaint --------------------------------
(***************************************************************************)
(* One public complaint: its header row, its artifact rows, their media in *)
(* S3, the API calls that change them and the worker that analyses it.     *)
(*                                                                         *)
(* The API has no lock and no transaction over S3: a call is a sequence of *)
(* conditional writes, and any other call or a worker may run between two  *)
(* of them.  A client may repeat or delay any call.  A thumbnail is tagged *)
(* and deleted with its original and is not modelled apart.                *)
(*                                                                         *)
(* Days do not pass here.  What a day or a year will do is decided by the  *)
(* media's tag (pending: a day) and the row's expiresAt (kept: a year).    *)
(***************************************************************************)
EXTENDS Naturals, FiniteSets

CONSTANTS
  Artifacts,     \* the files of the complaint
  Calls,         \* API calls in flight at a time
  Workers,       \* worker invocations in flight at a time
  MaxAttempts,   \* bound on the analyses started
  MaxReceives,   \* 5 in the handler and in the queue's redrive policy
  Faults         \* which of FaultKinds may happen

FaultKinds ==
  {"crash",    \* a call or a worker dies
   "send",     \* SendMessage fails, or its answer is lost
   "outage",   \* a call to S3 or DynamoDB fails without effect
   "stale"}    \* the worker's eventually consistent read is behind

ASSUME BoundsAssumption == MaxAttempts \in Nat /\ MaxReceives \in Nat \ {0}
ASSUME FaultsAssumption == Faults \subseteq FaultKinds
ASSUME FilesAssumption == IsFiniteSet(Artifacts)   \* MAX_FILES

Header == "header"
ASSUME NamesAssumption == Header \notin Artifacts

VARIABLES
  header,    \* the COMPLAINT row
  deleted,   \* history: a deletion has removed that row
  rows,      \* the ART rows
  media,     \* the objects in the complaint bucket
  overtaken, \* history: files that a late registration changed (Overtakes)
  calls,     \* API calls
  queue,     \* one message per analysis attempt
  workers    \* invocations of analyze-complaint

vars == <<header, deleted, rows, media, overtaken, calls, queue, workers>>

Attempts == 1..MaxAttempts
Published == {"analyzing", "ready", "failed"}

HeaderType ==
  [status : {"none", "draft", "deleting"} \union Published,
   attempt : 0..MaxAttempts,     \* analysisAttemptId
   result : 0..MaxAttempts,      \* the attempt whose summary it shows, 0: none
   count : Nat]                  \* artifactCount

RowType == [st : {"none", "registered", "deleting"}, kept : BOOLEAN]

MediaStates == {"none", "url", "pending", "complaint", "gone"}

CallType ==
  [pc : {"idle",
         "tag", "put",                           \* registerComplaintArtifact
         "retag", "send", "rollback",            \* createComplaint, retryComplaint
         "mark", "list", "erase", "drop",        \* deleteComplaint
         "tombstone", "unlink", "forget"},       \* deleteComplaintArtifact
   arts : SUBSET Artifacts,                      \* the rows it read
   todo : SUBSET (Artifacts \union {Header}),    \* of those, what is left to do
   attempt : 0..MaxAttempts]

WorkerType ==
  [pc : {"idle", "read", "analyze", "save", "fail"},
   attempt : 0..MaxAttempts,
   receive : 0..MaxReceives]     \* ApproximateReceiveCount

MessageType ==
  [st : {"none", "queued", "acked", "dead"}, receives : 0..MaxReceives]

TypeOK ==
  /\ header \in HeaderType /\ deleted \in BOOLEAN
  /\ rows \in [Artifacts -> RowType]
  /\ media \in [Artifacts -> MediaStates] /\ overtaken \subseteq Artifacts
  /\ calls \in [Calls -> CallType]
  /\ queue \in [Attempts -> MessageType]
  /\ workers \in [Workers -> WorkerType]

NoHeader == [status |-> "none", attempt |-> 0, result |-> 0, count |-> 0]
NoRow == [st |-> "none", kept |-> FALSE]
NoCall == [pc |-> "idle", arts |-> {}, todo |-> {}, attempt |-> 0]
NoWork == [pc |-> "idle", attempt |-> 0, receive |-> 0]

Init ==
  /\ header = NoHeader /\ deleted = FALSE
  /\ rows = [a \in Artifacts |-> NoRow]
  /\ media = [a \in Artifacts |-> "none"] /\ overtaken = {}
  /\ calls = [c \in Calls |-> NoCall]
  /\ queue = [n \in Attempts |-> [st |-> "none", receives |-> 0]]
  /\ workers = [w \in Workers |-> NoWork]

-----------------------------------------------------------------------------
(* Steps of a call *)

At(c, pc) == calls[c].pc = pc
Goto(c, pc) == calls' = [calls EXCEPT ![c].pc = pc]
Return(c) == calls' = [calls EXCEPT ![c] = NoCall]
Begin(c, pc, arts) ==
  calls' = [calls EXCEPT
              ![c] = [pc |-> pc, arts |-> arts, todo |-> arts, attempt |-> 0]]
Did(c, x) == calls' = [calls EXCEPT ![c].todo = @ \ {x}]

Stored(a) == media[a] \in {"pending", "complaint"}
IsDraft == header.status = "draft"
MayBecomeAnalyzing == header.status \in {"none", "draft"}

\* randomUUID never returns an attempt id that is in use somewhere.
Used(n) ==
  \/ header.attempt = n \/ queue[n].st # "none"
  \/ \E c \in Calls : calls[c].attempt = n
Fresh(n) == ~Used(n) /\ \A k \in 1..(n - 1) : Used(k)

-----------------------------------------------------------------------------
(* Uploading and registering a file *)

\* presignComplaintArtifact: one transaction drafts the header, then the URL.
Presign(a) ==
  /\ MayBecomeAnalyzing /\ media[a] = "none"
  /\ header' = [header EXCEPT !.status = "draft"]
  /\ media' = [media EXCEPT ![a] = "url"]
  /\ UNCHANGED <<deleted, overtaken, rows, calls, queue, workers>>

\* The browser's PUT, tagged state=pending; it uploads a file once.
Upload(a) ==
  /\ media[a] = "url"
  /\ media' = [media EXCEPT ![a] = "pending"]
  /\ UNCHANGED <<header, deleted, overtaken, rows, calls, queue, workers>>

\* registerComplaintArtifact, once it has read and checked the object: an image
\* gets its thumbnail, a document does not.
Register(c, a) ==
  /\ At(c, "idle") /\ Stored(a)
  /\ \E pc \in {"tag", "put"} : Begin(c, pc, {a})
  /\ UNCHANGED <<header, deleted, overtaken, rows, media, queue, workers>>

\* History only: a registration that finds the file submitted, or its object gone,
\* by the time it tags or puts.
Overtakes(a, late) == overtaken' = IF late THEN overtaken \union {a} ELSE overtaken

\* storeComplaintThumbnail tags the original, too; best effort, and before the
\* registration looks whether the complaint is still a draft.
TagPending(c) ==
  /\ At(c, "tag")
  /\ \/ \E a \in calls[c].arts :
          /\ Stored(a)
          /\ media' = [media EXCEPT ![a] = "pending"]
          /\ Overtakes(a, media[a] = "complaint")
     \/ UNCHANGED <<media, overtaken>>
  /\ Goto(c, "put")
  /\ UNCHANGED <<header, deleted, rows, queue, workers>>

\* The row, if the complaint is a draft and the row is new.
PutRow(c) ==
  /\ At(c, "put")
  /\ \E a \in calls[c].arts :
       IF IsDraft /\ rows[a].st = "none"
         THEN /\ rows' = [rows EXCEPT ![a].st = "registered"]
              /\ Overtakes(a, media[a] = "gone")
         ELSE UNCHANGED <<rows, overtaken>>
  /\ Return(c)
  /\ UNCHANGED <<header, deleted, media, queue, workers>>

-----------------------------------------------------------------------------
(* Submitting: createComplaint *)

Listed == {a \in Artifacts : rows[a].st # "none"}

\* Read the artifacts; an empty complaint (the description may be empty) and one
\* with a file being deleted are refused.
Create(c) ==
  /\ At(c, "idle")
  /\ \A a \in Listed : rows[a].st = "registered"
  /\ Begin(c, "retag", Listed)
  /\ UNCHANGED <<header, deleted, overtaken, rows, media, queue, workers>>

Retag(c) ==
  /\ At(c, "retag")
  /\ \E a \in calls[c].todo :
       /\ Stored(a)
       /\ media' = [media EXCEPT ![a] = "complaint"]
       /\ Did(c, a)
  /\ UNCHANGED <<header, deleted, overtaken, rows, queue, workers>>

\* S3 has no such object.
RetagFails(c) ==
  /\ At(c, "retag") /\ \E a \in calls[c].todo : ~Stored(a)
  /\ Return(c)
  /\ UNCHANGED <<header, deleted, overtaken, rows, media, queue, workers>>

\* Mutant of MayPublish: the rows that were read are not looked at again.
MayPublishStale(c) == MayBecomeAnalyzing /\ c \in Calls

\* The header and every row that was read, in one transaction.
MayPublish(c) ==
  /\ MayBecomeAnalyzing
  /\ \A a \in calls[c].arts : rows[a].st = "registered"

StartAnalysis(c, n) ==
  calls' = [calls EXCEPT
              ![c] = [pc |-> "send", arts |-> {}, todo |-> {}, attempt |-> n]]

Publish(c, n) ==
  /\ At(c, "retag") /\ calls[c].todo = {}
  /\ MayPublish(c) /\ Fresh(n)
  /\ header' = [status |-> "analyzing", attempt |-> n, result |-> 0,
                count |-> Cardinality(calls[c].arts)]
  /\ rows' = [a \in Artifacts |->
                IF a \in calls[c].arts THEN [rows[a] EXCEPT !.kept = TRUE] ELSE rows[a]]
  /\ StartAnalysis(c, n)
  /\ UNCHANGED <<deleted, overtaken, media, queue, workers>>

\* The existing complaint is returned; nothing is enqueued.
PublishCancelled(c) ==
  /\ At(c, "retag") /\ calls[c].todo = {} /\ ~MayPublish(c)
  /\ Return(c)
  /\ UNCHANGED <<header, deleted, overtaken, rows, media, queue, workers>>

Retry(c, n) ==
  /\ At(c, "idle") /\ header.status = "failed" /\ Fresh(n)
  /\ header' = [header EXCEPT !.status = "analyzing", !.attempt = n]
  /\ StartAnalysis(c, n)
  /\ UNCHANGED <<deleted, overtaken, rows, media, queue, workers>>

Enqueue(n) == queue' = [queue EXCEPT ![n] = [st |-> "queued", receives |-> 0]]

Send(c) ==
  /\ At(c, "send") /\ Enqueue(calls[c].attempt)
  /\ Return(c)
  /\ UNCHANGED <<header, deleted, overtaken, rows, media, workers>>

\* An error; the message may have been accepted all the same.
SendFails(c) ==
  /\ At(c, "send") /\ "send" \in Faults
  /\ Enqueue(calls[c].attempt) \/ UNCHANGED queue
  /\ Goto(c, "rollback")
  /\ UNCHANGED <<header, deleted, overtaken, rows, media, workers>>

\* Mutant of Awaits: any attempt will do.
AwaitsAny(n) == header.status = "analyzing" /\ n \in Nat

\* #status = :analyzing AND analysisAttemptId = :attempt
Awaits(n) == header.status = "analyzing" /\ header.attempt = n

\* Mutant of Conclude: the status is not part of the condition.
ConcludeAnyway(n, status) ==
  header' = IF header.attempt = n
              THEN [header EXCEPT !.status = status,
                                  !.result = IF status = "ready" THEN n ELSE @]
              ELSE header

Conclude(n, status) ==
  header' = IF Awaits(n) THEN [header EXCEPT !.status = status,
                                 !.result = IF status = "ready" THEN n ELSE @]
                         ELSE header

Rollback(c) ==
  /\ At(c, "rollback") /\ Conclude(calls[c].attempt, "failed")
  /\ Return(c)
  /\ UNCHANGED <<deleted, overtaken, rows, media, queue, workers>>

-----------------------------------------------------------------------------
(* Deleting a complaint: mark, list, erase the media, drop the rows *)

Delete(c) ==
  /\ At(c, "idle")
  /\ \/ header.status \in {"ready", "failed"} /\ Begin(c, "mark", {})
     \/ header.status = "deleting" /\ Begin(c, "list", {})
  /\ UNCHANGED <<header, deleted, overtaken, rows, media, queue, workers>>

Mark(c) ==
  /\ At(c, "mark")
  /\ IF header.status \in {"ready", "failed"}
       THEN header' = [header EXCEPT !.status = "deleting"] /\ Goto(c, "list")
       ELSE UNCHANGED header /\ Return(c)
  /\ UNCHANGED <<deleted, overtaken, rows, media, queue, workers>>

List(c) ==
  /\ At(c, "list") /\ Begin(c, "erase", Listed)
  /\ UNCHANGED <<header, deleted, overtaken, rows, media, queue, workers>>

Erase(c) ==
  /\ At(c, "erase")
  /\ \E a \in calls[c].todo : media' = [media EXCEPT ![a] = "gone"] /\ Did(c, a)
  /\ UNCHANGED <<header, deleted, overtaken, rows, queue, workers>>

StartDrop(c) ==
  calls' = [calls EXCEPT ![c].pc = "drop", ![c].todo = calls[c].arts \union {Header}]

\* Mutant of Erased: the rows need not wait for the media.
ErasedOrNot(c) == At(c, "erase") /\ StartDrop(c)

Erased(c) == At(c, "erase") /\ calls[c].todo = {} /\ StartDrop(c)

\* All at once: any row may go first, and the header before them.
Drop(c) ==
  /\ At(c, "drop")
  /\ \E x \in calls[c].todo :
       /\ Did(c, x)
       /\ IF x = Header
            THEN /\ IF header.status = "deleting"
                      THEN header' = NoHeader /\ deleted' = TRUE
                      ELSE UNCHANGED <<header, deleted>>
                 /\ UNCHANGED rows
            ELSE rows' = [rows EXCEPT ![x] = NoRow] /\ UNCHANGED <<header, deleted>>
  /\ UNCHANGED <<overtaken, media, queue, workers>>

Dropped(c) == At(c, "drop") /\ calls[c].todo = {} /\ Return(c)

-----------------------------------------------------------------------------
(* Deleting one file of a draft *)

Remove(c, a) ==
  /\ At(c, "idle")
  /\ \/ rows[a].st = "registered" /\ Begin(c, "tombstone", {a})
     \/ rows[a].st = "deleting" /\ Begin(c, "unlink", {a})
  /\ UNCHANGED <<header, deleted, overtaken, rows, media, queue, workers>>

Tombstone(c) ==
  /\ At(c, "tombstone")
  /\ \E a \in calls[c].arts :
       IF IsDraft /\ rows[a].st = "registered"
         THEN rows' = [rows EXCEPT ![a].st = "deleting"] /\ Goto(c, "unlink")
         ELSE UNCHANGED rows /\ Return(c)
  /\ UNCHANGED <<header, deleted, overtaken, media, queue, workers>>

Unlink(c) ==
  /\ At(c, "unlink")
  /\ \E a \in calls[c].arts : media' = [media EXCEPT ![a] = "gone"]
  /\ Goto(c, "forget")
  /\ UNCHANGED <<header, deleted, overtaken, rows, queue, workers>>

Forget(c) ==
  /\ At(c, "forget")
  /\ \E a \in calls[c].arts :
       rows' = IF IsDraft /\ rows[a].st = "deleting"
                 THEN [rows EXCEPT ![a] = NoRow] ELSE rows
  /\ Return(c)
  /\ UNCHANGED <<header, deleted, overtaken, media, queue, workers>>

-----------------------------------------------------------------------------
(* The worker *)

Working(w, pc) == workers[w].pc = pc
Rest(w) == workers' = [workers EXCEPT ![w] = NoWork]
On(w) == workers[w].attempt

\* Mutant of Receive: the redrive policy is gone.
ReceiveForever(w, n) ==
  /\ Working(w, "idle") /\ queue[n].st = "queued"
  /\ queue' = [queue EXCEPT ![n].receives = @ + 1]
  /\ workers' = [workers EXCEPT ![w] = [pc |-> "read", attempt |-> n,
                                        receive |-> queue[n].receives + 1]]
  /\ UNCHANGED <<header, deleted, overtaken, rows, media, calls>>

\* A standard queue delivers at least once, even a message in flight.
Receive(w, n) ==
  /\ Working(w, "idle")
  /\ queue[n].st = "queued" /\ queue[n].receives < MaxReceives
  /\ queue' = [queue EXCEPT ![n].receives = @ + 1]
  /\ workers' = [workers EXCEPT ![w] = [pc |-> "read", attempt |-> n,
                                        receive |-> queue[n].receives + 1]]
  /\ UNCHANGED <<header, deleted, overtaken, rows, media, calls>>

Ack(w) == queue' = [queue EXCEPT ![On(w)].st = "acked"] /\ Rest(w)

\* Nothing to do unless this attempt is awaited.
Read(w) ==
  /\ Working(w, "read")
  /\ \/ Awaits(On(w)) /\ workers' = [workers EXCEPT ![w].pc = "analyze"]
                      /\ UNCHANGED queue
     \/ (Awaits(On(w)) => "stale" \in Faults) /\ Ack(w)
  /\ UNCHANGED <<header, deleted, overtaken, rows, media, calls>>

Extract(w) ==
  /\ Working(w, "analyze")
  /\ workers' = [workers EXCEPT ![w].pc = "save"]
  /\ UNCHANGED <<header, deleted, overtaken, rows, media, calls, queue>>

\* Mutant of LastTry: one delivery more is expected than SQS makes.
LastTryOffByOne(w) == workers[w].receive > MaxReceives

LastTry(w) == workers[w].receive >= MaxReceives

\* Thrown: the message is delivered again, or was for the last time.
Throw(w) ==
  /\ Rest(w)
  /\ queue' = IF queue[On(w)].st = "queued" /\ queue[On(w)].receives = MaxReceives
                THEN [queue EXCEPT ![On(w)].st = "dead"] ELSE queue

\* A permanent error, or any other error: again, unless this was the last try.
ExtractFails(w) ==
  /\ \/ Working(w, "analyze")
     \/ workers[w].pc \in {"read", "save"} /\ "outage" \in Faults
  /\ \/ /\ Working(w, "analyze") \/ LastTry(w)
        /\ workers' = [workers EXCEPT ![w].pc = "fail"] /\ UNCHANGED queue
     \/ ~LastTry(w) /\ Throw(w)
  /\ UNCHANGED <<header, deleted, overtaken, rows, media, calls>>

Save(w) ==
  /\ Working(w, "save") /\ Conclude(On(w), "ready") /\ Ack(w)
  /\ UNCHANGED <<deleted, overtaken, rows, media, calls>>

Fail(w) ==
  /\ Working(w, "fail")
  /\ \/ Conclude(On(w), "failed") /\ Ack(w)
     \/ "outage" \in Faults /\ Throw(w) /\ UNCHANGED header
  /\ UNCHANGED <<deleted, overtaken, rows, media, calls>>

-----------------------------------------------------------------------------
(* Faults: an error of S3 or DynamoDB ends a call (what it did stays), and a   *)
(* call or an invocation may die.                                            *)

CallFails(c) ==
  /\ \/ "crash" \in Faults /\ ~At(c, "idle")
     \/ "outage" \in Faults /\ calls[c].pc \notin {"idle", "tag", "send"}
  /\ Return(c)
  /\ UNCHANGED <<header, deleted, overtaken, rows, media, queue, workers>>

WorkerDies(w) ==
  /\ "crash" \in Faults /\ ~Working(w, "idle") /\ Throw(w)
  /\ UNCHANGED <<header, deleted, overtaken, rows, media, calls>>

CallStep(c) ==
  \/ TagPending(c) \/ PutRow(c)
  \/ Retag(c) \/ RetagFails(c) \/ PublishCancelled(c)
  \/ \E n \in Attempts : Publish(c, n)
  \/ Send(c) \/ SendFails(c) \/ Rollback(c)
  \/ Mark(c) \/ List(c) \/ Erase(c)
  \/ /\ Erased(c) \/ Dropped(c)
     /\ UNCHANGED <<header, deleted, overtaken, rows, media, queue, workers>>
  \/ Drop(c) \/ Tombstone(c) \/ Unlink(c) \/ Forget(c)

WorkerStep(w) == Read(w) \/ Extract(w) \/ ExtractFails(w) \/ Save(w) \/ Fail(w)

Next ==
  \/ \E a \in Artifacts : Presign(a) \/ Upload(a)
  \/ \E c \in Calls :
       \/ Create(c) \/ Delete(c) \/ CallStep(c) \/ CallFails(c)
       \/ \E a \in Artifacts : Register(c, a) \/ Remove(c, a)
       \/ \E n \in Attempts : Retry(c, n)
  \/ \E w \in Workers :
       \/ WorkerStep(w) \/ WorkerDies(w)
       \/ \E n \in Attempts : Receive(w, n)

Spec == Init /\ [][Next]_vars

\* Lambda runs what it starts and SQS delivers; users owe nothing.
Fairness ==
  /\ \A c \in Calls : WF_vars(CallStep(c))
  /\ \A w \in Workers : WF_vars(WorkerStep(w))
  /\ \A n \in Attempts : WF_vars(\E w \in Workers : Receive(w, n))

FairSpec == Spec /\ Fairness

-----------------------------------------------------------------------------
(* Properties *)

\* A summary on display is the one of the last attempt: no delayed, repeated or
\* superseded analysis writes over a later one.
ResultIsCurrent == header.status = "ready" => header.result = header.attempt

\* Once ready, a complaint stays ready until it is deleted, and one that is being
\* deleted never comes back: no late worker, rollback or replayed submission.
ReadyUntilDeleted ==
  [][/\ header.status = "ready" => header'.status \in {"ready", "deleting"}
     /\ header.status = "deleting" => header'.status \in {"deleting", "none"}]_vars

\* The row keeps a complaint's year, and so does the object: the pending rule
\* leaves it alone.  The exception is an object a late registration got at.
KeptForAYear(a) ==
  /\ rows[a].st = "registered" /\ rows[a].kept
  /\ media[a] = "complaint" \/ a \in overtaken

\* The files a published complaint counts are all there, row and object, with its
\* retention: no file that a concurrent call removes, retags or has not yet
\* retagged gets past the publishing transaction.  A registration that is late or
\* repeated may put the object, not the row, back under the drafts' rule.
CountedFilesAreKept ==
  header.status \in Published /\ ~deleted =>
    header.count <= Cardinality({a \in Artifacts : KeptForAYear(a)})

\* "Deletion removes every S3 object before deleting DynamoDB metadata": a row
\* that goes leaves no evidence behind that nobody can find any more.
MediaGoesFirst ==
  [][\A a \in Artifacts :
       rows[a].st # "none" /\ rows'[a].st = "none" => media[a] = "gone"]_vars

\* "After the fifth failed SQS delivery it records analysis_failed": analysing
\* ends, one way or the other.
AnalysisSettles == header.status = "analyzing" ~> header.status # "analyzing"
=============================================================================
