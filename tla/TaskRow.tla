--------------------------------- MODULE TaskRow ---------------------------------
(***************************************************************************)
(* One task whose report files a 311 ticket on its own (executionTrigger   *)
(* task_created), and everyone who writes its row: the background jobs     *)
(* that file and close the ticket, the site team completing the task or    *)
(* recording an action of its own, the analyzer's amendment that           *)
(* supersedes it, and the deletion of its only photo.                      *)
(*                                                                         *)
(* The jobs exclude each other with a lease on a lock row of their own;    *)
(* the people do not take it.  Completion and supersession put back the    *)
(* whole row as they read it, on the condition of its status alone.        *)
(***************************************************************************)
EXTENDS Naturals

CONSTANTS
  Completers,    \* the calls to POST /tasks/{id}/complete
  MaxReceives,   \* MAX_FILING_ATTEMPTS, the queue's maxReceiveCount
  MaxFaults      \* bound on runs that die, writes that fail, and City
                 \* answers that are lost or negative

ASSUME BoundsAssumption == MaxReceives \in Nat /\ MaxFaults \in Nat

Jobs == {"created", "resolved"}
NoOne == "no one"
Others == {"amendment", "evidence", "custom"}
ASSUME NamesAssumption == NoOne \notin Completers \union Jobs /\ Completers \intersect Others = {}

VARIABLES
  row,     \* the TASK# row
  lock,    \* the SF311_LOCK# row
  job,     \* the SF311_JOB# rows, with the deliveries left of their messages
  worker,  \* the run of each job
  call,    \* the completions
  sup,     \* supersedeOpenTasksForCondition
  del,     \* the photo's deletion marker, and retractEvidenceTasks
  cus,     \* recordCustomTaskAction
  city,    \* the tickets HUB has opened for the task, and whether it closed them
  faults

vars == <<row, lock, job, worker, call, sup, del, cus, city, faults>>

(* What a set of results says of the automatic ticket.  pending: a creation *)
(* was sent and no answer recorded; filed: a ticket number, not all of its  *)
(* steps; unclosed: a closure that failed.                                  *)
Results == {"none", "pending", "rejected", "unfileable", "filed", "submitted", "unclosed", "closed"}
HasTicket(r) == r \in {"filed", "submitted", "unclosed", "closed"}
IsSubmitted(r) == r \in {"submitted", "unclosed", "closed"}
IsFailure(r) == r \in {"pending", "rejected", "unfileable", "filed", "unclosed"}

(* mergeBackgroundResult: a ticket number or a closure is never forgotten. *)
Rank(r) ==
  CASE r = "none" -> 0 [] r = "filed" -> 2 [] r = "submitted" -> 3
    [] r = "unclosed" -> 4 [] r = "closed" -> 5 [] OTHER -> 1
Merge(prior, next) == IF Rank(next) >= Rank(prior) THEN next ELSE prior

(* Mutant of RetractableResults: an outcome in doubt counts as no ticket. *)
UncertainIsRetractable(r) == r \in {"none", "rejected", "unfileable", "pending"}
(* retractableResults and definitiveSilentFailure: no ticket, for certain. *)
RetractableResults(r) == r \in {"none", "rejected", "unfileable"}

Statuses == {"open", "completing", "completed", "in_progress", "superseded"}
RowType ==
  [st : Statuses, res : Results, lease : Completers \union {NoOne},
   override : BOOLEAN, by : {"none", "call"} \union Others]
LockType == [lease : Jobs \union {NoOne}, res : Results]
JobType ==
  [st : {"none", "pending", "retry", "complete", "failed"}, res : Results, left : 0 .. MaxReceives]
Places ==
  {"idle", "read", "decide", "file", "send", "accepted", "attach", "reread", "close",
   "confirmed", "write"}
WorkerType == [pc : Places, res : Results, task : RowType]
CallerType ==
  [pc : {"idle", "claim", "finish", "lock", "put", "answered", "won", "dead"},
   task : RowType, lock : LockType]
FreshRow == [st |-> "open", res |-> "none", lease |-> NoOne, override |-> FALSE, by |-> "none"]
NoLock == [lease |-> NoOne, res |-> "none"]
IdleWorker == [pc |-> "idle", res |-> "none", task |-> FreshRow]
IdleCaller == [pc |-> "idle", task |-> FreshRow, lock |-> NoLock]

Init ==
  /\ row = FreshRow
  /\ lock = NoLock
  /\ job = [j \in Jobs |-> [st |-> IF j = "created" THEN "pending" ELSE "none",
                            res |-> "none", left |-> MaxReceives]]
  /\ worker = [j \in Jobs |-> IdleWorker]
  /\ call = [c \in Completers |-> IdleCaller]
  /\ sup = IdleCaller
  /\ del = [mark |-> FALSE, run |-> IdleCaller]
  /\ cus = IdleCaller
  /\ city = [tickets |-> 0, closed |-> FALSE]
  /\ faults = 0

Fault == faults < MaxFaults /\ faults' = faults + 1
Retractable(task) == task.st = "open" /\ ~task.override /\ RetractableResults(task.res)

(* A lease outlives the longest run, so it has expired, at the earliest,   *)
(* when its owner is gone: 360 s for a worker's 300, five minutes for a    *)
(* call's 29 seconds.                                                      *)
LeaseFree == lock.lease = NoOne
LeaseMayHaveExpired == lock.lease # NoOne /\ worker[lock.lease].pc = "idle"
CompletionMayHaveExpired == row.lease # NoOne /\ call[row.lease].pc = "dead"
-----------------------------------------------------------------------------
(* The background jobs.                                                    *)

Runs(j) == worker[j].pc # "idle"
Goto(j, pc) == worker' = [worker EXCEPT ![j].pc = pc]
Queued(j) == job[j].st \in {"pending", "retry"}
(* Mutant of MayDeliver: the queue has no dead letters. *)
MayDeliverForever(j) == Queued(j) /\ ~Runs(j)
MayDeliver(j) == Queued(j) /\ ~Runs(j) /\ job[j].left > 0

(* runJob, the claim of the lock.  A delivery that finds it taken fails,   *)
(* and comes back after the lease.                                         *)
Deliver(j) ==
  /\ MayDeliver(j)
  /\ job' = [job EXCEPT ![j].left = @ - 1]
  /\ \/ /\ LeaseFree \/ LeaseMayHaveExpired
        /\ lock' = [lock EXCEPT !.lease = j]
        /\ worker' = [worker EXCEPT ![j] = [IdleWorker EXCEPT !.pc = "read"]]
     \/ /\ ~LeaseFree
        /\ UNCHANGED <<lock, worker>>
  /\ UNCHANGED <<row, call, sup, del, cus, city, faults>>

(* The run ends, by return or by throw: finally releases the lock. *)
Release(j) ==
  /\ worker' = [worker EXCEPT ![j] = IdleWorker]
  /\ lock' = [lock EXCEPT !.lease = NoOne]

(* The row is read once the lock is held. *)
ReadTask(j) ==
  /\ worker[j].pc = "read"
  /\ \/ /\ row.st = "completing"
        /\ Release(j)
     \/ /\ row.st # "completing"
        /\ worker' = [worker EXCEPT ![j] =
             [pc |-> "decide", task |-> row,
              res |-> Merge(Merge(row.res, job[j].res), lock.res)]]
        /\ UNCHANGED lock
  /\ UNCHANGED <<row, job, call, sup, del, cus, city, faults>>

EvidenceRemoved(j) == del.mark /\ Retractable(worker[j].task)
MayFile(j) ==
  /\ worker[j].task.st # "superseded"
  /\ ~IsSubmitted(worker[j].res)
  /\ ~worker[j].task.override \/ j = "created"
  /\ ~EvidenceRemoved(j)

(* The marker is read last; then the ticket is filed, or not. *)
Decide(j) ==
  /\ worker[j].pc = "decide"
  /\ worker' = [worker EXCEPT ![j].pc = IF MayFile(j) THEN "file" ELSE "reread",
                              ![j].task = FreshRow]
  /\ UNCHANGED <<row, lock, job, call, sup, del, cus, city, faults>>

(* checkpoint: the lock row and the job row, while the lease is held. *)
Checkpoint(j, r, pc) ==
  /\ lock' = [lock EXCEPT !.res = Merge(worker[j].res, r)]
  /\ job' = [job EXCEPT ![j].res = Merge(worker[j].res, r)]
  /\ worker' = [worker EXCEPT ![j].res = Merge(worker[j].res, r), ![j].pc = pc]

(* Mutant of Uncertain: a creation in doubt is sent again. *)
NeverUncertain(j) == FALSE
(* An unconfirmed creation is for reconciliation, never for another call. *)
Uncertain(j) == worker[j].res = "pending"

(* execute311Action up to CreateSR. *)
File(j) ==
  /\ worker[j].pc = "file"
  /\ \/ /\ Uncertain(j)
        /\ Goto(j, "reread")
        /\ UNCHANGED <<lock, job>>
     \/ /\ worker[j].res = "filed"
        /\ Goto(j, "attach")
        /\ UNCHANGED <<lock, job>>
     \/ /\ ~Uncertain(j) /\ worker[j].res # "filed"
        /\ \/ Checkpoint(j, "pending", "send")
           \/ Checkpoint(j, "unfileable", "reread")
  /\ UNCHANGED <<row, call, sup, del, cus, city, faults>>

(* CreateSR: a number, a definite no, or no answer. *)
Send(j) ==
  /\ worker[j].pc = "send"
  /\ \/ /\ city' = [city EXCEPT !.tickets = @ + 1]
        /\ Goto(j, "accepted")
        /\ UNCHANGED <<lock, job, faults>>
     \/ /\ Fault
        /\ Checkpoint(j, "rejected", "reread")
        /\ UNCHANGED city
     \/ /\ Fault
        /\ \E n \in {0, 1} : city' = [city EXCEPT !.tickets = @ + n]
        /\ Goto(j, "reread")
        /\ UNCHANGED <<lock, job>>
  /\ UNCHANGED <<row, call, sup, del, cus>>

Accepted(j) ==
  /\ worker[j].pc = "accepted"
  /\ Checkpoint(j, "filed", "attach")
  /\ UNCHANGED <<row, call, sup, del, cus, city, faults>>

(* The photos, then the action's result. *)
Attach(j) ==
  /\ worker[j].pc = "attach"
  /\ \/ Checkpoint(j, "submitted", "reread") /\ UNCHANGED faults
     \/ Fault /\ Checkpoint(j, "filed", "reread")
  /\ UNCHANGED <<row, call, sup, del, cus, city>>

(* Mutant of NeedsClosing: closing is left to the job of the resolution. *)
ResolvedJobCloses(j) == j = "resolved" /\ row.st = "completed" /\ IsSubmitted(worker[j].res)
NeedsClosing(j) == row.st = "completed" /\ IsSubmitted(worker[j].res)

(* A user may have finished the work while the filing was underway. *)
Reread(j) ==
  /\ worker[j].pc = "reread"
  /\ \/ /\ row.st = "completing"
        /\ Release(j)
     \/ /\ row.st # "completing"
        /\ Goto(j, IF NeedsClosing(j) THEN "close" ELSE "write")
        /\ UNCHANGED lock
  /\ UNCHANGED <<row, job, call, sup, del, cus, city, faults>>

(* execute311ClosureAction: repeating a closure is safe. *)
Close(j) ==
  /\ worker[j].pc = "close"
  /\ \/ /\ worker[j].res = "closed"
        /\ Goto(j, "write")
        /\ UNCHANGED <<lock, job, city, faults>>
     \/ /\ worker[j].res # "closed"
        /\ city' = [city EXCEPT !.closed = TRUE]
        /\ Goto(j, "confirmed")
        /\ UNCHANGED <<lock, job, faults>>
     \/ /\ worker[j].res # "closed"
        /\ Fault
        /\ Checkpoint(j, "unclosed", "write")
        /\ UNCHANGED city
  /\ UNCHANGED <<row, call, sup, del, cus>>

CloseConfirmed(j) ==
  /\ worker[j].pc = "confirmed"
  /\ Checkpoint(j, "closed", "write")
  /\ UNCHANGED <<row, call, sup, del, cus, city, faults>>

JobOutcome(r) == IF r = "unfileable" THEN "failed" ELSE IF IsFailure(r) THEN "retry" ELSE "complete"

(* The row's results and the job's outcome in one transaction.  It takes   *)
(* status and results as just read: a change in between fails it (Throws). *)
Write(j) ==
  /\ worker[j].pc = "write"
  /\ \/ /\ row.st = "completing"
        /\ UNCHANGED <<row, job>>
     \/ /\ row.st # "completing"
        /\ row' = [row EXCEPT !.res = Merge(row.res, worker[j].res)]
        /\ job' = [job EXCEPT ![j].st = JobOutcome(worker[j].res), ![j].res = worker[j].res]
  /\ Release(j)
  /\ UNCHANGED <<call, sup, del, cus, city, faults>>

(* A write of the run is refused or fails: it throws, and is redelivered. *)
Throws(j) ==
  /\ Runs(j) /\ Fault
  /\ Release(j)
  /\ UNCHANGED <<row, job, call, sup, del, cus, city>>

(* The run is killed: its lease stays until it expires. *)
Dies(j) ==
  /\ Runs(j) /\ Fault
  /\ worker' = [worker EXCEPT ![j] = IdleWorker]
  /\ UNCHANGED <<row, lock, job, call, sup, del, cus, city>>

-----------------------------------------------------------------------------
(* completeTaskWithAppActions.  The task has no action of the user's own   *)
(* to run, so the call makes no City request.                              *)

(* The consistent read: completed is answered as it is; in progress,       *)
(* superseded or claimed by a live call is refused.                        *)
ReadForCompletion(c) ==
  /\ call[c].pc = "idle"
  /\ \/ /\ row.st = "open" \/ (row.st = "completing" /\ CompletionMayHaveExpired)
        /\ call' = [call EXCEPT ![c].pc = "claim", ![c].task = row]
     \/ /\ row.st # "open"
        /\ call' = [call EXCEPT ![c].pc = "answered"]
  /\ UNCHANGED <<row, lock, job, worker, sup, del, cus, city, faults>>

(* claimCondition: open, or completing under a lease that has expired. *)
Claimable(task) ==
  IF task.st = "open" THEN row.st = "open" ELSE row.st = "completing" /\ CompletionMayHaveExpired

(* The claim puts back the row as it was read, results included. *)
ClaimCompletion(c) ==
  /\ call[c].pc = "claim"
  /\ IF Claimable(call[c].task)
     THEN /\ row' = [call[c].task EXCEPT !.st = "completing", !.lease = c]
          /\ call' = [call EXCEPT ![c].pc = "finish"]
     ELSE /\ call' = [call EXCEPT ![c] = [IdleCaller EXCEPT !.pc = "answered"]]
          /\ UNCHANGED row
  /\ UNCHANGED <<lock, job, worker, sup, del, cus, city, faults>>

(* Mutant of ResolvedJob: the job is left for the created job's next run. *)
NoResolvedJob == job
(* sf311Job, put in the transaction that resolves the task. *)
ResolvedJob == [job EXCEPT !["resolved"].st = "pending"]

(* The final Put: the claimed row again, with the results read at first.   *)
(* canBeInProgress and forceComplete decide between the outcomes.          *)
FinishCompletion(c) ==
  /\ call[c].pc = "finish"
  /\ IF row.st = "completing" /\ row.lease = c
     THEN \E st \in {"completed", "in_progress"} :
            /\ row' = [row EXCEPT !.st = st, !.res = call[c].task.res, !.lease = NoOne, !.by = "call"]
            /\ job' = IF st = "completed" THEN ResolvedJob ELSE job
            /\ call' = [call EXCEPT ![c] = [IdleCaller EXCEPT !.pc = "won"]]
     ELSE /\ call' = [call EXCEPT ![c] = [IdleCaller EXCEPT !.pc = "answered"]]
          /\ UNCHANGED <<row, job>>
  /\ UNCHANGED <<lock, worker, sup, del, cus, city, faults>>

(* A call that dies before its claim is one that never makes it. *)
CallDies(c) ==
  /\ call[c].pc = "finish" /\ Fault
  /\ call' = [call EXCEPT ![c] = [IdleCaller EXCEPT !.pc = "dead"]]
  /\ UNCHANGED <<row, lock, job, worker, sup, del, cus, city>>

-----------------------------------------------------------------------------
(* supersedeOpenTasksForCondition, for a condition with this one task.     *)

ReadForSupersession ==
  /\ sup.pc = "idle" /\ row.st = "open"
  /\ sup' = [sup EXCEPT !.pc = "put", !.task = row]
  /\ UNCHANGED <<row, lock, job, worker, call, del, cus, city, faults>>

(* Mutant of StillOpen: whoever read an open task supersedes it. *)
WasOpen == sup.task.st = "open"
StillOpen == row.st = "open"

(* supersedeTaskWrites: the row as read, if it is still open.  A task that *)
(* someone else took is a success too.                                     *)
Supersede ==
  /\ sup.pc = "put"
  /\ IF StillOpen
     THEN /\ row' = [sup.task EXCEPT !.st = "superseded", !.by = "amendment"]
          /\ sup' = [IdleCaller EXCEPT !.pc = "won"]
     ELSE /\ sup' = [IdleCaller EXCEPT !.pc = "answered"]
          /\ UNCHANGED row
  /\ UNCHANGED <<lock, job, worker, call, del, cus, city, faults>>

-----------------------------------------------------------------------------
(* deleteArtifact's cleanup: the marker is there before retractEvidenceTasks. *)

MarkDeleted ==
  /\ ~del.mark
  /\ del' = [del EXCEPT !.mark = TRUE]
  /\ UNCHANGED <<row, lock, job, worker, call, sup, cus, city, faults>>

Retracting(run) == del' = [del EXCEPT !.run = run]

(* The first query, and the reads that follow a cancelled transaction.  A  *)
(* call that answered 409 is repeated by the client.                       *)
ReadForRetraction ==
  /\ del.mark /\ del.run.pc = "idle"
  /\ IF Retractable(row)
     THEN Retracting([IdleCaller EXCEPT !.pc = "lock", !.task = row])
     ELSE Retracting([IdleCaller EXCEPT !.pc = "answered"])
  /\ UNCHANGED <<row, lock, job, worker, call, sup, cus, city, faults>>

(* inactiveSf311Lease and the lock's results; otherwise a 409. *)
ReadLockForRetraction ==
  /\ del.run.pc = "lock"
  /\ \/ /\ LeaseFree \/ LeaseMayHaveExpired
        /\ RetractableResults(lock.res)
        /\ Retracting([del.run EXCEPT !.pc = "put", !.lock = lock])
     \/ /\ ~LeaseFree \/ ~RetractableResults(lock.res)
        /\ Retracting(IdleCaller)
  /\ UNCHANGED <<row, lock, job, worker, call, sup, cus, city, faults>>

(* The guard of inactiveSf311Lease in the transaction: no lease, or the    *)
(* expired one that was seen; and the results as seen.                     *)
LockAsRead(seen) ==
  /\ LeaseFree \/ (lock.lease = seen.lease /\ LeaseMayHaveExpired)
  /\ lock.res = seen.res

Retract ==
  /\ del.run.pc = "put"
  /\ IF /\ row.st = "open" /\ row.res = del.run.task.res
        /\ LockAsRead(del.run.lock)
     THEN /\ row' = [del.run.task EXCEPT !.st = "superseded", !.by = "evidence"]
          /\ Retracting([IdleCaller EXCEPT !.pc = "won"])
     ELSE /\ Retracting(IdleCaller)
          /\ UNCHANGED row
  /\ UNCHANGED <<lock, job, worker, call, sup, cus, city, faults>>

-----------------------------------------------------------------------------
(* recordCustomTaskAction: "Other action taken", resolving the task or not. *)

ReadForCustom ==
  /\ cus.pc = "idle" /\ row.st = "open"
  /\ cus' = [cus EXCEPT !.pc = "lock", !.task = row]
  /\ UNCHANGED <<row, lock, job, worker, call, sup, del, city, faults>>

(* editableActionResults accepts every result of an automatic ticket. *)
ReadLockForCustom ==
  /\ cus.pc = "lock"
  /\ \/ /\ LeaseFree \/ LeaseMayHaveExpired
        /\ cus' = [cus EXCEPT !.pc = "put", !.lock = lock]
     \/ /\ ~LeaseFree
        /\ cus' = [IdleCaller EXCEPT !.pc = "answered"]
  /\ UNCHANGED <<row, lock, job, worker, call, sup, del, city, faults>>

RecordCustom ==
  /\ cus.pc = "put"
  /\ IF /\ row.st = "open" /\ row.res = cus.task.res
        /\ LockAsRead(cus.lock)
     THEN \E st \in {"completed", "in_progress"} :
            /\ row' = [cus.task EXCEPT !.st = st, !.override = TRUE, !.by = "custom"]
            /\ job' = IF st = "completed" THEN ResolvedJob ELSE job
            /\ cus' = [IdleCaller EXCEPT !.pc = "won"]
     ELSE /\ cus' = [IdleCaller EXCEPT !.pc = "answered"]
          /\ UNCHANGED <<row, job>>
  /\ UNCHANGED <<lock, worker, call, sup, del, city, faults>>

-----------------------------------------------------------------------------
Step(j) ==
  \/ ReadTask(j) \/ Decide(j) \/ File(j) \/ Send(j) \/ Accepted(j) \/ Attach(j)
  \/ Reread(j) \/ Close(j) \/ CloseConfirmed(j) \/ Write(j)
Completion(c) == ReadForCompletion(c) \/ ClaimCompletion(c) \/ FinishCompletion(c) \/ CallDies(c)
Retraction == MarkDeleted \/ ReadForRetraction \/ ReadLockForRetraction \/ Retract
Custom == ReadForCustom \/ ReadLockForCustom \/ RecordCustom

Next ==
  \/ \E j \in Jobs : Deliver(j) \/ Step(j) \/ Throws(j) \/ Dies(j)
  \/ \E c \in Completers : Completion(c)
  \/ ReadForSupersession \/ Supersede
  \/ Retraction
  \/ Custom

Spec == Init /\ [][Next]_vars

-----------------------------------------------------------------------------
TypeOK ==
  /\ row \in RowType /\ lock \in LockType
  /\ job \in [Jobs -> JobType] /\ worker \in [Jobs -> WorkerType]
  /\ call \in [Completers -> CallerType]
  /\ sup \in CallerType /\ cus \in CallerType
  /\ del \in [mark : BOOLEAN, run : CallerType]
  /\ city \in [tickets : Nat, closed : BOOLEAN]
  /\ faults \in 0 .. MaxFaults

(* A task withdrawn because its only photo was deleted never has a ticket  *)
(* at the City, and no run is about to ask for one: neither before the     *)
(* withdrawal, while a lease may be live or an outcome in doubt, nor after *)
(* it, by a job delivered late (retractEvidenceTasks against runJob).      *)
RetractedIsNotFiled ==
  row.by = "evidence" => city.tickets = 0 /\ \A j \in Jobs : worker[j].pc # "send"

(* Whatever dies, gets lost or is delivered again, and whichever job gets  *)
(* there first, HUB is asked for one ticket (pending checkpoints).         *)
OneAutomaticTicket == city.tickets <= 1

(* The row has one outcome: of the completions, the amendment, the photo's *)
(* deletion and the custom action at most one has decided it by a write of *)
(* its own (a supersession also reports tasks that another one took), and  *)
(* the row goes on showing that one's doing, whatever is put back later.   *)
Winners ==
  {c \in Completers : call[c].pc = "won"}
    \union {x \in Others : \/ x = "amendment" /\ sup.pc = "won"
                           \/ x = "evidence" /\ del.run.pc = "won"
                           \/ x = "custom" /\ cus.pc = "won"}
OneOutcome ==
  \A x \in Winners :
    /\ row.by = (IF x \in Others THEN x ELSE "call")
    /\ \A y \in Winners : x = y

AllDone == \A j \in Jobs : ~Queued(j)

(* The whole-row Puts lose results a job recorded after they were read;    *)
(* once a completed task's jobs are done its row shows again all that the  *)
(* lock knows (the "resolved" job puts it back).                           *)
ResultsComeBack ==
  row.st = "completed" /\ AllDone => row.res = lock.res

(* A ticket filed for a task that was completed on site is closed by the   *)
(* time the jobs are done, whichever of them filed it and whether it was   *)
(* filed before, during or after the completion.                           *)
ResolvedIsClosed ==
  row.st = "completed" /\ city.tickets > 0 /\ AllDone => city.closed
=============================================================================
