------------------------------ MODULE Sf311Filing ------------------------------
(***************************************************************************)
(* A "File 311 ticket" tap, from the tap to the City.                      *)
(*                                                                         *)
(*   queue311Filing   one transaction: task queued + job row               *)
(*   stream dispatch  job row -> SQS message, at least once                *)
(*   sf311-job worker one Lambda invocation per delivery, at most          *)
(*                    MaxReceives deliveries, then the dead-letter queue   *)
(*   SF311_LOCK row   per-task lease and the durable ticket checkpoints    *)
(*   HUB              the City's system: creates tickets, late or never,   *)
(*                    and its answer may be lost                           *)
(*                                                                         *)
(* One task is modelled: every row named here is per task.  Each action of *)
(* a worker is what happens between two awaits of the JavaScript.  Time is *)
(* counted in ticks, only where the code depends on it: the lease, the     *)
(* Lambda's maximum runtime and the message's visibility.                  *)
(***************************************************************************)
EXTENDS Sf311Results, Integers, FiniteSets

CONSTANTS
  Jobs,          \* filing jobs: one per tap or retry tap that is accepted
  Messages,      \* SQS messages the dispatcher may send
  MaxReceives,   \* maxReceiveCount = MAX_FILING_ATTEMPTS
  MaxRuntime,    \* the worker Lambda's timeout
  LeaseTime,     \* lifetime of the lease a worker claims
  Visibility,    \* the queue's visibility timeout
  WithImage,     \* the task has a photo to attach
  Faults         \* which of FaultKinds may happen

FaultKinds == {"crash", "outage", "contention"}

ASSUME BudgetAssumption == MaxReceives \in Nat \ {0}
\* Comment at the claim: "Longer than the worker's 300-second maximum runtime".
ASSUME LeaseOutlivesRun ==
  MaxRuntime \in Nat /\ LeaseTime \in Nat /\ MaxRuntime < LeaseTime
\* Lambda's rule for a queue it polls: 300 s runtime, 1800 s visibility.
ASSUME HiddenWhileRunning == Visibility \in Nat /\ MaxRuntime < Visibility
ASSUME FlagAssumption == WithImage \in BOOLEAN /\ Faults \subseteq FaultKinds

NoJob == "no job"
NoOne == "no one"
Other == "another job"
ASSUME NamesAssumption ==
  /\ NoOne \notin Messages /\ Other \notin Messages
  /\ NoJob \notin Jobs

VARIABLES
  task,      \* the TASK row
  jobs,      \* the SF311_JOB rows
  stream,    \* the dispatcher's progress on each job's stream record
  queue,     \* the 311 queue and its dead-letter queue
  workers,   \* the invocation working on each message
  lock,      \* the SF311_LOCK row
  other,     \* an invocation of another kind of job of this task
  hub        \* what the City has: per service code

vars == <<task, jobs, stream, queue, workers, lock, other, hub>>

-----------------------------------------------------------------------------
(* Types *)

TaskType ==
  [status : {"open", "in_progress", "completed"},
   filing : BOOLEAN,                  \* inProgressActionKind = "311_filed"
   action : {"none", "queued", "failed", "submitted"},   \* appActionStatus
   method : {"none", "311_filed", "site_team_resolved"}, \* completionMethod
   tickets : Tickets,                 \* appActionResults
   stays : BOOLEAN]                   \* canBeInProgress

JobStatus ==
  {"absent", "pending", "dispatched", "retry", "complete", "failed", "abandoned"}

MessageType ==
  [state : {"unsent", "queued", "acked", "dead"},
   job : Jobs \union {NoJob},
   receives : 0..MaxReceives,
   delay : Nat]

\* Where an invocation stands; the comment names the await it is about to make.
Locked ==
  {"read",        \* read(task), after the claim
   "plan",        \* execute311Action up to the fan-out
   "fanout",      \* next service code of the plan
   "send",        \* createServiceRequest
   "await",       \* ... its answer
   "photo",       \* attachImagesToServiceRequest
   "sendPhoto",   \* updateServiceRequest
   "awaitPhoto",  \* ... its answer
   "record",      \* checkpoint(executed)
   "reread",      \* read(task) again
   "commit",      \* the final transaction
   "release"}     \* finally: give the lease back
PCs == Locked \union {"idle", "start", "claim", "settle"}

Outcomes == {"none", "filed", "transient", "rejected", "permanent", "reconcile"}

Places == 1..(NumCodes + 1)

WorkerType ==
  [pc : PCs,
   attempt : 0..MaxReceives,    \* ApproximateReceiveCount
   left : Nat,                  \* runtime before Lambda kills the invocation
   idx : Places,                \* position in the plan
   seen : Tickets,              \* job.results as read at the start
   mem : Tickets,               \* the in-memory results
   reply : {"none", "created", "rejected"},
   out : Outcomes,              \* status and reason of the executed filing
   prior : Tickets,             \* task.appActionResults as re-read
   end : {"ack", "throw"}]      \* how runJob ends

IdleWorker ==
  [pc |-> "idle", attempt |-> 0, left |-> 0, idx |-> 1, seen |-> NoTickets,
   mem |-> NoTickets, reply |-> "none", out |-> "none", prior |-> NoTickets,
   end |-> "ack"]

TypeOK ==
  /\ task \in TaskType
  /\ jobs \in [Jobs -> [status : JobStatus, tickets : Tickets]]
  /\ stream \in [Jobs -> {"idle", "record", "checked", "sent"}]
  /\ queue \in [Messages -> MessageType]
  /\ workers \in [Messages -> WorkerType]
  /\ lock \in [token : Messages \union {NoOne, Other},
               left : Int, tickets : Tickets]
  /\ other \in [live : BOOLEAN, left : Nat]
  /\ hub \in [Codes -> [open : Nat, srs : Nat, photos : Nat, shown : BOOLEAN]]

Init ==
  /\ task \in [status : {"open"}, filing : {FALSE}, action : {"none"},
               method : {"none"}, tickets : {NoTickets}, stays : BOOLEAN]
  /\ jobs = [j \in Jobs |-> [status |-> "absent", tickets |-> NoTickets]]
  /\ stream = [j \in Jobs |-> "idle"]
  /\ queue = [m \in Messages |-> [state |-> "unsent", job |-> NoJob,
                                  receives |-> 0, delay |-> 0]]
  /\ workers = [m \in Messages |-> IdleWorker]
  /\ lock = [token |-> NoOne, left |-> 0, tickets |-> NoTickets]
  /\ other = [live |-> FALSE, left |-> 0]
  /\ hub = [c \in Codes |->
              [open |-> 0, srs |-> 0, photos |-> 0, shown |-> FALSE]]

-----------------------------------------------------------------------------
(* The API: taps and task updates.  Each is a read and one conditional      *)
(* write; what it read and does not repeat in its condition is not changed  *)
(* by anything modelled here, so the two are one step.                      *)

\* waiting(task): a filing is queued and nobody has moved the task on.
Waiting(t) == t.status = "in_progress" /\ t.filing /\ t.action = "queued"

NewJob(j) ==
  /\ jobs[j].status = "absent"
  /\ jobs' = [jobs EXCEPT ![j].status = "pending"]
  /\ stream' = [stream EXCEPT ![j] = "record"]

Tap(j) ==
  /\ task.status = "open"
  /\ NewJob(j)
  /\ task' = [task EXCEPT !.status = "in_progress", !.filing = TRUE,
                          !.action = "queued"]
  /\ UNCHANGED <<queue, workers, lock, other, hub>>

\* The retry button, offered once a filing has failed.
Requeue(j) ==
  /\ task.status = "in_progress" /\ task.filing /\ task.action = "failed"
  /\ NewJob(j)
  /\ task' = [task EXCEPT !.action = "queued"]
  /\ UNCHANGED <<queue, workers, lock, other, hub>>

\* canUpdateTask: in progress, or completed by a filing that is still open.
CanUpdate ==
  \/ task.status = "in_progress"
  \/ /\ task.status = "completed" /\ task.method = "311_filed"
     /\ \E c \in Codes : task.tickets[c].st = "filed"

ResolveTask ==
  /\ CanUpdate
  /\ task' = [task EXCEPT !.status = "completed",
                          !.method = "site_team_resolved"]
  /\ UNCHANGED <<jobs, stream, queue, workers, lock, other, hub>>

\* A "still there" update puts a task completed by its filing back in progress.
ReopenTask ==
  /\ CanUpdate
  /\ task.status = "completed"
  /\ task' = [task EXCEPT !.status = "in_progress", !.method = "none"]
  /\ UNCHANGED <<jobs, stream, queue, workers, lock, other, hub>>

-----------------------------------------------------------------------------
(* The stream dispatcher: consistent read, SendMessage, conditional mark.   *)

DispatchRead(j) ==
  /\ stream[j] = "record"
  /\ stream' = [stream EXCEPT
               ![j] = IF jobs[j].status = "pending" THEN "checked" ELSE "idle"]
  /\ UNCHANGED <<task, jobs, queue, workers, lock, other, hub>>

DispatchSend(j, m) ==
  /\ stream[j] = "checked"
  /\ queue[m].state = "unsent"
  /\ queue' = [queue EXCEPT ![m].state = "queued", ![m].job = j]
  /\ stream' = [stream EXCEPT ![j] = "sent"]
  /\ UNCHANGED <<task, jobs, workers, lock, other, hub>>

\* On a lost condition the record succeeds only if the row says dispatched.
DispatchMark(j) ==
  /\ stream[j] = "sent"
  /\ IF jobs[j].status = "pending"
       THEN /\ jobs' = [jobs EXCEPT ![j].status = "dispatched"]
            /\ stream' = [stream EXCEPT ![j] = "idle"]
       ELSE /\ stream' = [stream EXCEPT
                            ![j] = IF jobs[j].status = "dispatched"
                                     THEN "idle" ELSE "record"]
            /\ UNCHANGED jobs
  /\ UNCHANGED <<task, queue, workers, lock, other, hub>>

\* Bound on duplicates: every job that may still send keeps a message for it.
SpareMessage ==
  LET owed == {j \in Jobs : \/ stream[j] \in {"record", "checked"}
                            \/ \A m \in Messages : queue[m].job # j}
  IN  Cardinality({m \in Messages : queue[m].state = "unsent"})
        > Cardinality(owed)

\* The dispatcher fails before the mark: the stream delivers the record again.
DispatchFail(j) ==
  /\ "crash" \in Faults
  /\ \/ stream[j] = "checked"
     \/ stream[j] = "sent" /\ SpareMessage
  /\ stream' = [stream EXCEPT ![j] = "record"]
  /\ UNCHANGED <<task, jobs, queue, workers, lock, other, hub>>

-----------------------------------------------------------------------------
(* The queue *)

Deliverable(m) ==
  /\ queue[m].state = "queued" /\ queue[m].delay = 0
  /\ workers[m].pc = "idle"

\* The invocation working on m is now w.
Becomes(m, w) == workers' = [workers EXCEPT ![m] = w]

\* Mutant of Receive: the redrive policy is gone.
ReceiveForever(m) ==
  /\ Deliverable(m)
  /\ queue' = [queue EXCEPT ![m].receives = @ + 1, ![m].delay = Visibility]
  /\ Becomes(m, [IdleWorker EXCEPT !.pc = "start", !.left = MaxRuntime,
                                 !.attempt = queue[m].receives + 1])
  /\ UNCHANGED <<task, jobs, stream, lock, other, hub>>

\* A delivery starts an invocation and hides the message for Visibility.
Receive(m) ==
  /\ Deliverable(m) /\ queue[m].receives < MaxReceives
  /\ queue' = [queue EXCEPT ![m].receives = @ + 1, ![m].delay = Visibility]
  /\ Becomes(m, [IdleWorker EXCEPT !.pc = "start", !.left = MaxRuntime,
                                 !.attempt = queue[m].receives + 1])
  /\ UNCHANGED <<task, jobs, stream, lock, other, hub>>

DeadLetter(m) ==
  /\ Deliverable(m) /\ queue[m].receives = MaxReceives
  /\ queue' = [queue EXCEPT ![m].state = "dead"]
  /\ UNCHANGED <<task, jobs, stream, workers, lock, other, hub>>

\* runJob is over: the message is deleted, or made visible again.  The back-off
\* only postpones a delivery that may be late anyway, so it is left out.
Settle(m) ==
  /\ workers[m].pc = "settle"
  /\ queue' = IF workers[m].end = "ack"
                THEN [queue EXCEPT ![m].state = "acked", ![m].delay = 0]
                ELSE [queue EXCEPT ![m].delay = 0]
  /\ Becomes(m, IdleWorker)
  /\ UNCHANGED <<task, jobs, stream, lock, other, hub>>

-----------------------------------------------------------------------------
(* The worker: runJob around fileUserConfirmed.                             *)

At(m, pc) == workers[m].pc = pc
JobOf(m) == queue[m].job
Code(m) == workers[m].idx
Goto(m, pc) == Becomes(m, [workers[m] EXCEPT !.pc = pc])

\* Mutant of Start: a job already tried is acknowledged as well.
StartOnce(m) ==
  /\ At(m, "start")
  /\ LET job == jobs[JobOf(m)] IN
       IF job.status \in {"complete", "failed", "retry"}
         THEN Goto(m, "settle")
         ELSE Becomes(m, [workers[m] EXCEPT !.pc = "claim",
                                            !.seen = job.tickets])
  /\ UNCHANGED <<task, jobs, stream, queue, lock, other, hub>>

\* Read the job row; a finished job is acknowledged without a lease.
Start(m) ==
  /\ At(m, "start")
  /\ LET job == jobs[JobOf(m)] IN
       IF job.status \in {"complete", "failed"}
         THEN Goto(m, "settle")
         ELSE Becomes(m, [workers[m] EXCEPT !.pc = "claim",
                                            !.seen = job.tickets])
  /\ UNCHANGED <<task, jobs, stream, queue, lock, other, hub>>

\* attribute_not_exists(sf311Lease) OR sf311LeaseExpiresAt < :now
LeaseFree == lock.token = NoOne \/ lock.left < 0

Claim(m) ==
  /\ At(m, "claim") /\ LeaseFree
  /\ lock' = [lock EXCEPT !.token = m, !.left = LeaseTime]
  /\ Becomes(m, [workers[m] EXCEPT !.pc = "read", !.mem = lock.tickets])
  /\ UNCHANGED <<task, jobs, stream, queue, other, hub>>

\* Contended: the error carries the lease's remaining time, and the message
\* stays hidden until the lease has expired (retryAfterSeconds).
Contended(m) ==
  /\ At(m, "claim") /\ ~LeaseFree
  /\ queue' = [queue EXCEPT ![m].delay = lock.left + 1]
  /\ Becomes(m, IdleWorker)
  /\ UNCHANGED <<task, jobs, stream, lock, other, hub>>

FinishJob(m, status) == jobs' = [jobs EXCEPT ![JobOf(m)].status = status]

\* The run is over but for the finally block; what it held in memory is gone.
End(m, how) ==
  Becomes(m, [IdleWorker EXCEPT !.pc = "release", !.left = workers[m].left,
                                !.end = how])

\* The task row, then the job row, then the lock row are merged; a task that
\* is no longer waiting abandons the job.
ReadTask(m) ==
  /\ At(m, "read")
  /\ IF Waiting(task)
       THEN /\ Becomes(m, [workers[m] EXCEPT
                 !.pc = "plan", !.seen = NoTickets,
                 !.mem = MergeTickets(MergeTickets(task.tickets, workers[m].seen), @)])
            /\ UNCHANGED jobs
       ELSE FinishJob(m, "abandoned") /\ End(m, "ack")
  /\ UNCHANGED <<task, stream, queue, lock, other, hub>>

\* checkpoint(): the merged results go to the lock row and to the job row in
\* one transaction that requires the lease.
Checkpoint(m, tickets) ==
  /\ lock.token = m
  /\ lock' = [lock EXCEPT !.tickets = tickets]
  /\ jobs' = [jobs EXCEPT ![JobOf(m)].tickets = tickets]

Outcome(m, out) ==
  Becomes(m, [workers[m] EXCEPT !.pc = "record", !.out = out])

\* The action fails before its fan-out: idx = 1, so its result has no tickets.
FailPlan(m, out) ==
  Becomes(m, [workers[m] EXCEPT !.pc = "record", !.out = out, !.idx = 1])

\* Mutant of Uncertain: an unknown outcome is simply tried again.
NeverUncertain(m) == FALSE

Uncertain(m) == \E c \in Codes : workers[m].mem[c].st = "pending"

\* An earlier creation whose outcome is unknown stops the action here, whatever
\* service it was for.
RefuseUncertain(m) ==
  /\ At(m, "plan") /\ Uncertain(m)
  /\ FailPlan(m, "reconcile")
  /\ UNCHANGED <<task, jobs, stream, queue, lock, other, hub>>

\* No usable location or service code (permanent), or a failed read.
PlanFails(m) ==
  /\ At(m, "plan") /\ ~Uncertain(m)
  /\ \E out \in {"permanent", "transient"} : FailPlan(m, out)
  /\ UNCHANGED <<task, jobs, stream, queue, lock, other, hub>>

PlanReady(m) ==
  /\ At(m, "plan") /\ ~Uncertain(m)
  /\ Goto(m, "fanout")
  /\ UNCHANGED <<task, jobs, stream, queue, lock, other, hub>>

Filed(m) == workers[m].mem[Code(m)].st = "filed"
Planned(m) == Code(m) \in Codes

\* A service code whose ticket is known only gets its photo.
Resume(m) ==
  /\ At(m, "fanout") /\ Planned(m) /\ Filed(m)
  /\ Goto(m, "photo")
  /\ UNCHANGED <<task, jobs, stream, queue, lock, other, hub>>

\* lookupResponsibleAgency answers "none", or fails.
LookupFails(m) ==
  /\ At(m, "fanout") /\ Planned(m) /\ ~Filed(m)
  /\ \E out \in {"permanent", "transient"} : Outcome(m, out)
  /\ UNCHANGED <<task, jobs, stream, queue, lock, other, hub>>

WithTicket(m, st) ==
  [workers[m].mem EXCEPT ![Code(m)] = [NoTicket EXCEPT !.st = st]]

\* creation_pending: the intent is durable before the City hears of it.
SaveIntent(m) ==
  /\ At(m, "fanout") /\ Planned(m) /\ ~Filed(m)
  /\ Checkpoint(m, WithTicket(m, "pending"))
  /\ Becomes(m, [workers[m] EXCEPT !.pc = "send",
                                   !.mem = WithTicket(m, "pending")])
  /\ UNCHANGED <<task, stream, queue, other, hub>>

SendCreate(m) ==
  /\ At(m, "send")
  /\ hub' = [hub EXCEPT ![Code(m)].open = @ + 1]
  /\ Becomes(m, [workers[m] EXCEPT !.pc = "await", !.reply = "none"])
  /\ UNCHANGED <<task, jobs, stream, queue, lock, other>>

\* attachments_pending: the SR number is durable before any attachment.
Created(m) ==
  /\ At(m, "await") /\ workers[m].reply = "created"
  /\ Checkpoint(m, WithTicket(m, "filed"))
  /\ Becomes(m, [workers[m] EXCEPT !.pc = "photo", !.reply = "none",
                                   !.mem = WithTicket(m, "filed")])
  /\ UNCHANGED <<task, stream, queue, other, hub>>

\* isCreateSrRejection: the HUB answered and created nothing.
Rejected(m) ==
  /\ At(m, "await") /\ workers[m].reply = "rejected"
  /\ Checkpoint(m, WithTicket(m, "rejected"))
  /\ Becomes(m, [workers[m] EXCEPT !.pc = "record", !.reply = "none",
                                   !.mem = WithTicket(m, "rejected"),
                                   !.out = "rejected"])
  /\ UNCHANGED <<task, stream, queue, other, hub>>

\* Mutant of NoAnswer: a time-out is taken for a refusal.
TimeoutIsRefusal(m) ==
  /\ At(m, "await")
  /\ Checkpoint(m, WithTicket(m, "rejected"))
  /\ Becomes(m, [workers[m] EXCEPT !.pc = "record", !.reply = "none",
                                   !.mem = WithTicket(m, "rejected"),
                                   !.out = "rejected"])
  /\ UNCHANGED <<task, stream, queue, other, hub>>

\* A time-out, a 5xx, an answer without an SRNum, or a checkpoint that fails
\* after the answer: the pending intent stays.
NoAnswer(m) ==
  /\ At(m, "await")
  /\ Becomes(m, [workers[m] EXCEPT !.pc = "record", !.reply = "none",
                                   !.out = "transient"])
  /\ UNCHANGED <<task, jobs, stream, queue, lock, other, hub>>

\* On to the next service code, with these tickets in memory.
NextCode(m, tickets) ==
  Becomes(m, [workers[m] EXCEPT !.pc = "fanout", !.idx = @ + 1, !.mem = tickets])

\* No photo, or it is already with the City: on to the next service code.
PhotoDone(m) ==
  /\ At(m, "photo")
  /\ ~WithImage \/ workers[m].mem[Code(m)].img = "sent"
  /\ NextCode(m, workers[m].mem)
  /\ UNCHANGED <<task, jobs, stream, queue, lock, other, hub>>

WithPhoto(m, img) == [workers[m].mem EXCEPT ![Code(m)].img = img]

\* A photo that may have been sent is looked up in the City's feed and never
\* sent again; an unavailable feed leaves it pending.
ReconcilePhoto(m) ==
  /\ At(m, "photo") /\ WithImage
  /\ workers[m].mem[Code(m)].img = "pending"
  /\ \E img \in {"pending"} \union {i \in {"sent"} : hub[Code(m)].shown} :
       /\ Checkpoint(m, WithPhoto(m, img))
       /\ NextCode(m, WithPhoto(m, img))
  /\ UNCHANGED <<task, stream, queue, other, hub>>

\* create311MediaLink fails: nothing was sent.
PhotoLinkFails(m) ==
  /\ At(m, "photo") /\ WithImage
  /\ workers[m].mem[Code(m)].img = "none"
  /\ Checkpoint(m, workers[m].mem)
  /\ NextCode(m, workers[m].mem)
  /\ UNCHANGED <<task, stream, queue, other, hub>>

SavePhotoIntent(m) ==
  /\ At(m, "photo") /\ WithImage
  /\ workers[m].mem[Code(m)].img = "none"
  /\ Checkpoint(m, WithPhoto(m, "pending"))
  /\ Becomes(m, [workers[m] EXCEPT !.pc = "sendPhoto",
                                   !.mem = WithPhoto(m, "pending")])
  /\ UNCHANGED <<task, stream, queue, other, hub>>

SendPhoto(m) ==
  /\ At(m, "sendPhoto")
  /\ hub' = [hub EXCEPT ![Code(m)].photos = @ + 1]
  /\ Goto(m, "awaitPhoto")
  /\ UNCHANGED <<task, jobs, stream, queue, lock, other>>

PhotoAccepted(m) ==
  /\ At(m, "awaitPhoto") /\ hub[Code(m)].shown
  /\ Checkpoint(m, WithPhoto(m, "sent"))
  /\ NextCode(m, WithPhoto(m, "sent"))
  /\ UNCHANGED <<task, stream, queue, other, hub>>

\* Mutant of PhotoUnknown: an error means the photo was not sent.
PhotoForgotten(m) ==
  /\ At(m, "awaitPhoto")
  /\ Checkpoint(m, WithPhoto(m, "none"))
  /\ NextCode(m, WithPhoto(m, "none"))
  /\ UNCHANGED <<task, stream, queue, other, hub>>

\* Any error leaves the saved intent, with a reason.
PhotoUnknown(m) ==
  /\ At(m, "awaitPhoto")
  /\ Checkpoint(m, workers[m].mem)
  /\ NextCode(m, workers[m].mem)
  /\ UNCHANGED <<task, stream, queue, other, hub>>

\* A photo checkpoint cannot be written.  The error ends the action; for a
\* ticket of an earlier run (idx = 1 here) it also loses the tickets so far.
PhotoSaveFails(m) ==
  /\ "outage" \in Faults
  /\ workers[m].pc \in {"photo", "awaitPhoto"} /\ WithImage
  /\ Outcome(m, "transient") \/ FailPlan(m, "transient")
  /\ UNCHANGED <<task, jobs, stream, queue, lock, other, hub>>

\* Mutant of Conclude: tickets are enough, photos are not looked at.
ConcludeWithoutPhotos(m) ==
  /\ At(m, "fanout") /\ ~Planned(m)
  /\ Outcome(m, "filed")
  /\ UNCHANGED <<task, jobs, stream, queue, lock, other, hub>>

\* Every code has its ticket; an attachment that is not confirmed makes the
\* filing fail with attachment_submission_failed.
Conclude(m) ==
  /\ At(m, "fanout") /\ ~Planned(m)
  /\ Outcome(m, IF WithImage /\ \E c \in Codes : workers[m].mem[c].img # "sent"
                  THEN "transient" ELSE "filed")
  /\ UNCHANGED <<task, jobs, stream, queue, lock, other, hub>>

\* payload.tickets of the result executeAppActions returned: the codes done so
\* far, and the one the HUB just rejected.
Executed(m) ==
  [c \in Codes |->
     IF c < Code(m) \/ (c = Code(m) /\ workers[m].out = "rejected")
       THEN workers[m].mem[c] ELSE NoTicket]

Record(m) ==
  /\ At(m, "record")
  /\ LET next == MergeTickets(workers[m].mem, Executed(m)) IN
       /\ Checkpoint(m, next)
       /\ Becomes(m, [workers[m] EXCEPT !.pc = "reread", !.mem = next])
  /\ UNCHANGED <<task, stream, queue, other, hub>>

Reread(m) ==
  /\ At(m, "reread")
  /\ IF Waiting(task)
       THEN /\ Becomes(m, [workers[m] EXCEPT !.pc = "commit",
                                             !.prior = task.tickets])
            /\ UNCHANGED jobs
       ELSE FinishJob(m, "abandoned") /\ End(m, "ack")
  /\ UNCHANGED <<task, stream, queue, lock, other, hub>>

\* Worth another delivery: not permanent, not uncertain, and not the last.
Retry(m) ==
  /\ workers[m].out \in {"transient", "rejected"}
  /\ workers[m].attempt < MaxReceives

\* Mutant of MayCommit: the task's status is not part of the condition.
MayCommitAnyway(m) ==
  /\ lock.token = m
  /\ task.tickets = workers[m].prior

\* The final transaction's three conditions.
MayCommit(m) ==
  /\ lock.token = m
  /\ task.status = "in_progress" /\ task.action = "queued"
  /\ task.tickets = workers[m].prior

Commit(m) ==
  /\ At(m, "commit") /\ MayCommit(m)
  /\ LET filed == workers[m].out = "filed"
         retry == Retry(m)
         completes == filed /\ ~task.stays
     IN
       /\ task' = [task EXCEPT
            !.tickets = MergeTickets(@, Executed(m)),
            !.action = IF filed THEN "submitted"
                       ELSE IF retry THEN "queued" ELSE "failed",
            !.status = IF completes THEN "completed" ELSE @,
            !.method = IF completes THEN "311_filed" ELSE @]
       /\ jobs' = [jobs EXCEPT ![JobOf(m)] =
            [status |-> IF filed THEN "complete"
                        ELSE IF retry THEN "retry" ELSE "failed",
             tickets |-> Executed(m)]]
       /\ End(m, IF retry THEN "throw" ELSE "ack")
  /\ UNCHANGED <<stream, queue, lock, other, hub>>

CommitLost(m) ==
  /\ At(m, "commit") /\ ~MayCommit(m)
  /\ End(m, "throw")
  /\ UNCHANGED <<task, jobs, stream, queue, lock, other, hub>>

\* finally: REMOVE sf311Lease if it is still ours; an error here is swallowed.
Release(m) ==
  /\ At(m, "release")
  /\ \/ lock' = IF lock.token = m
                  THEN [lock EXCEPT !.token = NoOne, !.left = 0] ELSE lock
     \/ "outage" \in Faults /\ UNCHANGED lock
  /\ Goto(m, "settle")
  /\ UNCHANGED <<task, jobs, stream, queue, other, hub>>

\* An AWS call fails outside execute311Action, which catches its own errors.
Outage(m) ==
  /\ "outage" \in Faults
  /\ \/ /\ workers[m].pc \in {"start", "claim"}
        /\ Becomes(m, [workers[m] EXCEPT !.pc = "settle", !.end = "throw"])
     \/ /\ workers[m].pc \in {"read", "record", "reread", "commit"}
        /\ End(m, "throw")
  /\ UNCHANGED <<task, jobs, stream, queue, lock, other, hub>>

\* The invocation dies: a crash, or Lambda's time-out.  Its lease and its
\* message's visibility run on.
Die(m) ==
  /\ "crash" \in Faults /\ ~At(m, "idle")
  /\ Becomes(m, IdleWorker)
  /\ UNCHANGED <<task, jobs, stream, queue, lock, other, hub>>

WorkerStep(m) ==
  \/ Start(m) \/ Claim(m) \/ Contended(m) \/ ReadTask(m)
  \/ RefuseUncertain(m) \/ PlanFails(m) \/ PlanReady(m)
  \/ Resume(m) \/ LookupFails(m) \/ SaveIntent(m) \/ SendCreate(m)
  \/ Created(m) \/ Rejected(m) \/ NoAnswer(m)
  \/ PhotoDone(m) \/ ReconcilePhoto(m) \/ PhotoLinkFails(m)
  \/ SavePhotoIntent(m) \/ SendPhoto(m) \/ PhotoAccepted(m) \/ PhotoUnknown(m)
  \/ Conclude(m) \/ Record(m) \/ Reread(m) \/ Commit(m) \/ CommitLost(m)
  \/ Release(m) \/ Settle(m)

WorkerFault(m) == PhotoSaveFails(m) \/ Outage(m) \/ Die(m)

-----------------------------------------------------------------------------
(* A silent job or a City note of the same task: it takes the same lease.   *)

OtherClaims ==
  /\ "contention" \in Faults /\ ~other.live /\ LeaseFree
  /\ lock' = [lock EXCEPT !.token = Other, !.left = LeaseTime]
  /\ other' = [live |-> TRUE, left |-> MaxRuntime]
  /\ UNCHANGED <<task, jobs, stream, queue, workers, hub>>

OtherEnds ==
  /\ other.live
  /\ other' = [live |-> FALSE, left |-> 0]
  /\ \/ lock' = [lock EXCEPT !.token = NoOne, !.left = 0]
     \/ "crash" \in Faults /\ UNCHANGED lock
  /\ UNCHANGED <<task, jobs, stream, queue, workers, hub>>

-----------------------------------------------------------------------------
(* The HUB (external).  It processes a request when it pleases; the worker  *)
(* that waits may hear of it, or may have timed out or died.                *)

HubAnswers(m) ==
  LET c == Code(m) IN
  /\ At(m, "await") /\ workers[m].reply = "none" /\ hub[c].open > 0
  /\ \/ /\ hub' = [hub EXCEPT ![c].open = @ - 1, ![c].srs = @ + 1]
        /\ Becomes(m, [workers[m] EXCEPT !.reply = "created"])
     \/ /\ hub' = [hub EXCEPT ![c].open = @ - 1]
        /\ Becomes(m, [workers[m] EXCEPT !.reply = "rejected"])
  /\ UNCHANGED <<task, jobs, stream, queue, lock, other>>

HubAlone(c) ==
  /\ \/ /\ hub[c].open > 0
        /\ \/ hub' = [hub EXCEPT ![c].open = @ - 1, ![c].srs = @ + 1]
           \/ hub' = [hub EXCEPT ![c].open = @ - 1]
     \/ /\ hub[c].photos > 0 /\ ~hub[c].shown
        /\ hub' = [hub EXCEPT ![c].shown = TRUE]
  /\ UNCHANGED <<task, jobs, stream, queue, workers, lock, other>>

-----------------------------------------------------------------------------
(* Time.  Lambda lets no invocation outlive its runtime.                    *)

Running(m) == ~At(m, "idle")

Tick ==
  /\ \A m \in Messages : Running(m) => workers[m].left > 0
  /\ other.live => other.left > 0
  /\ \/ lock.token # NoOne /\ lock.left >= 0
     \/ \E m \in Messages : queue[m].delay > 0
  /\ lock' = IF lock.token # NoOne /\ lock.left >= 0
               THEN [lock EXCEPT !.left = @ - 1] ELSE lock
  /\ workers' = [m \in Messages |->
       IF Running(m) THEN [workers[m] EXCEPT !.left = @ - 1] ELSE workers[m]]
  /\ other' = IF other.live THEN [other EXCEPT !.left = @ - 1] ELSE other
  /\ queue' = [m \in Messages |->
       IF queue[m].delay > 0 THEN [queue[m] EXCEPT !.delay = @ - 1]
                             ELSE queue[m]]
  /\ UNCHANGED <<task, jobs, stream, hub>>

-----------------------------------------------------------------------------

Next ==
  \/ \E j \in Jobs :
       \/ Tap(j) \/ Requeue(j)
       \/ DispatchRead(j) \/ DispatchMark(j) \/ DispatchFail(j)
       \/ \E m \in Messages : DispatchSend(j, m)
  \/ ResolveTask \/ ReopenTask
  \/ \E m \in Messages :
       Receive(m) \/ DeadLetter(m) \/ WorkerStep(m) \/ WorkerFault(m)
       \/ HubAnswers(m)
  \/ OtherClaims \/ OtherEnds
  \/ \E c \in Codes : HubAlone(c)
  \/ Tick

Spec == Init /\ [][Next]_vars

\* SQS, the stream and Lambda keep delivering and running; users, the HUB and
\* faults owe nothing.  A HUB call ends by the client's own time-out (NoAnswer,
\* PhotoUnknown), so a worker's step is always possible.
Fairness ==
  /\ \A m \in Messages : /\ WF_vars(WorkerStep(m))
                         /\ WF_vars(Receive(m)) /\ WF_vars(DeadLetter(m))
  /\ \A j \in Jobs : /\ WF_vars(DispatchRead(j)) /\ WF_vars(DispatchMark(j))
                     /\ WF_vars(\E m \in Messages : DispatchSend(j, m))
  /\ WF_vars(Tick)

FairSpec == Spec /\ Fairness
-----------------------------------------------------------------------------
(* Properties *)

\* The City never holds two requests of one filing for one service that are, or
\* may still become, a ticket: whatever is redelivered, retried by a tap, lost
\* or answered late (the creation_pending intent of execute311Action).
AtMostOneTicket == \A c \in Codes : hub[c].open + hub[c].srs <= 1

\* What the City makes of the request for each service; OneRequest knows no
\* "several".
Requested ==
  [c \in Codes |-> IF hub[c].open + hub[c].srs > 1 THEN "several"
                   ELSE IF hub[c].srs > 0 THEN "accepted"
                   ELSE IF hub[c].open > 0 THEN "asked" ELSE "nothing"]

Abstract == INSTANCE OneRequest WITH Items <- Codes, city <- Requested

\* Sf311Filing implements OneRequest: service by service it asks again only after
\* a refusal ("never blindly repeated"), and never for a second one at a time.
OneRequestPerService == Abstract!Spec

\* Whatever the City may have is on the lock row, as a ticket or as an intent
\* an operator can reconcile: a crash or a lost answer hides nothing.
CityWorkIsRecorded ==
  \A c \in Codes : hub[c].open + hub[c].srs > 0
                      => lock.tickets[c].st \in {"pending", "filed"}

Holders == {m \in Messages : workers[m].pc \in Locked}

\* One invocation at a time works on a task's 311 business, although leases
\* expire by the clock and holders die without giving them back.
LeaseExclusive ==
  /\ \A m, n \in Holders : m = n
  /\ other.live => Holders = {}

\* A task shown as filed is filed: every planned service has its ticket, known
\* to the task, and the photo reached the City with each.
FiledMeansCityHasAll ==
  task.action = "submitted" =>
    \A c \in Codes : /\ hub[c].srs = 1 /\ task.tickets[c].st = "filed"
                     /\ WithImage => hub[c].shown

\* No photo is sent twice for a ticket ("must never cause a blind resend").
ImageSentAtMostOnce == \A c \in Codes : hub[c].photos <= 1

\* A ticket number once checkpointed on the lock row stays there, through failed
\* attempts, failed plans and later jobs.
LockKeepsTicketNumbers ==
  [][\A c \in Codes : lock.tickets[c].st = "filed"
                         => lock'.tickets[c].st = "filed"]_vars

\* A resolution by the site team is final: no filing that was in flight changes
\* the task afterwards.
UserResolutionStands == [][task.method = "site_team_resolved" => task' = task]_vars

\* The user waits for a queued filing only so long: it is filed, failed, or the
\* user moves the task on.
QueuedSettles == Waiting(task) ~> ~Waiting(task)
=============================================================================
