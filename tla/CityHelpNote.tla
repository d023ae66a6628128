------------------------------ MODULE CityHelpNote ------------------------------
(***************************************************************************)
(* The "City help is no longer needed" note of one task update.            *)
(*                                                                         *)
(* The update row is its delivery record (cityNoteStatus and a 60-second   *)
(* lease).  Senders compete for it:                                        *)
(*   Requests    API requests that deliver inline: the one that saved the  *)
(*               update and the client's retries of it                     *)
(*   Deliveries  SQS messages of the note's job (queued notes); they work  *)
(*               under the task's SF311_LOCK, so one at a time (Sf311Filing *)
(*               shows it), with MaxReceives deliveries each               *)
(* Both kinds meet while GNP_311_ASYNC_FILING is being switched.           *)
(*                                                                         *)
(* Nothing here relies on how long a lease lasts, so it may run out at any *)
(* moment.  The City answers late, never, or to nobody.                    *)
(***************************************************************************)
EXTENDS Naturals, FiniteSets

CONSTANTS
  Requests,      \* inline deliveries
  Deliveries,    \* messages of the note's job
  MaxReceives,   \* MAX_FILING_ATTEMPTS
  Silent,        \* the note's ticket belongs to a silent workflow
  Faults         \* which of FaultKinds may happen

FaultKinds == {"crash", "outage", "contention"}
Senders == Requests \union Deliveries

ASSUME SendersAssumption == Requests \intersect Deliveries = {}
ASSUME ReceivesAssumption == MaxReceives \in Nat \ {0}
ASSUME FlagAssumption == Silent \in BOOLEAN /\ Faults \subseteq FaultKinds

NoOne == "no one"
ASSUME NamesAssumption == NoOne \notin Senders

VARIABLES
  note,      \* cityNoteStatus; whose lease it carries; has that run out
  job,       \* the SF311_JOB row: status and failureReason
  allowed,   \* the silent-workflow control still admits this task
  senders,   \* the invocation of each sender
  receives,  \* deliveries used, per message
  city       \* the HUB: requests it has not decided on, notes it has

vars == <<note, job, allowed, senders, receives, city>>

Settled == {"sent", "suppressed", "failed"}
Statuses == {"pending", "sending", "unknown"} \union Settled

\* Where an invocation stands; the comment names the await it is about to make.
PCs ==
  {"idle",
   "lock",      \* a job's message, its row read: the task's SF311_LOCK
   "start",     \* the update
   "control",   \* the task, and for a silent ticket the silent-workflow control
   "suppress",  \* suppressCityHelpNote's conditional update
   "claim",     \* the claim, after the configuration reads
   "feed",      \* getLatestUpdatesBySourceAgency
   "send",      \* updateServiceRequest
   "await",     \* ... its answer
   "save",      \* state(verdict)
   "save again",\* state("unknown") after state("sent") failed
   "finish",    \* a job's bookkeeping, by how delivery went
   "give up",   \* mark a note failed that was never sent
   "close"}     \* finishJob("failed", reason)

SenderType ==
  [pc : PCs,
   prior : Statuses,                \* update.cityNoteStatus in memory
   lease : Senders \union {NoOne},  \* the lease it read
   verdict : Statuses,              \* the status to save
   settled : BOOLEAN]               \* what deliverCityHelpNote returned

Idle == [pc |-> "idle", prior |-> "pending", lease |-> NoOne,
         verdict |-> "unknown", settled |-> FALSE]

JobStatus == {"pending", "complete", "failed"}
Reasons == {"none", "note_rejected", "note_not_sent", "note_delivery_unknown"}

TypeOK ==
  /\ note \in [status : Statuses, lease : Senders \union {NoOne}, live : BOOLEAN]
  /\ job \in [status : JobStatus, reason : Reasons]
  /\ allowed \in BOOLEAN
  /\ senders \in [Senders -> SenderType]
  /\ receives \in [Senders -> 0..MaxReceives]
  /\ city \in [open : Nat, notes : Nat]

Init ==
  /\ note = [status |-> "pending", lease |-> NoOne, live |-> FALSE]
  /\ job = [status |-> "pending", reason |-> "none"]
  /\ allowed = TRUE
  /\ senders = [s \in Senders |-> Idle]
  /\ receives = [s \in Senders |-> 0]
  /\ city = [open |-> 0, notes |-> 0]

-----------------------------------------------------------------------------
(* A delivery from its start to its claim *)

At(s, pc) == senders[s].pc = pc
Becomes(s, w) == senders' = [senders EXCEPT ![s] = w]

\* deliverCityHelpNote returns: a request is over, a job does its bookkeeping.
Return(s, settled, w) ==
  Becomes(s, IF s \in Deliveries
               THEN [w EXCEPT !.pc = "finish", !.settled = settled] ELSE Idle)

\* Mutant of Arrive: a message outlives its deliveries.
ArriveForever(s) ==
  /\ At(s, "idle")
  /\ s \in Deliveries => job.status = "pending"
  /\ receives' = [receives EXCEPT ![s] = @ + 1]
  /\ Becomes(s, [Idle EXCEPT !.pc = IF s \in Deliveries THEN "lock" ELSE "start"])
  /\ UNCHANGED <<note, job, allowed, city>>

\* A request arrives, or a message of a job that is still pending.
Arrive(s) ==
  /\ At(s, "idle") /\ receives[s] < MaxReceives
  /\ s \in Deliveries => job.status = "pending"
  /\ receives' = [receives EXCEPT ![s] = @ + 1]
  /\ Becomes(s, [Idle EXCEPT !.pc = IF s \in Deliveries THEN "lock" ELSE "start"])
  /\ UNCHANGED <<note, job, allowed, city>>

LockIsFree == \A d \in Deliveries : senders[d].pc \in {"idle", "lock"}

TakeLock(s) ==
  /\ At(s, "lock") /\ LockIsFree
  /\ Becomes(s, [Idle EXCEPT !.pc = "start"])
  /\ UNCHANGED <<note, job, allowed, receives, city>>

\* Another message of this job has the lock, or another job of the task.
LockTaken(s) ==
  /\ At(s, "lock") /\ (LockIsFree => "contention" \in Faults)
  /\ Becomes(s, Idle)
  /\ UNCHANGED <<note, job, allowed, receives, city>>

ReadUpdate(s) ==
  LET w == [senders[s] EXCEPT !.prior = note.status, !.lease = note.lease] IN
  /\ At(s, "start")
  /\ IF note.status \in Settled
       THEN Return(s, note.status # "failed", w)
       ELSE Becomes(s, [w EXCEPT !.pc = "control"])
  /\ UNCHANGED <<note, job, allowed, receives, city>>

\* The lease that was read may be running: nobody can tell once it is replaced.
MayRun(s) == senders[s].lease # NoOne /\ (note.lease = senders[s].lease => note.live)
MayBeOver(s) == senders[s].lease = NoOne \/ note.lease # senders[s].lease \/ ~note.live

\* Another sender is at work (leave it), or go on: to suppress the note of a
\* silent workflow that is no longer admitted, else to claim it.
ReadControl(s) ==
  /\ At(s, "control")
  /\ \/ MayRun(s) /\ Return(s, FALSE, senders[s])
     \/ /\ MayBeOver(s)
        /\ Becomes(s, [senders[s] EXCEPT !.pc =
                          IF Silent /\ ~allowed THEN "suppress" ELSE "claim"])
  /\ UNCHANGED <<note, job, allowed, receives, city>>

\* The row is still as this sender read it, and nobody's lease is running.
AsRead(s) == note.status = senders[s].prior /\ (note.lease = NoOne \/ ~note.live)

\* Only unclaimed work, or the expired lease that was read.
Suppress(s) ==
  /\ At(s, "suppress")
  /\ IF AsRead(s) /\ note.lease = senders[s].lease
       THEN /\ note' = [status |-> "suppressed", lease |-> NoOne, live |-> FALSE]
            /\ Return(s, TRUE, [senders[s] EXCEPT !.prior = "suppressed"])
       ELSE UNCHANGED note /\ Return(s, FALSE, senders[s])
  /\ UNCHANGED <<job, allowed, receives, city>>

\* Mutant of Claim: an attempt that ran out of time is sent again.
ClaimAndSend(s) ==
  /\ At(s, "claim") /\ AsRead(s)
  /\ note' = [status |-> "sending", lease |-> s, live |-> TRUE]
  /\ Becomes(s, [senders[s] EXCEPT
                   !.pc = IF senders[s].prior = "unknown" THEN "feed" ELSE "send"])
  /\ UNCHANGED <<job, allowed, receives, city>>

\* An exclusive claim: a note that may have been sent is only looked up.
Claim(s) ==
  /\ At(s, "claim") /\ AsRead(s)
  /\ note' = [status |-> "sending", lease |-> s, live |-> TRUE]
  /\ Becomes(s, [senders[s] EXCEPT
                   !.pc = IF senders[s].prior = "pending" THEN "send" ELSE "feed"])
  /\ UNCHANGED <<job, allowed, receives, city>>

\* The claim is lost, or the configuration cannot be read.
NoClaim(s) ==
  /\ At(s, "claim") /\ (AsRead(s) => "outage" \in Faults)
  /\ Return(s, FALSE, senders[s])
  /\ UNCHANGED <<note, job, allowed, receives, city>>

-----------------------------------------------------------------------------
(* The City *)

Decide(s, verdict) ==
  Becomes(s, [senders[s] EXCEPT !.pc = "save", !.verdict = verdict])

\* fetchSf311 asks the control again before every call.
Forbidden(s) ==
  /\ senders[s].pc \in {"feed", "send"} /\ Silent /\ ~allowed
  /\ Decide(s, "suppressed")
  /\ UNCHANGED <<note, job, allowed, receives, city>>

\* The feed shows the note; or it does not (yet), or fails.
LookUp(s) ==
  /\ At(s, "feed") /\ (Silent => allowed)
  /\ \E verdict \in {"unknown"} \union {v \in {"sent"} : city.notes > 0} :
       Decide(s, verdict)
  /\ UNCHANGED <<note, job, allowed, receives, city>>

Send(s) ==
  /\ At(s, "send") /\ (Silent => allowed)
  /\ city' = [city EXCEPT !.open = @ + 1]
  /\ Becomes(s, [senders[s] EXCEPT !.pc = "await"])
  /\ UNCHANGED <<note, job, allowed, receives>>

Accepted(s) ==
  /\ At(s, "await") /\ city.open > 0
  /\ city' = [city EXCEPT !.open = @ - 1, !.notes = @ + 1]
  /\ Decide(s, "sent")
  /\ UNCHANGED <<note, job, allowed, receives>>

\* An explicit validation code: the HUB did not take the note.  Only a queued
\* job makes that final (failOnRejection).
Rejected(s) ==
  /\ At(s, "await") /\ city.open > 0
  /\ city' = [city EXCEPT !.open = @ - 1]
  /\ Decide(s, IF s \in Deliveries THEN "failed" ELSE "pending")
  /\ UNCHANGED <<note, job, allowed, receives>>

\* Mutant of NoAnswer: an error means the note was not sent.
TimeoutIsUnsent(s) ==
  /\ At(s, "await")
  /\ Decide(s, "pending")
  /\ UNCHANGED <<note, job, allowed, receives, city>>

\* A time-out, a 5xx, an answer without an update id; or the request is not
\* made because the secret or the control cannot be read.
NoAnswer(s) ==
  /\ At(s, "await") \/ (At(s, "send") /\ "outage" \in Faults)
  /\ Decide(s, "unknown")
  /\ UNCHANGED <<note, job, allowed, receives, city>>

\* The HUB decides on a request nobody waits for any more.
CityAlone ==
  /\ city.open > 0
  /\ \/ city' = [city EXCEPT !.open = @ - 1, !.notes = @ + 1]
     \/ city' = [city EXCEPT !.open = @ - 1]
  /\ UNCHANGED <<note, job, allowed, senders, receives>>

-----------------------------------------------------------------------------
(* Saving the verdict, and a job's bookkeeping *)

\* state()'s condition: still sending, and under this sender's lease.
Owns(s) == note.status = "sending" /\ note.lease = s

Write(s, status) ==
  /\ Owns(s)
  /\ note' = [status |-> status, lease |-> NoOne, live |-> FALSE]
  /\ Return(s, status \in {"sent", "suppressed"},
            [senders[s] EXCEPT !.prior = status])

Save(s) ==
  /\ At(s, "save") /\ Write(s, senders[s].verdict)
  /\ UNCHANGED <<job, allowed, receives, city>>

\* The write fails.  The handler that catches it makes the row unknown; but an
\* error it was already handling is only logged (the look-up or the send had
\* failed), and a failure to suppress is thrown.
SaveFails(s) ==
  LET w == senders[s] IN
  /\ At(s, "save") /\ (Owns(s) => "outage" \in Faults)
  /\ \/ /\ w.verdict = "sent" \/ (w.verdict = "unknown" /\ w.prior # "pending")
        /\ Becomes(s, [w EXCEPT !.pc = "save again"])
     \/ w.verdict \in {"unknown", "pending", "failed"} /\ Return(s, FALSE, w)
     \/ w.verdict = "suppressed" /\ Becomes(s, Idle)
  /\ UNCHANGED <<note, job, allowed, receives, city>>

SaveAgain(s) ==
  /\ At(s, "save again")
  /\ \/ Write(s, "unknown")
     \/ /\ Owns(s) => "outage" \in Faults
        /\ UNCHANGED note /\ Return(s, FALSE, senders[s])
  /\ UNCHANGED <<job, allowed, receives, city>>

FinishJob(s, status, reason) ==
  /\ job' = [status |-> status, reason |-> reason]
  /\ Becomes(s, Idle)

\* Mutant of Finish: one delivery more is expected than SQS makes.
FinishOffByOne(s) ==
  LET w == senders[s] IN
  /\ At(s, "finish")
  /\ \/ w.settled /\ FinishJob(s, "complete", "none")
     \/ ~w.settled /\ w.prior = "failed" /\ FinishJob(s, "failed", "note_rejected")
     \/ ~w.settled /\ w.prior # "failed" /\ UNCHANGED job /\ Becomes(s, Idle)
  /\ UNCHANGED <<note, allowed, receives, city>>

\* Mutant of Finish: a delivery that was not confirmed completes the job.
FinishAnyway(s) ==
  /\ At(s, "finish")
  /\ IF senders[s].prior = "failed" THEN FinishJob(s, "failed", "note_rejected")
                                    ELSE FinishJob(s, "complete", "none")
  /\ UNCHANGED <<note, allowed, receives, city>>

\* sendQueuedCityNote: settled; refused; to be tried again; or given up.
Finish(s) ==
  LET w == senders[s] IN
  /\ At(s, "finish")
  /\ \/ w.settled /\ FinishJob(s, "complete", "none")
     \/ ~w.settled /\ w.prior = "failed" /\ FinishJob(s, "failed", "note_rejected")
     \/ /\ ~w.settled /\ w.prior # "failed" /\ UNCHANGED job
        /\ Becomes(s, IF receives[s] < MaxReceives THEN Idle
                      ELSE [w EXCEPT !.pc = IF w.prior = "pending"
                                              THEN "give up" ELSE "close"])
  /\ UNCHANGED <<note, allowed, receives, city>>

\* Mutant of GiveUp: the condition is gone.
GiveUpAnyway(s) ==
  /\ At(s, "give up")
  /\ note' = [status |-> "failed", lease |-> NoOne, live |-> FALSE]
  /\ Becomes(s, [senders[s] EXCEPT !.pc = "close"])
  /\ UNCHANGED <<job, allowed, receives, city>>

\* "Only a note no attempt ever sent is safe to call failed."
GiveUp(s) ==
  /\ At(s, "give up")
  /\ note' = IF note.status = "pending" /\ note.lease = NoOne
               THEN [note EXCEPT !.status = "failed"] ELSE note
  /\ Becomes(s, [senders[s] EXCEPT !.pc = "close"])
  /\ UNCHANGED <<job, allowed, receives, city>>

Close(s) ==
  /\ At(s, "close")
  /\ FinishJob(s, "failed", IF senders[s].prior = "pending"
                              THEN "note_not_sent" ELSE "note_delivery_unknown")
  /\ UNCHANGED <<note, allowed, receives, city>>

-----------------------------------------------------------------------------

\* The invocation dies, or an AWS call fails where nothing catches it.
Die(s) ==
  /\ \/ "crash" \in Faults /\ ~At(s, "idle")
     \/ /\ "outage" \in Faults
        /\ senders[s].pc \in {"lock", "start", "control", "suppress",
                             "finish", "give up", "close"}
  /\ Becomes(s, Idle)
  /\ UNCHANGED <<note, job, allowed, receives, city>>

\* 60 seconds pass.
LeaseRunsOut ==
  /\ note.live
  /\ note' = [note EXCEPT !.live = FALSE]
  /\ UNCHANGED <<job, allowed, senders, receives, city>>

\* An operator turns silent workflows off; a new epoch never admits this task.
Disable ==
  /\ Silent /\ allowed
  /\ allowed' = FALSE
  /\ UNCHANGED <<note, job, senders, receives, city>>

\* What a sender does of its own accord; it need not wait for the City for ever.
SenderStep(s) ==
  \/ TakeLock(s) \/ LockTaken(s) \/ ReadUpdate(s) \/ ReadControl(s)
  \/ Suppress(s) \/ Claim(s) \/ NoClaim(s)
  \/ Forbidden(s) \/ LookUp(s) \/ Send(s) \/ NoAnswer(s)
  \/ Save(s) \/ SaveFails(s) \/ SaveAgain(s)
  \/ Finish(s) \/ GiveUp(s) \/ Close(s)

Next ==
  \/ \E s \in Senders :
       \/ Arrive(s) \/ SenderStep(s) \/ Accepted(s) \/ Rejected(s) \/ Die(s)
  \/ CityAlone \/ LeaseRunsOut \/ Disable

Spec == Init /\ [][Next]_vars

\* SQS delivers until a message has had its deliveries, and Lambda runs what it
\* starts: each HTTP call has its time-out.
Fairness ==
  /\ WF_vars(\E d \in Deliveries : Arrive(d))
  /\ \A s \in Senders : WF_vars(SenderStep(s))

FairSpec == Spec /\ Fairness

-----------------------------------------------------------------------------
(* Properties *)

\* The City gets the note once, whatever crashes, times out, is retried or runs
\* out of lease: a second request is made only after the first was refused.
Requested ==
  [n \in {"note"} |-> IF city.open + city.notes > 1 THEN "several"
                      ELSE IF city.notes > 0 THEN "accepted"
                      ELSE IF city.open > 0 THEN "asked" ELSE "nothing"]

Abstract == INSTANCE OneRequest WITH Items <- {"note"}, city <- Requested

\* CityHelpNote implements OneRequest (deliverCityHelpNote's "reconciled, never
\* blindly repeated").
NoteReachesCityOnce == Abstract!Spec

\* cityNoteStatus is true where the app acts on it: the City has a note that is
\* "sent", and has none of, and none under way for, a note that is "pending"
\* (to be sent by the next try) or "failed" (an operator may send it again).
StatusIsTrue ==
  /\ note.status = "sent" => city.notes = 1
  /\ note.status \in {"pending", "failed"} => city.open + city.notes = 0

\* A late sender never overwrites a verdict another one reached.
SettledStays == [][note.status \in Settled => note' = note]_vars

\* A finished job answers for its note: complete only if that is sent or
\* suppressed, "rejected" only if it has failed for good (finishJob is
\* unconditional, and a job has several messages).
JobAnswersForNote ==
  /\ job.status = "complete" => note.status \in {"sent", "suppressed"}
  /\ job.reason = "note_rejected" => note.status = "failed"

\* A queued job ends, delivered or given up, before SQS gives its message up.
JobEnds == job.status = "pending" ~> job.status # "pending"
=============================================================================
