# Formal models of the Good Neighbor backend

The app's field devices capture evidence, the backend turns it into tasks, and some
tasks end at the City: a 311 ticket, a note on a ticket. That work outlives the
request that starts it. It runs over DynamoDB rows, an S3 bucket, SQS messages that
arrive more than once, Lambda invocations that die, and a City system (the HUB) whose
answers get lost. The unit tests of the repository drive each handler through one order
of events; the modules here explore the others.

Paths are relative to `src/backend/src/` unless they say otherwise.

## 1. Inventory

Every component, in PROJECT.json too. The *hard* column says what a test hardly reaches.

| Component | State it keeps | Operations | Hard |
|---|---|---|---|
| **311 filing** (`analysis/guidance/sf311-filing-queue.js`, `workers/sf311-job.js`, `analysis/guidance/app-actions.js`) | task row, `SF311_JOB` rows, `SF311_LOCK` row (lease and ticket checkpoints) | tap, retry tap, dispatch, deliver, file, attach photo, commit | duplicate deliveries, leases that expire, lost HUB answers, partial fan-out, last delivery |
| **City help notes** (`task-updates/city-help-note.js`, `handlers/task-updates.js`, `sendQueuedCityNote` in `workers/sf311-job.js`) | `cityNoteStatus` and a 60 s lease on the update row, the note's job row | deliver inline, deliver from the queue, suppress, reconcile, give up | two kinds of sender, a lease shorter than a delivery, verdicts that cannot be saved |
| **Public complaints** (`handlers/complaints.js`, `workers/analyze-complaint.js`) | complaint header, artifact rows, objects and their tags | presign, upload, register, submit, retry, delete, delete a file, analyse | S3 and DynamoDB without a common transaction, late workers, replayed calls |
| Stream outbox dispatcher (`workers/dispatch-revocation-outbox.js`) | `dispatched` marks | read, send, mark | at-least-once; the mark races the worker |
| **Automatic 311 tickets** (`runJob`, `closeAutomaticTicket` and `retractEvidenceTasks` with `workers/sf311-job.js`; `domain/silent-311*.js`) | task results, jobs, lock row, control row | file, close, withdraw | a ticket filed before, during or after what makes it superfluous; a control turned off between check and call |
| **Inline completion and supersession** (`analysis/guidance/guidance-store.js`, `handlers/tasks.js`) | task row, completion lease | claim, run app actions, complete, supersede, record, resolve | whole-row Puts of a stale read; no intent checkpoint |
| 311 client and media (`integrations/sf311-*.js`) | none | create, update, look up | what an error says about the City |
| **Session refresh and rotation** (`lib/refresh-recovery.js`, `lib/device-*.js`, `handlers/session-handoff.js`, `device-bindings.js`) | device row with its primary session and session slots, one recovery receipt each, hand-off grants | rotate, recover, select, sign out, hand off, register, revoke | lost answers, two tabs, sign-out or revocation in between |
| **Checks, artifacts, uploads** (`handlers/checks.js`, `artifacts.js`, `upload-reservations.js`, with the client's `services/submit-check.js` and `api.js`) | check header, `ART#`, reservations, mappings, quota, objects and tags, deletion markers | create, presign, upload, register, restart, delete, complete | repeated calls on another day, deletion against registration, completion against a late analysis |
| **Evidence analysis worker** (`workers/analyze-artifact.js`, `analysis/artifact-recovery.js`) | `ANALYSIS#` items, the row's claim and generation | claim, analyse, publish, give up | duplicates, runs of an earlier generation |
| Guidance evaluation (`analysis/guidance/`) | `ASSESSMENT#`, `COND#`, `TASK#` | evaluate, answer | a large data-driven catalog |
| Duplicate detection (`analysis/duplicates/`, `lambda/duplicate-*.js`) | job rows, links | dispatch, compare, link, unlink | links to what is deleted meanwhile |
| Enrollment and setup codes (`handlers/enrollment*.js`, `setup-codes.js`) | code rows, attempt counters | issue, redeem | concurrent redemption, counter windows |
| Device and site revocation (`handlers/admin-*-revocation.js`, `workers/reconcile-site-revocation.js`) | outbox rows, device rows | revoke, reconcile in batches | enrollments under way |
| Compliance letters (`workers/*compliance*.js`) | letter rows, terms | generate, deliver, expire | mail sent twice or never |
| Administration, care work, translation, thumbnails, support, analytics | records | one call each | little |
| Admin frontend, infrastructure, e2e | | | the field frontend is modelled where it drives a protocol: its checkpoints and its token store |

How they interact: an API handler writes rows in one transaction; the DynamoDB stream
starts the dispatcher, which sends an SQS message; a worker takes a lease on the task's
`SF311_LOCK` row and calls the HUB. Filings, closures, silent jobs and notes of one task
share that lock row; completions, supersessions and updates of the task do not take it, and
meet the worker only in the conditions of its writes. A check's registrations send the
analysis messages; deleting a photo withdraws the tasks it led to. Complaints and sessions
share nothing with tasks but the table.

What makes the modelled ones correct:

- filing: the City is never asked twice for one service; whatever it has is on record; one
  invocation at a time; a resolved task stays as it is; a queued filing ends;
- notes: the City gets a note at most once; the status on the row is true; verdicts are final;
  the job answers for its note and ends;
- complaints: a late result never replaces a later one; a counted file is there; no row goes
  before its object; an analysis ends;
- automatic tickets and completion: one ticket whoever files it; none for a withdrawn task; one
  outcome per row; results that a stale Put removed come back; a superfluous ticket is closed;
- sessions: a token has one successor; who keeps a token can go on; ended tokens stay ended; a
  grant makes one slot, while its browser session lives;
- checks: one reservation and one piece of evidence per photo; a row shows its own generation's
  result; deleted evidence stays out; the frozen scorecard is whole; a finished check is scored.

## 2. Modules

| Module | Models | Uses |
|---|---|---|
| `Sf311Results` | a filing's tickets per service code, and `mergeBackgroundResult` on them | |
| `Sf311Filing` | one task's filings, from the tap to the City | `Sf311Results`; implements `OneRequest` |
| `CityHelpNote` | one note's delivery, inline and queued | implements `OneRequest` |
| `OneRequest` | the promise to the City: one request at a time per item, another only after a refusal, none once accepted | |
| `Complaint` | one complaint: header, files, media, calls, analysis worker | |
| `TaskRow` | one task that files its own ticket: its jobs and everyone else who writes its row | |
| `DeviceSession` | one device's sessions, its calls and its containers' stores | |
| `CheckEvidence` | one check from capture to scorecard: client, calls, worker, nights | |
| `MC*` | symmetry sets for TLC | |
| `*Proofs` | theorems for all values of the constants (for `Sf311Filing` in two modules: `Sf311FiledProofs` extends `Sf311FilingProofs`) | TLAPS, library theorems on finite sets |

In all of them an action is what the code does between two awaits, with the conditions
the code repeats in its conditional writes, and a worker or call is a record whose `pc`
names the await it is about to make.

### Sf311Filing

| Variable | Code |
|---|---|
| `task` | the `TASK#` row: `status`, `inProgressActionKind`, `appActionStatus`, `completionMethod`, `appActionResults`, `canBeInProgress` |
| `jobs` | the `SF311_JOB#` rows: `status`, `results` |
| `stream` | where the dispatcher stands with a job's stream record |
| `queue` | SQS: queued, acknowledged, dead-lettered; receives; hidden for how long |
| `workers` | the invocation on each message: `runJob` and `fileUserConfirmed` |
| `lock` | the `SF311_LOCK` row: `sf311Lease`, its expiry, `results` |
| `other` | an invocation of another job of the task, which takes the same lease |
| `hub` | the City per service code: open requests, tickets, photos sent, photo shown |

`Tap`/`Requeue` are `queue311Filing`; `Dispatch*` the stream handler; `Claim` to `Release`
one run of `runJob`, with the fan-out of `execute311Action` and
`attachImagesToServiceRequest` between; `Hub*` is the City, which decides whenever it
likes, also after the caller is gone. Time is in ticks and only where the code depends on it:
the lease (360 s) outlives the Lambda (300 s), the message is hidden longer (1800 s). These
are the assumptions `LeaseOutlivesRun` and `HiddenWhileRunning`, with the code's and the
Terraform's order but not their values.
Abstracted: wording, addresses, service-code lookup (it succeeds or fails), one photo, the
delay computed for a retry (a delivery may be late anyway).

### CityHelpNote

`note` is the update row, `job` its job row, `allowed` the silent-workflow control as it
concerns this task, `senders` the invocations (`Requests` deliver inline, `Deliveries` are SQS
messages under the task's lock), `receives` the deliveries used, `city` the HUB. The lease is
named by its sender and may run out at any moment, which is weaker than 60 seconds and
needs no clock. "outage" makes an AWS call fail without effect. A `Die` frees the task's lock at once
(Sf311Filing models the wait for its lease). The update row always exists; simulated tickets,
`SUBMISSION_ENABLED=false` and the job's `abandoned` branch are left out. `MaxReceives` also
bounds the retries of a request.

### Complaint

`header`, `rows`, `media` are the `COMPLAINT#` row, the `ART#` rows and the objects with their
`state` tag; `calls` the API calls in flight, each a sequence of conditional writes with what it
has read (`arts`) and what is left to do (`todo`); `queue` and `workers` the analysis;
`deleted` and `overtaken` are history variables, the latter the files that a late or repeated
registration changed (section 5). Days do not pass: a file's fate is its tag (pending: one day) and
its row's `expiresAt` (`kept`: a year), and `CountedFilesAreKept` speaks of both. Thumbnails follow their originals, size and text
limits are left out, a client uploads each file once. API calls may start at any moment, which
covers repeated and delayed ones. The worker's reads are not strongly consistent; fault
"stale" lets it miss the publication of the attempt it works on.

### TaskRow

`row` is the `TASK#` row with what its results say of the ticket (`res`), the completion's lease
(`lease`), `override`, and who decided it (`by`, read off the columns each writer sets); `lock` the
`SF311_LOCK#` row; `job` the created and the resolved job; `worker` their runs; `call`, `sup`,
`del`, `cus` the other writers, each with the row (and lock) it has read; `city` the tickets.
`Deliver` to `Write` are one run of `runJob` for these kinds, with `execute311Action` and
`closeAutomaticTicket`; `Completion` is `completeTaskWithAppActions`, `Supersede` is
`supersedeOpenTasksForCondition`, `Retraction` the marker's transaction and
`retractEvidenceTasks`, `Custom` is `recordCustomTaskAction`. Results are an ordered abstraction
(`Rank`) of one service code's record, so that `Merge` is `mergeBackgroundResult`. A lease
may have run out once its owner is gone, never before: it outlives the longest run.
Left out: the silent control, tasks with a filing of their own at completion, several codes.

### DeviceSession

`device`, `sess` are the `DEVICE#` row with its primary session and its `sessions` map, `site` the
site's generation, `grants` the `SESSION_HANDOFF#` rows; `store`, `attempt`, `leaving` are what a
container (browser or Home Screen app) keeps in IndexedDB; `calls` the API calls, each with what
it read (`seen`) before its conditional write. A token is a generation and a jti, access and
refresh token alike; jtis are drawn when a rotation commits. `late` and `stale` are slots
and receipts past their time, which may pass at any moment. Web Locks are not assumed: any
number of tabs of a container refresh at a time, up to `Calls`. `parent`, `over`, `faded`, `origin`
are history variables for the properties. Left out: other devices of the site, staff tokens, the
access token's own clock.

### CheckEvidence

The server's rows (`header`, `art`, `analysis`, `tombs`, `reserved`, `mapping`), the objects with their
state tag, the analysis queue with its runs and dead letters, and the client: `item` is a photo's
saved checkpoint, `check` the finalization. A call is a slot that runs one await at a time; a run of
the capture pipeline keeps its slot over presign, put and register. A call the client
gave up (`Abandon`) goes on. An artifact is numbered when its reservation commits, and its
generations are its restarts. An analysed photo is "analyzed" once the server has evaluated it, "blocked" if it refuses to (a 4xx), "stalled" if
waiting or evaluating has failed for now so often that the user has to tap; "manual" is an exhausted
analysis or a used-up quota. `lateBytes`, `lateRows` and `lateDeletes` are history variables: artifacts whose bytes
came by a PUT the client had given up, rows that escaped a deletion, and evidence deleted between a
completion's read and its transaction; two properties except them (section 5). `Night` is the day's turn: request ids rotate, quotas start afresh
and pending objects lapse; it needs nothing under way, so that calls last minutes, not days. A
run's lease (330 s) outlives the run, and the message is hidden longer than the lease.
Left out: text evidence, rows without a generation, header counters, thumbnails, the
fold's arithmetic (a scorecard is the set it folds), reads refused with a 4xx. A photo's automatic retries
(three) are not counted: any failure to observe or evaluate it may be the last (`PollFails`). The completion
call's are more than the mishaps of any run, so the finalization's "manual" state is not modelled.

## 3. Runs

| Run | Instance | Shows |
|---|---|---|
| `filing_race` | 2 jobs, 2 messages, 2 receives, crashes | a retry tap, or a message sent twice, while the first invocation may still run: one ticket, nothing unrecorded, a resolution stands |
| `filing_fanout` | 2 service codes, photo, 2 receives, crashes, outages, another job of the task on the lease | partial fan-outs resume, a photo is sent once, filed means filed; `OneRequest` is implemented |
| `filing_settles` | 2 jobs, 2 messages, fair, no faults | a queued filing ends |
| `note_safety` | 1 request, 2 messages, silent ticket, all faults | the note reaches the City once (`OneRequest` is implemented); statuses, job and verdicts are true, also while the control is turned off |
| `note_ends` | 1 request, 2 messages, fair | the job ends by its last delivery |
| `complaint_files` | 2 files, 2 calls, 1 worker, 2 attempts, crashes, outages, stale reads | the counted files' rows and objects are kept for a year; no row before its object |
| `complaint_settles` | 2 calls, 2 workers, 2 attempts, failing sends, fair | a late or doubled analysis, or a rollback, changes nothing; an analysis ends |
| `task_row` | both jobs, 2 completions, amendment, deletion, custom action, faults | whoever decides about the row, one outcome, one ticket, none for a withdrawn task; results come back, superfluous tickets are closed |
| `session_rotation` | 2 apps for 1 slot, 2 grants, 2 calls, 3 tokens, 1 mishap | a lost answer, a lost race or a full device never locks a container out; sign-out, registration and revocation stay done |
| `check_evidence` | 2 photos, 2 calls, 2 messages, 1 restart, 1 mishap | deleted evidence stays out; the frozen scorecard is whole |
| `check_settles` | 1 photo, 2 receives, 1 restart, 1 night, 2 mishaps, fair | one reservation, one piece of evidence, results of the right generation; what is waited for is under way; a finished check is scored |
| `check_deleted` | 1 photo | *violation*: the finding of section 5 |

The largest (`task_row`) has 2.2 million states and takes a minute and a half with two workers; the others
have between 85,000 and 1.6 million.

**Bounds.** Two actors of each kind meet in every order (two invocations, two calls, two
senders); a third adds no new pair, and the theorems cover any number. Two receives have a
last one and one before it. Two
service codes make a fan-out partial. Runtime 1, lease 2, visibility 2 keep the assumed
order; the fair run takes 0, 1, 1, for without faults no lease outlives its holder. Messages are bounded,
and `SpareMessage` keeps one for each job that has none, so that the bound never
swallows a job's only message. `complaint_settles` has no files: an
empty complaint with a description is legal, and files do not touch the analysis.
In `session_rotation` three tokens are enough for a token, its successor and a rival; the
bound stops new rotations from beginning and cuts no call short. One slot for two apps makes the
limit bite. The check runs share the work: two photos within a day, one photo over a night, since
photos meet in the completion and nights in a photo's own retries. In the check runs a mishap may
be a dead call, a lost answer, a dead run, a photo that cannot be observed or evaluated for now, a
quota used up elsewhere, or a collision. The finalization's wait may time out any number of times
(`WaitTimesOut`): the client schedules it again every 15 s and counts no attempts
(`src/frontend/src/services/submit-check.js:302-307`).
Symmetry is used in runs without liveness only.

**Deadlock** is not checked: a task nobody taps, a note that is settled, a complaint or device nobody
touches and a scored check are ends the system may reach.

**Fairness.** SQS delivers a message it has, the stream delivers its record, Lambda runs what it
has started, and each HTTP call ends by its own time-out; so each worker's (or call's) step,
each delivery and the clock are weakly fair. The app, while open, resumes what it saved
(`ClientStep`, `FinalStep`): photos and the finalization are its own loops, not the user's.
Users, the City and faults owe nothing. For filings, notes and complaints liveness is
checked without crashes: after one, a pending intent waits for an operator by design, and a
complaint may be stranded (section 5). `check_settles` has its faults.

## 4. What is proved

For every value of the constants (any number of jobs, messages, senders, calls, workers,
files, photos, deliveries, days, service codes, and any set of faults) TLAPS proves every safety
property that a run expects to hold:

| Module | Theorems |
|---|---|
| `Sf311FilingProofs` | `TypeCorrect`, `LeaseIsExclusive`, `NoDuplicateTicket`, `NothingIsHidden`, `TicketNumbersStay`, `ResolutionIsFinal`, `ImplementsOneRequest` |
| `Sf311FiledProofs` | `FiledIsFiled`, `NoSecondPhoto`, from `RecordIsTrue` |
| `CityHelpNoteProofs` | `TypeCorrect`, `StatusIsTrusted`, `JobIsTrusted`, `VerdictIsFinal`, `ImplementsOneRequest` |
| `ComplaintProofs` | `TypeCorrect`, `SummaryIsCurrent`, `ReadyStays`, `CountedFilesStay`, `EvidenceGoesFirst` |
| `TaskRowProofs` | `TypeCorrect`, `NoSecondTicket`, `WithdrawnIsNotFiled`, `OneDecision`, and from `RecordCatchesUp` `LostResultsReturn`, `TicketsAreClosed` |
| `DeviceSessionProofs` | `TypeCorrect`, `RetriesConverge`, `NoTokenOutlivesItsSession`, `StoresStayRenewable`, `NoReauthByARace`, `GrantsAreSpentOnce` |
| `CheckEvidenceProofs` | `TypeCorrect`, `OneReservation`, `OneEvidencePerPhoto`, `ResultsMatchTheirGeneration`, `NothingWaitsForNothing`, `ScorecardStaysWhole`, `DeletedStaysOut` |

Each component has an inductive invariant `IInv` and a theorem `Invariance`; filings and task rows
have a second one on top of it (`PInv`, `RInv`). TLC checked them before they were proved, and
where a larger instance was within reach on that one too. For two properties of `CheckEvidence` it
found counterexamples there, which the runs' bounds had excluded: `EvidenceOnce` and `ScorecardIsWhole`
say what holds, and section 5 how the rest comes about.

*Filing.* "At most one ticket" is not inductive: it depends on a chain. A worker between claim
and release holds the lease and has less runtime left than the lease (`LeaseInv`, from
`LeaseOutlivesRun`); so nobody else writes the lock row while it works, and its memory agrees
with it (`MemInv`); older copies on task, job and other invocations never know more than
the lock row (`KnownInv`), so merging them hides nothing; so a worker about to
send has just written an intent, and the City has nothing for that code (`CityInv`).

*What is shown as filed.* `FiledMeansCityHasAll` is about the task row, written from a worker's
memory, and the fan-out is resumed from what earlier runs left. So every copy of the record is
sound (`CopiesInv`: photos only with tickets, "sent" only if the City shows it); the worker's memory
is the lock row, and the codes before the one it works on are complete (`WorkInv`); a ticket on the lock
row is the City's, and a photo the City was sent is on the lock row, or the one the worker is
sending (`HubInv`). A task shown as filed was written by a worker that was through (`TaskInv`).

*Notes.* No lease can be relied on. The argument is that only a note read as pending is sent, and
that from the claim to the City's answer no row says pending or failed, and no
sender that owns the row can make it say so (`Sends`); what senders remember is in `Memory`.

*Complaints.* `CallInv` says what a call has left to do against what is gone: the objects no longer
on its list are gone and stay gone; only calls of a complaint that is being deleted drop its
rows. Then the counted files are those that the publishing transaction saw, and every step that takes a
row away belongs to a draft or to a deletion. Their objects have been retagged by then, because a
submission has on its list what it has not yet retagged (`Retagged`), and what deletes an object has
marked its row or the header before (`Removing`); what else reaches an object is in `overtaken`.

*Task rows.* A run past its claim holds the lease (`LeaseInv`), so a ticket the City has, or may
get, is on the lock row as a ticket or an intent (`CityInv`), and nobody about to send has one.
The row was decided by whoever `by` names, and no copy that a completion or supersession still
holds can undo it, because their Puts are conditional on a status that is gone for good
(`OutcomeInv`). A withdrawal read the lock row without lease and ticket, and its transaction
repeats both; from then on a run decides against the marker and the row (`EvidenceInv`).
What comes after a completion needs more than "the resolved job puts it back". No copy of the
results knows more than the lock row (`RankInv`), so a run that has merged them knows exactly what
the lock row says (`KnowInv`), and its last write shows that. Only a queued job runs, and the resolved
job is queued in the completion's own transaction (`JobInv`): a run that found the task open and
leaves its ticket open can only be the created job's, and has the resolved job behind it
(`CloseInv`). So when none is queued the last run has closed the ticket, or there is none (`DoneInv`).

*Sessions.* Nothing orders the calls, so the argument is about tokens. A `jti` in force was never
spent and belongs to one session, and a receipt names the token it replaced (`JtiInv`); a token with the
`jti` in force has the generation in force too, unless its session was ended, which raised it
(`TokenInv`). What a call holds follows from its kind (`CallInv`). While the session counts its
generation never falls, so a grant that still has it was asked for by the session signed in
(`GrantInv`), and ended tokens are older than those in force (`OverInv`). `Renewable` needs to
know what is on its way: the answer a container waits for, or the receipt from which its old token will
recover it, which lasts because nobody has presented the new token yet (`RenewInv`). All five
transactions have one shape, each session being kept, gone, fresh or rotated, and each
conjunct is shown once for that shape.

*Checks.* The difficulty is that a photo's state is in three places: the client's checkpoint, calls on
their way, perhaps given up, and the server's rows and objects. `HeardInv` says that a photo waits for one
call at a time and its checkpoint for which; `ItemInv` what the checkpoint promises of the server;
`CallInv` what each call, heard or not, may still do: one the client gave up that is not of the
photo's current artifact finds nothing, which `lateBytes` records the exception to (`BytesInv`). Reservations
are numbered without a gap and charged within the day's quota (`QuotaInv`), and the mapping is
one to one (`MapInv`), which gives `ReservedOnce`. A message names registered evidence, a row that is owed a result has a
message of its generation, and no run publishes for a generation it did not claim (`RowInv`,
`QueueInv`). Once the client asks for the completion every photo is at rest: scored, gone or failed for
good, and only the latter may still be deleted. If its row failed, no fold has it; if it succeeded and
only the evaluation was refused, a deletion before the completion's read keeps it out of the fold, one after the
transaction is refused, and one in between is in `lateDeletes`. So what a completion has read differs from
the rows by what `lateRows` and `lateDeletes` hold (`EndInv`), hence the scorecard.

Assumptions used: the orders of run time, lease and visibility; finitely many files
(`MAX_FILES`), slots and photos; reserved names differ from the parameters.

**Only model-checked:** `QueuedSettles`, `JobEnds`, `AnalysisSettles` and `FinishedIsScored`, for
liveness, fairness and ENABLED are out of the provers' reach. `DeletedIsGone` does not hold (section 5).
`LeaseExclusive` and `LockKeepsTicketNumbers` are proved and no longer run.

## 5. Findings

**A late registration undoes a deletion** (`check_deleted`). A comment in the deletion says
that marker and removal are atomic and a late registration is rejected
(`handlers/artifacts.js:945`). The marker and the row's removal are one transaction, and a registration
that commits before it is deleted with it only if the deletion had read the row: a registration
the client gave up may commit between that read and the transaction, which then writes the marker
and leaves the row, which is analysed and, since the completion does not look at markers, folded into
the scorecard.

Observed in the code while modelling, where no document promises otherwise, or where the
behaviour is documented as a limit; the models have these steps, and the properties say where
they are excepted:

- *Filing, last delivery.* A lease that is contended on the last delivery is thrown as well; the message goes
  to the dead-letter queue and the task stays `queued` (`workers/sf311-job.js:193`, comment
  at `:52-57`). `QueuedSettles` is checked without contention.
- *"note_not_sent" for a note that was sent.* The job decides from a status in memory that the claim
  does not change (`workers/sf311-job.js:564`; `docs/runbooks/sf311.md:66-67`).
- *Complaints.* A crash between publishing and enqueueing strands one in `analyzing`
  (`handlers/complaints.js:509`); a submission repeated after the deletion publishes it again
  (`:453`); objects are retagged before the publishing transaction, so that a refused submission
  leaves drafts outside the one-day rule (`:439`); a file registered while the complaint is being
  submitted keeps a draft's retention (`:403`). A registration tags the original `pending` (`:325`, by
  way of `:101`) before it looks whether the complaint is still a draft (`:346-352`), so one that is
  late, or repeated after the submission, is refused but puts the object of a counted file back under the
  one-day rule; and one that has looked at the object before the file was removed may write its row
  afterwards and be counted without an object. `CountedFilesAreKept` excepts these files'
  objects, not their rows (`overtaken`). Header and rows are deleted in parallel (`:692`);
  a stale read makes the worker acknowledge the message that is awaited
  (`workers/analyze-complaint.js:45`).
- *Selecting the current binding* rewrites the session without a condition that it is still as
  read (`handlers/device-bindings.js:131-160`, `:287-348`; `docs/runbooks/device-revocation.md:135-138`
  expects the opposite): a sign-out committed in between is undone. Tokens of before stay dead
  all the same (`EndedTokensStayDead`).
- *A completion that meets another transaction* on the header is answered `completed`
  (`handlers/checks.js:349`), although the header is still in progress; the next read corrects it.
- *A registration that dies before its tag is set* leaves an object the night removes and a row that
  stays queued; the repair presigns anew, and that row holds the check back
  (`NeedsTheUser`, the exception in `FinishedIsScored`).
- *An upload the client gave up may land late.* After an unconfirmed PUT the client asks for the
  registration up to three times, a second and a half apart (`src/frontend/src/services/api.js:1618`,
  "Bound the settling window"), then uploads anew. If the first PUT lands after that, while a
  given-up registration of it is still on its way, and the day turns in between so that the new
  presign gets a new artifact, one photo is evidence twice. `EvidenceOnce` excepts these artifacts (`lateBytes`).
- *A row that escaped a deletion* (above) is folded into the scorecard like any other; another
  deletion, given up earlier and still on its way, may remove it between the completion's read and
  its transaction. `ScorecardIsWhole` excepts such rows (`lateRows`) and the late uploads.
- *A photo whose evaluation is refused counts as failed.* After a successful analysis `assessments:evaluate` may
  answer 413, 400 or 409 (`handlers/guidance.js:259`, `:315`, `:316`, `:329`); the client then shows the
  photo as failed for good (`src/frontend/src/services/photo-analysis.js:1429`, `evidence-recovery.js:31`), though its
  row says `succeeded`. It does not hold the scorecard back (`check-submissions.js:61`) and may be deleted. If that
  deletion commits between the completion's read (`handlers/checks.js:229`) and its transaction, which asks
  for nothing but the header's status (`:284`), the scorecard folds evidence that is gone. The comment at
  `:252-254` says that a deleted artifact's analysis "must not reach the fold"; the one at `:223-228` declares the gap
  between read and write unreachable, but speaks of registrations only. `check_evidence` has the
  step, and without `lateDeletes` TLC finds this run; `ScorecardIsWhole` excepts these artifacts and no others.
- *A task superseded while its job files* keeps an open ticket that only the lock row knows
  (`analysis/guidance/guidance-store.js:2124`): the Put removes the result and nobody closes the ticket. A
  completion that ends `in_progress` gets its closure only with the later resolution.
- Inline completion files without an intent checkpoint
  (`analysis/guidance/guidance-store.js:1810`); the path is not modelled.

## 6. Plan

Done: `Sf311Results`, `Sf311Filing`, `OneRequest`, `CityHelpNote`, `Complaint`, `TaskRow`, `DeviceSession`
and `CheckEvidence`, with proofs of all their safety properties. In this order:

1. The silent control in `TaskRow`, and its automatic fan-out over several codes.
2. `Outbox` and `Revocation`: the dispatcher on its own, as an at-least-once refinement of a
   set of jobs, and the reconciliation in batches that rests on it.
3. `ComplianceLetter`, `DuplicateLinks`, enrollment's attempt windows.

## 7. Not modelled

PROJECT.json lists every component with its reason. In short: guidance evaluation is a pure
function over a catalog of data; administration, care work, translation, thumbnails, support and
analytics are single writes or derived data; presentation, scripts and infrastructure hold no
state the modelled protocols depend on beyond the checkpoints, token stores, queue and Lambda
settings named above.
