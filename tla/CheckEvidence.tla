------------------------------ MODULE CheckEvidence ------------------------------
(***************************************************************************)
(* One street check: its photos are reserved, uploaded, registered,        *)
(* analysed by a queue worker, restarted, deleted, and folded into one     *)
(* scorecard.  The client keeps a checkpoint for each photo and repeats    *)
(* whatever it is not sure of; a call it gave up may still be running.     *)
(*                                                                         *)
(* A call is a slot that runs one await at a time.  A run of the capture   *)
(* pipeline is one slot that goes through presign, put and register.       *)
(* An artifact is numbered when its reservation commits.  Generation 0 of  *)
(* an artifact is its registration; later ones are restart requests.       *)
(***************************************************************************)
EXTENDS Naturals, FiniteSets

CONSTANTS
  Items,        \* the photos of the check
  MaxArtifacts, \* MAX_CHECK_ARTIFACTS, the day's quota of the check
  MaxReceives,  \* MAX_ANALYSIS_DELIVERIES, the queue's maxReceiveCount
  MaxCalls,     \* bound: API calls at a time
  MaxMessages,  \* bound: messages of the analysis queue at a time
  MaxRestarts,  \* bound: restarts the user asks for, per photo
  MaxDays,      \* bound: nights the check lives through
  MaxMishaps    \* bound on calls and runs that die, answers lost, photos that
                \* cannot be observed for now, quotas used up, collisions

ASSUME BoundsAssumption ==
  /\ MaxArtifacts \in Nat /\ MaxReceives \in Nat /\ MaxCalls \in Nat
  /\ MaxMessages \in Nat /\ MaxRestarts \in Nat /\ MaxDays \in Nat /\ MaxMishaps \in Nat

Artifacts == 1 .. MaxArtifacts * (MaxDays + 1)
Calls == 1 .. MaxCalls
Messages == 1 .. MaxMessages
Days == 0 .. MaxDays
Generations == 0 .. MaxRestarts
NoItem == "no item"
NoLease == 0
ASSUME ItemsAssumption == IsFiniteSet(Items) /\ NoItem \notin Items

VARIABLES
  header,    \* the CHECK# row: "none", "in_progress" or "completed"
  scorecard, \* the artifacts it folds
  art,       \* the ART# rows
  analysis,  \* the ANALYSIS# rows
  tombs,     \* the EVIDENCE_DELETION# markers
  reserved,  \* the reservations: whose photo, of which day's request
  mapping,   \* the UPLOAD_REQUEST# rows
  object,    \* the S3 objects by their state tag
  queue,     \* the analysis queue, its dead letters and their runs
  item,      \* the client's saved state of each photo
  check,     \* and of the check
  calls,     \* API calls under way
  day, mishaps,
  lateBytes, \* history: artifacts whose bytes came by a PUT the client gave up
  lateRows,  \* history: artifacts whose row a deletion had not seen
  lateDeletes \* history: artifacts deleted while a completion was folding them

server == <<header, scorecard, art, analysis, tombs, reserved, mapping, object>>
client == <<item, check>>
history == <<lateBytes, lateRows, lateDeletes>>
vars == <<server, queue, client, calls, day, mishaps, history>>

NoRow == [st |-> "none", gen |-> 0, lease |-> NoLease]
NoAnalysis == [st |-> "none", gen |-> 0]
NoMessage == [pc |-> "free", a |-> 0, gen |-> 0, n |-> 0]
NoCall ==
  [kind |-> "none", pc |-> "idle", i |-> NoItem, a |-> 0, heard |-> FALSE, fresh |-> FALSE,
   req |-> 0, gen |-> 0, status |-> "none", row |-> FALSE, fold |-> {}]
NewItem ==
  [st |-> "none", a |-> 0, put |-> "no", registered |-> FALSE, gen |-> 0,
   restart |-> 0, asked |-> 0, deleting |-> FALSE]
NewCheck == [finished |-> FALSE, fin |-> "no", expected |-> 0, done |-> FALSE]

Statuses == {"queued", "running", "succeeded", "permanent_failure", "exhausted"}
RowType == [st : Statuses \union {"none"}, gen : Generations, lease : Messages \union {NoLease}]
AnalysisType == [st : {"none", "analyzed", "failed", "retryable"}, gen : Generations]
MessageType ==
  [pc : {"free", "visible", "received", "running", "hidden", "dead"},
   a : Artifacts \union {0}, gen : Generations, n : 0 .. MaxReceives]
CallType ==
  [kind : {"none", "presign", "put", "register", "delete", "complete"},
   pc : {"idle", "head", "read", "write", "reread", "restart", "tag", "send", "objects"},
   i : Items \union {NoItem}, a : Artifacts \union {0}, heard : BOOLEAN, fresh : BOOLEAN,
   req : Generations, gen : Generations, status : {"none", "in_progress", "completed"},
   row : BOOLEAN, fold : SUBSET Artifacts]
ItemType ==
  [st : {"none", "idle", "sending", "polling", "analyzed", "manual", "stalled", "blocked",
         "gone"},
   a : Artifacts \union {0}, put : {"no", "uncertain", "done"}, registered : BOOLEAN,
   gen : Generations, restart : Generations, asked : Generations, deleting : BOOLEAN]
CheckType ==
  [finished : BOOLEAN, fin : {"no", "waiting", "calling"}, expected : Nat,
   done : BOOLEAN]

Init ==
  /\ header = "none" /\ scorecard = {}
  /\ art = [a \in Artifacts |-> NoRow]
  /\ analysis = [a \in Artifacts |-> NoAnalysis]
  /\ tombs = {}
  /\ reserved = [a \in Artifacts |-> [item |-> NoItem, day |-> 0]]
  /\ mapping = [i \in Items |-> [d \in Days |-> 0]]
  /\ object = [a \in Artifacts |-> "none"]
  /\ queue = [m \in Messages |-> NoMessage]
  /\ item = [i \in Items |-> NewItem]
  /\ check = NewCheck
  /\ calls = [c \in Calls |-> NoCall]
  /\ day = 0 /\ mishaps = 0 /\ lateBytes = {} /\ lateRows = {} /\ lateDeletes = {}

Least(S) == CHOOSE x \in S : \A y \in S : x <= y
FreeCalls == {c \in Calls : calls[c] = NoCall}
FreeMessages == {m \in Messages : queue[m] = NoMessage}
Rows == {a \in Artifacts : art[a].st # "none"}
Reserved == {a \in Artifacts : reserved[a].item # NoItem}
Mishap == mishaps < MaxMishaps /\ mishaps' = mishaps + 1

(* currentAnalyses: an analysis counts unless its row has moved on. *)
IsCurrent(a) ==
  /\ analysis[a].st # "none"
  /\ art[a].st # "none" => analysis[a].gen = art[a].gen
Covered == \A a \in Rows : IsCurrent(a)

(* A new call, or the next leg of a run in the same slot. *)
Begin(call) ==
  /\ FreeCalls # {}
  /\ calls' = [calls EXCEPT ![Least(FreeCalls)] = call]
Goto(c, pc) == calls' = [calls EXCEPT ![c].pc = pc]
End(c) == calls' = [calls EXCEPT ![c] = NoCall]
(* The answer, if the client still waits for it. *)
Hear(c, state) ==
  item' = IF calls[c].heard THEN [item EXCEPT ![calls[c].i] = state] ELSE item
Heard(c) == item[calls[c].i]

-----------------------------------------------------------------------------
(* The client: capture, resume, retry, delete, finish.                     *)

Capture(i) ==
  /\ item[i].st = "none" /\ ~check.finished
  /\ item' = [item EXCEPT ![i].st = "idle"]
  /\ UNCHANGED <<server, queue, check, calls, day, mishaps, history>>

(* ensureRemoteCheck: createCheck's Put succeeds once, a replay is a 200. *)
CreateCheck ==
  /\ header = "none"
  /\ \E i \in Items : item[i].st = "idle"
  /\ header' = "in_progress"
  /\ UNCHANGED <<scorecard, art, analysis, tombs, reserved, mapping, object, queue, client,
                 calls, day, mishaps, history>>

(* Mutant of HasCheckpoint: every run starts over. *)
HasCheckpointNever(i) == FALSE

(* The checkpoint of uploadArtifact: a reservation whose bytes may be up. *)
HasCheckpoint(i) == item[i].a # 0 /\ item[i].put # "no"

(* The leg a run starts with, from what the photo's saved state says. *)
FirstLeg(i) ==
  CASE item[i].restart # 0 ->
         [NoCall EXCEPT !.kind = "register", !.pc = "head", !.i = i, !.a = item[i].a,
                        !.req = item[i].restart, !.gen = item[i].gen, !.heard = TRUE]
    [] item[i].restart = 0 /\ HasCheckpoint(i) ->
         [NoCall EXCEPT !.kind = "register", !.pc = "head", !.i = i, !.a = item[i].a, !.heard = TRUE]
    [] OTHER ->
         [NoCall EXCEPT !.kind = "presign", !.pc = "read", !.i = i, !.heard = TRUE, !.fresh = TRUE]

(* run: shouldResumeEvidenceItem; a registered photo is only observed. *)
StartRun(i) ==
  /\ item[i].st = "idle" /\ ~item[i].deleting /\ header # "none"
  /\ IF item[i].registered /\ item[i].restart = 0
     THEN item' = [item EXCEPT ![i].st = "polling"] /\ UNCHANGED calls
     ELSE Begin(FirstLeg(i)) /\ item' = [item EXCEPT ![i].st = "sending"]
  /\ UNCHANGED <<server, queue, check, day, mishaps, history>>

(* retryEvidenceItem: an exhausted generation gets a new request id, any     *)
(* other photo goes on from its checkpoint.                                  *)
TapRetry(i) ==
  /\ item[i].st \in {"manual", "stalled"} /\ ~item[i].deleting /\ item[i].asked < MaxRestarts
  /\ item' = [item EXCEPT
       ![i].st = "idle", ![i].asked = @ + 1,
       ![i].restart = IF item[i].st = "manual" /\ item[i].registered
                      THEN item[i].asked + 1 ELSE 0]
  /\ UNCHANGED <<server, queue, check, calls, day, mishaps, history>>

(* What evaluateArtifact makes of an analysis.  assessments:evaluate refuses *)
(* some analyses (a 4xx), and that photo has failed for good though its row  *)
(* says succeeded.                                                           *)
Outcomes(found) ==
  CASE found = "analyzed" -> {"analyzed", "blocked"}
    [] found = "retryable" -> {"manual"}
    [] OTHER -> {"blocked"}

(* waitForArtifactAnalysis and evaluateArtifact. *)
Poll(i) ==
  /\ item[i].st = "polling" /\ IsCurrent(item[i].a)
  /\ LET found == analysis[item[i].a] IN
       \E st \in Outcomes(found.st) :
         item' = [item EXCEPT ![i].st = st, ![i].gen = found.gen]
  /\ UNCHANGED <<server, queue, check, calls, day, mishaps, history>>

(* The wait, or the evaluation, fails for now: tried again, or "stalled" once *)
(* the automatic retries are used up; the user's next tap resumes it.         *)
PollFails(i) ==
  /\ Mishap
  /\ item[i].st = "polling"
  /\ \E st \in {"idle", "stalled"} : item' = [item EXCEPT ![i].st = st]
  /\ UNCHANGED <<server, queue, check, calls, day, history>>

DeleteCall(i) ==
  [NoCall EXCEPT !.kind = "delete", !.pc = "read", !.i = i, !.a = item[i].a, !.heard = TRUE]
BeingDeleted(i) == \E c \in Calls : calls[c].kind = "delete" /\ calls[c].i = i /\ calls[c].heard

(* removeEvidenceItem: any photo at rest while capturing, a failed one once *)
(* the check is finished.  The intent is saved before the call.             *)
AskDelete(i) ==
  /\ ~item[i].deleting
  /\ item[i].st \in (IF check.finished THEN {"manual", "stalled", "blocked"}
                     ELSE {"idle", "analyzed", "manual", "stalled", "blocked"})
  /\ IF item[i].a = 0
     THEN item' = [item EXCEPT ![i].st = "gone"] /\ UNCHANGED calls
     ELSE item' = [item EXCEPT ![i].deleting = TRUE] /\ Begin(DeleteCall(i))
  /\ UNCHANGED <<server, queue, check, day, mishaps, history>>

ResumeDelete(i) ==
  /\ item[i].deleting /\ ~BeingDeleted(i)
  /\ Begin(DeleteCall(i))
  /\ UNCHANGED <<server, queue, client, day, mishaps, history>>

(* itemHasLiveEvidence and readyForScorecard. *)
Live(i) ==
  /\ item[i].st \notin {"none", "gone"}
  /\ item[i].registered \/ item[i].st # "blocked"
(* Mutant of ReadyForScorecard: a photo that failed for good holds it back. *)
ReadyWhenAllAnalyzed ==
  \A i \in Items : ~item[i].deleting /\ (Live(i) => item[i].st = "analyzed")

ExpectedArtifacts == Cardinality({i \in Items : Live(i)})
ReadyForScorecard ==
  \A i \in Items :
    /\ ~item[i].deleting
    /\ Live(i) => item[i].st \in {"analyzed", "blocked"}

Finish ==
  /\ ~check.finished /\ ExpectedArtifacts > 0
  /\ check' = [check EXCEPT !.finished = TRUE]
  /\ UNCHANGED <<server, queue, item, calls, day, mishaps, history>>

(* finalizeCaptureScorecardInBackground; nothing to fold: done at once. *)
StartFinalize ==
  /\ check.finished /\ ~check.done /\ check.fin = "no" /\ ReadyForScorecard
  /\ check' = IF ExpectedArtifacts = 0 THEN [check EXCEPT !.done = TRUE]
              ELSE [check EXCEPT !.fin = "waiting", !.expected = ExpectedArtifacts]
  /\ UNCHANGED <<server, queue, item, calls, day, mishaps, history>>

AllAnalyzed == Cardinality(Rows) >= check.expected /\ Covered

(* waitForAnalyses, then completeCheck. *)
Waited ==
  /\ check.fin = "waiting" /\ AllAnalyzed
  /\ check' = [check EXCEPT !.fin = "calling"]
  /\ Begin([NoCall EXCEPT !.kind = "complete", !.pc = "read", !.heard = TRUE])
  /\ UNCHANGED <<server, queue, item, day, mishaps, history>>

(* A wait that finds too little is repeated as long as the app is open: the *)
(* finalization counts no attempts, so neither does the bound on mishaps.   *)
WaitTimesOut ==
  /\ check.fin = "waiting" /\ ~AllAnalyzed
  /\ check' = [check EXCEPT !.fin = "no"]
  /\ UNCHANGED <<server, queue, item, calls, day, mishaps, history>>

-----------------------------------------------------------------------------
(* POST artifacts:presign, through reserveUpload.                          *)

(* The answer: the client checkpoints the reservation as uncertain before  *)
(* it sends the bytes, in the same run.                                    *)
Presigned(c, a) ==
  IF calls[c].heard
  THEN /\ item' = [item EXCEPT ![calls[c].i].a = a, ![calls[c].i].put = "uncertain"]
       /\ calls' = [calls EXCEPT ![c].kind = "put", ![c].pc = "write", ![c].a = a]
  ELSE End(c) /\ UNCHANGED item

PresignRead(c) ==
  /\ calls[c].kind = "presign" /\ calls[c].pc = "read"
  /\ LET a == mapping[calls[c].i][day] IN
       IF a # 0 THEN Presigned(c, a) ELSE Goto(c, "write") /\ UNCHANGED item
  /\ UNCHANGED <<server, queue, check, day, mishaps, history>>

NextArtifact == Cardinality(Reserved) + 1
QuotaLeft == Cardinality({a \in Reserved : reserved[a].day = day}) < MaxArtifacts

(* Mutant of Unmapped: the mapping is put whatever is there. *)
UnmappedAlways(i) == TRUE

(* The transaction's condition on the mapping: the first request wins. *)
Unmapped(i) == mapping[i][day] = 0

(* Without a quota the retries end and the user has to tap; the device's     *)
(* quota is shared with other checks, so that may happen at any time.        *)
PresignWrite(c) ==
  /\ calls[c].kind = "presign" /\ calls[c].pc = "write"
  /\ LET i == calls[c].i
         a == NextArtifact
     IN \/ /\ Unmapped(i) /\ QuotaLeft
           /\ reserved' = [reserved EXCEPT ![a] = [item |-> i, day |-> day]]
           /\ mapping' = [mapping EXCEPT ![i][day] = a]
           /\ Presigned(c, a)
           /\ UNCHANGED mishaps
        \/ /\ ~Unmapped(i)
           /\ Goto(c, "read") /\ UNCHANGED <<reserved, mapping, item, mishaps>>
        \/ /\ Unmapped(i) /\ Mishap
           /\ End(c) /\ Hear(c, [Heard(c) EXCEPT !.st = "manual"])
           /\ UNCHANGED <<reserved, mapping>>
  /\ UNCHANGED <<header, scorecard, art, analysis, tombs, object, queue, check, day, history>>

(* The PUT to S3, if-none-match: a 412 leaves the outcome uncertain. *)
PutMedia(c) ==
  /\ calls[c].kind = "put"
  /\ LET a == calls[c].a
         first == object[a] = "none"
     IN /\ object' = IF first THEN [object EXCEPT ![a] = "pending"] ELSE object
        /\ lateBytes' = IF first /\ ~calls[c].heard THEN lateBytes \union {a} ELSE lateBytes
        /\ IF calls[c].heard
           THEN /\ item' = IF first THEN [item EXCEPT ![calls[c].i].put = "done"] ELSE item
                /\ calls' = [calls EXCEPT ![c].kind = "register", ![c].pc = "head"]
           ELSE End(c) /\ UNCHANGED item
  /\ UNCHANGED <<header, scorecard, art, analysis, tombs, reserved, mapping, queue, check, day,
                 mishaps, lateRows, lateDeletes>>

-----------------------------------------------------------------------------
(* POST artifacts: registerArtifact, also a restart.                       *)

Registering(c, pc) == calls[c].kind = "register" /\ calls[c].pc = pc
Blocked(c) == [Heard(c) EXCEPT !.st = "blocked"]
Registered(c) ==
  [Heard(c) EXCEPT !.st = "polling", !.registered = TRUE, !.put = "done",
                   !.restart = 0, !.gen = IF calls[c].req # 0 THEN 0 ELSE @]

(* headObject.  The client repairs media_upload_missing once in a run that *)
(* resumed an earlier upload; a fresh one, or a restart, is refused.       *)
RegisterHead(c) ==
  /\ Registering(c, "head")
  /\ IF object[calls[c].a] # "none"
     THEN Goto(c, "write") /\ UNCHANGED item
     ELSE IF calls[c].heard /\ ~calls[c].fresh /\ calls[c].req = 0
     THEN /\ item' = [item EXCEPT ![calls[c].i].put = "no"]
          /\ calls' = [calls EXCEPT ![c] =
               [NoCall EXCEPT !.kind = "presign", !.pc = "read", !.i = calls[c].i,
                              !.heard = TRUE, !.fresh = TRUE]]
     ELSE End(c) /\ Hear(c, Blocked(c))
  /\ UNCHANGED <<server, queue, check, day, mishaps, history>>

(* Mutant of NotDeleted: registration does not look for the marker. *)
NotDeletedUnchecked(a) == TRUE

(* evidencePublicationGuards: no marker of a deletion. *)
NotDeleted(a) == a \notin tombs

RegisterWrite(c) ==
  /\ Registering(c, "write")
  /\ LET a == calls[c].a IN
       \/ /\ NotDeleted(a) /\ art[a].st = "none"
          /\ art' = [art EXCEPT ![a] = [NoRow EXCEPT !.st = "queued"]]
          /\ calls' = [calls EXCEPT ![c].pc = "tag", ![c].gen = 0]
          /\ UNCHANGED item
       \/ /\ NotDeleted(a) /\ art[a].st # "none"
          /\ Goto(c, "reread") /\ UNCHANGED <<art, item>>
       \/ /\ ~NotDeleted(a)
          /\ End(c) /\ Hear(c, Blocked(c)) /\ UNCHANGED art
  /\ UNCHANGED <<header, scorecard, analysis, tombs, reserved, mapping, object, queue, check,
                 day, mishaps, history>>

(* An earlier registration: a queued one is sent again, a started one is    *)
(* only reported, a restart goes on to its own update.                      *)
RegisterReread(c) ==
  /\ Registering(c, "reread")
  /\ LET row == art[calls[c].a] IN
       CASE row.st = "none" -> End(c) /\ Hear(c, Blocked(c))
         [] row.st # "none" /\ calls[c].req # 0 -> Goto(c, "restart") /\ UNCHANGED item
         [] row.st = "queued" /\ calls[c].req = 0 ->
              calls' = [calls EXCEPT ![c].pc = "tag", ![c].gen = row.gen] /\ UNCHANGED item
         [] OTHER -> End(c) /\ Hear(c, Registered(c))
  /\ UNCHANGED <<server, queue, check, day, mishaps, history>>

(* restartAnalysis: only an exhausted generation; a replay finds its own. *)
MayRestart(row, expected) == row.gen = expected /\ row.st = "exhausted"

RegisterRestart(c) ==
  /\ Registering(c, "restart")
  /\ LET a == calls[c].a
         req == calls[c].req
     IN \/ /\ art[a].st # "none" /\ MayRestart(art[a], calls[c].gen)
           /\ art' = [art EXCEPT ![a] = [st |-> "queued", gen |-> req, lease |-> NoLease]]
           /\ calls' = [calls EXCEPT ![c].pc = "tag", ![c].gen = req]
           /\ UNCHANGED item
        \/ /\ art[a].st # "none" /\ ~MayRestart(art[a], calls[c].gen) /\ art[a].gen = req
           /\ calls' = [calls EXCEPT ![c].pc = "tag", ![c].gen = req]
           /\ UNCHANGED <<art, item>>
        \/ /\ art[a].st = "none" \/ (~MayRestart(art[a], calls[c].gen) /\ art[a].gen # req)
           /\ End(c) /\ Hear(c, Blocked(c)) /\ UNCHANGED art
  /\ UNCHANGED <<header, scorecard, analysis, tombs, reserved, mapping, object, queue, check,
                 day, mishaps, history>>

(* setObjectTags: the pending rule leaves the object alone.  An object that *)
(* a deletion removed makes the call fail; the photo is tried again.        *)
RegisterTag(c) ==
  /\ Registering(c, "tag")
  /\ IF object[calls[c].a] = "none"
     THEN End(c) /\ Hear(c, [Heard(c) EXCEPT !.st = "idle"]) /\ UNCHANGED object
     ELSE /\ object' = [object EXCEPT ![calls[c].a] = "registered"]
          /\ Goto(c, "send") /\ UNCHANGED item
  /\ UNCHANGED <<header, scorecard, art, analysis, tombs, reserved, mapping, queue, check, day,
                 mishaps, history>>

RegisterSend(c) ==
  /\ Registering(c, "send") /\ FreeMessages # {}
  /\ queue' = [queue EXCEPT ![Least(FreeMessages)] =
                 [pc |-> "visible", a |-> calls[c].a, gen |-> calls[c].gen, n |-> 0]]
  /\ End(c) /\ Hear(c, Registered(c))
  /\ UNCHANGED <<server, check, day, mishaps, history>>

-----------------------------------------------------------------------------
(* DELETE artifacts: deleteArtifact.                                       *)

Deleting(c, pc) == calls[c].kind = "delete" /\ calls[c].pc = pc

(* A completed check only lets go of what failed for good. *)
MayDelete(a) ==
  \/ art[a].st = "none"
  \/ header # "completed"
  \/ analysis[a].st = "failed"

DeleteRead(c) ==
  /\ Deleting(c, "read")
  /\ LET a == calls[c].a IN
       IF MayDelete(a)
       THEN /\ calls' = [calls EXCEPT ![c].pc = "write", ![c].status = header,
                                      ![c].row = art[a].st # "none"]
            /\ UNCHANGED item
       ELSE End(c) /\ Hear(c, [Heard(c) EXCEPT !.deleting = FALSE])
  /\ UNCHANGED <<server, queue, check, day, mishaps, history>>

(* What a completion has read, and is about to write. *)
BeingFolded == UNION {calls[c].fold : c \in {d \in Calls : calls[d].kind = "complete"}}

(* The marker and the removal of the row the read found, in one            *)
(* transaction; a check that moved on in between makes it fail.            *)
DeleteWrite(c) ==
  /\ Deleting(c, "write")
  /\ IF header = calls[c].status
     THEN /\ tombs' = tombs \union {calls[c].a}
          /\ art' = IF calls[c].row THEN [art EXCEPT ![calls[c].a] = NoRow] ELSE art
          /\ IF calls[c].row
             THEN /\ lateDeletes' = lateDeletes \union ({calls[c].a} \intersect BeingFolded)
                  /\ UNCHANGED lateRows
             ELSE /\ lateRows' = lateRows \union ({calls[c].a} \intersect Rows)
                  /\ UNCHANGED lateDeletes
          /\ Goto(c, "objects")
     ELSE End(c) /\ UNCHANGED <<tombs, art, lateRows, lateDeletes>>
  /\ UNCHANGED <<header, scorecard, analysis, reserved, mapping, object, queue, client, day,
                 mishaps, lateBytes>>

(* removeArtifactObjects: of the row the read found. *)
DeleteObjects(c) ==
  /\ Deleting(c, "objects")
  /\ object' = IF calls[c].row THEN [object EXCEPT ![calls[c].a] = "none"] ELSE object
  /\ End(c) /\ Hear(c, [Heard(c) EXCEPT !.st = "gone", !.deleting = FALSE])
  /\ UNCHANGED <<header, scorecard, art, analysis, tombs, reserved, mapping, queue, check, day,
                 mishaps, history>>

-----------------------------------------------------------------------------
(* POST complete: completeCheck.                                           *)

Completing(c, pc) == calls[c].kind = "complete" /\ calls[c].pc = pc
Tell(c, done) ==
  check' = IF ~calls[c].heard THEN check
           ELSE [check EXCEPT !.fin = "no", !.done = done \/ @]

(* Mutant of Fold: every analysis of the check. *)
FoldEverything == {a \in Artifacts : analysis[a].st = "analyzed"}

(* The analyses of artifacts that still have a row. *)
Fold == {a \in Artifacts : art[a].st # "none" /\ IsCurrent(a) /\ analysis[a].st = "analyzed"}

(* One consistent query; the coverage gate. *)
CompleteRead(c) ==
  /\ Completing(c, "read")
  /\ IF header = "completed" \/ Covered
     THEN calls' = [calls EXCEPT ![c].pc = "write", ![c].fold = Fold] /\ UNCHANGED check
     ELSE End(c) /\ Tell(c, FALSE)
  /\ UNCHANGED <<server, queue, item, day, mishaps, history>>

CompleteWrite(c) ==
  /\ Completing(c, "write")
  /\ header' = "completed"
  /\ scorecard' = IF header = "completed" THEN scorecard ELSE calls[c].fold
  /\ End(c) /\ Tell(c, TRUE)
  /\ UNCHANGED <<art, analysis, tombs, reserved, mapping, object, queue, item, day, mishaps, history>>

(* Another call is at its transaction on the header: this one is cancelled *)
(* with TransactionConflict, which the handler answers as completed.       *)
CompleteCollides(c) ==
  /\ Mishap
  /\ Completing(c, "write")
  /\ \E d \in Calls : d # c /\ calls[d].kind \in {"presign", "delete", "complete"} /\ calls[d].pc = "write"
  /\ End(c) /\ Tell(c, TRUE)
  /\ UNCHANGED <<server, queue, item, day, history>>

-----------------------------------------------------------------------------
(* The analysis worker.                                                    *)

Ack(m) == queue' = [queue EXCEPT ![m] = NoMessage]
Park(m, pc) == queue' = [queue EXCEPT ![m].pc = pc]

(* Mutant of OutOfDeliveries: one delivery too many. *)
OutOfDeliveriesLate(m) == queue[m].n > MaxReceives

OutOfDeliveries(m) == queue[m].n = MaxReceives

(* SQS: a message received too often is a dead letter. *)
Receive(m) ==
  /\ queue[m].pc = "visible"
  /\ queue' = IF OutOfDeliveries(m) THEN [queue EXCEPT ![m].pc = "dead"]
              ELSE [queue EXCEPT ![m].pc = "received", ![m].n = @ + 1]
  /\ UNCHANGED <<server, client, calls, day, mishaps, history>>

(* Mutant of MayClaim: a run that died keeps the row for good. *)
MayClaimQueued(row, gen) == row.gen = gen /\ row.st = "queued"

(* claimAnalysis: queued, or running under a lease that ran out. *)
MayClaim(row, gen) ==
  /\ row.gen = gen
  /\ row.st = "queued" \/ (row.st = "running" /\ row.lease = NoLease)

Claim(m) ==
  /\ queue[m].pc = "received"
  /\ LET a == queue[m].a IN
       IF MayClaim(art[a], queue[m].gen)
       THEN /\ art' = [art EXCEPT ![a].st = "running", ![a].lease = m]
            /\ Park(m, "running")
       ELSE Ack(m) /\ UNCHANGED art
  /\ UNCHANGED <<header, scorecard, analysis, tombs, reserved, mapping, object, client, calls,
                 day, mishaps, history>>

(* Mutant of MayPublish: the result goes to whatever row is there. *)
MayPublishLate(row, gen) == row.st # "none"

(* publishAnalysis: the row's lifecycle and the result, fenced together. *)
MayPublish(row, gen) == row.gen = gen /\ row.st \in {"queued", "running"}

Publish(m, st, found) ==
  LET a == queue[m].a IN
  /\ IF MayPublish(art[a], queue[m].gen)
     THEN /\ art' = [art EXCEPT ![a].st = st, ![a].lease = NoLease]
          /\ analysis' = [analysis EXCEPT ![a] = [st |-> found, gen |-> queue[m].gen]]
     ELSE UNCHANGED <<art, analysis>>
  /\ Ack(m)
  /\ UNCHANGED <<header, scorecard, tombs, reserved, mapping, object, client, calls, day,
                 mishaps, history>>

(* The photo was fetched and the analyzer answered. *)
Analyze(m) ==
  /\ queue[m].pc = "running" /\ object[queue[m].a] # "none"
  /\ \/ Publish(m, "succeeded", "analyzed")
     \/ Publish(m, "permanent_failure", "failed")

(* releaseAnalysis *)
Release(a, gen) ==
  art' = IF art[a].gen = gen /\ art[a].st = "running"
         THEN [art EXCEPT ![a].st = "queued", ![a].lease = NoLease] ELSE art

(* The analyzer, or the fetch, fails: redelivered, or out of deliveries. *)
AnalyzeFails(m) ==
  /\ queue[m].pc = "running"
  /\ IF OutOfDeliveries(m) THEN Publish(m, "exhausted", "retryable")
     ELSE /\ Release(queue[m].a, queue[m].gen)
          /\ Park(m, "visible")
          /\ UNCHANGED <<header, scorecard, analysis, tombs, reserved, mapping, object, client,
                         calls, day, mishaps, history>>

DeadLetter(m) ==
  /\ queue[m].pc = "dead"
  /\ Publish(m, "exhausted", "retryable")

RunDies(m) ==
  /\ Mishap
  /\ queue[m].pc \in {"received", "running"}
  /\ Park(m, "hidden")
  /\ UNCHANGED <<server, client, calls, day, history>>

(* A lease outlives its run: 330 s against the function's 300 s. *)
LeaseLapses(a) ==
  /\ art[a].lease # NoLease /\ queue[art[a].lease].pc # "running"
  /\ art' = [art EXCEPT ![a].lease = NoLease]
  /\ UNCHANGED <<header, scorecard, analysis, tombs, reserved, mapping, object, queue, client,
                 calls, day, mishaps, history>>

(* The visibility timeout, 1800 s, outlives the lease. *)
Reappear(m) ==
  /\ queue[m].pc = "hidden"
  /\ art[queue[m].a].lease # m
  /\ Park(m, "visible")
  /\ UNCHANGED <<server, client, calls, day, mishaps, history>>

-----------------------------------------------------------------------------
(* What can go wrong outside.                                              *)

(* A call fails or dies: the client hears of it, or waits in vain. *)
GaveUp(c) ==
  /\ item' = IF calls[c].heard /\ calls[c].kind \in {"presign", "put", "register"}
             THEN [item EXCEPT ![calls[c].i].st = "idle"] ELSE item
  /\ check' = IF calls[c].heard /\ calls[c].kind = "complete"
              THEN [check EXCEPT !.fin = "no"] ELSE check

CallDies(c) ==
  /\ Mishap
  /\ calls[c] # NoCall
  /\ GaveUp(c) /\ End(c)
  /\ UNCHANGED <<server, queue, day, history>>

(* The client closes or loses the connection; the call goes on. *)
Abandon(c) ==
  /\ Mishap
  /\ calls[c].heard
  /\ GaveUp(c)
  /\ calls' = [calls EXCEPT ![c].heard = FALSE]
  /\ UNCHANGED <<server, queue, day, history>>

(* The day turns with nothing under way: request ids rotate, the quota is   *)
(* a new one, and the lifecycle rule removes what is still tagged pending.  *)
Night ==
  /\ day < MaxDays
  /\ \A c \in Calls : calls[c] = NoCall
  /\ \A m \in Messages : queue[m] = NoMessage
  /\ check.fin = "no"
  /\ day' = day + 1
  /\ object' = [a \in Artifacts |-> IF object[a] = "pending" THEN "none" ELSE object[a]]
  /\ UNCHANGED <<header, scorecard, art, analysis, tombs, reserved, mapping, queue, client,
                 calls, mishaps, history>>

-----------------------------------------------------------------------------

CallStep(c) ==
  \/ PresignRead(c) \/ PresignWrite(c) \/ PutMedia(c)
  \/ RegisterHead(c) \/ RegisterWrite(c) \/ RegisterReread(c) \/ RegisterRestart(c)
  \/ RegisterTag(c) \/ RegisterSend(c)
  \/ DeleteRead(c) \/ DeleteWrite(c) \/ DeleteObjects(c)
  \/ CompleteRead(c) \/ CompleteWrite(c)
WorkerStep(m) ==
  Receive(m) \/ Claim(m) \/ Analyze(m) \/ AnalyzeFails(m) \/ DeadLetter(m) \/ Reappear(m)
ClientStep(i) == StartRun(i) \/ Poll(i) \/ ResumeDelete(i)
FinalStep == StartFinalize \/ Waited \/ WaitTimesOut
UserStep(i) == Capture(i) \/ TapRetry(i) \/ AskDelete(i)
Fault ==
  \/ \E c \in Calls : CallDies(c) \/ Abandon(c) \/ CompleteCollides(c)
  \/ \E m \in Messages : RunDies(m)
  \/ \E i \in Items : PollFails(i)
  \/ Night

Next ==
  \/ \E i \in Items : UserStep(i) \/ ClientStep(i)
  \/ CreateCheck \/ Finish \/ FinalStep
  \/ \E c \in Calls : CallStep(c)
  \/ \E m \in Messages : WorkerStep(m)
  \/ \E a \in Artifacts : LeaseLapses(a)
  \/ Fault

Spec == Init /\ [][Next]_vars

(* Lambda runs a call it began, SQS redelivers, a lease runs out, the app   *)
(* resumes what it saved while it is open.  Nothing makes the user act.     *)
Fairness ==
  /\ WF_vars(CreateCheck) /\ WF_vars(FinalStep)
  /\ \A i \in Items : WF_vars(ClientStep(i))
  /\ \A c \in Calls : WF_vars(CallStep(c))
  /\ \A m \in Messages : WF_vars(WorkerStep(m))
  /\ \A a \in Artifacts : WF_vars(LeaseLapses(a))
FairSpec == Spec /\ Fairness

-----------------------------------------------------------------------------

(* Every variable has its type. *)
TypeOK ==
  /\ header \in {"none", "in_progress", "completed"} /\ scorecard \subseteq Artifacts
  /\ art \in [Artifacts -> RowType] /\ analysis \in [Artifacts -> AnalysisType]
  /\ tombs \subseteq Artifacts
  /\ reserved \in [Artifacts -> [item : Items \union {NoItem}, day : Days]]
  /\ mapping \in [Items -> [Days -> Artifacts \union {0}]]
  /\ object \in [Artifacts -> {"none", "pending", "registered"}]
  /\ queue \in [Messages -> MessageType]
  /\ item \in [Items -> ItemType] /\ check \in CheckType
  /\ calls \in [Calls -> CallType]
  /\ day \in Days /\ mishaps \in 0 .. MaxMishaps
  /\ lateBytes \subseteq Artifacts /\ lateRows \subseteq Artifacts
  /\ lateDeletes \subseteq Artifacts

(* However often a presign is repeated, a photo's request reserves (and is  *)
(* charged to the quota) once: reserveUpload.                               *)
ReservedOnce ==
  \A a, b \in Reserved : reserved[a] = reserved[b] => a = b

(* One photo is never evidence twice: of the artifacts made of it, at most  *)
(* one is registered with its object behind it.  The exception is a PUT     *)
(* that the client gave up and that lands after a registration found        *)
(* nothing: uploadArtifact waits for it only for a bounded time.            *)
EvidenceOnce ==
  \A a, b \in Rows \ lateBytes :
    reserved[a].item = reserved[b].item /\ object[a] # "none" /\ object[b] # "none" => a = b

(* A finished row shows the outcome of its own generation, however late a   *)
(* message of an earlier one is delivered: publishAnalysis.                 *)
ResultOfItsGeneration ==
  \A a \in Rows :
    /\ (art[a].st = "succeeded") = (IsCurrent(a) /\ analysis[a].st = "analyzed")
    /\ (art[a].st = "exhausted") = (IsCurrent(a) /\ analysis[a].st = "retryable")
    /\ (art[a].st = "permanent_failure") = (IsCurrent(a) /\ analysis[a].st = "failed")

(* What a photo waits for is under way: a row the client believes           *)
(* registered, and not yet finished, has a message of its generation.       *)
WaitingIsDelivered ==
  \A i \in Items :
    item[i].st = "polling" /\ item[i].a \in Rows /\ art[item[i].a].st \in {"queued", "running"}
      => \E m \in Messages :
           queue[m].pc # "free" /\ queue[m].a = item[i].a /\ queue[m].gen = art[item[i].a].gen

(* Evidence whose marker stands and whose row is gone gets neither a row    *)
(* nor an analysis again: late registrations and late results are refused.  *)
LateEvidenceStaysOut ==
  [][\A a \in tombs : art[a].st = "none" => art'[a].st = "none" /\ analysis'[a] = analysis[a]]_vars

(* The marker of a deletion and the row it deletes exclude each other.      *)
DeletedIsGone == \A a \in tombs : art[a].st = "none"

(* A completed check is settled: nothing of it waits for an analysis, and   *)
(* the scorecard it froze folds exactly the evidence that succeeded.  A row *)
(* that escaped its deletion (DeletedIsGone) may be folded, or go, late;    *)
(* and a photo whose evaluation was refused counts as failed, so the user   *)
(* may delete it while completeCheck, which has read it, is yet to write.   *)
ScorecardIsWhole ==
  header = "completed" =>
    /\ \A a \in Rows : art[a].st \notin {"queued", "running"}
    /\ \A a \in Rows \ (lateRows \union lateBytes) : art[a].st \in {"succeeded", "permanent_failure"}
    /\ scorecard \ (lateRows \union lateDeletes) =
         {a \in Rows : art[a].st = "succeeded"} \ (lateRows \union lateDeletes)

(* A photo that failed, or is being deleted, holds the check back; so does  *)
(* an earlier registration whose object the night removed.                  *)
NeedsTheUser ==
  \/ \E i \in Items : item[i].st \in {"manual", "stalled"} \/ item[i].deleting
  \/ \E a \in Rows : art[a].st = "queued" /\ object[a] = "none"

(* A finished check gets its scorecard, unless the user has to act.         *)
FinishedIsScored == check.finished ~> (check.done \/ NeedsTheUser)
=============================================================================
