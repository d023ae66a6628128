----------------------------- MODULE TaskRowProofs -----------------------------
(***************************************************************************)
(* TaskRow's safety for any number of completions, deliveries and faults.  *)
(* IInv is the inductive invariant:                                        *)
(*                                                                         *)
(*   LeaseInv    a run holds the lock's lease, so at most one runs         *)
(*   CityInv     what the City may have is on the lock row, and a run      *)
(*               knows it once it has read its results                     *)
(*   OutcomeInv  the row says who decided, and only undecided rows are     *)
(*               kept in a call's memory to be put back                    *)
(*   EvidenceInv a withdrawn task has no ticket, and no run that may ask   *)
(*                                                                         *)
(* RInv, further down, is inductive with it: what everyone knows of the    *)
(* results, and what is left when the jobs are done.                       *)
(***************************************************************************)
EXTENDS TaskRow, TLAPS

LeaseInv == \A j \in Jobs : Runs(j) => lock.lease = j

CityInv ==
  /\ city.tickets <= 1
  /\ city.tickets > 0 => ~RetractableResults(lock.res)
  /\ \A j \in Jobs :
       /\ ~RetractableResults(lock.res) /\ worker[j].pc \notin {"idle", "read"}
            => ~RetractableResults(worker[j].res)
       /\ worker[j].pc = "file" => ~IsSubmitted(worker[j].res)
       /\ worker[j].pc \in {"send", "accepted"} => ~RetractableResults(lock.res)
       /\ worker[j].pc = "send" => city.tickets = 0
       /\ worker[j].pc \in {"attach", "close", "confirmed"} => ~RetractableResults(worker[j].res)

OutcomeInv ==
  /\ (row.by = "none") = (row.st \in {"open", "completing"})
  /\ \A c \in Completers : call[c].pc = "claim" => call[c].task.by = "none"
  /\ OneOutcome

Quiet(j) ==
  \/ worker[j].pc \in {"idle", "read", "reread", "write"}
  \/ worker[j].pc = "decide" /\ worker[j].task.st = "superseded"

EvidenceInv ==
  /\ del.run.pc = "put" => RetractableResults(del.run.lock.res)
  /\ row.by = "evidence" =>
       row.st = "superseded" /\ city.tickets = 0 /\ \A j \in Jobs : Quiet(j)

IInv == TypeOK /\ LeaseInv /\ CityInv /\ OutcomeInv /\ EvidenceInv

-----------------------------------------------------------------------------
(* What a set of results becomes *)

LEMMA MergeType ==
  ASSUME NEW p \in Results, NEW n \in Results
  PROVE  Merge(p, n) \in Results
BY DEF Merge

\* A doubt or a ticket is not forgotten, and a failure does not make one of it.
LEMMA MergeKeeps ==
  ASSUME NEW p \in Results, NEW n \in Results,
         ~RetractableResults(n) \/ IsSubmitted(p) \/ p = "filed"
  PROVE  ~RetractableResults(Merge(p, n))
BY DEF Merge, Rank, RetractableResults, IsSubmitted, Results

LEMMA MergeSilent ==
  ASSUME NEW p \in Results, RetractableResults(p)
  PROVE  /\ Merge(p, "pending") = "pending"
         /\ RetractableResults(Merge(p, "unfileable"))
BY DEF Merge, Rank, RetractableResults, Results

-----------------------------------------------------------------------------
(* Types *)

LEMMA InitType == Init => TypeOK
BY BoundsAssumption DEF Init, TypeOK, FreshRow, NoLock, IdleWorker, IdleCaller, RowType, LockType,
   CallerType, JobType, WorkerType, Places, Statuses, Results, Others

LEMMA IdleTypes == IdleWorker \in WorkerType /\ IdleCaller \in CallerType /\ FreshRow \in RowType
BY DEF IdleWorker, IdleCaller, FreshRow, NoLock, WorkerType, Places, CallerType, LockType, RowType,
   Statuses, Results

LEMMA GotoType ==
  ASSUME TypeOK, NEW j \in Jobs, NEW pc \in Places, Goto(j, pc)
  PROVE  worker' \in [Jobs -> WorkerType]
BY DEF TypeOK, Goto, WorkerType

LEMMA ReleaseType ==
  ASSUME TypeOK, NEW j \in Jobs, Release(j)
  PROVE  worker' \in [Jobs -> WorkerType] /\ lock' \in LockType
BY IdleTypes DEF TypeOK, Release, LockType

LEMMA CheckpointType ==
  ASSUME TypeOK, NEW j \in Jobs, NEW r \in Results, NEW pc \in Places, Checkpoint(j, r, pc)
  PROVE  /\ worker' \in [Jobs -> WorkerType] /\ lock' \in LockType
         /\ job' \in [Jobs -> JobType]
<1>1. Merge(worker[j].res, r) \in Results
  BY MergeType DEF TypeOK, WorkerType
<1>2. worker' \in [Jobs -> WorkerType]
  BY <1>1 DEF TypeOK, Checkpoint, WorkerType
<1>3. lock' \in LockType
  BY <1>1 DEF TypeOK, Checkpoint, LockType
<1>4. job' \in [Jobs -> JobType]
  BY <1>1 DEF TypeOK, Checkpoint, JobType
<1> QED BY <1>2, <1>3, <1>4

LEMMA WorkerTypes ==
  ASSUME TypeOK, NEW j \in Jobs, Deliver(j) \/ Step(j) \/ Throws(j) \/ Dies(j)
  PROVE  TypeOK'
<1>0. /\ row \in RowType /\ lock \in LockType /\ city \in [tickets : Nat, closed : BOOLEAN]
      /\ job \in [Jobs -> JobType] /\ worker \in [Jobs -> WorkerType] /\ faults \in 0 .. MaxFaults
      /\ job[j].res \in Results /\ worker[j].res \in Results /\ row.res \in Results
      /\ lock.res \in Results
  BY DEF TypeOK, JobType, WorkerType, RowType, LockType
<1> DEFINE Others1 == /\ call' \in [Completers -> CallerType] /\ sup' \in CallerType
                      /\ cus' \in CallerType /\ del' \in [mark : BOOLEAN, run : CallerType]
<1>o. UNCHANGED <<call, sup, cus, del>> => Others1
  BY DEF TypeOK
<1>p. {"idle", "read", "decide", "file", "send", "accepted", "attach", "reread", "close",
       "confirmed", "write"} = Places
  BY DEF Places
<1>r. {"pending", "unfileable", "rejected", "filed", "submitted", "unclosed", "closed"} \subseteq Results
  BY DEF Results
<1>f. Fault => faults' \in 0 .. MaxFaults
  BY <1>0, BoundsAssumption DEF Fault
<1>1. CASE Deliver(j)
  <2>1. job' \in [Jobs -> JobType]
    BY <1>0, <1>1, BoundsAssumption DEF Deliver, MayDeliver, JobType
  <2>2. lock' \in LockType
    BY <1>0, <1>1 DEF Deliver, LockType
  <2>3. worker' \in [Jobs -> WorkerType]
    <3>1. [IdleWorker EXCEPT !.pc = "read"] \in WorkerType
      BY IdleTypes, <1>p DEF WorkerType
    <3> QED BY <1>0, <1>1, <3>1 DEF Deliver
  <2> QED BY <1>0, <1>1, <1>o, <2>1, <2>2, <2>3 DEF Deliver, TypeOK
<1>2. CASE ReadTask(j)
  <2>1. CASE Release(j)
    BY <1>0, <1>2, <1>o, <2>1, ReleaseType DEF ReadTask, TypeOK
  <2>2. CASE ~Release(j)
    <3>1. Merge(Merge(row.res, job[j].res), lock.res) \in Results
      BY <1>0, MergeType
    <3>2. worker' = [worker EXCEPT ![j] = [pc |-> "decide", task |-> row,
             res |-> Merge(Merge(row.res, job[j].res), lock.res)]]
      BY <1>2, <2>2 DEF ReadTask
    <3>3. worker' \in [Jobs -> WorkerType]
      BY <1>0, <1>p, <3>1, <3>2 DEF WorkerType
    <3> QED BY <1>0, <1>2, <1>o, <2>2, <3>3 DEF ReadTask, TypeOK
  <2> QED BY <2>1, <2>2
<1>3. CASE Decide(j)
  <2>1. worker' \in [Jobs -> WorkerType]
    BY <1>0, <1>3, <1>p, IdleTypes DEF Decide, WorkerType
  <2> QED BY <1>0, <1>3, <1>o, <2>1 DEF Decide, TypeOK
<1>4. CASE \/ File(j) \/ Send(j) \/ Accepted(j) \/ Attach(j) \/ Close(j) \/ CloseConfirmed(j)
  <2>1. (\E pc \in Places : Goto(j, pc) /\ UNCHANGED <<lock, job>>)
        \/ (\E r \in Results, pc \in Places : Checkpoint(j, r, pc))
    BY <1>4, <1>p, <1>r DEF File, Send, Accepted, Attach, Close, CloseConfirmed
  <2>2. /\ worker' \in [Jobs -> WorkerType] /\ lock' \in LockType /\ job' \in [Jobs -> JobType]
    BY <1>0, <2>1, GotoType, CheckpointType
  <2>3. faults' \in 0 .. MaxFaults
    BY <1>0, <1>4, <1>f DEF File, Send, Accepted, Attach, Close, CloseConfirmed
  <2>4. city' \in [tickets : Nat, closed : BOOLEAN]
    <3>1. \/ city' = city \/ city' = [city EXCEPT !.closed = TRUE]
          \/ \E n \in {0, 1} : city' = [city EXCEPT !.tickets = city.tickets + n]
      BY <1>4 DEF File, Send, Accepted, Attach, Close, CloseConfirmed
    <3>2. \A n \in {0, 1} : city.tickets + n \in Nat
      BY <1>0
    <3> QED BY <1>0, <3>1, <3>2
  <2>5. UNCHANGED <<row, call, sup, cus, del>>
    BY <1>4 DEF File, Send, Accepted, Attach, Close, CloseConfirmed
  <2> QED BY <1>0, <1>o, <2>2, <2>3, <2>4, <2>5 DEF TypeOK
<1>5. CASE Reread(j)
  <2>1. Release(j) \/ ((\E pc \in Places : Goto(j, pc)) /\ UNCHANGED lock)
    BY <1>5, <1>p DEF Reread
  <2>2. worker' \in [Jobs -> WorkerType] /\ lock' \in LockType
    BY <1>0, <2>1, GotoType, ReleaseType
  <2> QED BY <1>0, <1>5, <1>o, <2>2 DEF Reread, TypeOK
<1>6. CASE Write(j)
  <2>1. worker' \in [Jobs -> WorkerType] /\ lock' \in LockType
    BY <1>6, ReleaseType DEF Write
  <2>2. Merge(row.res, worker[j].res) \in Results
    BY <1>0, MergeType
  <2>3. row' \in RowType
    BY <1>0, <1>6, <2>2 DEF Write, RowType
  <2>4. job' \in [Jobs -> JobType]
    BY <1>0, <1>6 DEF Write, JobType, JobOutcome
  <2> QED BY <1>0, <1>6, <1>o, <2>1, <2>3, <2>4 DEF Write, TypeOK
<1>7. CASE Throws(j)
  BY <1>0, <1>7, <1>o, <1>f, ReleaseType DEF Throws, TypeOK
<1>8. CASE Dies(j)
  BY <1>0, <1>8, <1>o, <1>f, IdleTypes DEF Dies, TypeOK
<1> QED BY <1>1, <1>2, <1>3, <1>4, <1>5, <1>6, <1>7, <1>8 DEF Step

LEMMA CallerTypes ==
  ASSUME TypeOK, NEW x \in CallerType,
         NEW pc \in {"idle", "claim", "finish", "lock", "put", "answered", "won", "dead"}
  PROVE  /\ [x EXCEPT !.pc = pc] \in CallerType
         /\ [x EXCEPT !.pc = pc, !.task = row] \in CallerType
         /\ [x EXCEPT !.pc = pc, !.lock = lock] \in CallerType
         /\ x.task \in RowType /\ x.task.res \in Results
BY DEF TypeOK, CallerType, RowType

LEMMA DecidedTypes ==
  ASSUME NEW r \in RowType, NEW st \in Statuses
  PROVE  /\ \A x \in Others : [r EXCEPT !.st = st, !.by = x] \in RowType
         /\ [r EXCEPT !.st = st, !.override = TRUE, !.by = "custom"] \in RowType
<1>1. "custom" \in Others
  BY DEF Others
<1> QED BY <1>1 DEF RowType

LEMMA ResolvedJobType == TypeOK => ResolvedJob \in [Jobs -> JobType]
BY DEF TypeOK, ResolvedJob, JobType, Jobs

LEMMA PeopleTypes ==
  ASSUME TypeOK,
         (\E c \in Completers : Completion(c)) \/ ReadForSupersession \/ Supersede
           \/ Retraction \/ Custom
  PROVE  TypeOK'
<1>0. /\ row \in RowType /\ lock \in LockType /\ job \in [Jobs -> JobType]
      /\ call \in [Completers -> CallerType] /\ sup \in CallerType /\ cus \in CallerType
      /\ del \in [mark : BOOLEAN, run : CallerType] /\ del.run \in CallerType
      /\ faults \in 0 .. MaxFaults
  BY DEF TypeOK
<1>u. UNCHANGED <<lock, worker, city>>
  BY DEF Completion, ReadForCompletion, ClaimCompletion, FinishCompletion, CallDies,
     ReadForSupersession, Supersede, Retraction, MarkDeleted, ReadForRetraction,
     ReadLockForRetraction, Retract, Custom, ReadForCustom, ReadLockForCustom, RecordCustom
<1>s. {"open", "completing", "completed", "in_progress", "superseded"} = Statuses
      /\ {"amendment", "evidence", "custom"} = Others
  BY DEF Statuses, Others
<1>1. ASSUME NEW c \in Completers, Completion(c) PROVE TypeOK'
  <2>0. call[c] \in CallerType /\ call[c].task \in RowType /\ call[c].task.res \in Results
    BY <1>0, CallerTypes
  <2>1. CASE ReadForCompletion(c)
    <3>1. \/ call' = [call EXCEPT ![c] = [call[c] EXCEPT !.pc = "claim", !.task = row]]
          \/ call' = [call EXCEPT ![c] = [call[c] EXCEPT !.pc = "answered"]]
      BY <2>1 DEF ReadForCompletion
    <3>2. call' \in [Completers -> CallerType]
      BY <1>0, <2>0, <3>1, CallerTypes
    <3> QED BY <1>0, <1>u, <2>1, <3>2 DEF ReadForCompletion, TypeOK
  <2>2. CASE ClaimCompletion(c)
    <3>1. row' = [call[c].task EXCEPT !.st = "completing", !.lease = c] \/ row' = row
      BY <2>2 DEF ClaimCompletion
    <3>2. row' \in RowType
      BY <1>0, <1>s, <2>0, <3>1 DEF RowType
    <3>3. \/ call' = [call EXCEPT ![c] = [call[c] EXCEPT !.pc = "finish"]]
          \/ call' = [call EXCEPT ![c] = [IdleCaller EXCEPT !.pc = "answered"]]
      BY <2>2 DEF ClaimCompletion
    <3>4. call' \in [Completers -> CallerType]
      BY <1>0, <2>0, <3>3, CallerTypes, IdleTypes
    <3> QED BY <1>0, <1>u, <2>2, <3>2, <3>4 DEF ClaimCompletion, TypeOK
  <2>3. CASE FinishCompletion(c)
    <3>1. \/ row' = row
          \/ \E st \in Statuses : row' = [row EXCEPT !.st = st, !.res = call[c].task.res,
                                                  !.lease = NoOne, !.by = "call"]
      BY <2>3, <1>s DEF FinishCompletion
    <3>2. row' \in RowType
      BY <1>0, <2>0, <3>1 DEF RowType
    <3>3. \/ call' = [call EXCEPT ![c] = [IdleCaller EXCEPT !.pc = "won"]]
          \/ call' = [call EXCEPT ![c] = [IdleCaller EXCEPT !.pc = "answered"]]
      BY <2>3 DEF FinishCompletion
    <3>4. call' \in [Completers -> CallerType]
      BY <1>0, <2>0, <3>3, CallerTypes, IdleTypes
    <3>5. job' = job \/ job' = ResolvedJob
      BY <2>3 DEF FinishCompletion
    <3> QED BY <1>0, <1>u, <2>3, <3>2, <3>4, <3>5, ResolvedJobType DEF FinishCompletion, TypeOK
  <2>4. CASE CallDies(c)
    <3>1. call' \in [Completers -> CallerType]
      BY <1>0, <2>4, CallerTypes, IdleTypes DEF CallDies
    <3> QED BY <1>0, <1>u, <2>4, <3>1, BoundsAssumption DEF CallDies, Fault, TypeOK
  <2> QED BY <1>1, <2>1, <2>2, <2>3, <2>4 DEF Completion
<1>2. CASE ReadForSupersession
  <2>1. sup' \in CallerType
    BY <1>0, <1>2, CallerTypes DEF ReadForSupersession
  <2> QED BY <1>0, <1>u, <1>2, <2>1 DEF ReadForSupersession, TypeOK
<1>3. CASE Supersede
  <2>1. row' = row \/ row' = [sup.task EXCEPT !.st = "superseded", !.by = "amendment"]
    BY <1>3 DEF Supersede
  <2>2. row' \in RowType
    <3>1. sup.task \in RowType
      BY <1>0, CallerTypes
    <3>2. "superseded" \in Statuses /\ "amendment" \in Others /\ "evidence" \in Others
      BY <1>s
    <3>3. [sup.task EXCEPT !.st = "superseded", !.by = "amendment"] \in RowType
      BY <3>1, <3>2, DecidedTypes
    <3>4. row \in RowType
      BY <1>0
    <3> QED BY <2>1, <3>3, <3>4
  <2>3. sup' \in CallerType
    BY <1>0, <1>3, IdleTypes, CallerTypes DEF Supersede
  <2> QED BY <1>0, <1>u, <1>3, <2>2, <2>3 DEF Supersede, TypeOK
<1>4. CASE Retraction
  <2>1. row' = row \/ row' = [del.run.task EXCEPT !.st = "superseded", !.by = "evidence"]
    BY <1>4 DEF Retraction, MarkDeleted, ReadForRetraction, ReadLockForRetraction, Retract
  <2>2. row' \in RowType
    <3>1. del.run.task \in RowType
      BY <1>0, CallerTypes
    <3>2. "superseded" \in Statuses /\ "amendment" \in Others /\ "evidence" \in Others
      BY <1>s
    <3>3. [del.run.task EXCEPT !.st = "superseded", !.by = "evidence"] \in RowType
      BY <3>1, <3>2, DecidedTypes
    <3>4. row \in RowType
      BY <1>0
    <3> QED BY <2>1, <3>3, <3>4
  <2>3. \/ del' = [del EXCEPT !.mark = TRUE]
        \/ del' = [del EXCEPT !.run = [IdleCaller EXCEPT !.pc = "lock", !.task = row]]
        \/ del' = [del EXCEPT !.run = [del.run EXCEPT !.pc = "put", !.lock = lock]]
        \/ del' = [del EXCEPT !.run = IdleCaller]
        \/ \E pc \in {"answered", "won"} : del' = [del EXCEPT !.run = [IdleCaller EXCEPT !.pc = pc]]
    BY <1>4 DEF Retraction, MarkDeleted, ReadForRetraction, ReadLockForRetraction, Retract, Retracting
  <2>4. del' \in [mark : BOOLEAN, run : CallerType]
    <3>1. CASE del' = [del EXCEPT !.mark = TRUE]
      BY <1>0, <3>1
    <3>2. ASSUME NEW x \in CallerType, del' = [del EXCEPT !.run = x]
          PROVE  del' \in [mark : BOOLEAN, run : CallerType]
      BY <1>0, <3>2
    <3> QED BY <1>0, <2>3, <3>1, <3>2, IdleTypes, CallerTypes
  <2>5. UNCHANGED <<job, call, sup, cus, faults>>
    BY <1>4 DEF Retraction, MarkDeleted, ReadForRetraction, ReadLockForRetraction, Retract
  <2> QED BY <1>0, <1>u, <2>2, <2>4, <2>5 DEF TypeOK
<1>5. CASE Custom
  <2>1. \/ row' = row
        \/ \E st \in Statuses : row' = [cus.task EXCEPT !.st = st, !.override = TRUE, !.by = "custom"]
    BY <1>5, <1>s DEF Custom, ReadForCustom, ReadLockForCustom, RecordCustom
  <2>2. row' \in RowType
    <3>1. cus.task \in RowType
      BY <1>0, CallerTypes
    <3>2. \A st \in Statuses :
            [cus.task EXCEPT !.st = st, !.override = TRUE, !.by = "custom"] \in RowType
      BY <3>1, DecidedTypes
    <3>3. row \in RowType
      BY <1>0
    <3> QED BY <2>1, <3>2, <3>3
  <2>3. \/ cus' = [cus EXCEPT !.pc = "lock", !.task = row]
        \/ cus' = [cus EXCEPT !.pc = "put", !.lock = lock]
        \/ \E pc \in {"answered", "won"} : cus' = [IdleCaller EXCEPT !.pc = pc]
    BY <1>5 DEF Custom, ReadForCustom, ReadLockForCustom, RecordCustom
  <2>4. cus' \in CallerType
    <3>1. /\ [cus EXCEPT !.pc = "lock", !.task = row] \in CallerType
          /\ [cus EXCEPT !.pc = "put", !.lock = lock] \in CallerType
          /\ \A pc \in {"answered", "won"} : [IdleCaller EXCEPT !.pc = pc] \in CallerType
      BY <1>0, IdleTypes, CallerTypes
    <3> QED BY <2>3, <3>1
  <2>5. job' \in [Jobs -> JobType]
    BY <1>0, <1>5, ResolvedJobType DEF Custom, ReadForCustom, ReadLockForCustom, RecordCustom
  <2>6. UNCHANGED <<call, sup, del, faults>>
    BY <1>5 DEF Custom, ReadForCustom, ReadLockForCustom, RecordCustom
  <2> QED BY <1>0, <1>u, <2>2, <2>4, <2>5, <2>6 DEF TypeOK
<1> QED BY <1>1, <1>2, <1>3, <1>4, <1>5

LEMMA NextType == TypeOK /\ [Next]_vars => TypeOK'
<1> SUFFICES ASSUME TypeOK, [Next]_vars PROVE TypeOK'
  OBVIOUS
<1>1. CASE UNCHANGED vars
  BY <1>1 DEF vars, TypeOK
<1> QED BY <1>1, WorkerTypes, PeopleTypes DEF Next

-----------------------------------------------------------------------------
(* The lease and the City: the steps of a run *)

PeopleSteps ==
  (\E c \in Completers : Completion(c)) \/ ReadForSupersession \/ Supersede \/ Retraction \/ Custom

LEMMA PeopleLeaveTheLock == PeopleSteps => UNCHANGED <<lock, worker, city>>
BY DEF PeopleSteps, Completion, ReadForCompletion, ClaimCompletion, FinishCompletion, CallDies,
   ReadForSupersession, Supersede, Retraction, MarkDeleted, ReadForRetraction,
   ReadLockForRetraction, Retract, Custom, ReadForCustom, ReadLockForCustom, RecordCustom

LEMMA Steps ==
  [Next]_vars <=>
    \/ \E j \in Jobs : Deliver(j) \/ Step(j) \/ Throws(j) \/ Dies(j)
    \/ PeopleSteps
    \/ UNCHANGED vars
BY DEF Next, PeopleSteps

\* What a step of a run leaves of the runs.
LEMMA RunMoves ==
  ASSUME TypeOK, NEW j \in Jobs, Step(j) \/ Throws(j) \/ Dies(j)
  PROVE  /\ Runs(j)
         /\ \A k \in Jobs \ {j} : worker'[k] = worker[k]
         /\ lock'.lease = lock.lease \/ worker'[j].pc = "idle"
<1>0. worker \in [Jobs -> WorkerType] /\ lock \in LockType
  BY DEF TypeOK
<1>1. CASE \E pc \in Places : Goto(j, pc) /\ UNCHANGED lock /\ Runs(j)
  BY <1>0, <1>1 DEF Goto
<1>2. CASE Release(j) /\ Runs(j)
  BY <1>0, <1>2 DEF Release, IdleWorker
<1>3. CASE (\E r \in Results, pc \in Places : Checkpoint(j, r, pc)) /\ Runs(j)
  BY <1>0, <1>3 DEF Checkpoint, LockType
<1>4. CASE ReadTask(j) \/ Decide(j)
  BY <1>0, <1>4, <1>2 DEF ReadTask, Decide, Runs
<1>5. CASE \/ File(j) \/ Send(j) \/ Accepted(j) \/ Attach(j) \/ Close(j) \/ CloseConfirmed(j)
  <2>1. {"idle", "read", "decide", "file", "send", "accepted", "attach", "reread", "close",
         "confirmed", "write"} = Places
        /\ {"pending", "unfileable", "rejected", "filed", "submitted", "unclosed", "closed"} \subseteq Results
    BY DEF Places, Results
  <2>2. Runs(j)
    BY <1>5 DEF File, Send, Accepted, Attach, Close, CloseConfirmed, Runs
  <2>3. (\E pc \in Places : Goto(j, pc) /\ UNCHANGED <<lock, job>>)
        \/ (\E r \in Results, pc \in Places : Checkpoint(j, r, pc))
    BY <1>5, <2>1 DEF File, Send, Accepted, Attach, Close, CloseConfirmed
  <2> QED BY <1>1, <1>3, <2>2, <2>3
<1>6. CASE Reread(j) \/ Write(j) \/ Throws(j)
  BY <1>0, <1>6, <1>2 DEF Reread, Write, Throws, Runs, Goto
<1>7. CASE Dies(j)
  BY <1>0, <1>7 DEF Dies, IdleWorker
<1> QED BY <1>4, <1>5, <1>6, <1>7 DEF Step

LEMMA LeaseStep == TypeOK /\ LeaseInv /\ [Next]_vars => LeaseInv'
<1> SUFFICES ASSUME TypeOK, LeaseInv, [Next]_vars PROVE LeaseInv'
  OBVIOUS
<1>1. ASSUME NEW j \in Jobs, Deliver(j) PROVE LeaseInv'
  <2>1. worker \in [Jobs -> WorkerType] /\ lock \in LockType /\ NoOne \notin Jobs
    BY NamesAssumption DEF TypeOK
  <2>2. \A k \in Jobs : Runs(k) => ~LeaseFree /\ ~LeaseMayHaveExpired
    BY <2>1 DEF LeaseInv, LeaseFree, LeaseMayHaveExpired, Runs
  <2> QED BY <1>1, <2>1, <2>2 DEF Deliver, LeaseInv, Runs, LockType
<1>2. ASSUME NEW j \in Jobs, Step(j) \/ Throws(j) \/ Dies(j) PROVE LeaseInv'
  BY <1>2, RunMoves DEF LeaseInv, Runs
<1>3. CASE PeopleSteps \/ UNCHANGED vars
  BY <1>3, PeopleLeaveTheLock DEF LeaseInv, Runs, vars
<1> QED BY <1>1, <1>2, <1>3, Steps

\* While one run works, CityInv is about that run.
LEMMA OneRun ==
  ASSUME TypeOK, LeaseInv, NEW j \in Jobs, Runs(j)
  PROVE  \A k \in Jobs \ {j} : worker[k].pc = "idle"
BY DEF LeaseInv, Runs

\* CityInv as it concerns a run that holds the results r at pc, given the lock's.
Knows(pc, r, known, tickets) ==
  /\ ~RetractableResults(known) /\ pc \notin {"idle", "read"} => ~RetractableResults(r)
  /\ pc = "file" => ~IsSubmitted(r)
  /\ pc \in {"send", "accepted"} => ~RetractableResults(known)
  /\ pc = "send" => tickets = 0
  /\ pc \in {"attach", "close", "confirmed"} => ~RetractableResults(r)

LEMMA CityByRun ==
  ASSUME TypeOK, NEW j \in Jobs, \A k \in Jobs \ {j} : worker'[k].pc = "idle",
         city'.tickets <= 1, city'.tickets > 0 => ~RetractableResults(lock'.res),
         Knows(worker'[j].pc, worker'[j].res, lock'.res, city'.tickets)
  PROVE  CityInv'
BY DEF CityInv, Knows

LEMMA CityStep == TypeOK /\ LeaseInv /\ CityInv /\ [Next]_vars => CityInv'
<1> SUFFICES ASSUME TypeOK, LeaseInv, CityInv, [Next]_vars PROVE CityInv'
  OBVIOUS
<1>0. /\ worker \in [Jobs -> WorkerType] /\ lock \in LockType /\ lock.res \in Results
      /\ city \in [tickets : Nat, closed : BOOLEAN] /\ city.tickets \in Nat
      /\ city.tickets <= 1 /\ (city.tickets > 0 => ~RetractableResults(lock.res))
  BY DEF TypeOK, CityInv, LockType
<1>1. ASSUME NEW j \in Jobs, Deliver(j) PROVE CityInv'
  <2>1. /\ lock'.res = lock.res /\ city' = city
        /\ \A k \in Jobs : worker'[k] = worker[k] \/ worker'[k].pc = "read"
    BY <1>0, <1>1 DEF Deliver, IdleWorker, LockType
  <2> QED BY <2>1 DEF CityInv
<1>2. ASSUME NEW j \in Jobs, Step(j) \/ Throws(j) \/ Dies(j) PROVE CityInv'
  <2>0. /\ Runs(j) /\ \A k \in Jobs \ {j} : worker'[k].pc = "idle"
    BY <1>2, RunMoves, OneRun
  <2>k. /\ worker[j] \in WorkerType /\ worker[j].res \in Results
        /\ Knows(worker[j].pc, worker[j].res, lock.res, city.tickets)
    BY <1>0 DEF CityInv, Knows, WorkerType
  <2> DEFINE p == worker[j].pc
             r == worker[j].res
  \* A checkpoint of x on the way to pc, and a move to pc that writes nothing.
  <2>c. ASSUME NEW x \in Results, NEW pc \in Places, Checkpoint(j, x, pc)
        PROVE  /\ worker'[j].pc = pc /\ worker'[j].res = Merge(r, x) /\ lock'.res = Merge(r, x)
    BY <1>0, <2>c, MergeType DEF Checkpoint, WorkerType, LockType
  <2>g. ASSUME NEW pc \in Places, Goto(j, pc)
        PROVE  worker'[j].pc = pc /\ worker'[j].res = r
    BY <1>0, <2>g DEF Goto, WorkerType
  <2>p. /\ {"idle", "read", "decide", "file", "send", "accepted", "attach", "reread", "close",
            "confirmed", "write"} = Places
        /\ {"pending", "unfileable", "rejected", "filed", "submitted", "unclosed", "closed"} \subseteq Results
    BY DEF Places, Results
  <2>i. ASSUME worker'[j].pc = "idle", lock'.res = lock.res, city' = city PROVE CityInv'
    BY <1>0, <2>0, <2>i, CityByRun DEF Knows
  <2>1. CASE ReadTask(j)
    <3>1. CASE Release(j)
      BY <1>0, <2>1, <2>i, <3>1 DEF ReadTask, Release, IdleWorker, LockType
    <3>2. CASE ~Release(j)
      <4> DEFINE q == Merge(row.res, job[j].res)
      <4>1. q \in Results
        BY MergeType DEF TypeOK, RowType, JobType
      <4>2. /\ worker'[j].pc = "decide" /\ worker'[j].res = Merge(q, lock.res)
            /\ lock' = lock /\ city' = city
        BY <1>0, <2>1, <3>2 DEF ReadTask
      <4>3. ~RetractableResults(lock.res) => ~RetractableResults(Merge(q, lock.res))
        BY <1>0, <4>1, MergeKeeps
      <4> QED BY <1>0, <2>0, <4>2, <4>3, CityByRun DEF Knows
    <3> QED BY <3>1, <3>2
  <2>2. CASE Decide(j)
    <3>1. /\ worker'[j].pc \in {"file", "reread"} /\ worker'[j].res = r
          /\ worker'[j].pc = "file" => ~IsSubmitted(r)
          /\ lock' = lock /\ city' = city /\ p = "decide"
      BY <1>0, <2>2 DEF Decide, MayFile, WorkerType
    <3> QED BY <1>0, <2>0, <2>k, <3>1, CityByRun DEF Knows
  <2>3. CASE File(j)
    <3>1. city' = city /\ p = "file"
      BY <2>3 DEF File
    <3>2. CASE Uncertain(j) /\ Goto(j, "reread") /\ lock' = lock
      <4>1. worker'[j].pc = "reread" /\ worker'[j].res = r
        BY <2>g, <2>p, <3>2
      <4> QED BY <1>0, <2>0, <2>k, <3>1, <3>2, <4>1, CityByRun DEF Knows
    <3>3. CASE r = "filed" /\ Goto(j, "attach") /\ lock' = lock
      <4>1. worker'[j].pc = "attach" /\ worker'[j].res = r
        BY <2>g, <2>p, <3>3
      <4> QED BY <1>0, <2>0, <2>k, <3>1, <3>3, <4>1, CityByRun DEF Knows, RetractableResults
    <3>4. ASSUME ~Uncertain(j), r # "filed" PROVE RetractableResults(r) /\ city.tickets = 0
      BY <1>0, <2>k, <3>1, <3>4 DEF Knows, Uncertain, RetractableResults, IsSubmitted, Results
    <3>5. CASE ~Uncertain(j) /\ r # "filed" /\ Checkpoint(j, "pending", "send")
      <4>1. worker'[j].pc = "send" /\ worker'[j].res = "pending" /\ lock'.res = "pending"
        BY <2>c, <2>k, <2>p, <3>4, <3>5, MergeSilent
      <4> QED BY <1>0, <2>0, <3>1, <3>4, <3>5, <4>1, CityByRun DEF Knows, RetractableResults
    <3>6. CASE ~Uncertain(j) /\ r # "filed" /\ Checkpoint(j, "unfileable", "reread")
      <4>1. /\ worker'[j].pc = "reread" /\ RetractableResults(worker'[j].res)
            /\ RetractableResults(lock'.res)
        BY <2>c, <2>k, <2>p, <3>4, <3>6, MergeSilent
      <4> QED BY <1>0, <2>0, <3>1, <3>4, <3>6, <4>1, CityByRun DEF Knows
    <3> QED BY <2>3, <3>2, <3>3, <3>5, <3>6 DEF File
  <2>4. CASE Send(j)
    <3>1. /\ p = "send" /\ city.tickets = 0 /\ ~RetractableResults(lock.res)
          /\ ~RetractableResults(r)
      BY <2>4, <2>k DEF Send, Knows
    <3>2. CASE Checkpoint(j, "rejected", "reread") /\ city' = city
      <4>1. /\ worker'[j].pc = "reread" /\ worker'[j].res = lock'.res
        BY <2>c, <2>p, <3>2
      <4> QED BY <1>0, <2>0, <3>1, <3>2, <4>1, CityByRun DEF Knows
    <3>3. ASSUME NEW pc \in {"accepted", "reread"}, NEW n \in {0, 1}, Goto(j, pc), lock' = lock,
                 city' = [city EXCEPT !.tickets = @ + n]
          PROVE  CityInv'
      <4>1. /\ worker'[j].pc = pc /\ worker'[j].res = r /\ city'.tickets <= 1
        BY <1>0, <2>g, <2>p, <3>1, <3>3
      <4> QED BY <1>0, <2>0, <3>1, <3>3, <4>1, CityByRun DEF Knows
    <3> QED BY <2>4, <3>2, <3>3 DEF Send
  <2>5. CASE Accepted(j) \/ Attach(j) \/ Close(j) \/ CloseConfirmed(j)
    <3>1. ~RetractableResults(r)
      BY <2>5, <2>k DEF Accepted, Attach, Close, CloseConfirmed, Knows
    <3>2. city'.tickets = city.tickets
      BY <1>0, <2>5 DEF Accepted, Attach, Close, CloseConfirmed
    <3>3. ASSUME NEW x \in {"filed", "submitted", "unclosed", "closed"},
                 NEW pc \in {"attach", "reread", "write"}, Checkpoint(j, x, pc)
          PROVE  CityInv'
      <4>1. ~RetractableResults(Merge(r, x))
        BY <2>k, <2>p, MergeKeeps DEF RetractableResults
      <4>2. /\ worker'[j].pc = pc /\ worker'[j].res = Merge(r, x) /\ lock'.res = Merge(r, x)
        BY <2>c, <2>p, <3>3
      <4> QED BY <1>0, <2>0, <3>2, <4>1, <4>2, CityByRun DEF Knows
    <3>4. ASSUME NEW pc \in {"write", "confirmed"}, Goto(j, pc), lock' = lock PROVE CityInv'
      <4>1. worker'[j].pc = pc /\ worker'[j].res = r
        BY <2>g, <2>p, <3>4
      <4> QED BY <1>0, <2>0, <3>1, <3>2, <3>4, <4>1, CityByRun DEF Knows
    <3> QED BY <2>5, <3>3, <3>4 DEF Accepted, Attach, Close, CloseConfirmed
  <2>6. CASE Reread(j)
    <3>1. CASE Release(j)
      BY <1>0, <2>6, <2>i, <3>1 DEF Reread, Release, IdleWorker, LockType
    <3>2. CASE lock' = lock /\ Goto(j, IF NeedsClosing(j) THEN "close" ELSE "write")
      <4>1. /\ worker'[j].pc = (IF NeedsClosing(j) THEN "close" ELSE "write")
            /\ worker'[j].res = r /\ city' = city /\ p = "reread"
        BY <2>6, <2>g, <2>p, <3>2 DEF Reread
      <4>2. NeedsClosing(j) => ~RetractableResults(r)
        BY DEF NeedsClosing, IsSubmitted, RetractableResults
      <4> QED BY <1>0, <2>0, <2>k, <3>2, <4>1, <4>2, CityByRun DEF Knows
    <3> QED BY <2>6, <3>1, <3>2 DEF Reread
  <2>7. CASE Write(j) \/ Throws(j) \/ Dies(j)
    BY <1>0, <2>7, <2>i DEF Write, Throws, Dies, Release, IdleWorker, LockType
  <2> QED BY <1>2, <2>1, <2>2, <2>3, <2>4, <2>5, <2>6, <2>7 DEF Step
<1>3. CASE PeopleSteps \/ UNCHANGED vars
  BY <1>3, PeopleLeaveTheLock DEF CityInv, vars
<1> QED BY <1>1, <1>2, <1>3, Steps

-----------------------------------------------------------------------------
(* The outcome *)

\* A run leaves who decided, and the status, as they are; so does a step of a
\* person's that does not write the row.
LEMMA RunsDecideNothing ==
  ASSUME TypeOK, NEW j \in Jobs, Deliver(j) \/ Step(j) \/ Throws(j) \/ Dies(j)
  PROVE  row'.by = row.by /\ row'.st = row.st /\ UNCHANGED <<call, sup, del, cus>>
<1>1. row \in RowType
  BY DEF TypeOK
<1>2. CASE Write(j)
  BY <1>1, <1>2 DEF Write, RowType
<1>3. CASE ~Write(j)
  BY <1>3 DEF Deliver, Step, Throws, Dies, ReadTask, Decide, File, Send, Accepted, Attach, Reread,
     Close, CloseConfirmed
<1> QED BY <1>2, <1>3

\* A step without a new winner, on a row that nobody decided or that stays.
LEMMA NoNewWinner ==
  ASSUME OutcomeInv, Winners' \subseteq Winners, row'.by = row.by \/ row.by = "none"
  PROVE  OneOutcome'
<1>1. row.by = "none" => Winners = {}
  BY DEF OutcomeInv, OneOutcome, Others
<1>2. row'.by # row.by => Winners' = {}
  BY <1>1
<1> QED BY <1>2 DEF OutcomeInv, OneOutcome

\* A new winner decides about a row that nobody had decided.
LEMMA NewWinner ==
  ASSUME OutcomeInv, row.by = "none", NEW x \in Completers \union Others,
         Winners' \subseteq Winners \union {x}, row'.by = (IF x \in Others THEN x ELSE "call")
  PROVE  OneOutcome'
<1>1. Winners = {}
  BY DEF OutcomeInv, OneOutcome, Others
<1> QED BY <1>1 DEF OneOutcome

LEMMA OutcomeStep == TypeOK /\ OutcomeInv /\ [Next]_vars => OutcomeInv'
<1> SUFFICES ASSUME TypeOK, OutcomeInv, [Next]_vars PROVE OutcomeInv'
  OBVIOUS
<1>0. /\ row \in RowType /\ call \in [Completers -> CallerType] /\ sup \in CallerType
      /\ cus \in CallerType /\ del.run \in CallerType /\ IdleCaller \in CallerType
      /\ (row.by = "none") = (row.st \in {"open", "completing"})
      /\ Completers \intersect Others = {} /\ Others = {"amendment", "evidence", "custom"}
  BY IdleTypes, NamesAssumption DEF TypeOK, OutcomeInv, Others
<1>1. ASSUME NEW j \in Jobs, Deliver(j) \/ Step(j) \/ Throws(j) \/ Dies(j) PROVE OutcomeInv'
  <2>1. row'.by = row.by /\ row'.st = row.st /\ UNCHANGED <<call, sup, del, cus>>
    BY <1>1, RunsDecideNothing
  <2>2. Winners' = Winners
    BY <2>1 DEF Winners
  <2> QED BY <2>1, <2>2, NoNewWinner DEF OutcomeInv
<1>2. ASSUME NEW c \in Completers, Completion(c) PROVE OutcomeInv'
  <2>0. UNCHANGED <<sup, del, cus>>
    BY <1>2 DEF Completion, ReadForCompletion, ClaimCompletion, FinishCompletion, CallDies
  <2>1. CASE ReadForCompletion(c)
    <3>1. /\ row' = row /\ call'[c].pc \in {"claim", "answered"}
          /\ call'[c].pc = "claim" => call'[c].task.by = "none"
          /\ \A d \in Completers \ {c} : call'[d] = call[d]
      BY <1>0, <2>1 DEF ReadForCompletion, CallerType
    <3>2. Winners' \subseteq Winners
      BY <2>0, <3>1 DEF Winners
    <3> QED BY <3>1, <3>2, NoNewWinner DEF OutcomeInv
  <2>2. CASE ClaimCompletion(c)
    <3>1. /\ call'[c].pc \in {"finish", "answered"}
          /\ \A d \in Completers \ {c} : call'[d] = call[d]
      BY <1>0, <2>2 DEF ClaimCompletion, CallerType, IdleCaller
    <3>2. Winners' \subseteq Winners
      BY <2>0, <3>1 DEF Winners
    <3>3. \/ row' = row
          \/ row.by = "none" /\ row'.by = "none" /\ row'.st = "completing"
      <4>1. CASE Claimable(call[c].task)
        <5>1. row.st \in {"open", "completing"}
          BY <4>1 DEF Claimable
        <5>2. call[c].task.by = "none" /\ call[c].task \in RowType
          BY <1>0, <2>2 DEF ClaimCompletion, OutcomeInv, CallerType
        <5>3. row' = [call[c].task EXCEPT !.st = "completing", !.lease = c]
          BY <2>2, <4>1 DEF ClaimCompletion
        <5>4. row'.by = "none" /\ row'.st = "completing"
          BY <5>2, <5>3 DEF RowType
        <5> QED BY <1>0, <5>1, <5>4
      <4>2. CASE ~Claimable(call[c].task)
        BY <2>2, <4>2 DEF ClaimCompletion
      <4> QED BY <4>1, <4>2
    <3> QED BY <3>1, <3>2, <3>3, NoNewWinner DEF OutcomeInv
  <2>3. CASE FinishCompletion(c)
    <3>1. /\ call'[c].pc \in {"won", "answered"}
          /\ \A d \in Completers \ {c} : call'[d] = call[d]
      BY <1>0, <2>3 DEF FinishCompletion, IdleCaller
    <3>2. Winners' \subseteq Winners \union {c}
      BY <2>0, <3>1 DEF Winners
    <3>3. CASE row.st = "completing" /\ row.lease = c
      <4>1. row.by = "none" /\ row'.by = "call" /\ row'.st \in {"completed", "in_progress"}
        <5>1. PICK st \in {"completed", "in_progress"} :
                row' = [row EXCEPT !.st = st, !.res = call[c].task.res, !.lease = NoOne, !.by = "call"]
          BY <2>3, <3>3 DEF FinishCompletion
        <5>2. row'.by = "call" /\ row'.st = st
          BY <1>0, <5>1 DEF RowType
        <5> QED BY <1>0, <3>3, <5>1, <5>2
      <4> QED BY <1>0, <3>1, <3>2, <4>1, NewWinner DEF OutcomeInv
    <3>4. CASE ~(row.st = "completing" /\ row.lease = c)
      <4>1. row' = row /\ call'[c].pc = "answered"
        BY <1>0, <2>3, <3>4 DEF FinishCompletion, IdleCaller
      <4>2. Winners' \subseteq Winners
        BY <2>0, <3>1, <4>1 DEF Winners
      <4> QED BY <3>1, <4>1, <4>2, NoNewWinner DEF OutcomeInv
    <3> QED BY <3>3, <3>4
  <2>4. CASE CallDies(c)
    <3>1. /\ row' = row /\ call'[c].pc = "dead" /\ \A d \in Completers \ {c} : call'[d] = call[d]
      BY <1>0, <2>4 DEF CallDies, IdleCaller
    <3>2. Winners' \subseteq Winners
      BY <2>0, <3>1 DEF Winners
    <3> QED BY <3>1, <3>2, NoNewWinner DEF OutcomeInv
  <2> QED BY <1>2, <2>1, <2>2, <2>3, <2>4 DEF Completion
<1>3. CASE ReadForSupersession \/ Supersede
  <2>0. UNCHANGED <<call, del, cus>>
    BY <1>3 DEF ReadForSupersession, Supersede
  <2>1. CASE row' = row /\ sup'.pc # "won"
    <3>1. Winners' \subseteq Winners
      BY <2>0, <2>1 DEF Winners
    <3> QED BY <2>0, <2>1, <3>1, NoNewWinner DEF OutcomeInv
  <2>2. CASE row.by = "none" /\ row'.by = "amendment" /\ row'.st = "superseded"
    <3>1. Winners' \subseteq Winners \union {"amendment"}
      BY <1>0, <2>0 DEF Winners
    <3> QED BY <1>0, <2>0, <2>2, <3>1, NewWinner DEF OutcomeInv
  <2>3. CASE ReadForSupersession
    BY <1>0, <2>1, <2>3 DEF ReadForSupersession, CallerType
  <2>4. CASE Supersede
    <3>1. CASE StillOpen
      <4>1. row.by = "none"
        BY <1>0, <3>1 DEF StillOpen
      <4>2. row' = [sup.task EXCEPT !.st = "superseded", !.by = "amendment"]
        BY <2>4, <3>1 DEF Supersede
      <4>3. row'.by = "amendment" /\ row'.st = "superseded"
        BY <1>0, <4>2 DEF CallerType, RowType
      <4> QED BY <2>2, <4>1, <4>3
    <3>2. CASE ~StillOpen
      BY <2>1, <2>4, <3>2 DEF Supersede, IdleCaller
    <3> QED BY <3>1, <3>2
  <2> QED BY <1>3, <2>3, <2>4
<1>4. CASE Retraction
  <2>0. UNCHANGED <<call, sup, cus>>
    BY <1>4 DEF Retraction, MarkDeleted, ReadForRetraction, ReadLockForRetraction, Retract
  <2>1. CASE row' = row /\ (del'.run = del.run \/ del'.run.pc # "won")
    <3>1. Winners' \subseteq Winners
      BY <2>0, <2>1 DEF Winners
    <3> QED BY <2>0, <2>1, <3>1, NoNewWinner DEF OutcomeInv
  <2>2. CASE row.by = "none" /\ row'.by = "evidence" /\ row'.st = "superseded"
    <3>1. Winners' \subseteq Winners \union {"evidence"}
      BY <1>0, <2>0 DEF Winners
    <3> QED BY <1>0, <2>0, <2>2, <3>1, NewWinner DEF OutcomeInv
  <2>3. del \in [mark : BOOLEAN, run : CallerType]
    BY DEF TypeOK
  <2>4. CASE MarkDeleted
    BY <2>1, <2>3, <2>4 DEF MarkDeleted
  <2>5. CASE ReadForRetraction
    BY <2>1, <2>3, <2>5 DEF ReadForRetraction, Retracting, IdleCaller
  <2>6. CASE ReadLockForRetraction
    <3>1. row' = row
      BY <2>6 DEF ReadLockForRetraction
    <3>2. CASE Retracting(IdleCaller)
      BY <2>1, <2>3, <3>1, <3>2 DEF Retracting, IdleCaller
    <3>3. CASE Retracting([del.run EXCEPT !.pc = "put", !.lock = lock])
      <4>1. del'.run = [del.run EXCEPT !.pc = "put", !.lock = lock]
        BY <2>3, <3>3 DEF Retracting
      <4>2. del'.run.pc = "put"
        BY <1>0, <4>1 DEF CallerType
      <4> QED BY <2>1, <3>1, <4>2
    <3> QED BY <2>6, <3>2, <3>3 DEF ReadLockForRetraction
  <2>7. CASE Retract
    <3>1. CASE row' = row /\ Retracting(IdleCaller)
      BY <2>1, <2>3, <3>1 DEF Retracting, IdleCaller
    <3>2. CASE row.st = "open" /\ row' = [del.run.task EXCEPT !.st = "superseded", !.by = "evidence"]
      <4>1. row.by = "none"
        BY <1>0, <3>2
      <4>2. row'.by = "evidence" /\ row'.st = "superseded"
        BY <1>0, <3>2 DEF CallerType, RowType
      <4> QED BY <2>2, <4>1, <4>2
    <3> QED BY <2>7, <3>1, <3>2 DEF Retract
  <2> QED BY <1>4, <2>4, <2>5, <2>6, <2>7 DEF Retraction
<1>5. CASE Custom
  <2>0. UNCHANGED <<call, sup, del>>
    BY <1>5 DEF Custom, ReadForCustom, ReadLockForCustom, RecordCustom
  <2>1. CASE row' = row /\ cus'.pc # "won"
    <3>1. Winners' \subseteq Winners
      BY <2>0, <2>1 DEF Winners
    <3> QED BY <2>0, <2>1, <3>1, NoNewWinner DEF OutcomeInv
  <2>2. CASE row.by = "none" /\ row'.by = "custom" /\ row'.st \in {"completed", "in_progress"}
    <3>1. Winners' \subseteq Winners \union {"custom"}
      BY <1>0, <2>0 DEF Winners
    <3> QED BY <1>0, <2>0, <2>2, <3>1, NewWinner DEF OutcomeInv
  <2>3. CASE ReadForCustom
    BY <1>0, <2>1, <2>3 DEF ReadForCustom, CallerType
  <2>4. CASE ReadLockForCustom
    BY <1>0, <2>1, <2>4 DEF ReadLockForCustom, CallerType, IdleCaller
  <2>5. CASE RecordCustom
    <3>1. CASE row' = row /\ cus' = [IdleCaller EXCEPT !.pc = "answered"]
      BY <2>1, <3>1 DEF IdleCaller
    <3>2. ASSUME NEW st \in {"completed", "in_progress"}, row.st = "open",
                 row' = [cus.task EXCEPT !.st = st, !.override = TRUE, !.by = "custom"]
          PROVE  OutcomeInv'
      <4>1. row.by = "none"
        BY <1>0, <3>2
      <4>2. row'.by = "custom" /\ row'.st = st
        BY <1>0, <3>2 DEF CallerType, RowType
      <4> QED BY <2>2, <4>1, <4>2
    <3> QED BY <2>5, <3>1, <3>2 DEF RecordCustom
  <2> QED BY <1>5, <2>3, <2>4, <2>5 DEF Custom
<1>6. CASE UNCHANGED vars
  <2>1. Winners' = Winners
    BY <1>6 DEF vars, Winners
  <2> QED BY <1>6, <2>1, NoNewWinner DEF vars, OutcomeInv
<1> QED BY <1>1, <1>2, <1>3, <1>4, <1>5, <1>6 DEF Next

-----------------------------------------------------------------------------
(* The evidence *)

LEMMA EvidenceStep == IInv /\ [Next]_vars => EvidenceInv'
<1> SUFFICES ASSUME IInv, [Next]_vars PROVE EvidenceInv'
  OBVIOUS
<1>0. /\ TypeOK /\ LeaseInv /\ CityInv /\ EvidenceInv /\ OutcomeInv
      /\ row \in RowType /\ worker \in [Jobs -> WorkerType] /\ lock \in LockType
      /\ del \in [mark : BOOLEAN, run : CallerType] /\ del.run \in CallerType
  BY DEF IInv, TypeOK
<1>1. ASSUME NEW j \in Jobs, Deliver(j) \/ Step(j) \/ Throws(j) \/ Dies(j) PROVE EvidenceInv'
  <2>1. row'.by = row.by /\ row'.st = row.st /\ del' = del
    BY <1>0, <1>1, RunsDecideNothing
  <2>2. ASSUME row.by = "evidence" PROVE city'.tickets = 0 /\ \A k \in Jobs : Quiet(k)'
    <3>0. row.st = "superseded" /\ city.tickets = 0 /\ \A k \in Jobs : Quiet(k)
      BY <1>0, <2>2 DEF EvidenceInv, Quiet
    <3>1. CASE Deliver(j)
      <4>1. city' = city /\ \A k \in Jobs : worker'[k] = worker[k] \/ worker'[k].pc = "read"
        BY <1>0, <3>1 DEF Deliver, IdleWorker
      <4> QED BY <3>0, <4>1 DEF Quiet
    <3>2. CASE Step(j) \/ Throws(j) \/ Dies(j)
      <4>1. \A k \in Jobs \ {j} : worker'[k] = worker[k]
        BY <1>0, <3>2, RunMoves
      <4>2. city' = city /\ Quiet(j)'
        <5>1. CASE ReadTask(j)
          BY <1>0, <3>0, <5>1 DEF Quiet, ReadTask, Release, IdleWorker
        <5>2. CASE Decide(j)
          BY <1>0, <3>0, <5>2 DEF Quiet, Decide, MayFile, WorkerType
        <5>3. CASE Reread(j)
          BY <1>0, <3>0, <5>3 DEF Quiet, Reread, NeedsClosing, Goto, Release, IdleWorker, WorkerType
        <5>4. CASE Write(j) \/ Throws(j) \/ Dies(j)
          BY <1>0, <3>0, <5>4 DEF Quiet, Write, Throws, Dies, Release, IdleWorker
        <5>5. CASE File(j) \/ Send(j) \/ Accepted(j) \/ Attach(j) \/ Close(j) \/ CloseConfirmed(j)
          BY <3>0, <5>5 DEF File, Send, Accepted, Attach, Close, CloseConfirmed, Quiet
        <5> QED BY <3>2, <5>1, <5>2, <5>3, <5>4, <5>5 DEF Step
      <4> QED BY <3>0, <4>1, <4>2 DEF Quiet
    <3> QED BY <1>1, <3>1, <3>2
  <2> QED BY <1>0, <2>1, <2>2 DEF EvidenceInv, Quiet
<1>2. CASE PeopleSteps
  <2>0. UNCHANGED <<lock, worker, city>>
    BY <1>2, PeopleLeaveTheLock
  <2>1. CASE Retract
    <3>1. del'.run.pc # "put"
      BY <1>0, <2>1 DEF Retract, Retracting, IdleCaller
    <3>2. CASE row' = row
      BY <1>0, <2>0, <3>1, <3>2 DEF EvidenceInv, Quiet
    <3>3. CASE row' # row
      <4>1. /\ LockAsRead(del.run.lock) /\ del.run.pc = "put"
            /\ row' = [del.run.task EXCEPT !.st = "superseded", !.by = "evidence"]
        BY <2>1, <3>3 DEF Retract
      <4>2. RetractableResults(lock.res)
        BY <1>0, <4>1 DEF EvidenceInv, Quiet, LockAsRead
      <4>3. city.tickets = 0
        BY <1>0, <4>2 DEF CityInv, TypeOK
      <4>4. \A j \in Jobs : worker[j].pc = "idle"
        <5>1. ASSUME NEW j \in Jobs, Runs(j) PROVE FALSE
          BY <1>0, <4>1, <5>1, NamesAssumption
             DEF LeaseInv, LockAsRead, LeaseFree, LeaseMayHaveExpired, Runs
        <5> QED BY <5>1 DEF Runs
      <4>5. row'.st = "superseded"
        BY <1>0, <4>1 DEF CallerType, RowType
      <4> QED BY <2>0, <3>1, <4>3, <4>4, <4>5 DEF EvidenceInv, Quiet
    <3> QED BY <3>2, <3>3
  <2>2. CASE ReadLockForRetraction
    <3>1. row' = row
      BY <2>2 DEF ReadLockForRetraction
    <3>2. del'.run.pc = "put" => RetractableResults(del'.run.lock.res)
      <4>1. CASE Retracting([del.run EXCEPT !.pc = "put", !.lock = lock]) /\ RetractableResults(lock.res)
        <5>1. del'.run = [del.run EXCEPT !.pc = "put", !.lock = lock]
          BY <1>0, <4>1 DEF Retracting
        <5>2. del'.run.lock = lock
          BY <1>0, <5>1 DEF CallerType
        <5> QED BY <4>1, <5>2
      <4>2. CASE Retracting(IdleCaller)
        BY <1>0, <4>2 DEF Retracting, IdleCaller
      <4> QED BY <2>2, <4>1, <4>2 DEF ReadLockForRetraction
    <3> QED BY <1>0, <2>0, <3>1, <3>2 DEF EvidenceInv, Quiet
  <2>3. CASE MarkDeleted \/ ReadForRetraction
    BY <1>0, <2>0, <2>3 DEF MarkDeleted, ReadForRetraction, Retracting, EvidenceInv, Quiet, IdleCaller
  <2>4. CASE (\E c \in Completers : Completion(c)) \/ ReadForSupersession \/ Supersede \/ Custom
    <3>1. del' = del
      BY <2>4 DEF Completion, ReadForCompletion, ClaimCompletion, FinishCompletion, CallDies,
         ReadForSupersession, Supersede, Custom, ReadForCustom, ReadLockForCustom, RecordCustom
    <3>2. row' = row \/ row'.by # "evidence"
      <4>1. CASE \E c \in Completers : Completion(c)
        BY <1>0, <4>1 DEF Completion, ReadForCompletion, ClaimCompletion, FinishCompletion, CallDies,
           OutcomeInv, TypeOK, CallerType, RowType
      <4>2. CASE ReadForSupersession \/ Supersede
        BY <1>0, <4>2 DEF ReadForSupersession, Supersede, TypeOK, CallerType, RowType
      <4>3. CASE Custom
        BY <1>0, <4>3 DEF Custom, ReadForCustom, ReadLockForCustom, RecordCustom, TypeOK,
           CallerType, RowType
      <4> QED BY <2>4, <4>1, <4>2, <4>3
    <3> QED BY <1>0, <2>0, <3>1, <3>2 DEF EvidenceInv, Quiet
  <2> QED BY <1>2, <2>1, <2>2, <2>3, <2>4 DEF PeopleSteps, Retraction
<1>3. CASE UNCHANGED vars
  BY <1>0, <1>3 DEF vars, EvidenceInv, Quiet
<1> QED BY <1>1, <1>2, <1>3, Steps

-----------------------------------------------------------------------------
(* The theorems *)

\* The inductive invariant holds in every reachable state.
THEOREM Invariance == Spec => []IInv
<1>1. Init => IInv
  <2> SUFFICES ASSUME Init PROVE IInv
    OBVIOUS
  <2>1. Winners = {}
    BY DEF Init, Winners, IdleCaller
  <2> QED BY <2>1, InitType
          DEF Init, IInv, LeaseInv, CityInv, OutcomeInv, OneOutcome, EvidenceInv, Quiet, Runs, IdleWorker,
              IdleCaller, FreshRow, NoLock
<1>2. IInv /\ [Next]_vars => IInv'
  BY NextType, LeaseStep, CityStep, OutcomeStep, EvidenceStep DEF IInv
<1> QED BY <1>1, <1>2, PTL DEF Spec

\* Rows, jobs, runs and calls keep their types.
THEOREM TypeCorrect == Spec => []TypeOK
<1>1. IInv => TypeOK
  BY DEF IInv
<1> QED BY <1>1, Invariance, PTL

\* HUB is asked for one ticket, however many runs die, answers get lost and
\* deliveries are repeated, and whatever is put back on the row meanwhile.
THEOREM NoSecondTicket == Spec => []OneAutomaticTicket
<1>1. IInv => OneAutomaticTicket
  BY DEF IInv, CityInv, OneAutomaticTicket
<1> QED BY <1>1, Invariance, PTL

\* A task withdrawn with its photo has no ticket, and no run asks for one.
THEOREM WithdrawnIsNotFiled == Spec => []RetractedIsNotFiled
<1>1. IInv => RetractedIsNotFiled
  BY DEF IInv, EvidenceInv, Quiet, RetractedIsNotFiled
<1> QED BY <1>1, Invariance, PTL

\* One decision about the task, and the row shows it, for any number of calls.
THEOREM OneDecision == Spec => []OneOutcome
<1>1. IInv => OneOutcome
  BY DEF IInv, OutcomeInv
<1> QED BY <1>1, Invariance, PTL

-----------------------------------------------------------------------------
(* What the row shows and what is closed, once the jobs are done.  RInv     *)
(* strengthens IInv by                                                      *)
(*                                                                          *)
(*   RankInv   no copy of the results knows more than the lock row          *)
(*   KnowInv   a run that has read its results knows what the lock row says *)
(*   JobInv    only a queued job runs; the resolved job is for a completed  *)
(*             task                                                         *)
(*   CloseInv  a closure on record was made; a run that leaves a submitted  *)
(*             ticket open has the resolved job behind it                   *)
(*   DoneInv   what is left when no job is queued                           *)

Known == {r \in Results : Rank(r) <= Rank(lock.res)}

RankInv ==
  /\ row.res \in Known /\ sup.task.res \in Known /\ cus.task.res \in Known
  /\ del.run.task.res \in Known
  /\ \A j \in Jobs : job[j].res \in Known
  /\ \A c \in Completers : call[c].task.res \in Known

KnowInv == \A j \in Jobs : worker[j].pc \notin {"idle", "read"} => worker[j].res = lock.res

JobInv ==
  /\ \A j \in Jobs : Runs(j) => Queued(j)
  /\ job["resolved"].st # "none" => row.st = "completed"

CloseInv ==
  /\ lock.res = "closed" => city.closed
  /\ \A j \in Jobs :
       /\ worker[j].pc = "confirmed" => city.closed
       /\ worker[j].pc = "write" /\ row.st = "completed" /\ lock.res = "submitted"
            => j = "created" /\ Queued("resolved")

DoneInv ==
  row.st = "completed" /\ AllDone =>
    row.res = lock.res /\ lock.res \in {"none", "unfileable", "closed"}

RInv == RankInv /\ KnowInv /\ JobInv /\ CloseInv /\ DoneInv

\* Merging keeps the one that knows more, the later one of two that know the same.
LEMMA MergeRanks ==
  ASSUME NEW p \in Results, NEW n \in Results
  PROVE  /\ Rank(p) \in Nat /\ Rank(n) \in Nat
         /\ Merge(p, n) \in {p, n}
         /\ Rank(p) <= Rank(Merge(p, n)) /\ Rank(n) <= Rank(Merge(p, n))
         /\ Rank(p) <= Rank(n) => Merge(p, n) = n
<1>1. Rank(p) \in Nat /\ Rank(n) \in Nat
  BY DEF Rank, Results
<1>2. CASE Rank(n) >= Rank(p)
  BY <1>1, <1>2 DEF Merge
<1>3. CASE ~(Rank(n) >= Rank(p))
  BY <1>1, <1>3 DEF Merge
<1> QED BY <1>1, <1>2, <1>3

\* The lock row's own results, and none at all, are known to it.
LEMMA KnownToTheLock ==
  ASSUME TypeOK
  PROVE  lock.res \in Known /\ "none" \in Known /\ Known \subseteq Results
<1>1. lock.res \in Results /\ "none" \in Results
  BY DEF TypeOK, LockType, Results
<1>2. Rank(lock.res) \in Nat /\ Rank("none") = 0
  BY <1>1, MergeRanks DEF Rank
<1> QED BY <1>1, <1>2 DEF Known

\* Merged into the lock row's results, known ones change nothing.
LEMMA MergeKnown ==
  ASSUME TypeOK, NEW r \in Known
  PROVE  Merge(r, lock.res) = lock.res
<1>1. r \in Results /\ lock.res \in Results /\ Rank(r) <= Rank(lock.res)
  BY DEF Known, TypeOK, LockType
<1> QED BY <1>1, MergeRanks

LEMMA KnownGrows ==
  ASSUME TypeOK, TypeOK', Rank(lock.res) <= Rank(lock'.res)
  PROVE  Known \subseteq Known'
<1>1. lock.res \in Results /\ lock'.res \in Results
  BY DEF TypeOK, LockType
<1>2. Rank(lock.res) \in Nat /\ Rank(lock'.res) \in Nat
  BY <1>1, MergeRanks
<1>3. ASSUME NEW r \in Known PROVE r \in Known'
  <2>1. r \in Results /\ Rank(r) <= Rank(lock.res)
    BY DEF Known
  <2>2. Rank(r) \in Nat
    BY <2>1, MergeRanks
  <2> QED BY <1>2, <2>1, <2>2 DEF Known
<1> QED BY <1>3

-----------------------------------------------------------------------------
(* The steps of a run, by what they do to the results *)

\* What a run that works has done when it has written a checkpoint.
Checkpointed(j, x, pc) ==
  /\ worker[j].pc \notin {"idle", "read"}
  /\ Checkpoint(j, x, pc)
  /\ UNCHANGED <<row, call, sup, del, cus>>

LEMMA RunWrites ==
  ASSUME TypeOK, NEW j \in Jobs, Step(j) \/ Throws(j) \/ Dies(j)
  PROVE  \/ Write(j)
         \/ UNCHANGED <<row, job, call, sup, del, cus>> /\ lock'.res = lock.res
         \/ \E x \in Results, pc \in Places : Checkpointed(j, x, pc)
<1>0. lock \in LockType
  BY DEF TypeOK
<1>1. Release(j) => lock'.res = lock.res
  BY <1>0 DEF Release, LockType
<1>2. {"idle", "read", "decide", "file", "send", "accepted", "attach", "reread", "close",
       "confirmed", "write"} = Places
      /\ {"pending", "unfileable", "rejected", "filed", "submitted", "unclosed", "closed"} \subseteq Results
  BY DEF Places, Results
<1>3. CASE ReadTask(j) \/ Decide(j) \/ Reread(j) \/ Throws(j) \/ Dies(j)
  BY <1>1, <1>3 DEF ReadTask, Decide, Reread, Throws, Dies
<1>4. CASE File(j) \/ Send(j) \/ Accepted(j) \/ Attach(j) \/ Close(j) \/ CloseConfirmed(j)
  BY <1>2, <1>4 DEF File, Send, Accepted, Attach, Close, CloseConfirmed, Checkpointed
<1> QED BY <1>3, <1>4 DEF Step

LEMMA CheckpointedIs ==
  ASSUME TypeOK, KnowInv, NEW j \in Jobs, NEW x \in Results, NEW pc \in Places,
         Checkpointed(j, x, pc)
  PROVE  /\ lock'.res = Merge(lock.res, x)
         /\ worker'[j].res = lock'.res /\ worker'[j].pc = pc
         /\ job'[j].res = lock'.res /\ job'[j].st = job[j].st
         /\ \A k \in Jobs \ {j} : job'[k] = job[k] /\ worker'[k] = worker[k]
<1>1. /\ worker \in [Jobs -> WorkerType] /\ lock \in LockType /\ job \in [Jobs -> JobType]
      /\ lock.res \in Results /\ worker[j].res = lock.res
  BY DEF TypeOK, LockType, KnowInv, Checkpointed
<1> QED BY <1>1 DEF Checkpointed, Checkpoint, WorkerType, LockType, JobType

LEMMA WriteIs ==
  ASSUME IInv, RInv, NEW j \in Jobs, Write(j)
  PROVE  /\ worker'[j].pc = "idle" /\ lock'.res = lock.res
         /\ \A k \in Jobs \ {j} : job'[k] = job[k] /\ worker'[k] = worker[k]
         /\ row.st = "completing" => row' = row /\ job' = job
         /\ row.st # "completing" => /\ row'.res = lock.res /\ row'.st = row.st
                                     /\ job'[j].st = JobOutcome(lock.res) /\ job'[j].res = lock.res
         /\ UNCHANGED <<call, sup, del, cus, city>>
<1>1. /\ worker \in [Jobs -> WorkerType] /\ lock \in LockType /\ job \in [Jobs -> JobType]
      /\ row \in RowType /\ TypeOK
  BY DEF IInv, TypeOK
<1>2. worker[j].res = lock.res /\ row.res \in Known
  BY DEF RInv, KnowInv, RankInv, Write
<1>3. Merge(row.res, worker[j].res) = lock.res
  BY <1>1, <1>2, MergeKnown
<1>4. worker'[j].pc = "idle" /\ lock'.res = lock.res
  BY <1>1 DEF Write, Release, IdleWorker, LockType
<1>5. \A k \in Jobs \ {j} : job'[k] = job[k] /\ worker'[k] = worker[k]
  BY <1>1 DEF Write, Release
<1>6. CASE row.st # "completing"
  BY <1>1, <1>2, <1>3, <1>4, <1>5, <1>6 DEF Write, RowType, JobType
<1> QED BY <1>4, <1>5, <1>6 DEF Write

-----------------------------------------------------------------------------
(* What is known *)

LEMMA RankInit == Init => RankInv
<1> SUFFICES ASSUME Init PROVE RankInv
  OBVIOUS
<1>1. TypeOK
  BY InitType
<1>2. "none" \in Known
  BY <1>1, KnownToTheLock
<1> QED BY <1>2 DEF Init, RankInv, FreshRow, IdleCaller

\* The lock row never comes to know less.
LEMMA LockLearns ==
  ASSUME IInv, RInv, [Next]_vars
  PROVE  Rank(lock.res) <= Rank(lock'.res) /\ Known \subseteq Known'
<1>1. lock.res \in Results /\ Rank(lock.res) \in Nat /\ TypeOK /\ TypeOK'
  BY MergeRanks, NextType DEF IInv, TypeOK, LockType
<1>2. Rank(lock.res) <= Rank(lock'.res)
  <2>1. lock'.res = lock.res \/ \E x \in Results : lock'.res = Merge(lock.res, x)
    <3>1. ASSUME NEW j \in Jobs, Deliver(j) PROVE lock'.res = lock.res
      BY <3>1 DEF Deliver, IInv, TypeOK, LockType
    <3>2. ASSUME NEW j \in Jobs, Step(j) \/ Throws(j) \/ Dies(j)
          PROVE  lock'.res = lock.res \/ \E x \in Results : lock'.res = Merge(lock.res, x)
      <4>1. CASE Write(j)
        BY <4>1, WriteIs
      <4>2. ASSUME NEW x \in Results, NEW pc \in Places, Checkpointed(j, x, pc)
            PROVE  lock'.res = Merge(lock.res, x)
        BY <1>1, <4>2, CheckpointedIs DEF RInv
      <4> QED BY <1>1, <3>2, <4>1, <4>2, RunWrites
    <3>3. CASE PeopleSteps \/ UNCHANGED vars
      BY <3>3, PeopleLeaveTheLock DEF vars
    <3> QED BY <3>1, <3>2, <3>3, Steps
  <2> QED BY <1>1, <2>1, MergeRanks
<1> QED BY <1>1, <1>2, KnownGrows

\* What a completion has in memory and puts back was on the row before.
LEMMA CompletionPutsBack ==
  ASSUME IInv, RInv, NEW c \in Completers, Completion(c)
  PROVE  row'.res \in Known /\ \A d \in Completers : call'[d].task.res \in Known
<1>0. /\ row \in RowType /\ call \in [Completers -> CallerType] /\ call[c].task \in RowType
      /\ row.res \in Known /\ "none" \in Known /\ IdleCaller.task.res = "none"
      /\ \A d \in Completers : call[d].task.res \in Known
      /\ IdleCaller \in CallerType
  BY KnownToTheLock, IdleTypes DEF IInv, TypeOK, RInv, RankInv, CallerType, IdleCaller, FreshRow
<1>1. ASSUME NEW x \in CallerType, x.task.res \in Known, call' = [call EXCEPT ![c] = x]
      PROVE  \A d \in Completers : call'[d].task.res \in Known
  BY <1>0, <1>1
<1>2. \A pc \in {"answered", "won", "dead"} :
        [IdleCaller EXCEPT !.pc = pc] \in CallerType /\ [IdleCaller EXCEPT !.pc = pc].task.res = "none"
  BY <1>0 DEF CallerType, IdleCaller, FreshRow
<1>3. /\ [call[c] EXCEPT !.pc = "claim", !.task = row] \in CallerType
      /\ [call[c] EXCEPT !.pc = "claim", !.task = row].task = row
      /\ \A pc \in {"answered", "finish"} : /\ [call[c] EXCEPT !.pc = pc] \in CallerType
                                            /\ [call[c] EXCEPT !.pc = pc].task = call[c].task
  BY <1>0 DEF CallerType
<1>4. CASE ReadForCompletion(c)
  <2>1. \/ call' = [call EXCEPT ![c] = [call[c] EXCEPT !.pc = "claim", !.task = row]]
        \/ call' = [call EXCEPT ![c] = [call[c] EXCEPT !.pc = "answered"]]
    BY <1>4 DEF ReadForCompletion
  <2> QED BY <1>0, <1>1, <1>3, <1>4, <2>1 DEF ReadForCompletion
<1>5. CASE ClaimCompletion(c)
  <2>1. \/ call' = [call EXCEPT ![c] = [call[c] EXCEPT !.pc = "finish"]]
        \/ call' = [call EXCEPT ![c] = [IdleCaller EXCEPT !.pc = "answered"]]
    BY <1>5 DEF ClaimCompletion
  <2>2. row' = row \/ row' = [call[c].task EXCEPT !.st = "completing", !.lease = c]
    BY <1>5 DEF ClaimCompletion
  <2>3. row'.res \in Known
    BY <1>0, <2>2 DEF RowType
  <2> QED BY <1>0, <1>1, <1>2, <1>3, <2>1, <2>3
<1>6. CASE FinishCompletion(c)
  <2>1. \/ call' = [call EXCEPT ![c] = [IdleCaller EXCEPT !.pc = "won"]]
        \/ call' = [call EXCEPT ![c] = [IdleCaller EXCEPT !.pc = "answered"]]
    BY <1>6 DEF FinishCompletion
  <2>2. \/ row' = row
        \/ \E st \in {"completed", "in_progress"} :
             row' = [row EXCEPT !.st = st, !.res = call[c].task.res, !.lease = NoOne, !.by = "call"]
    BY <1>6 DEF FinishCompletion
  <2>3. row'.res \in Known
    BY <1>0, <2>2 DEF RowType
  <2> QED BY <1>0, <1>1, <1>2, <2>1, <2>3
<1>7. CASE CallDies(c)
  <2>1. call' = [call EXCEPT ![c] = [IdleCaller EXCEPT !.pc = "dead"]]
    BY <1>7 DEF CallDies
  <2> QED BY <1>0, <1>1, <1>2, <1>7, <2>1 DEF CallDies
<1> QED BY <1>4, <1>5, <1>6, <1>7 DEF Completion

\* So it is with the others who write the row.
LEMMA OthersPutBack ==
  ASSUME IInv, RInv, ReadForSupersession \/ Supersede \/ Retraction \/ Custom
  PROVE  /\ row'.res \in Known /\ sup'.task.res \in Known /\ cus'.task.res \in Known
         /\ del'.run.task.res \in Known
<1>0. /\ row \in RowType /\ sup \in CallerType /\ cus \in CallerType
      /\ del \in [mark : BOOLEAN, run : CallerType] /\ del.run \in CallerType
      /\ sup.task \in RowType /\ cus.task \in RowType /\ del.run.task \in RowType
      /\ row.res \in Known /\ sup.task.res \in Known /\ cus.task.res \in Known
      /\ del.run.task.res \in Known
  BY DEF IInv, TypeOK, RInv, RankInv, CallerType
<1>1. /\ "none" \in Known /\ IdleCaller \in CallerType /\ IdleCaller.task.res = "none"
      /\ \A pc \in {"answered", "won"} : [IdleCaller EXCEPT !.pc = pc].task.res = "none"
      /\ \A pc \in {"lock"} : [IdleCaller EXCEPT !.pc = pc, !.task = row].task.res = row.res
  BY KnownToTheLock, IdleTypes DEF IInv, IdleCaller, FreshRow
<1>2. CASE ReadForSupersession
  BY <1>0, <1>2 DEF ReadForSupersession, CallerType
<1>3. CASE Supersede
  <2>1. row'.res \in Known
    <3>1. row' = row \/ row' = [sup.task EXCEPT !.st = "superseded", !.by = "amendment"]
      BY <1>3 DEF Supersede
    <3> QED BY <1>0, <3>1 DEF RowType
  <2> QED BY <1>0, <1>1, <1>3, <2>1 DEF Supersede
<1>4. CASE Retraction
  <2>1. row'.res \in Known
    <3>1. row' = row \/ row' = [del.run.task EXCEPT !.st = "superseded", !.by = "evidence"]
      BY <1>4 DEF Retraction, MarkDeleted, ReadForRetraction, ReadLockForRetraction, Retract
    <3> QED BY <1>0, <3>1 DEF RowType
  <2>2. \/ del' = [del EXCEPT !.mark = TRUE]
        \/ del' = [del EXCEPT !.run = [IdleCaller EXCEPT !.pc = "lock", !.task = row]]
        \/ del' = [del EXCEPT !.run = [del.run EXCEPT !.pc = "put", !.lock = lock]]
        \/ del' = [del EXCEPT !.run = IdleCaller]
        \/ \E pc \in {"answered", "won"} : del' = [del EXCEPT !.run = [IdleCaller EXCEPT !.pc = pc]]
    BY <1>4 DEF Retraction, MarkDeleted, ReadForRetraction, ReadLockForRetraction, Retract, Retracting
  <2>3. del'.run.task.res \in Known
    <3>1. [del.run EXCEPT !.pc = "put", !.lock = lock].task.res = del.run.task.res
      BY <1>0 DEF CallerType
    <3>2. \/ del'.run = del.run \/ del'.run = [IdleCaller EXCEPT !.pc = "lock", !.task = row]
          \/ del'.run = [del.run EXCEPT !.pc = "put", !.lock = lock] \/ del'.run = IdleCaller
          \/ \E pc \in {"answered", "won"} : del'.run = [IdleCaller EXCEPT !.pc = pc]
      BY <1>0, <2>2
    <3> QED BY <1>0, <1>1, <3>1, <3>2
  <2> QED BY <1>0, <1>4, <2>1, <2>3
          DEF Retraction, MarkDeleted, ReadForRetraction, ReadLockForRetraction, Retract
<1>5. CASE Custom
  <2>1. row'.res \in Known
    <3>1. \/ row' = row
          \/ \E st \in {"completed", "in_progress"} :
               row' = [cus.task EXCEPT !.st = st, !.override = TRUE, !.by = "custom"]
      BY <1>5 DEF Custom, ReadForCustom, ReadLockForCustom, RecordCustom
    <3> QED BY <1>0, <3>1 DEF RowType
  <2>2. \/ cus' = [cus EXCEPT !.pc = "lock", !.task = row]
        \/ cus' = [cus EXCEPT !.pc = "put", !.lock = lock]
        \/ \E pc \in {"answered", "won"} : cus' = [IdleCaller EXCEPT !.pc = pc]
    BY <1>5 DEF Custom, ReadForCustom, ReadLockForCustom, RecordCustom
  <2>3. cus'.task.res \in Known
    BY <1>0, <1>1, <2>2 DEF CallerType
  <2> QED BY <1>0, <1>5, <2>1, <2>3 DEF Custom, ReadForCustom, ReadLockForCustom, RecordCustom
<1> QED BY <1>2, <1>3, <1>4, <1>5

LEMMA RankStep == IInv /\ RInv /\ [Next]_vars => RankInv'
<1> SUFFICES ASSUME IInv, RInv, [Next]_vars PROVE RankInv'
  OBVIOUS
<1>0. /\ row.res \in Known /\ sup.task.res \in Known /\ cus.task.res \in Known
      /\ del.run.task.res \in Known /\ \A j \in Jobs : job[j].res \in Known
      /\ \A c \in Completers : call[c].task.res \in Known
      /\ TypeOK /\ TypeOK' /\ job \in [Jobs -> JobType]
  BY NextType DEF RInv, RankInv, IInv, TypeOK
<1>1. Known \subseteq Known' /\ lock.res \in Known /\ lock'.res \in Known'
  <2>1. lock.res \in Known
    BY <1>0, KnownToTheLock
  <2>2. lock'.res \in Known'
    <3>1. lock'.res \in Results
      BY <1>0 DEF TypeOK, LockType
    <3>2. Rank(lock'.res) \in Nat
      BY <3>1, MergeRanks
    <3> QED BY <3>1, <3>2 DEF Known
  <2> QED BY <2>1, <2>2, LockLearns
<1>2. ASSUME NEW j \in Jobs, Deliver(j) PROVE RankInv'
  <2>1. UNCHANGED <<row, call, sup, cus, del>> /\ \A k \in Jobs : job'[k].res = job[k].res
    BY <1>0, <1>2 DEF Deliver, JobType
  <2> QED BY <1>0, <1>1, <2>1 DEF RankInv
<1>3. ASSUME NEW j \in Jobs, Step(j) \/ Throws(j) \/ Dies(j) PROVE RankInv'
  <2>1. CASE Write(j)
    <3>1. /\ row'.res \in Known /\ \A k \in Jobs : job'[k].res \in Known
          /\ UNCHANGED <<call, sup, cus, del>>
      BY <1>0, <1>1, <2>1, WriteIs
    <3> QED BY <1>0, <1>1, <3>1 DEF RankInv
  <2>2. CASE UNCHANGED <<row, job, call, sup, del, cus>>
    BY <1>0, <1>1, <2>2 DEF RankInv
  <2>3. ASSUME NEW x \in Results, NEW pc \in Places, Checkpointed(j, x, pc) PROVE RankInv'
    <3>1. job'[j].res = lock'.res /\ \A k \in Jobs \ {j} : job'[k] = job[k]
      BY <1>0, <2>3, CheckpointedIs DEF RInv
    <3>2. \A k \in Jobs : job'[k].res \in Known'
      BY <1>0, <1>1, <3>1
    <3> QED BY <1>0, <1>1, <2>3, <3>2 DEF RankInv, Checkpointed
  <2> QED BY <1>0, <1>3, <2>1, <2>2, <2>3, RunWrites
<1>4. CASE PeopleSteps
  <2>1. \A k \in Jobs : job'[k].res = job[k].res
    <3>1. job' = job \/ job' = ResolvedJob
      BY <1>4 DEF PeopleSteps, Completion, ReadForCompletion, ClaimCompletion, FinishCompletion,
         CallDies, ReadForSupersession, Supersede, Retraction, MarkDeleted, ReadForRetraction,
         ReadLockForRetraction, Retract, Custom, ReadForCustom, ReadLockForCustom, RecordCustom
    <3> QED BY <1>0, <3>1 DEF ResolvedJob, JobType, Jobs
  <2>2. ASSUME NEW c \in Completers, Completion(c) PROVE RankInv'
    <3>1. UNCHANGED <<sup, cus, del>>
      BY <2>2 DEF Completion, ReadForCompletion, ClaimCompletion, FinishCompletion, CallDies
    <3> QED BY <1>0, <1>1, <2>1, <2>2, <3>1, CompletionPutsBack DEF RankInv
  <2>3. CASE ReadForSupersession \/ Supersede \/ Retraction \/ Custom
    <3>1. UNCHANGED call
      BY <2>3 DEF ReadForSupersession, Supersede, Retraction, MarkDeleted, ReadForRetraction,
         ReadLockForRetraction, Retract, Custom, ReadForCustom, ReadLockForCustom, RecordCustom
    <3> QED BY <1>0, <1>1, <2>1, <2>3, <3>1, OthersPutBack DEF RankInv
  <2> QED BY <1>4, <2>2, <2>3 DEF PeopleSteps
<1>5. CASE UNCHANGED vars
  BY <1>0, <1>1, <1>5 DEF vars, RankInv
<1> QED BY <1>2, <1>3, <1>4, <1>5, Steps

-----------------------------------------------------------------------------
(* Who runs, and what for *)

LEMMA KnowStep == IInv /\ RInv /\ [Next]_vars => KnowInv'
<1> SUFFICES ASSUME IInv, RInv, [Next]_vars PROVE KnowInv'
  OBVIOUS
<1>0. /\ TypeOK /\ LeaseInv /\ KnowInv
      /\ worker \in [Jobs -> WorkerType] /\ lock \in LockType
  BY DEF IInv, RInv, TypeOK
<1>1. ASSUME NEW j \in Jobs, Deliver(j) PROVE KnowInv'
  <2>1. /\ lock'.res = lock.res
        /\ \A k \in Jobs : worker'[k] = worker[k] \/ worker'[k].pc = "read"
    BY <1>0, <1>1 DEF Deliver, IdleWorker, LockType
  <2> QED BY <1>0, <2>1 DEF KnowInv
<1>2. ASSUME NEW j \in Jobs, Step(j) \/ Throws(j) \/ Dies(j) PROVE KnowInv'
  <2>1. \A k \in Jobs \ {j} : worker'[k].pc = "idle"
    BY <1>0, <1>2, RunMoves, OneRun
  <2>2. worker'[j].pc \in {"idle", "read"} \/ worker'[j].res = lock'.res
    <3>1. CASE Write(j)
      BY <3>1, WriteIs
    <3>2. ASSUME NEW x \in Results, NEW pc \in Places, Checkpointed(j, x, pc)
          PROVE  worker'[j].res = lock'.res
      BY <1>0, <3>2, CheckpointedIs
    <3>3. CASE ReadTask(j)
      <4>1. CASE Release(j)
        BY <1>0, <4>1 DEF Release, IdleWorker
      <4>2. CASE ~Release(j)
        <5>1. /\ row.res \in Known /\ job[j].res \in Known /\ Known \subseteq Results
          BY <1>0, KnownToTheLock DEF RInv, RankInv
        <5>2. Merge(row.res, job[j].res) \in Known
          <6>1. Merge(row.res, job[j].res) \in {row.res, job[j].res}
            BY <5>1, MergeRanks
          <6> QED BY <5>1, <6>1
        <5>3. Merge(Merge(row.res, job[j].res), lock.res) = lock.res
          BY <1>0, <5>2, MergeKnown
        <5> QED BY <1>0, <3>3, <4>2, <5>3 DEF ReadTask
      <4> QED BY <4>1, <4>2
    <3>4. CASE lock'.res = lock.res /\ ~ReadTask(j) /\ worker'[j].pc # "idle" /\ job' = job /\ ~Write(j)
      <4>1. worker[j].pc \notin {"idle", "read"} /\ worker'[j].res = worker[j].res
        <5>1. CASE Decide(j)
          BY <1>0, <5>1 DEF Decide, WorkerType
        <5>2. CASE \E pc \in Places : Goto(j, pc) /\ worker[j].pc \notin {"idle", "read"}
          BY <1>0, <5>2 DEF Goto, WorkerType
        <5>3. CASE \E x \in Results, pc \in Places : Checkpointed(j, x, pc)
          BY <1>0, <3>4, <5>3, CheckpointedIs DEF KnowInv, Checkpointed
        <5>4. Release(j) => worker'[j].pc = "idle"
          BY <1>0 DEF Release, IdleWorker
        <5>5. {"idle", "read", "decide", "file", "send", "accepted", "attach", "reread", "close",
               "confirmed", "write"} = Places
              /\ {"pending", "unfileable", "rejected", "filed", "submitted", "unclosed", "closed"}
                   \subseteq Results
          BY DEF Places, Results
        <5>6. CASE Reread(j)
          BY <3>4, <5>2, <5>4, <5>5, <5>6 DEF Reread
        <5>7. CASE Throws(j) \/ Dies(j)
          BY <1>0, <3>4, <5>4, <5>7 DEF Throws, Dies, IdleWorker
        <5>8. CASE File(j) \/ Send(j) \/ Accepted(j) \/ Attach(j) \/ Close(j) \/ CloseConfirmed(j)
          <6>1. \/ \E pc \in Places : Goto(j, pc) /\ worker[j].pc \notin {"idle", "read"}
                \/ \E x \in Results, pc \in Places : Checkpointed(j, x, pc)
            BY <5>5, <5>8 DEF File, Send, Accepted, Attach, Close, CloseConfirmed, Checkpointed
          <6> QED BY <5>2, <5>3, <6>1
        <5> QED BY <1>2, <3>4, <5>1, <5>6, <5>7, <5>8 DEF Step
      <4> QED BY <1>0, <3>4, <4>1 DEF KnowInv
    <3> QED BY <1>0, <1>2, <3>1, <3>2, <3>3, <3>4, RunWrites
  <2> QED BY <2>1, <2>2 DEF KnowInv
<1>3. CASE PeopleSteps \/ UNCHANGED vars
  BY <1>0, <1>3, PeopleLeaveTheLock DEF KnowInv, vars
<1> QED BY <1>1, <1>2, <1>3, Steps

\* A person's step that completes the task queues the resolved job, and a
\* completed row is left alone.
Completes == row.st # "completed" /\ row'.st = "completed" /\ job' = ResolvedJob
LeavesOrEnds == row' = row \/ (row.st # "completed" /\ row'.st # "completed")

LEMMA PeopleJobs ==
  ASSUME IInv, PeopleSteps
  PROVE  Completes \/ (LeavesOrEnds /\ job' = job)
<1>0. /\ row \in RowType /\ call \in [Completers -> CallerType]
      /\ \A c \in Completers : call[c].task \in RowType
      /\ cus.task \in RowType /\ sup.task \in RowType /\ del.run.task \in RowType
  BY DEF IInv, TypeOK, CallerType
<1>1. ASSUME NEW c \in Completers, Completion(c)
      PROVE  Completes \/ (LeavesOrEnds /\ job' = job)
  <2>1. CASE FinishCompletion(c)
    <3>1. CASE row.st = "completing" /\ row.lease = c
      <4>1. PICK st \in {"completed", "in_progress"} :
              /\ row' = [row EXCEPT !.st = st, !.res = call[c].task.res, !.lease = NoOne, !.by = "call"]
              /\ job' = IF st = "completed" THEN ResolvedJob ELSE job
        BY <2>1, <3>1 DEF FinishCompletion
      <4>2. row'.st = st
        BY <1>0, <4>1 DEF RowType
      <4> QED BY <3>1, <4>1, <4>2 DEF Completes, LeavesOrEnds
    <3>2. CASE ~(row.st = "completing" /\ row.lease = c)
      BY <2>1, <3>2 DEF FinishCompletion, LeavesOrEnds
    <3> QED BY <3>1, <3>2
  <2>2. CASE ClaimCompletion(c)
    <3>1. CASE Claimable(call[c].task)
      <4>1. row.st # "completed"
        BY <3>1 DEF Claimable
      <4>2. /\ row' = [call[c].task EXCEPT !.st = "completing", !.lease = c]
            /\ job' = job
        BY <2>2, <3>1 DEF ClaimCompletion
      <4>3. row'.st = "completing"
        BY <1>0, <4>2 DEF RowType
      <4> QED BY <4>1, <4>2, <4>3 DEF LeavesOrEnds
    <3>2. CASE ~Claimable(call[c].task)
      BY <2>2, <3>2 DEF ClaimCompletion, LeavesOrEnds
    <3> QED BY <3>1, <3>2
  <2>3. CASE ReadForCompletion(c) \/ CallDies(c)
    BY <2>3 DEF ReadForCompletion, CallDies, LeavesOrEnds
  <2> QED BY <1>1, <2>1, <2>2, <2>3 DEF Completion
<1>2. CASE ReadForSupersession \/ Supersede \/ Retraction
  <2>1. job' = job
    BY <1>2 DEF ReadForSupersession, Supersede, Retraction, MarkDeleted, ReadForRetraction,
       ReadLockForRetraction, Retract
  <2>2. \/ row' = row
        \/ row.st = "open" /\ row' = [sup.task EXCEPT !.st = "superseded", !.by = "amendment"]
        \/ row.st = "open" /\ row' = [del.run.task EXCEPT !.st = "superseded", !.by = "evidence"]
    BY <1>2 DEF ReadForSupersession, Supersede, StillOpen, Retraction, MarkDeleted,
       ReadForRetraction, ReadLockForRetraction, Retract
  <2>3. row' = row \/ (row.st = "open" /\ row'.st = "superseded")
    BY <1>0, <2>2 DEF RowType
  <2> QED BY <2>1, <2>3 DEF LeavesOrEnds
<1>3. CASE Custom
  <2>1. CASE RecordCustom
    <3>1. CASE row.st = "open" /\ row.res = cus.task.res /\ LockAsRead(cus.lock)
      <4>1. PICK st \in {"completed", "in_progress"} :
              /\ row' = [cus.task EXCEPT !.st = st, !.override = TRUE, !.by = "custom"]
              /\ job' = IF st = "completed" THEN ResolvedJob ELSE job
        BY <2>1, <3>1 DEF RecordCustom
      <4>2. row'.st = st
        BY <1>0, <4>1 DEF RowType
      <4> QED BY <3>1, <4>1, <4>2 DEF Completes, LeavesOrEnds
    <3>2. CASE ~(row.st = "open" /\ row.res = cus.task.res /\ LockAsRead(cus.lock))
      BY <2>1, <3>2 DEF RecordCustom, LeavesOrEnds
    <3> QED BY <3>1, <3>2
  <2>2. CASE ReadForCustom \/ ReadLockForCustom
    BY <2>2 DEF ReadForCustom, ReadLockForCustom, LeavesOrEnds
  <2> QED BY <1>3, <2>1, <2>2 DEF Custom
<1> QED BY <1>1, <1>2, <1>3 DEF PeopleSteps

\* Resolving the task queues the resolved job, and leaves the created one as it is.
LEMMA ResolvedJobQueues ==
  ASSUME TypeOK, job' = ResolvedJob
  PROVE  job'["resolved"].st = "pending" /\ job'["created"].st = job["created"].st
BY DEF TypeOK, ResolvedJob, JobType, Jobs

LEMMA JobStep == IInv /\ RInv /\ [Next]_vars => JobInv'
<1> SUFFICES ASSUME IInv, RInv, [Next]_vars PROVE JobInv'
  OBVIOUS
<1>0. /\ TypeOK /\ LeaseInv /\ KnowInv /\ JobInv
      /\ worker \in [Jobs -> WorkerType] /\ job \in [Jobs -> JobType]
      /\ Jobs = {"created", "resolved"}
  BY DEF IInv, RInv, TypeOK, Jobs
<1>1. ASSUME NEW j \in Jobs, Deliver(j) PROVE JobInv'
  <2>1. /\ \A k \in Jobs : job'[k].st = job[k].st
        /\ \A k \in Jobs \ {j} : worker'[k] = worker[k]
        /\ Queued(j) /\ row' = row
    BY <1>0, <1>1 DEF Deliver, MayDeliver, JobType
  <2> QED BY <1>0, <2>1 DEF JobInv, Runs, Queued
<1>2. ASSUME NEW j \in Jobs, Step(j) \/ Throws(j) \/ Dies(j) PROVE JobInv'
  <2>1. Queued(j) /\ \A k \in Jobs \ {j} : worker'[k].pc = "idle"
    BY <1>0, <1>2, RunMoves, OneRun DEF JobInv
  <2>2. row'.st = row.st
    BY <1>0, <1>2, RunsDecideNothing
  <2>3. CASE Write(j)
    <3>1. worker'[j].pc = "idle" /\ \A k \in Jobs \ {j} : job'[k] = job[k]
      BY <2>3, WriteIs
    <3>2. j = "resolved" => row.st = "completed"
      BY <1>0, <2>1 DEF JobInv, Queued
    <3> QED BY <1>0, <2>1, <2>2, <3>1, <3>2 DEF JobInv, Runs
  <2>4. CASE \A k \in Jobs : job'[k].st = job[k].st
    BY <1>0, <2>1, <2>2, <2>4 DEF JobInv, Runs, Queued
  <2>5. ASSUME NEW x \in Results, NEW pc \in Places, Checkpointed(j, x, pc)
        PROVE  \A k \in Jobs : job'[k].st = job[k].st
    BY <1>0, <2>5, CheckpointedIs
  <2> QED BY <1>0, <1>2, <2>3, <2>4, <2>5, RunWrites
<1>3. CASE PeopleSteps
  <2>1. worker' = worker
    BY <1>3, PeopleLeaveTheLock
  <2>2. CASE LeavesOrEnds /\ job' = job
    BY <1>0, <2>1, <2>2 DEF JobInv, Runs, Queued, LeavesOrEnds
  <2>3. CASE Completes
    BY <1>0, <2>1, <2>3, ResolvedJobQueues DEF JobInv, Runs, Queued, Completes
  <2> QED BY <1>3, <2>2, <2>3, PeopleJobs
<1>4. CASE UNCHANGED vars
  BY <1>0, <1>4 DEF vars, JobInv, Runs, Queued
<1> QED BY <1>1, <1>2, <1>3, <1>4, Steps

-----------------------------------------------------------------------------
(* What is closed *)

\* While one run works, CloseInv is about that run.
LEMMA CloseByRun ==
  ASSUME NEW j \in Jobs, \A k \in Jobs \ {j} : worker'[k].pc = "idle",
         lock'.res = "closed" => city'.closed,
         worker'[j].pc = "confirmed" => city'.closed,
         worker'[j].pc = "write" /\ row'.st = "completed" /\ lock'.res = "submitted"
           => j = "created" /\ Queued("resolved")'
  PROVE  CloseInv'
BY DEF CloseInv

LEMMA CloseStep == IInv /\ RInv /\ [Next]_vars => CloseInv'
<1> SUFFICES ASSUME IInv, RInv, [Next]_vars PROVE CloseInv'
  OBVIOUS
<1>0. /\ TypeOK /\ LeaseInv /\ KnowInv /\ JobInv /\ CloseInv
      /\ worker \in [Jobs -> WorkerType] /\ job \in [Jobs -> JobType]
      /\ lock \in LockType /\ lock.res \in Results
      /\ city \in [tickets : Nat, closed : BOOLEAN]
      /\ Jobs = {"created", "resolved"}
  BY DEF IInv, RInv, TypeOK, LockType, Jobs
<1>1. ASSUME NEW j \in Jobs, Deliver(j) PROVE CloseInv'
  <2>1. /\ \A k \in Jobs : job'[k].st = job[k].st
        /\ \A k \in Jobs : worker'[k] = worker[k] \/ worker'[k].pc = "read"
        /\ row' = row /\ city' = city /\ lock'.res = lock.res
    BY <1>0, <1>1 DEF Deliver, JobType, LockType, IdleWorker
  <2> QED BY <1>0, <2>1 DEF CloseInv, Queued
<1>2. ASSUME NEW j \in Jobs, Step(j) \/ Throws(j) \/ Dies(j) PROVE CloseInv'
  <2>1. \A k \in Jobs \ {j} : worker'[k].pc = "idle"
    BY <1>0, <1>2, RunMoves, OneRun
  <2>2. row'.st = row.st
    BY <1>0, <1>2, RunsDecideNothing
  <2>i. ASSUME worker'[j].pc \notin {"confirmed", "write"}, lock'.res = lock.res,
               city.closed => city'.closed
        PROVE  CloseInv'
    BY <1>0, <2>1, <2>i, CloseByRun DEF CloseInv
  <2>g. ASSUME NEW pc \in Places, Goto(j, pc)
        PROVE  worker'[j].pc = pc
    BY <1>0, <2>g DEF Goto, WorkerType
  <2>p. /\ {"idle", "read", "decide", "file", "send", "accepted", "attach", "reread", "close",
            "confirmed", "write"} = Places
        /\ {"pending", "unfileable", "rejected", "filed", "submitted", "unclosed", "closed"} \subseteq Results
    BY DEF Places, Results
  <2>r. Release(j) => worker'[j].pc = "idle" /\ lock'.res = lock.res
    BY <1>0 DEF Release, IdleWorker, LockType
  \* A checkpoint that does not end the run and does not say closed.
  <2>c. ASSUME NEW x \in Results \ {"closed"}, NEW pc \in Places \ {"confirmed", "write"},
               Checkpointed(j, x, pc), city.closed => city'.closed
        PROVE  CloseInv'
    <3>1. worker'[j].pc = pc /\ lock'.res = Merge(lock.res, x)
      BY <1>0, <2>c, CheckpointedIs
    <3>2. lock'.res = "closed" => lock.res = "closed"
      <4>1. x \in Results /\ x # "closed"
        BY <2>c
      <4>2. Merge(lock.res, x) \in {lock.res, x}
        BY <1>0, <4>1, MergeRanks
      <4> QED BY <3>1, <4>1, <4>2
    <3> QED BY <1>0, <2>1, <2>c, <3>1, <3>2, CloseByRun DEF CloseInv
  <2>3. CASE ReadTask(j) \/ Decide(j) \/ Throws(j) \/ Dies(j)
    <3>1. /\ worker'[j].pc \notin {"confirmed", "write"} /\ lock'.res = lock.res /\ city' = city
      BY <1>0, <2>3, <2>r DEF ReadTask, Decide, Throws, Dies, IdleWorker, WorkerType
    <3> QED BY <2>i, <3>1
  <2>4. CASE Write(j)
    <3>1. worker'[j].pc = "idle" /\ lock'.res = lock.res /\ city' = city
      BY <2>4, WriteIs
    <3> QED BY <2>i, <3>1
  <2>5. CASE File(j) \/ Send(j) \/ Accepted(j) \/ Attach(j)
    <3>1. city.closed => city'.closed
      BY <1>0, <2>5 DEF File, Send, Accepted, Attach
    <3>2. \/ lock' = lock /\ \E pc \in {"reread", "attach", "accepted"} : Goto(j, pc)
          \/ \E x \in {"pending", "unfileable", "rejected", "filed", "submitted"},
                pc \in {"send", "reread", "attach"} : Checkpointed(j, x, pc)
      BY <2>5 DEF File, Send, Accepted, Attach, Checkpointed
    <3>3. ASSUME NEW pc \in {"reread", "attach", "accepted"}, Goto(j, pc), lock' = lock
          PROVE  CloseInv'
      BY <2>g, <2>i, <2>p, <3>1, <3>3
    <3>4. ASSUME NEW x \in {"pending", "unfileable", "rejected", "filed", "submitted"},
                 NEW pc \in {"send", "reread", "attach"}, Checkpointed(j, x, pc)
          PROVE  CloseInv'
      BY <2>c, <2>p, <3>1, <3>4
    <3> QED BY <3>2, <3>3, <3>4
  <2>6. CASE Reread(j)
    <3>1. city' = city
      BY <2>6 DEF Reread
    <3>2. CASE Release(j)
      BY <2>i, <2>r, <3>1, <3>2
    <3>3. CASE lock' = lock /\ Goto(j, IF NeedsClosing(j) THEN "close" ELSE "write")
      <4>1. worker'[j].pc = (IF NeedsClosing(j) THEN "close" ELSE "write")
        BY <2>g, <2>p, <3>3
      <4>2. worker[j].res = lock.res
        BY <1>0, <2>6 DEF KnowInv, Reread
      <4>3. row'.st = "completed" /\ lock'.res = "submitted" => NeedsClosing(j)
        BY <2>2, <3>3, <4>2 DEF NeedsClosing, IsSubmitted
      <4> QED BY <1>0, <2>1, <3>1, <3>3, <4>1, <4>3, CloseByRun DEF CloseInv
    <3> QED BY <2>6, <3>2, <3>3 DEF Reread
  <2>7. CASE Close(j)
    <3>0. worker[j].res = lock.res
      BY <1>0, <2>7 DEF KnowInv, Close
    <3>1. CASE worker[j].res = "closed" /\ Goto(j, "write") /\ lock' = lock /\ city' = city
      <4>1. worker'[j].pc = "write"
        BY <2>g, <2>p, <3>1
      <4> QED BY <1>0, <2>1, <3>0, <3>1, <4>1, CloseByRun DEF CloseInv
    <3>2. CASE city' = [city EXCEPT !.closed = TRUE] /\ Goto(j, "confirmed") /\ lock' = lock
      <4>1. worker'[j].pc = "confirmed" /\ city'.closed
        BY <1>0, <2>g, <2>p, <3>2
      <4> QED BY <2>1, <4>1, CloseByRun
    <3>3. CASE worker[j].res # "closed" /\ Checkpoint(j, "unclosed", "write") /\ city' = city
      <4>1. Checkpointed(j, "unclosed", "write")
        BY <2>7, <3>3 DEF Close, Checkpointed
      <4>2. worker'[j].pc = "write" /\ lock'.res = Merge(lock.res, "unclosed")
        BY <1>0, <2>p, <4>1, CheckpointedIs
      <4>3. Rank(lock.res) <= Rank("unclosed")
        BY <1>0, <3>0, <3>3 DEF Rank, Results
      <4>4. lock'.res = "unclosed"
        BY <1>0, <2>p, <4>2, <4>3, MergeRanks
      <4> QED BY <2>1, <4>2, <4>4, CloseByRun
    <3> QED BY <2>7, <3>1, <3>2, <3>3 DEF Close
  <2>8. CASE CloseConfirmed(j)
    <3>1. Checkpointed(j, "closed", "write") /\ city' = city /\ city.closed
      BY <1>0, <2>8 DEF CloseConfirmed, Checkpointed, CloseInv
    <3>2. worker'[j].pc = "write" /\ lock'.res = Merge(lock.res, "closed")
      BY <1>0, <2>p, <3>1, CheckpointedIs
    <3>3. Rank(lock.res) <= Rank("closed")
      BY <1>0 DEF Rank, Results
    <3>4. lock'.res = "closed"
      BY <1>0, <2>p, <3>2, <3>3, MergeRanks
    <3> QED BY <2>1, <3>1, <3>2, <3>4, CloseByRun
  <2> QED BY <1>2, <2>3, <2>4, <2>5, <2>6, <2>7, <2>8 DEF Step
<1>3. CASE PeopleSteps
  <2>1. UNCHANGED <<lock, worker, city>>
    BY <1>3, PeopleLeaveTheLock
  <2>2. CASE LeavesOrEnds /\ job' = job
    BY <1>0, <2>1, <2>2 DEF CloseInv, Queued, LeavesOrEnds
  <2>3. CASE Completes
    <3>1. ASSUME NEW j \in Jobs, worker[j].pc = "write" PROVE j = "created"
      <4>1. job[j].st # "none"
        BY <1>0, <3>1 DEF JobInv, Runs, Queued
      <4> QED BY <1>0, <2>3, <4>1 DEF JobInv, Completes
    <3>2. Queued("resolved")'
      BY <1>0, <2>3, ResolvedJobQueues DEF Queued, Completes
    <3> QED BY <1>0, <2>1, <3>1, <3>2 DEF CloseInv
  <2> QED BY <1>3, <2>2, <2>3, PeopleJobs
<1>4. CASE UNCHANGED vars
  BY <1>0, <1>4 DEF vars, CloseInv, Queued
<1> QED BY <1>1, <1>2, <1>3, <1>4, Steps

LEMMA DoneStep == IInv /\ RInv /\ [Next]_vars => DoneInv'
<1> SUFFICES ASSUME IInv, RInv, [Next]_vars PROVE DoneInv'
  OBVIOUS
<1>0. /\ TypeOK /\ KnowInv /\ JobInv /\ CloseInv /\ DoneInv
      /\ job \in [Jobs -> JobType] /\ lock \in LockType /\ lock.res \in Results
      /\ Jobs = {"created", "resolved"}
  BY DEF IInv, RInv, TypeOK, LockType, Jobs
<1>1. ASSUME NEW j \in Jobs, Deliver(j) PROVE DoneInv'
  <2>1. Queued(j) /\ job'[j].st = job[j].st
    BY <1>0, <1>1 DEF Deliver, MayDeliver, JobType
  <2> QED BY <2>1 DEF DoneInv, AllDone, Queued
<1>2. ASSUME NEW j \in Jobs, Step(j) \/ Throws(j) \/ Dies(j) PROVE DoneInv'
  <2>1. Queued(j)
    BY <1>0, <1>2, RunMoves DEF JobInv
  <2>2. row'.st = row.st
    BY <1>0, <1>2, RunsDecideNothing
  <2>3. CASE Write(j)
    <3>1. CASE row.st = "completed"
      <4>1. /\ row'.res = lock.res /\ lock'.res = lock.res /\ job'[j].st = JobOutcome(lock.res)
            /\ \A k \in Jobs \ {j} : job'[k] = job[k]
        BY <2>3, <3>1, WriteIs
      <4>2. AllDone' => lock.res \in {"none", "unfileable", "submitted", "closed"}
        BY <1>0, <4>1 DEF AllDone, Queued, JobOutcome, IsFailure, Results
      <4>3. lock.res = "submitted" => ~AllDone'
        <5>1. lock.res = "submitted" => j = "created" /\ Queued("resolved")
          BY <1>0, <2>3, <3>1 DEF CloseInv, Write
        <5> QED BY <1>0, <4>1, <5>1 DEF AllDone, Queued
      <4> QED BY <4>1, <4>2, <4>3 DEF DoneInv
    <3>2. CASE row.st # "completed"
      BY <2>2, <3>2 DEF DoneInv
    <3> QED BY <3>1, <3>2
  <2>4. CASE \A k \in Jobs : job'[k].st = job[k].st
    BY <2>1, <2>4 DEF DoneInv, AllDone, Queued
  <2>5. ASSUME NEW x \in Results, NEW pc \in Places, Checkpointed(j, x, pc)
        PROVE  \A k \in Jobs : job'[k].st = job[k].st
    BY <1>0, <2>5, CheckpointedIs
  <2> QED BY <1>0, <1>2, <2>3, <2>4, <2>5, RunWrites
<1>3. CASE PeopleSteps
  <2>1. lock' = lock
    BY <1>3, PeopleLeaveTheLock
  <2>2. CASE LeavesOrEnds /\ job' = job
    BY <1>0, <2>1, <2>2 DEF DoneInv, AllDone, Queued, LeavesOrEnds
  <2>3. CASE Completes
    BY <1>0, <2>3, ResolvedJobQueues DEF DoneInv, AllDone, Queued, Completes
  <2> QED BY <1>3, <2>2, <2>3, PeopleJobs
<1>4. CASE UNCHANGED vars
  BY <1>0, <1>4 DEF vars, DoneInv, AllDone, Queued
<1> QED BY <1>1, <1>2, <1>3, <1>4, Steps

\* Who knows what, which jobs are queued and what is closed, in every reachable
\* state: the inductive invariant of the two theorems that follow.
THEOREM RecordCatchesUp == Spec => []RInv
<1>1. Init => RInv
  <2> SUFFICES ASSUME Init PROVE RInv
    OBVIOUS
  <2>1. /\ row.st = "open" /\ lock.res = "none" /\ job["resolved"].st = "none"
        /\ \A j \in Jobs : worker[j].pc = "idle"
    BY DEF Init, FreshRow, NoLock, IdleWorker, Jobs
  <2> QED BY <2>1, RankInit DEF RInv, KnowInv, JobInv, CloseInv, DoneInv, Runs
<1>2. IInv /\ RInv /\ [Next]_vars => RInv'
  BY RankStep, KnowStep, JobStep, CloseStep, DoneStep DEF RInv
<1> QED BY <1>1, <1>2, Invariance, PTL DEF Spec

\* Results that a whole-row Put lost are on the completed row again by the time
\* its jobs are done, for any number of calls, deliveries and faults.
THEOREM LostResultsReturn == Spec => []ResultsComeBack
<1>1. RInv => ResultsComeBack
  BY DEF RInv, DoneInv, ResultsComeBack
<1> QED BY <1>1, RecordCatchesUp, PTL

\* No ticket of a completed task stays open once its jobs are done, whichever
\* job filed it and however the filing and the completion interleaved.
THEOREM TicketsAreClosed == Spec => []ResolvedIsClosed
<1>1. IInv /\ RInv => ResolvedIsClosed
  <2> SUFFICES ASSUME IInv, RInv, row.st = "completed", city.tickets > 0, AllDone
               PROVE  city.closed
    BY DEF ResolvedIsClosed
  <2>1. lock.res \in {"none", "unfileable", "closed"}
    BY DEF RInv, DoneInv
  <2>2. ~RetractableResults(lock.res)
    BY DEF IInv, CityInv
  <2> QED BY <2>1, <2>2 DEF RetractableResults, RInv, CloseInv
<1> QED BY <1>1, Invariance, RecordCatchesUp, PTL
=============================================================================
