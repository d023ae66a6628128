---------------------------- MODULE Sf311FiledProofs ----------------------------
(***************************************************************************)
(* What a filing's record promises of the City, for any number of jobs,    *)
(* messages, deliveries and service codes: a task shown as filed is filed, *)
(* and no photo is sent twice.  PInv strengthens the inductive invariant   *)
(* IInv of Sf311FilingProofs by                                            *)
(*                                                                         *)
(*   CopiesInv  every copy of the record has photos with tickets only, and *)
(*              "sent" for those the City shows                            *)
(*   WorkInv    the lease holder's memory is the lock row; the codes before *)
(*              the one it works on have their tickets                     *)
(*   HubInv     a ticket on the lock row is one the City made; a photo the *)
(*              City was sent is on the lock row                           *)
(*   TaskInv    a task shown as filed has every ticket, and every photo    *)
(***************************************************************************)
EXTENDS Sf311FilingProofs

\* What a copy of the record may say of photos.
Sound(copy) ==
  \A c \in Codes : /\ copy[c].st # "filed" => copy[c].img = "none"
                   /\ copy[c].img = "sent" => hub[c].shown

\* Every code has its ticket and, where there is a photo, the photo.
Done(copy) ==
  \A c \in Codes : /\ copy[c].st = "filed"
                   /\ WithImage => copy[c].img = "sent"

CopiesInv ==
  /\ Sound(task.tickets) /\ Sound(lock.tickets)
  /\ \A j \in Jobs : Sound(jobs[j].tickets)

\* Invocation w, when the lock row says row.
WorkOK(w, row) ==
  /\ Sound(w.seen)
  /\ w.pc \in {"start", "claim", "read", "plan"} => w.idx = 1
  /\ w.pc \in Locked \ {"release"} => w.mem = row
  /\ w.pc \in AtCode \union {"fanout"} =>
       \A c \in Codes : c < w.idx => row[c].st = "filed"
  /\ w.pc \in {"photo", "sendPhoto", "awaitPhoto"} => row[w.idx].st = "filed"
  /\ w.pc = "sendPhoto" => row[w.idx].img = "pending" /\ hub[w.idx].photos = 0
  /\ w.pc = "await" /\ w.reply = "created" => hub[w.idx].srs = 1
  /\ w.pc \in {"record", "reread", "commit"} /\ w.out = "filed" =>
       w.idx \notin Codes /\ Done(row)
WorkInv == \A m \in Messages : WorkOK(workers[m], lock.tickets)

\* What the City made of what the lock row says.
RowOK(row) ==
  \A c \in Codes : /\ row[c].st = "filed" => hub[c].srs = 1
                   /\ hub[c].photos <= 1
                   /\ hub[c].photos # 0 => row[c].img # "none"
HubInv == RowOK(lock.tickets)

TaskInv == task.action = "submitted" => Done(task.tickets)

PInv == CopiesInv /\ WorkInv /\ HubInv /\ TaskInv

-----------------------------------------------------------------------------
(* Steps that leave the record and the City as they are *)

\* What is said of an invocation depends on the record and the City only.
LEMMA Elsewhere ==
  ASSUME NEW w, NEW row, WorkOK(w, row), hub' = hub
  PROVE  WorkOK(w, row)'
BY DEF WorkOK, Sound, Done

LEMMA TurnKeeps ==
  ASSUME IInv, PInv, NEW m \in Messages, NEW w, Becomes(m, w), WorkOK(w, lock.tickets),
         lock'.tickets = lock.tickets, hub' = hub,
         task'.tickets = task.tickets, task'.action = task.action,
         \A j \in Jobs : jobs'[j].tickets = jobs[j].tickets
  PROVE  PInv'
<1>1. workers' = [workers EXCEPT ![m] = w] /\ workers \in [Messages -> WorkerType]
  BY DEF Becomes, IInv, TypeOK
<1>2. CopiesInv'
  BY DEF PInv, CopiesInv, Sound
<1>3. WorkInv'
  <2> SUFFICES ASSUME NEW n \in Messages PROVE WorkOK(workers[n], lock.tickets)'
    BY DEF WorkInv
  <2>1. PICK v, row : v = workers'[n] /\ row = lock.tickets /\ WorkOK(v, row)
    BY <1>1 DEF PInv, WorkInv
  <2>2. WorkOK(v, row)'
    BY <2>1, Elsewhere
  <2> QED BY <2>1, <2>2 DEF WorkOK, Sound, Done
<1>4. HubInv' /\ TaskInv'
  BY DEF PInv, HubInv, RowOK, TaskInv, Done
<1> QED BY <1>2, <1>3, <1>4 DEF PInv

\* The lease holder works alone.
LEMMA HolderAlone ==
  ASSUME IInv, NEW m \in Messages, NEW n \in Messages, lock.token = m, n # m
  PROVE  workers[n].pc \notin Locked
BY DEF IInv, LeaseInv

\* The lease holder saves the record t and becomes w.
LEMMA SaveKeeps ==
  ASSUME IInv, PInv, NEW m \in Messages, NEW w, NEW t \in Tickets,
         Becomes(m, w), Checkpoint(m, t), WorkOK(w, t), Sound(t), RowOK(t),
         hub' = hub, task' = task
  PROVE  PInv'
<1>1. workers' = [workers EXCEPT ![m] = w] /\ workers \in [Messages -> WorkerType]
  BY DEF Becomes, IInv, TypeOK
<1>2. /\ lock'.tickets = t /\ lock.token = m
      /\ \A j \in Jobs : jobs'[j].tickets \in {jobs[j].tickets, t}
  BY CheckpointType DEF IInv, Checkpoint
<1>3. CopiesInv'
  BY <1>2 DEF PInv, CopiesInv, Sound
<1>4. WorkInv'
  <2> SUFFICES ASSUME NEW n \in Messages PROVE WorkOK(workers[n], lock.tickets)'
    BY DEF WorkInv
  <2>1. PICK v : v = workers'[n] /\ WorkOK(v, t)
    <3>1. CASE n = m
      BY <1>1, <3>1
    <3>2. CASE n # m
      <4>1. workers'[n] = workers[n] /\ workers[n].pc \notin Locked
        BY <1>1, <1>2, <3>2, HolderAlone
      <4>2. PICK v : v = workers[n] /\ WorkOK(v, lock.tickets)
        BY DEF PInv, WorkInv
      <4>3. WorkOK(v, t)
        BY <4>1, <4>2 DEF WorkOK, AtCode, Locked
      <4> QED BY <4>1, <4>2, <4>3
    <3> QED BY <3>1, <3>2
  <2>2. WorkOK(v, t)'
    BY <2>1, Elsewhere
  <2> QED BY <1>2, <2>1, <2>2 DEF WorkOK, Sound, Done
<1>5. HubInv'
  BY <1>2 DEF HubInv, RowOK
<1>6. TaskInv'
  BY DEF PInv, TaskInv, Done
<1> QED BY <1>3, <1>4, <1>5, <1>6 DEF PInv

\* The City makes a ticket, refuses one or shows a photo.
LEMMA CityKeeps ==
  ASSUME PInv, UNCHANGED <<task, jobs, lock>>,
         \A c \in Codes : /\ hub[c].srs = 1 => hub'[c].srs = 1
                          /\ hub[c].shown => hub'[c].shown
                          /\ hub'[c].photos = hub[c].photos,
         \A n \in Messages : workers'[n] = workers[n] \/ WorkOK(workers[n], lock.tickets)',
         \A n \in Messages : workers[n].pc \in AtCode => workers[n].idx \in Codes
  PROVE  PInv'
<1>1. CopiesInv'
  BY DEF PInv, CopiesInv, Sound
<1>2. WorkInv'
  <2> SUFFICES ASSUME NEW n \in Messages, workers'[n] = workers[n]
               PROVE  WorkOK(workers[n], lock.tickets)'
    BY DEF WorkInv
  <2>1. PICK v, row : v = workers[n] /\ row = lock.tickets /\ WorkOK(v, row) /\ (v.pc \in AtCode => v.idx \in Codes)
    BY DEF PInv, WorkInv
  <2>2. WorkOK(v, row)'
    BY <2>1 DEF WorkOK, Sound, Done, AtCode
  <2> QED BY <2>1, <2>2 DEF WorkOK, Sound, Done
<1>3. HubInv' /\ TaskInv'
  BY DEF PInv, HubInv, RowOK, TaskInv, Done
<1> QED BY <1>1, <1>2, <1>3 DEF PInv

-----------------------------------------------------------------------------
(* The worker's steps *)

\* What the two invariants say of invocation m.
LEMMA Facts ==
  ASSUME IInv, PInv, NEW m \in Messages
  PROVE  /\ workers[m] \in WorkerType /\ lock.tickets \in Tickets
         /\ WorkOK(workers[m], lock.tickets) /\ Sound(lock.tickets) /\ RowOK(lock.tickets)
         /\ workers[m].pc \in AtCode => Code(m) \in Codes
<1>1. workers[m] \in WorkerType /\ lock.tickets \in Tickets
  BY DEF IInv, TypeOK
<1>2. workers[m].pc \in AtCode => Code(m) \in Codes
  BY DEF IInv, Shape, Code
<1> QED BY <1>1, <1>2 DEF PInv, CopiesInv, WorkInv, HubInv

LEMMA PlaceTypes ==
  /\ Codes \subseteq Places /\ Places \subseteq Nat
  /\ \A p \in Places \ Codes, c \in Codes : c < p
BY NumCodesAssumption DEF Places, Codes

\* Steps within a run that change neither the record nor the City.
LEMMA TurnsKeep ==
  ASSUME IInv, PInv, NEW m \in Messages,
         \/ RefuseUncertain(m) \/ PlanFails(m) \/ PlanReady(m) \/ Resume(m)
         \/ LookupFails(m) \/ NoAnswer(m) \/ PhotoDone(m) \/ Conclude(m)
         \/ PhotoSaveFails(m)
  PROVE  PInv'
<1> DEFINE old == workers[m]
           row == lock.tickets
<1>1. /\ old \in WorkerType /\ row \in Tickets /\ WorkOK(old, row)
      /\ old.pc \in AtCode => old.idx \in Codes
  BY Facts DEF Code
<1>2. UNCHANGED <<task, jobs, lock, hub>>
  BY DEF RefuseUncertain, PlanFails, PlanReady, Resume, LookupFails, NoAnswer, PhotoDone, Conclude,
         PhotoSaveFails
<1>3. ASSUME NEW w, Becomes(m, w), WorkOK(w, row) PROVE PInv'
  BY <1>2, <1>3, TurnKeeps
<1> HIDE DEF old, row
<1>4. ASSUME old.pc \in Locked \ {"release"}, NEW out, out # "filed"
      PROVE  /\ WorkOK([old EXCEPT !.pc = "record", !.out = out], row)
             /\ WorkOK([old EXCEPT !.pc = "record", !.out = out, !.idx = 1], row)
             /\ WorkOK([old EXCEPT !.pc = "record", !.reply = "none", !.out = out], row)
  BY <1>1, <1>4 DEF WorkOK, WorkerType, AtCode, Locked
<1>5. CASE RefuseUncertain(m)
  BY <1>3, <1>4, <1>5 DEF RefuseUncertain, FailPlan, At, Locked, old
<1>6. CASE PlanFails(m)
  BY <1>3, <1>4, <1>6 DEF PlanFails, FailPlan, At, Locked, old
<1>7. CASE LookupFails(m)
  BY <1>3, <1>4, <1>7 DEF LookupFails, Outcome, At, Locked, old
<1>8. CASE NoAnswer(m)
  BY <1>3, <1>4, <1>8 DEF NoAnswer, At, Locked, old
<1>9. CASE PhotoSaveFails(m)
  BY <1>3, <1>4, <1>9 DEF PhotoSaveFails, Outcome, FailPlan, Locked, old
<1>10. CASE PlanReady(m)
  <2>1. old.pc = "plan" /\ Becomes(m, [old EXCEPT !.pc = "fanout"])
    BY <1>10 DEF PlanReady, At, Goto, old
  <2>2. WorkOK([old EXCEPT !.pc = "fanout"], row)
    BY <1>1, <2>1 DEF WorkOK, WorkerType, AtCode, Locked, Codes
  <2> QED BY <1>3, <2>1, <2>2
<1>11. CASE Resume(m)
  <2>1. old.pc = "fanout" /\ Becomes(m, [old EXCEPT !.pc = "photo"]) /\ old.mem[old.idx].st = "filed"
    BY <1>11 DEF Resume, At, Goto, Filed, Code, old
  <2>2. WorkOK([old EXCEPT !.pc = "photo"], row)
    BY <1>1, <2>1 DEF WorkOK, WorkerType, AtCode, Locked
  <2> QED BY <1>3, <2>1, <2>2
<1>12. CASE PhotoDone(m)
  <2>1. old.pc = "photo" /\ Becomes(m, [old EXCEPT !.pc = "fanout", !.idx = @ + 1, !.mem = @])
    BY <1>12 DEF PhotoDone, At, NextCode, old
  <2>2. WorkOK([old EXCEPT !.pc = "fanout", !.idx = @ + 1, !.mem = @], row)
    BY <1>1, <2>1, PlaceTypes DEF WorkOK, WorkerType, AtCode, Locked, Codes
  <2> QED BY <1>3, <2>1, <2>2
<1>13. CASE Conclude(m)
  <2> DEFINE out == IF WithImage /\ \E c \in Codes : old.mem[c].img # "sent" THEN "transient" ELSE "filed"
  <2>1. /\ old.pc = "fanout" /\ old.idx \notin Codes
        /\ Becomes(m, [old EXCEPT !.pc = "record", !.out = out])
        /\ out = "filed" => ~(WithImage /\ \E c \in Codes : old.mem[c].img # "sent")
    BY <1>13 DEF Conclude, At, Planned, Code, Outcome, old
  <2> HIDE DEF out
  <2>2. out = "filed" => Done(row)
    BY <1>1, <2>1, PlaceTypes DEF WorkOK, WorkerType, Locked, Done
  <2>3. WorkOK([old EXCEPT !.pc = "record", !.out = out], row)
    BY <1>1, <2>1, <2>2 DEF WorkOK, WorkerType, AtCode, Locked
  <2> QED BY <1>3, <2>1, <2>3
<1> QED BY <1>5, <1>6, <1>7, <1>8, <1>9, <1>10, <1>11, <1>12, <1>13

\* Arriving, leaving and reading.
LEMMA RunsKeep ==
  ASSUME IInv, PInv, NEW m \in Messages,
         \/ Start(m) \/ Claim(m) \/ Contended(m) \/ ReadTask(m) \/ Reread(m) \/ CommitLost(m)
         \/ Release(m) \/ Settle(m) \/ Outage(m) \/ Die(m) \/ Receive(m)
  PROVE  PInv'
<1> DEFINE old == workers[m]
           row == lock.tickets
<1>1. /\ old \in WorkerType /\ row \in Tickets /\ WorkOK(old, row)
      /\ old.pc # "idle" => JobOf(m) \in Jobs
  BY Facts, Standing DEF Stands
<1>2. /\ task' = task /\ hub' = hub /\ lock'.tickets = row
      /\ \A j \in Jobs : jobs'[j].tickets = jobs[j].tickets
  <2>1. lock \in [token : Messages \union {NoOne, Other}, left : Int, tickets : Tickets]
        /\ jobs \in [Jobs -> [status : JobStatus, tickets : Tickets]]
    BY DEF IInv, TypeOK
  <2>2. CASE Start(m) \/ Contended(m) \/ CommitLost(m) \/ Settle(m) \/ Outage(m) \/ Die(m) \/ Receive(m)
    BY <2>2 DEF Start, Contended, CommitLost, Settle, Outage, Die, Receive
  <2>3. CASE Claim(m) \/ Release(m)
    BY <2>1, <2>3 DEF Claim, Release
  <2>4. CASE ReadTask(m) \/ Reread(m)
    BY <2>1, <2>4 DEF ReadTask, Reread, FinishJob
  <2> QED BY <2>2, <2>3, <2>4
<1>3. ASSUME NEW w, Becomes(m, w), WorkOK(w, row) PROVE PInv'
  BY <1>2, <1>3, TurnKeeps
<1>4. /\ Sound(NoTickets) /\ Sound(task.tickets) /\ Sound(row)
      /\ \A j \in Jobs : Sound(jobs[j].tickets)
  BY DEF PInv, CopiesInv, Sound, NoTickets, NoTicket
<1> HIDE DEF old, row
<1>5. WorkOK(IdleWorker, row)
  BY <1>4 DEF WorkOK, IdleWorker, Locked, AtCode
<1>6. ASSUME NEW how, End(m, how) PROVE PInv'
  <2> DEFINE w == [IdleWorker EXCEPT !.pc = "release", !.left = workers[m].left, !.end = how]
  <2>1. w.pc = "release" /\ w.seen = NoTickets
    BY DEF IdleWorker
  <2>2. Becomes(m, w)
    BY <1>6 DEF End
  <2> HIDE DEF w
  <2>3. WorkOK(w, row)
    BY <1>4, <2>1 DEF WorkOK, AtCode
  <2> QED BY <1>3, <2>2, <2>3
<1>7. CASE Start(m)
  <2>1. CASE Goto(m, "settle")
    <3>1. WorkOK([old EXCEPT !.pc = "settle"], row)
      BY <1>1 DEF WorkOK, WorkerType, AtCode, Locked
    <3> QED BY <1>3, <2>1, <3>1 DEF Goto, old
  <2>2. CASE Becomes(m, [old EXCEPT !.pc = "claim", !.seen = jobs[JobOf(m)].tickets])
    <3>1. old.pc = "start" /\ Sound(jobs[JobOf(m)].tickets)
      BY <1>1, <1>4, <1>7 DEF Start, At, old
    <3>2. WorkOK([old EXCEPT !.pc = "claim", !.seen = jobs[JobOf(m)].tickets], row)
      BY <1>1, <3>1 DEF WorkOK, WorkerType, AtCode, Locked
    <3> QED BY <1>3, <2>2, <3>2
  <2> QED BY <1>7, <2>1, <2>2 DEF Start, old
<1>8. CASE Claim(m)
  <2>1. old.pc = "claim" /\ Becomes(m, [old EXCEPT !.pc = "read", !.mem = row])
    BY <1>8 DEF Claim, At, old, row
  <2>2. WorkOK([old EXCEPT !.pc = "read", !.mem = row], row)
    BY <1>1, <2>1 DEF WorkOK, WorkerType, AtCode, Locked
  <2> QED BY <1>3, <2>1, <2>2
<1>9. CASE Contended(m) \/ Settle(m) \/ Die(m)
  BY <1>3, <1>5, <1>9 DEF Contended, Settle, Die
<1>10. CASE ReadTask(m)
  <2>1. CASE ~Waiting(task)
    BY <1>6, <1>10, <2>1 DEF ReadTask
  <2>2. CASE Waiting(task)
    <3> DEFINE mine == MergeTickets(task.tickets, old.seen)
               got == MergeTickets(mine, old.mem)
    <3>1. /\ old.pc = "read" /\ old.mem = row
          /\ Becomes(m, [old EXCEPT !.pc = "plan", !.seen = NoTickets, !.mem = got])
      BY <1>1, <1>10, <2>2 DEF ReadTask, At, WorkOK, Locked, old
    <3>2. /\ task.tickets \in Tickets /\ old.seen \in Tickets
          /\ Below(task.tickets, row) /\ Below(old.seen, row)
      BY <1>1 DEF IInv, TypeOK, TaskType, KnownInv, WorkerType, old, row
    <3>3. mine \in Tickets /\ Below(mine, row)
      BY <1>1, <3>2, MergeType, MergeBelow
    <3>4. Sound(mine)
      BY <1>1, <1>4, <3>2 DEF WorkOK, Sound, MergeTickets, MergeTicket
    <3> HIDE DEF mine
    <3>5. got = row
      <4>1. ASSUME NEW c \in Codes PROVE MergeTicket(mine[c], row[c]) = row[c]
        <5>1. mine[c] \in Ticket /\ row[c] \in Ticket
          BY <1>1, <3>3 DEF Tickets
        <5>2. row[c].st # "filed" => row[c].img = "none"
          BY <1>4 DEF Sound
        <5>3. mine[c].st # "filed" => mine[c].img = "none"
          BY <3>4 DEF Sound
        <5>4. /\ mine[c].st # "none" => row[c].st # "none"
              /\ mine[c].st = "filed" => row[c].st = "filed"
          BY <3>3 DEF Below
        <5> QED BY <5>1, <5>2, <5>3, <5>4 DEF MergeTicket, Ticket
      <4> QED BY <1>1, <3>1, <4>1 DEF MergeTickets, Tickets
    <3> HIDE DEF got
    <3>6. WorkOK([old EXCEPT !.pc = "plan", !.seen = NoTickets, !.mem = got], row)
      BY <1>1, <1>4, <3>1, <3>5 DEF WorkOK, WorkerType, AtCode, Locked
    <3> QED BY <1>3, <3>1, <3>6
  <2> QED BY <2>1, <2>2
<1>11. CASE Reread(m)
  <2>1. CASE ~Waiting(task)
    BY <1>6, <1>11, <2>1 DEF Reread
  <2>2. CASE Waiting(task)
    <3>1. old.pc = "reread" /\ Becomes(m, [old EXCEPT !.pc = "commit", !.prior = task.tickets])
      BY <1>11, <2>2 DEF Reread, At, old
    <3>2. WorkOK([old EXCEPT !.pc = "commit", !.prior = task.tickets], row)
      BY <1>1, <3>1 DEF WorkOK, WorkerType, AtCode, Locked
    <3> QED BY <1>3, <3>1, <3>2
  <2> QED BY <2>1, <2>2
<1>12. CASE CommitLost(m)
  BY <1>6, <1>12 DEF CommitLost
<1>13. CASE Release(m)
  <2>1. WorkOK([old EXCEPT !.pc = "settle"], row)
    BY <1>1 DEF WorkOK, WorkerType, AtCode, Locked
  <2> QED BY <1>3, <1>13, <2>1 DEF Release, Goto, old
<1>14. CASE Outage(m)
  <2>1. WorkOK([old EXCEPT !.pc = "settle", !.end = "throw"], row)
    BY <1>1 DEF WorkOK, WorkerType, AtCode, Locked
  <2> QED BY <1>3, <1>6, <1>14, <2>1 DEF Outage, old
<1>15. CASE Receive(m)
  <2> DEFINE w == [IdleWorker EXCEPT !.pc = "start", !.left = MaxRuntime, !.attempt = queue[m].receives + 1]
  <2>1. w.pc = "start" /\ w.seen = NoTickets /\ w.idx = 1
    BY DEF IdleWorker
  <2>2. Becomes(m, w)
    BY <1>15 DEF Receive
  <2> HIDE DEF w
  <2>3. WorkOK(w, row)
    BY <1>4, <2>1 DEF WorkOK, AtCode, Locked
  <2> QED BY <1>3, <2>2, <2>3
<1> QED BY <1>7, <1>8, <1>9, <1>10, <1>11, <1>12, <1>13, <1>14, <1>15

\* Saving the record: a ticket, a photo or the executed result.
LEMMA SavesKeep ==
  ASSUME IInv, PInv, NEW m \in Messages,
         \/ SaveIntent(m) \/ Created(m) \/ Rejected(m) \/ ReconcilePhoto(m) \/ PhotoLinkFails(m)
         \/ SavePhotoIntent(m) \/ PhotoAccepted(m) \/ PhotoUnknown(m) \/ Record(m)
  PROVE  PInv'
<1> DEFINE old == workers[m]
           row == lock.tickets
           k == workers[m].idx
<1>1. /\ old \in WorkerType /\ row \in Tickets /\ WorkOK(old, row) /\ Sound(row) /\ RowOK(row)
      /\ old.pc \in AtCode => k \in Codes
  BY Facts DEF Code
<1>2. task' = task /\ hub' = hub
  BY DEF SaveIntent, Created, Rejected, ReconcilePhoto, PhotoLinkFails, SavePhotoIntent, PhotoAccepted,
         PhotoUnknown, Record
<1>3. ASSUME NEW w, NEW t \in Tickets, Becomes(m, w), Checkpoint(m, t),
             WorkOK(w, t), Sound(t), RowOK(t)
      PROVE  PInv'
  BY <1>2, <1>3, SaveKeeps
<1>4. old.pc = "fanout" \/ old.pc \in AtCode \/ old.pc = "record"
  BY DEF SaveIntent, Created, Rejected, ReconcilePhoto, PhotoLinkFails, SavePhotoIntent, PhotoAccepted,
         PhotoUnknown, Record, At, AtCode
<1>5. old.mem = row
  BY <1>1, <1>4 DEF WorkOK, AtCode, Locked
<1> HIDE DEF old, row
<1>6. /\ NoTicket.img = "none"
      /\ \A st \in TicketStates : [NoTicket EXCEPT !.st = st] \in Ticket
      /\ \A st \in TicketStates : /\ [NoTicket EXCEPT !.st = st].st = st
                                  /\ [NoTicket EXCEPT !.st = st].img = "none"
  BY DEF NoTicket, Ticket, TicketStates, ImageStates
\* A ticket of the code at work is replaced; it had none before.
<1>7. ASSUME k \in Codes, row[k].st # "filed", NEW st \in TicketStates,
             st = "filed" => hub[k].srs = 1, NEW t, t = WithTicket(m, st)
      PROVE  /\ t \in Tickets /\ Sound(t) /\ RowOK(t) /\ t[k].st = st
             /\ \A c \in Codes \ {k} : t[c] = row[c]
  <2>1. /\ t = [row EXCEPT ![k] = [NoTicket EXCEPT !.st = st]]
        /\ row \in [Codes -> Ticket]
    BY <1>1, <1>5, <1>7 DEF WithTicket, Code, Tickets, old
  <2>2. PICK new \in Ticket : new.st = st /\ new.img = "none" /\ t = [row EXCEPT ![k] = new]
    BY <1>6, <2>1
  <2>3. t \in Tickets /\ t[k] = new /\ \A c \in Codes \ {k} : t[c] = row[c]
    BY <1>7, <2>1, <2>2 DEF Tickets
  <2>4. Sound(t)
    BY <1>1, <2>2, <2>3 DEF Sound
  <2>5. RowOK(t)
    BY <1>1, <1>7, <2>2, <2>3 DEF RowOK, Sound
  <2> QED BY <2>2, <2>3, <2>4, <2>5
\* The photo of the code at work, whose ticket there is, is noted.
<1>8. ASSUME k \in Codes, row[k].st = "filed", NEW img \in {"pending", "sent"},
             img = "sent" => hub[k].shown, NEW t, t = WithPhoto(m, img)
      PROVE  /\ t \in Tickets /\ Sound(t) /\ RowOK(t) /\ t[k].img = img
             /\ \A c \in Codes : t[c].st = row[c].st
             /\ \A c \in Codes \ {k} : t[c] = row[c]
  <2>1. t = [row EXCEPT ![k].img = img] /\ row \in [Codes -> Ticket]
    BY <1>1, <1>5, <1>8 DEF WithPhoto, Code, Tickets, old
  <2>2. /\ t[k] = [row[k] EXCEPT !.img = img]
        /\ \A c \in Codes \ {k} : t[c] = row[c]
    BY <1>8, <2>1
  <2>3. row[k] \in Ticket /\ img \in ImageStates
    BY <1>8, <2>1 DEF ImageStates
  <2>4. t[k] \in Ticket /\ t[k].st = row[k].st /\ t[k].img = img
    BY <2>2, <2>3 DEF Ticket
  <2>5. t \in Tickets
    BY <2>1, <2>2, <2>4 DEF Tickets
  <2>6. \A c \in Codes : t[c] = row[c] \/ (t[c].st = "filed" /\ row[c].st = "filed" /\ t[c].img = img /\ c = k)
    BY <1>8, <2>2, <2>4
  <2>7. Sound(t)
    BY <1>1, <1>8, <2>6 DEF Sound
  <2>8. RowOK(t)
    BY <1>1, <1>8, <2>6 DEF RowOK
  <2> QED BY <2>2, <2>4, <2>5, <2>7, <2>8
<1> HIDE DEF k
<1>9. CASE SaveIntent(m)
  <2> DEFINE t == WithTicket(m, "pending")
             w == [old EXCEPT !.pc = "send", !.mem = t]
  <2>1. /\ old.pc = "fanout" /\ k \in Codes /\ row[k].st # "filed"
        /\ Becomes(m, w) /\ Checkpoint(m, t)
    BY <1>5, <1>9 DEF SaveIntent, At, Planned, Filed, Code, old, k
  <2> HIDE DEF t
  <2>2. t \in Tickets /\ Sound(t) /\ RowOK(t) /\ \A c \in Codes \ {k} : t[c] = row[c]
    BY <1>7, <2>1 DEF TicketStates, t
  <2>3. WorkOK(w, t)
    BY <1>1, <2>1, <2>2 DEF WorkOK, WorkerType, AtCode, Locked, Codes, old, k
  <2> QED BY <1>3, <2>1, <2>2, <2>3
<1>10. CASE Created(m)
  <2> DEFINE t == WithTicket(m, "filed")
             w == [old EXCEPT !.pc = "photo", !.reply = "none", !.mem = t]
  <2>1. /\ old.pc = "await" /\ old.reply = "created" /\ k \in Codes
        /\ Becomes(m, w) /\ Checkpoint(m, t)
    BY <1>1, <1>10 DEF Created, At, AtCode, old
  <2>2. row[k].st # "filed" /\ hub[k].srs = 1
    BY <1>1, <2>1 DEF WorkOK, IInv, MemInv, Creating, AtCode, Locked, old, k, row
  <2> HIDE DEF t
  <2>3. t \in Tickets /\ Sound(t) /\ RowOK(t) /\ t[k].st = "filed" /\ \A c \in Codes \ {k} : t[c] = row[c]
    BY <1>7, <2>1, <2>2 DEF TicketStates, t
  <2>4. WorkOK(w, t)
    BY <1>1, <2>1, <2>3 DEF WorkOK, WorkerType, AtCode, Locked, Codes, old, k
  <2> QED BY <1>3, <2>1, <2>3, <2>4
<1>11. CASE Rejected(m)
  <2> DEFINE t == WithTicket(m, "rejected")
             w == [old EXCEPT !.pc = "record", !.reply = "none", !.mem = t, !.out = "rejected"]
  <2>1. old.pc = "await" /\ k \in Codes /\ Becomes(m, w) /\ Checkpoint(m, t)
    BY <1>1, <1>11 DEF Rejected, At, AtCode, old
  <2>2. row[k].st # "filed"
    BY <1>1, <2>1 DEF IInv, MemInv, Creating, AtCode, Locked, old, k, row
  <2> HIDE DEF t
  <2>3. t \in Tickets /\ Sound(t) /\ RowOK(t)
    BY <1>7, <2>1, <2>2 DEF TicketStates, t
  <2>4. WorkOK(w, t)
    BY <1>1, <2>1, <2>3 DEF WorkOK, WorkerType, AtCode, Locked
  <2> QED BY <1>3, <2>1, <2>3, <2>4
<1>12. ASSUME NEW t \in Tickets, old.pc \in {"photo", "awaitPhoto"}, NextCode(m, t), Checkpoint(m, t),
              Sound(t), RowOK(t), \A c \in Codes : t[c].st = row[c].st
       PROVE  PInv'
  <2>1. Becomes(m, [old EXCEPT !.pc = "fanout", !.idx = @ + 1, !.mem = t])
    BY <1>12 DEF NextCode, old
  <2>2. WorkOK([old EXCEPT !.pc = "fanout", !.idx = @ + 1, !.mem = t], t)
    BY <1>1, <1>12, PlaceTypes DEF WorkOK, WorkerType, AtCode, Locked, Codes, k
  <2> QED BY <1>3, <1>12, <2>1, <2>2
<1>13. old.pc \in {"photo", "sendPhoto", "awaitPhoto"} => k \in Codes /\ row[k].st = "filed"
  BY <1>1 DEF WorkOK, AtCode, old, k
<1>14. CASE ReconcilePhoto(m)
  <2>1. PICK img \in {"pending"} \union {i \in {"sent"} : hub[Code(m)].shown} :
          Checkpoint(m, WithPhoto(m, img)) /\ NextCode(m, WithPhoto(m, img))
    BY <1>14 DEF ReconcilePhoto
  <2>2. img \in {"pending", "sent"} /\ (img = "sent" => hub[k].shown) /\ old.pc = "photo"
    BY <1>14 DEF ReconcilePhoto, At, Code, old, k
  <2>3. PICK t : t = WithPhoto(m, img)
    OBVIOUS
  <2>4. t \in Tickets /\ Sound(t) /\ RowOK(t) /\ \A c \in Codes : t[c].st = row[c].st
    BY <1>8, <1>13, <2>2, <2>3
  <2> QED BY <1>12, <2>1, <2>2, <2>3, <2>4
<1>15. CASE PhotoLinkFails(m) \/ PhotoUnknown(m)
  <2>1. old.pc \in {"photo", "awaitPhoto"} /\ NextCode(m, old.mem) /\ Checkpoint(m, old.mem)
    BY <1>15 DEF PhotoLinkFails, PhotoUnknown, At, old
  <2> QED BY <1>1, <1>5, <1>12, <2>1
<1>16. CASE SavePhotoIntent(m)
  <2> DEFINE t == WithPhoto(m, "pending")
             w == [old EXCEPT !.pc = "sendPhoto", !.mem = t]
  <2>1. old.pc = "photo" /\ row[k].img = "none" /\ Becomes(m, w) /\ Checkpoint(m, t)
    BY <1>5, <1>16 DEF SavePhotoIntent, At, Code, old, k
  <2> HIDE DEF t
  <2>2. /\ t \in Tickets /\ Sound(t) /\ RowOK(t) /\ t[k].img = "pending"
        /\ \A c \in Codes : t[c].st = row[c].st
    BY <1>8, <1>13, <2>1 DEF t
  <2>3. hub[k].photos = 0
    BY <1>1, <1>13, <2>1 DEF RowOK
  <2>4. WorkOK(w, t)
    BY <1>1, <1>13, <2>1, <2>2, <2>3 DEF WorkOK, WorkerType, AtCode, Locked, old, k
  <2> QED BY <1>3, <2>1, <2>2, <2>4
<1>17. CASE PhotoAccepted(m)
  <2>1. PICK t : t = WithPhoto(m, "sent")
    OBVIOUS
  <2>2. /\ old.pc = "awaitPhoto" /\ hub[k].shown
        /\ Checkpoint(m, t) /\ NextCode(m, t)
    BY <1>17, <2>1 DEF PhotoAccepted, At, Code, old, k
  <2>3. t \in Tickets /\ Sound(t) /\ RowOK(t) /\ \A c \in Codes : t[c].st = row[c].st
    BY <1>8, <1>13, <2>1, <2>2
  <2> QED BY <1>12, <2>2, <2>3
<1>18. CASE Record(m)
  <2> DEFINE next == MergeTickets(old.mem, Executed(m))
             w == [old EXCEPT !.pc = "reread", !.mem = next]
  <2>1. old.pc = "record" /\ Becomes(m, w) /\ Checkpoint(m, next)
    BY <1>18 DEF Record, At, old
  <2>2. next = row
    <3>1. \A c \in Codes : Executed(m)[c] \in {row[c], NoTicket}
      BY <1>5, ExecutedType DEF IInv, old
    <3>2. ASSUME NEW c \in Codes PROVE MergeTicket(row[c], Executed(m)[c]) = row[c]
      BY <3>1 DEF MergeTicket, NoTicket
    <3> QED BY <1>1, <1>5, <3>2 DEF MergeTickets, Tickets
  <2> HIDE DEF next
  <2>3. WorkOK(w, row)
    BY <1>1, <2>1, <2>2 DEF WorkOK, WorkerType, AtCode, Locked
  <2> QED BY <1>1, <1>3, <2>1, <2>2, <2>3
<1> QED BY <1>9, <1>10, <1>11, <1>14, <1>15, <1>16, <1>17, <1>18

-----------------------------------------------------------------------------
(* The City, the task row and everyone else *)

\* The City is asked, answers, shows a photo.
LEMMA CitySteps ==
  ASSUME IInv, PInv,
         \/ \E m \in Messages : SendCreate(m) \/ HubAnswers(m)
         \/ \E c \in Codes : HubAlone(c)
  PROVE  PInv'
<1>1. /\ hub \in [Codes -> [open : Nat, srs : Nat, photos : Nat, shown : BOOLEAN]]
      /\ workers \in [Messages -> WorkerType]
      /\ \A n \in Messages : workers[n].pc \in AtCode => workers[n].idx \in Codes
      /\ \A c \in Codes : hub[c].open + hub[c].srs <= 1
  BY DEF IInv, TypeOK, Shape, CityInv
<1>2. UNCHANGED <<task, jobs, lock>>
  BY DEF SendCreate, HubAnswers, HubAlone
<1>3. ASSUME NEW m \in Messages, SendCreate(m) \/ HubAnswers(m) PROVE PInv'
  <2> DEFINE k == workers[m].idx
  <2>1. k \in Codes /\ workers[m].pc \in {"send", "await"}
    BY <1>1, <1>3 DEF SendCreate, HubAnswers, At, AtCode
  <2>2. \A c \in Codes : /\ hub[c].srs = 1 => hub'[c].srs = 1
                         /\ hub[c].shown => hub'[c].shown
                         /\ hub'[c].photos = hub[c].photos
    <3>1. CASE SendCreate(m)
      <4>1. hub' = [hub EXCEPT ![k].open = @ + 1]
        BY <3>1 DEF SendCreate, Code
      <4> QED BY <1>1, <2>1, <4>1
    <3>2. CASE HubAnswers(m)
      <4>1. /\ \/ hub' = [hub EXCEPT ![k].open = @ - 1, ![k].srs = @ + 1]
               \/ hub' = [hub EXCEPT ![k].open = @ - 1]
            /\ hub[k].open > 0
        BY <3>2 DEF HubAnswers, Code
      <4>2. hub[k].srs # 1
        BY <1>1, <2>1, <4>1
      <4> QED BY <1>1, <2>1, <4>1, <4>2
    <3> QED BY <1>3, <3>1, <3>2
  <2>3. PICK w : /\ Becomes(m, w) /\ w.pc = "await" /\ w.idx = k
                 /\ w.seen = workers[m].seen /\ w.mem = workers[m].mem
                 /\ w.reply = "created" => hub'[k].srs = 1
    <3>1. CASE SendCreate(m)
      <4> DEFINE w == [workers[m] EXCEPT !.pc = "await", !.reply = "none"]
      <4>1. /\ w.pc = "await" /\ w.idx = k /\ w.reply = "none"
            /\ w.seen = workers[m].seen /\ w.mem = workers[m].mem
        BY <1>1 DEF WorkerType
      <4>2. Becomes(m, w)
        BY <3>1 DEF SendCreate
      <4> HIDE DEF w
      <4> QED BY <4>1, <4>2
    <3>2. CASE HubAnswers(m)
      <4>1. PICK reply \in {"created", "rejected"} :
              /\ Becomes(m, [workers[m] EXCEPT !.reply = reply])
              /\ reply = "created" => hub' = [hub EXCEPT ![k].open = @ - 1, ![k].srs = @ + 1]
        BY <3>2 DEF HubAnswers, Code
      <4>2. reply = "created" => hub'[k].srs = 1
        <5>1. hub[k].open > 0
          BY <3>2 DEF HubAnswers, Code
        <5> QED BY <1>1, <2>1, <4>1, <5>1
      <4> DEFINE w == [workers[m] EXCEPT !.reply = reply]
      <4>3. /\ w.pc = "await" /\ w.idx = k /\ w.reply = reply
            /\ w.seen = workers[m].seen /\ w.mem = workers[m].mem
        BY <1>1, <3>2 DEF WorkerType, HubAnswers, At
      <4>4. Becomes(m, w)
        BY <4>1
      <4> HIDE DEF w
      <4> QED BY <4>2, <4>3, <4>4
    <3> QED BY <1>3, <3>1, <3>2
  <2>4. workers' = [workers EXCEPT ![m] = w]
    BY <2>3 DEF Becomes
  <2>5. WorkOK(w, lock.tickets)'
    <3>1. PICK old, row : old = workers[m] /\ row = lock.tickets /\ WorkOK(old, row)
      BY DEF PInv, WorkInv
    <3>2. \A c \in Codes : hub[c].shown => hub'[c].shown
      BY <2>2
    <3>3. WorkOK(w, row)'
      BY <2>1, <2>3, <3>1, <3>2 DEF WorkOK, Sound, AtCode, Locked
    <3> QED BY <1>2, <3>1, <3>3 DEF WorkOK, Sound, Done
  <2>6. \A n \in Messages : workers'[n] = workers[n] \/ WorkOK(workers[n], lock.tickets)'
    <3> SUFFICES ASSUME NEW n \in Messages, workers'[n] # workers[n] PROVE WorkOK(workers[n], lock.tickets)'
      OBVIOUS
    <3>1. workers'[n] = w
      BY <1>1, <2>4
    <3> QED BY <2>5, <3>1 DEF WorkOK, Sound, Done
  <2> QED BY <1>1, <1>2, <2>2, <2>6, CityKeeps
<1>4. ASSUME NEW k \in Codes, HubAlone(k) PROVE PInv'
  <2>1. \A c \in Codes : /\ hub[c].srs = 1 => hub'[c].srs = 1
                         /\ hub[c].shown => hub'[c].shown
                         /\ hub'[c].photos = hub[c].photos
    BY <1>1, <1>4 DEF HubAlone
  <2>2. \A n \in Messages : workers'[n] = workers[n]
    BY <1>4 DEF HubAlone
  <2> QED BY <1>1, <1>2, <2>1, <2>2, CityKeeps
<1> QED BY <1>3, <1>4

\* The photo goes to the City, which has none of it yet.
LEMMA SendPhotoKeeps ==
  ASSUME IInv, PInv, NEW m \in Messages, SendPhoto(m)
  PROVE  PInv'
<1> DEFINE k == workers[m].idx
           w == [workers[m] EXCEPT !.pc = "awaitPhoto"]
<1>1. /\ hub \in [Codes -> [open : Nat, srs : Nat, photos : Nat, shown : BOOLEAN]]
      /\ workers \in [Messages -> WorkerType] /\ WorkOK(workers[m], lock.tickets)
      /\ workers[m].pc = "sendPhoto" /\ k \in Codes
  BY Facts DEF IInv, TypeOK, SendPhoto, At, AtCode, Code
<1>2. /\ UNCHANGED <<task, jobs, lock>> /\ workers' = [workers EXCEPT ![m] = w]
      /\ hub' = [hub EXCEPT ![k].photos = @ + 1] /\ lock.token = m
  BY <1>1 DEF SendPhoto, Goto, Becomes, Code, IInv, LeaseInv, Locked
<1>3. /\ hub[k].photos = 0 /\ lock.tickets[k].img = "pending"
  BY <1>1 DEF WorkOK
<1>4. /\ \A c \in Codes : hub'[c].srs = hub[c].srs /\ hub'[c].shown = hub[c].shown
      /\ \A c \in Codes \ {k} : hub'[c].photos = hub[c].photos
      /\ hub'[k].photos = 1
  BY <1>1, <1>2, <1>3
<1>5. CopiesInv' /\ TaskInv'
  BY <1>2, <1>4 DEF PInv, CopiesInv, Sound, TaskInv, Done
<1>6. HubInv'
  BY <1>2, <1>3, <1>4 DEF PInv, HubInv, RowOK
<1>7. WorkInv'
  <2> SUFFICES ASSUME NEW n \in Messages PROVE WorkOK(workers[n], lock.tickets)'
    BY DEF WorkInv
  <2>1. CASE n = m
    <3>1. /\ w.pc = "awaitPhoto" /\ w.idx = k /\ w.seen = workers[m].seen /\ w.mem = workers[m].mem
      BY <1>1 DEF WorkerType
    <3>2. PICK old, row, new : old = workers[m] /\ row = lock.tickets /\ WorkOK(old, row) /\ new = w
      BY <1>1
    <3>3. workers'[m] = w
      BY <1>1, <1>2
    <3> HIDE DEF w
    <3>4. WorkOK(new, row)'
      BY <1>1, <1>4, <3>1, <3>2 DEF WorkOK, Sound, AtCode, Locked
    <3> QED BY <1>2, <2>1, <3>2, <3>3, <3>4 DEF WorkOK, Sound, Done
  <2>2. CASE n # m
    <3>1. workers'[n] = workers[n] /\ workers[n].pc \notin Locked
      BY <1>1, <1>2, <2>2, HolderAlone
    <3>2. PICK old, row : old = workers[n] /\ row = lock.tickets /\ WorkOK(old, row)
      BY DEF PInv, WorkInv
    <3>3. WorkOK(old, row)'
      BY <1>4, <3>1, <3>2 DEF WorkOK, Sound, AtCode, Locked
    <3>4. lock' = lock
      BY <1>2
    <3> QED BY <3>1, <3>2, <3>3, <3>4 DEF WorkOK, Sound, Done
  <2> QED BY <2>1, <2>2
<1> QED BY <1>5, <1>6, <1>7 DEF PInv

\* The final transaction tells the task what was executed.
LEMMA CommitKeeps ==
  ASSUME IInv, PInv, NEW m \in Messages, Commit(m)
  PROVE  PInv'
<1> DEFINE old == workers[m]
           row == lock.tickets
           done == Executed(m)
           filed == old.out = "filed"
           w == [IdleWorker EXCEPT !.pc = "release", !.left = old.left, !.end = IF Retry(m) THEN "throw" ELSE "ack"]
<1>1. /\ old \in WorkerType /\ row \in Tickets /\ WorkOK(old, row) /\ Sound(row)
      /\ old.pc = "commit" /\ old.mem = row
      /\ task.tickets \in Tickets /\ task \in TaskType
      /\ jobs \in [Jobs -> [status : JobStatus, tickets : Tickets]]
  BY Facts DEF Commit, At, WorkOK, Locked, IInv, TypeOK, TaskType
<1>2. /\ task'.tickets = MergeTickets(task.tickets, done)
      /\ task'.action = (IF filed THEN "submitted" ELSE IF Retry(m) THEN "queued" ELSE "failed")
      /\ Becomes(m, w) /\ hub' = hub /\ lock' = lock
      /\ \A j \in Jobs : jobs'[j].tickets \in {jobs[j].tickets, done}
  BY <1>1 DEF Commit, End, TaskType
<1>3. /\ done \in Tickets
      /\ \A c \in Codes : done[c] \in {row[c], NoTicket}
      /\ filed => \A c \in Codes : done[c] = row[c]
  <2>1. /\ done \in Tickets /\ \A c \in Codes : done[c] \in {row[c], NoTicket}
    BY <1>1, ExecutedType DEF IInv
  <2>2. filed => \A c \in Codes : c < old.idx
    BY <1>1, PlaceTypes DEF WorkOK, WorkerType
  <2>3. filed => \A c \in Codes : done[c] = row[c]
    BY <1>1, <2>2 DEF Executed, Code
  <2> QED BY <2>1, <2>3
<1>4. Sound(done)
  BY <1>1, <1>3 DEF Sound, NoTicket
<1>5. /\ w.pc = "release" /\ w.seen = NoTickets
  BY DEF IdleWorker
<1> HIDE DEF done, w
<1>6. Sound(MergeTickets(task.tickets, done))
  BY <1>4 DEF PInv, CopiesInv, Sound, MergeTickets, MergeTicket
<1>7. CopiesInv'
  BY <1>2, <1>4, <1>6 DEF PInv, CopiesInv, Sound
<1>8. TaskInv'
  <2>1. filed => Done(MergeTickets(task.tickets, done))
    <3>1. filed => Done(done)
      BY <1>1, <1>3 DEF WorkOK, Done
    <3> QED BY <3>1 DEF Done, MergeTickets, MergeTicket
  <2> QED BY <1>2, <2>1 DEF TaskInv, Done
<1>9. HubInv'
  BY <1>2 DEF PInv, HubInv, RowOK
<1>10. WorkInv'
  <2> SUFFICES ASSUME NEW n \in Messages PROVE WorkOK(workers[n], lock.tickets)'
    BY DEF WorkInv
  <2>1. WorkOK(w, row)
    BY <1>5 DEF WorkOK, Sound, NoTickets, NoTicket, AtCode
  <2>2. PICK v, r : v = workers'[n] /\ r = row /\ WorkOK(v, r)
    <3>1. workers' = [workers EXCEPT ![m] = w] /\ workers \in [Messages -> WorkerType]
      BY <1>2 DEF Becomes, IInv, TypeOK
    <3>2. workers'[n] = w \/ workers'[n] = workers[n]
      BY <3>1
    <3> QED BY <2>1, <3>2 DEF PInv, WorkInv
  <2>3. WorkOK(v, r)'
    BY <1>2, <2>2, Elsewhere
  <2> QED BY <1>2, <2>2, <2>3 DEF WorkOK, Sound, Done
<1> QED BY <1>7, <1>8, <1>9, <1>10 DEF PInv

\* Taps, the dispatcher, the dead-letter queue, other jobs and the clock: none
\* touches a record, and a run at most loses time.
LEMMA RestKeeps ==
  ASSUME IInv, PInv,
         \/ \E j \in Jobs : \/ Tap(j) \/ Requeue(j) \/ DispatchRead(j) \/ DispatchMark(j) \/ DispatchFail(j)
                            \/ \E m \in Messages : DispatchSend(j, m)
         \/ ResolveTask \/ ReopenTask \/ OtherClaims \/ OtherEnds \/ Tick
         \/ \E m \in Messages : DeadLetter(m)
         \/ UNCHANGED vars
  PROVE  PInv'
<1>1. /\ task \in TaskType /\ workers \in [Messages -> WorkerType]
      /\ jobs \in [Jobs -> [status : JobStatus, tickets : Tickets]]
      /\ lock \in [token : Messages \union {NoOne, Other}, left : Int, tickets : Tickets]
  BY DEF IInv, TypeOK
<1>2. /\ hub' = hub /\ lock'.tickets = lock.tickets /\ task'.tickets = task.tickets
      /\ task'.action \in {task.action, "queued"}
      /\ \A j \in Jobs : jobs'[j].tickets = jobs[j].tickets
  <2>1. CASE \E j \in Jobs : Tap(j) \/ Requeue(j)
    <3>1. PICK j \in Jobs : Tap(j) \/ Requeue(j)
      BY <2>1
    <3>2. /\ jobs' = [jobs EXCEPT ![j].status = "pending"] /\ hub' = hub /\ lock' = lock
          /\ \/ task' = [task EXCEPT !.status = "in_progress", !.filing = TRUE, !.action = "queued"]
             \/ task' = [task EXCEPT !.action = "queued"]
      BY <3>1 DEF Tap, Requeue, NewJob
    <3>3. task'.tickets = task.tickets /\ task'.action = "queued"
      BY <1>1, <3>2 DEF TaskType
    <3> QED BY <1>1, <3>2, <3>3
  <2>2. CASE ResolveTask \/ ReopenTask
    BY <1>1, <2>2 DEF ResolveTask, ReopenTask, TaskType
  <2>3. CASE \E j \in Jobs : \/ DispatchRead(j) \/ DispatchMark(j) \/ DispatchFail(j)
                             \/ \E m \in Messages : DispatchSend(j, m)
    <3>1. PICK j \in Jobs : \/ DispatchRead(j) \/ DispatchMark(j) \/ DispatchFail(j)
                            \/ \E m \in Messages : DispatchSend(j, m)
      BY <2>3
    <3>2. /\ jobs' = jobs \/ jobs' = [jobs EXCEPT ![j].status = "dispatched"]
          /\ hub' = hub /\ lock' = lock /\ task' = task
      BY <3>1 DEF DispatchRead, DispatchMark, DispatchFail, DispatchSend
    <3> QED BY <1>1, <3>2
  <2>4. CASE OtherClaims \/ OtherEnds \/ Tick
    BY <1>1, <2>4 DEF OtherClaims, OtherEnds, Tick
  <2>5. CASE UNCHANGED vars \/ \E m \in Messages : DeadLetter(m)
    BY <2>5 DEF vars, DeadLetter
  <2> QED BY <2>1, <2>2, <2>3, <2>4, <2>5
<1>3. ASSUME NEW n \in Messages
      PROVE  /\ workers'[n].pc = workers[n].pc /\ workers'[n].idx = workers[n].idx
             /\ workers'[n].seen = workers[n].seen /\ workers'[n].mem = workers[n].mem
             /\ workers'[n].reply = workers[n].reply /\ workers'[n].out = workers[n].out
  <2>1. CASE Tick
    BY <1>1, <2>1 DEF Tick, WorkerType
  <2>2. CASE workers' = workers
    BY <2>2
  <2> QED BY <2>1, <2>2 DEF Tap, Requeue, NewJob, DispatchRead, DispatchMark, DispatchFail, DispatchSend,
             ResolveTask, ReopenTask, OtherClaims, OtherEnds, DeadLetter, vars
<1>4. WorkInv'
  <2> SUFFICES ASSUME NEW n \in Messages PROVE WorkOK(workers[n], lock.tickets)'
    BY DEF WorkInv
  <2>1. PICK v, old, row : v = workers'[n] /\ old = workers[n] /\ row = lock.tickets /\ WorkOK(old, row)
    BY DEF PInv, WorkInv
  <2>2. WorkOK(v, row)
    BY <1>3, <2>1 DEF WorkOK
  <2>3. WorkOK(v, row)'
    BY <1>2, <2>2, Elsewhere
  <2> QED BY <1>2, <2>1, <2>3 DEF WorkOK, Sound, Done
<1>5. CopiesInv' /\ HubInv' /\ TaskInv'
  BY <1>2 DEF PInv, CopiesInv, HubInv, RowOK, TaskInv, Sound, Done
<1> QED BY <1>4, <1>5 DEF PInv

-----------------------------------------------------------------------------
(* The theorems *)

LEMMA InitPInv == Init => PInv
<1> SUFFICES ASSUME Init PROVE PInv
  OBVIOUS
<1>1. /\ task.tickets = NoTickets /\ task.action = "none" /\ lock.tickets = NoTickets
      /\ \A j \in Jobs : jobs[j].tickets = NoTickets
      /\ \A m \in Messages : workers[m] = IdleWorker
      /\ \A c \in Codes : hub[c].photos = 0
  BY DEF Init
<1>2. Sound(NoTickets) /\ RowOK(NoTickets)
  BY <1>1 DEF Sound, RowOK, NoTickets, NoTicket
<1>3. WorkOK(IdleWorker, NoTickets)
  BY <1>2 DEF WorkOK, IdleWorker, Locked, AtCode
<1> QED BY <1>1, <1>2, <1>3 DEF PInv, CopiesInv, WorkInv, HubInv, TaskInv

LEMMA NextPInv == IInv /\ PInv /\ [Next]_vars => PInv'
<1> SUFFICES ASSUME IInv, PInv, [Next]_vars PROVE PInv'
  OBVIOUS
<1>1. ASSUME NEW m \in Messages, WorkerStep(m) PROVE PInv'
  BY <1>1, TurnsKeep, RunsKeep, SavesKeep, CitySteps, SendPhotoKeeps, CommitKeeps DEF WorkerStep
<1>2. ASSUME NEW m \in Messages, WorkerFault(m) PROVE PInv'
  BY <1>2, TurnsKeep, RunsKeep DEF WorkerFault
<1> QED BY <1>1, <1>2, RunsKeep, CitySteps, RestKeeps DEF Next

\* The record and the City agree, in every reachable state.
THEOREM RecordIsTrue == Spec => []PInv
<1> QED BY InitPInv, NextPInv, Invariance, PTL DEF Spec

\* A task shown as filed is filed: the City has a ticket for every planned
\* service, the task knows each, and the photo reached the City with each.
THEOREM FiledIsFiled == Spec => []FiledMeansCityHasAll
<1>1. IInv /\ PInv => FiledMeansCityHasAll
  <2> SUFFICES ASSUME IInv, PInv, task.action = "submitted", NEW c \in Codes
               PROVE  /\ hub[c].srs = 1 /\ task.tickets[c].st = "filed"
                      /\ WithImage => hub[c].shown
    BY DEF FiledMeansCityHasAll
  <2>1. task.tickets[c].st = "filed" /\ (WithImage => task.tickets[c].img = "sent")
    BY DEF PInv, TaskInv, Done
  <2>2. lock.tickets[c].st = "filed"
    BY <2>1 DEF IInv, KnownInv, Below
  <2> QED BY <2>1, <2>2 DEF PInv, CopiesInv, Sound, HubInv, RowOK
<1> QED BY <1>1, Invariance, RecordIsTrue, PTL

\* No photo is sent twice for a ticket, whatever is lost, retried or redelivered.
THEOREM NoSecondPhoto == Spec => []ImageSentAtMostOnce
<1>1. PInv => ImageSentAtMostOnce
  BY DEF PInv, HubInv, RowOK, ImageSentAtMostOnce
<1> QED BY <1>1, RecordIsTrue, PTL
=============================================================================
