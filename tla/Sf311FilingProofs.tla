--------------------------- MODULE Sf311FilingProofs ---------------------------
(***************************************************************************)
(* Sf311Filing's safety for any number of jobs, messages, deliveries and   *)
(* service codes.  IInv is the inductive invariant:                        *)
(*                                                                         *)
(*   Shape      a running invocation works on a queued message of a job,   *)
(*              and on a code of the plan                                  *)
(*   LeaseInv   who is between the claim and the release holds the lease,  *)
(*              and the lease outlives the invocation's remaining runtime  *)
(*   MemInv     the lease holder's memory agrees with the lock row, and    *)
(*              has a pending ticket at most where it is creating one      *)
(*   KnownInv   no copy of the record knows more than the lock row         *)
(*   CityInv    the City has at most one request per code, the lock row    *)
(*              knows of it, and none is there just before one is sent     *)
(***************************************************************************)
EXTENDS Sf311Filing, TLAPS

AtCode == {"send", "await", "photo", "sendPhoto", "awaitPhoto"}

Shape ==
  \A m \in Messages :
    /\ queue[m].state # "unsent" => queue[m].job \in Jobs
    /\ workers[m].pc # "idle" => queue[m].state = "queued"
    /\ workers[m].pc \in AtCode => workers[m].idx \in Codes

LeaseInv ==
  /\ \A m \in Messages :
       /\ workers[m].left <= MaxRuntime
       /\ workers[m].pc \in Locked =>
            lock.token = m /\ workers[m].left <= lock.left
  /\ other.live => lock.token = Other /\ other.left <= lock.left

Creating(m) == workers[m].pc \in {"send", "await"}

MemInv ==
  \A m \in Messages : workers[m].pc \in Locked \ {"release"} =>
    /\ \A c \in Codes : workers[m].mem[c].st = lock.tickets[c].st
    /\ workers[m].pc \in AtCode \union {"fanout"} =>
         \A c \in Codes : workers[m].mem[c].st = "pending"
                            <=> Creating(m) /\ c = workers[m].idx

\* What a copy of the record may say of a code, given the lock row.
Below(copy, row) ==
  \A c \in Codes : /\ copy[c].st # "none" => row[c].st # "none"
                   /\ copy[c].st = "filed" => row[c].st = "filed"

KnownInv ==
  /\ Below(task.tickets, lock.tickets)
  /\ \A j \in Jobs : Below(jobs[j].tickets, lock.tickets)
  /\ \A m \in Messages : Below(workers[m].seen, lock.tickets)

CityInv ==
  /\ \A c \in Codes :
       /\ hub[c].open + hub[c].srs <= 1
       /\ hub[c].open + hub[c].srs = 1 =>
            lock.tickets[c].st \in {"pending", "filed"}
  /\ \A m \in Messages :
       /\ workers[m].pc = "send"
            => hub[workers[m].idx].open = 0 /\ hub[workers[m].idx].srs = 0
       /\ workers[m].pc = "await" /\ workers[m].reply = "rejected"
            => hub[workers[m].idx].open = 0 /\ hub[workers[m].idx].srs = 0

IInv == TypeOK /\ Shape /\ LeaseInv /\ MemInv /\ KnownInv /\ CityInv

-----------------------------------------------------------------------------
(* The helpers the actions are built from *)

\* The entry of one service code after a merge is one of the two merged.
LEMMA MergeType ==
  ASSUME NEW s \in Tickets, NEW t \in Tickets
  PROVE  MergeTickets(s, t) \in Tickets
BY DEF MergeTickets, MergeTicket, Tickets

\* Merging a copy that knows no more than the row, and then the row, gives what
\* the row says.
LEMMA MergeBelow ==
  ASSUME NEW s \in Tickets, NEW t \in Tickets, NEW row \in Tickets,
         Below(s, row), Below(t, row)
  PROVE  /\ Below(MergeTickets(s, t), row)
         /\ \A c \in Codes : MergeTickets(s, row)[c].st = row[c].st
BY DEF MergeTickets, MergeTicket, Tickets, Ticket, Below

LEMMA WithTicketType ==
  ASSUME TypeOK, NEW m \in Messages, NEW st \in TicketStates
  PROVE  WithTicket(m, st) \in Tickets
<1>1. workers[m].mem \in Tickets
  BY DEF TypeOK, WorkerType
<1>2. [NoTicket EXCEPT !.st = st] \in Ticket
  BY DEF NoTicket, Ticket, TicketStates, ImageStates
<1> QED BY <1>1, <1>2 DEF WithTicket, Tickets

LEMMA WithPhotoType ==
  ASSUME TypeOK, NEW m \in Messages, NEW img \in ImageStates
  PROVE  /\ WithPhoto(m, img) \in Tickets
         /\ \A c \in Codes : WithPhoto(m, img)[c].st = workers[m].mem[c].st
<1>1. workers[m].mem \in Tickets
  BY DEF TypeOK, WorkerType
<1> QED BY <1>1 DEF WithPhoto, Tickets, Ticket

LEMMA ExecutedType ==
  ASSUME TypeOK, NEW m \in Messages
  PROVE  /\ Executed(m) \in Tickets
         /\ \A c \in Codes : Executed(m)[c] \in {workers[m].mem[c], NoTicket}
<1>1. workers[m].mem \in Tickets
  BY DEF TypeOK, WorkerType
<1>2. NoTicket \in Ticket
  BY DEF NoTicket, Ticket, TicketStates, ImageStates
<1> QED BY <1>1, <1>2 DEF Executed, Tickets

LEMMA NoTicketsType == NoTickets \in Tickets
BY DEF NoTickets, NoTicket, Tickets, Ticket, TicketStates, ImageStates

LEMMA PlacesType == 1 \in Places /\ \A c \in Codes : c + 1 \in Places
BY NumCodesAssumption DEF Places, Codes

LEMMA IdleType == IdleWorker \in WorkerType
BY NoTicketsType, BudgetAssumption, PlacesType
DEF IdleWorker, WorkerType, PCs, Outcomes

LEMMA BecomesType ==
  ASSUME TypeOK, NEW m \in Messages, NEW w \in WorkerType, Becomes(m, w)
  PROVE  /\ workers' \in [Messages -> WorkerType]
         /\ workers'[m] = w
         /\ \A n \in Messages \ {m} : workers'[n] = workers[n]
BY DEF TypeOK, Becomes

LEMMA CheckpointType ==
  ASSUME TypeOK, NEW m \in Messages, NEW t \in Tickets, Checkpoint(m, t)
  PROVE  /\ lock' \in [token : Messages \union {NoOne, Other},
                       left : Int, tickets : Tickets]
         /\ lock'.token = lock.token /\ lock'.left = lock.left
         /\ lock'.tickets = t
         /\ jobs' \in [Jobs -> [status : JobStatus, tickets : Tickets]]
         /\ \A j \in Jobs : jobs'[j].tickets \in {jobs[j].tickets, t}
<1>1. lock \in [token : Messages \union {NoOne, Other},
                left : Int, tickets : Tickets]
  BY DEF TypeOK
<1>2. jobs \in [Jobs -> [status : JobStatus, tickets : Tickets]]
  BY DEF TypeOK
<1>3. /\ lock' = [lock EXCEPT !.tickets = t]
      /\ jobs' = [jobs EXCEPT ![JobOf(m)].tickets = t]
  BY DEF Checkpoint
<1>4. \A j \in Jobs : [jobs[j] EXCEPT !.tickets = t]
                         \in [status : JobStatus, tickets : Tickets]
  BY <1>2
<1>5. \A j \in Jobs : jobs'[j] \in {jobs[j], [jobs[j] EXCEPT !.tickets = t]}
  BY <1>2, <1>3
<1>6. jobs' \in [Jobs -> [status : JobStatus, tickets : Tickets]]
  BY <1>2, <1>3, <1>4, <1>5
<1>7. \A j \in Jobs : jobs'[j].tickets \in {jobs[j].tickets, t}
  BY <1>2, <1>5
<1> QED BY <1>1, <1>3, <1>6, <1>7

-----------------------------------------------------------------------------
(* The steps that tell nobody anything new: the lease stays where it is, the *)
(* lock row says the same of every ticket, the City has the same requests,   *)
(* and an invocation that moves gets nowhere it has more to answer for.      *)

\* Invocation m may quietly become w.
Steady(m, w) ==
  /\ w.left <= MaxRuntime
  /\ w.pc \in Locked => workers[m].pc \in Locked /\ w.left <= workers[m].left
  /\ Below(w.seen, lock.tickets)
  /\ w.pc \notin {"send", "await"}
  /\ w.pc \in Locked \ {"release"} =>
       \A c \in Codes : w.mem[c].st = lock.tickets[c].st
  /\ w.pc \in AtCode \union {"fanout"} =>
       \A c \in Codes : w.mem[c].st # "pending"

Quiet ==
  /\ lock'.token = lock.token /\ lock'.left = lock.left
  /\ other' = other
  /\ \A c \in Codes : /\ lock'.tickets[c].st = lock.tickets[c].st
                      /\ hub'[c].open = hub[c].open /\ hub'[c].srs = hub[c].srs
  /\ Below(task'.tickets, lock.tickets)
  /\ \A j \in Jobs : Below(jobs'[j].tickets, lock.tickets)
  /\ \A n \in Messages : workers'[n] = workers[n] \/ Steady(n, workers'[n])

IInvRest == LeaseInv /\ MemInv /\ KnownInv /\ CityInv

\* A quiet step keeps everything but types and shape, which are shown apart.
LEMMA QuietStep ==
  ASSUME TypeOK, TypeOK', Shape', IInvRest, Quiet
  PROVE  IInvRest'
<1>1. LeaseInv'
  BY DEF TypeOK, WorkerType, IInvRest, LeaseInv, Quiet, Steady
<1>2. MemInv'
  BY DEF IInvRest, MemInv, Quiet, Steady, Creating
<1>3. KnownInv'
  BY DEF IInvRest, KnownInv, Quiet, Steady, Below
<1>4. CityInv'
  <2>1. ASSUME NEW c \in Codes
        PROVE  (/\ hub[c].open + hub[c].srs <= 1
                /\ hub[c].open + hub[c].srs = 1 =>
                     lock.tickets[c].st \in {"pending", "filed"})'
    BY DEF IInvRest, CityInv, Quiet
  <2>2. ASSUME NEW m \in Messages, workers'[m].pc \in {"send", "await"}
        PROVE  /\ workers'[m] = workers[m]
               /\ hub'[workers[m].idx].open = hub[workers[m].idx].open
               /\ hub'[workers[m].idx].srs = hub[workers[m].idx].srs
    <3>1. workers'[m] = workers[m]
      BY <2>2 DEF Quiet, Steady
    <3>2. workers[m].idx \in Codes
      BY <2>2, <3>1 DEF Shape, AtCode
    <3> QED BY <3>1, <3>2 DEF Quiet
  <2> QED BY <2>1, <2>2 DEF IInvRest, CityInv
<1> QED BY <1>1, <1>2, <1>3, <1>4 DEF IInvRest

\* The shape of w.
Fits(m, w) ==
  /\ w.pc # "idle" => queue[m].state = "queued"
  /\ w.pc \in AtCode => w.idx \in Codes

\* An invocation takes a step of its own.
LEMMA MoveStep ==
  ASSUME IInv, NEW m \in Messages, NEW w \in WorkerType,
         Becomes(m, w), Steady(m, w), Fits(m, w),
         UNCHANGED <<task, jobs, stream, queue, lock, other, hub>>
  PROVE  IInv'
<1>1. /\ workers' \in [Messages -> WorkerType]
      /\ workers'[m] = w
      /\ \A n \in Messages \ {m} : workers'[n] = workers[n]
  BY BecomesType DEF IInv
<1>2. TypeOK'
  BY <1>1 DEF IInv, TypeOK
<1>3. Shape'
  BY <1>1 DEF IInv, Shape, Fits
<1>4. Quiet
  BY <1>1 DEF IInv, KnownInv, Quiet
<1> QED BY <1>2, <1>3, <1>4, QuietStep DEF IInv, IInvRest

\* An invocation takes a step and saves a record that says the same of every
\* ticket as the one in its memory.
LEMMA SaveStep ==
  ASSUME IInv, NEW m \in Messages, NEW w \in WorkerType, NEW t \in Tickets,
         Becomes(m, w), Steady(m, w), Fits(m, w), Checkpoint(m, t),
         workers[m].pc \in Locked \ {"release"},
         \A c \in Codes : t[c].st = workers[m].mem[c].st,
         UNCHANGED <<task, stream, queue, other, hub>>
  PROVE  IInv'
<1>1. /\ workers' \in [Messages -> WorkerType]
      /\ workers'[m] = w
      /\ \A n \in Messages \ {m} : workers'[n] = workers[n]
  BY BecomesType DEF IInv
<1>2. /\ lock' \in [token : Messages \union {NoOne, Other},
                    left : Int, tickets : Tickets]
      /\ lock'.token = lock.token /\ lock'.left = lock.left
      /\ lock'.tickets = t
      /\ jobs' \in [Jobs -> [status : JobStatus, tickets : Tickets]]
      /\ \A j \in Jobs : jobs'[j].tickets \in {jobs[j].tickets, t}
  BY CheckpointType DEF IInv
<1>3. TypeOK'
  BY <1>1, <1>2 DEF IInv, TypeOK
<1>4. Shape'
  BY <1>1 DEF IInv, Shape, Fits
<1>5. \A c \in Codes : t[c].st = lock.tickets[c].st
  BY DEF IInv, MemInv
<1>6. Below(t, lock.tickets)
  BY <1>5 DEF Below
<1>7. Quiet
  BY <1>1, <1>2, <1>5, <1>6 DEF IInv, KnownInv, Quiet
<1> QED BY <1>3, <1>4, <1>7, QuietStep DEF IInv, IInvRest

-----------------------------------------------------------------------------
(* The worker's steps *)

\* What the invariant says of invocation m, in one place.
Stands(m) ==
  /\ workers[m] \in WorkerType
  /\ workers[m].left <= MaxRuntime
  /\ Below(workers[m].seen, lock.tickets)
  /\ workers[m].pc # "idle" => queue[m].state = "queued" /\ JobOf(m) \in Jobs
  /\ workers[m].pc \in AtCode => Code(m) \in Codes
  /\ workers[m].pc \in Locked \ {"release"} =>
       \A c \in Codes : workers[m].mem[c].st = lock.tickets[c].st
  /\ workers[m].pc \in (AtCode \union {"fanout"}) \ {"send", "await"} =>
       \A c \in Codes : workers[m].mem[c].st # "pending"

LEMMA Standing ==
  ASSUME IInv, NEW m \in Messages
  PROVE  Stands(m)
<1>1. TypeOK /\ Shape /\ LeaseInv /\ MemInv /\ KnownInv
  BY DEF IInv
<1>2. workers[m] \in WorkerType
  BY <1>1 DEF TypeOK
<1>3. /\ workers[m].left <= MaxRuntime
      /\ Below(workers[m].seen, lock.tickets)
  BY <1>1 DEF LeaseInv, KnownInv
<1>4. /\ workers[m].pc # "idle" => queue[m].state = "queued" /\ JobOf(m) \in Jobs
      /\ workers[m].pc \in AtCode => Code(m) \in Codes
  BY <1>1 DEF Shape, JobOf, Code
<1>5. /\ workers[m].pc \in Locked \ {"release"} =>
           \A c \in Codes : workers[m].mem[c].st = lock.tickets[c].st
      /\ workers[m].pc \in (AtCode \union {"fanout"}) \ {"send", "await"} =>
           \A c \in Codes : workers[m].mem[c].st # "pending"
  BY <1>1 DEF MemInv, Creating, AtCode, Locked
<1> QED BY <1>2, <1>3, <1>4, <1>5 DEF Stands

\* Invocation m only turns to its next task: it keeps the record in its memory.
Turn(m, w) ==
  /\ w \in WorkerType
  /\ workers[m].pc # "idle"
  /\ w.left = workers[m].left /\ w.seen = workers[m].seen
  /\ w.mem = workers[m].mem
  /\ \/ w.pc = "record" /\ workers[m].pc \in Locked \ {"release"}
     \/ w.pc = "settle"
     \/ /\ w.pc = "fanout" /\ workers[m].pc \in Locked \ {"release"}
        /\ \A c \in Codes : workers[m].mem[c].st # "pending"
     \/ /\ w.pc = "photo" /\ workers[m].pc = "fanout" /\ w.idx \in Codes

LEMMA TurnStep ==
  ASSUME IInv, NEW m \in Messages, NEW w, Turn(m, w), Becomes(m, w),
         UNCHANGED <<task, jobs, stream, queue, lock, other, hub>>
  PROVE  IInv'
<1>1. Stands(m)
  BY Standing
<1>2. Steady(m, w)
  BY <1>1 DEF Turn, Stands, Steady, Locked, AtCode, WorkerType
<1>3. Fits(m, w)
  BY <1>1 DEF Turn, Stands, Fits, AtCode, Code
<1>4. w \in WorkerType
  BY DEF Turn
<1> QED BY <1>2, <1>3, <1>4, MoveStep

\* Steps that change neither the record nor what is known of the City.
LEMMA TurnActions ==
  ASSUME IInv, NEW m \in Messages,
         \/ RefuseUncertain(m) \/ PlanFails(m) \/ PlanReady(m) \/ Resume(m)
         \/ LookupFails(m) \/ NoAnswer(m) \/ PhotoDone(m) \/ Conclude(m)
         \/ PhotoSaveFails(m)
  PROVE  IInv'
<1> USE Standing, PlacesType
    DEF Stands, WorkerType, Outcomes, PCs, Locked, Turn, At
<1>1. ASSUME NEW out \in Outcomes, Outcome(m, out),
             UNCHANGED <<task, jobs, stream, queue, lock, other, hub>>,
             workers[m].pc \in Locked \ {"release"}
      PROVE  IInv'
  <2>1. Turn(m, [workers[m] EXCEPT !.pc = "record", !.out = out])
    BY <1>1
  <2> QED BY <1>1, <2>1, TurnStep DEF Outcome
<1>2. ASSUME NEW out \in Outcomes, FailPlan(m, out),
             UNCHANGED <<task, jobs, stream, queue, lock, other, hub>>,
             workers[m].pc \in Locked \ {"release"}
      PROVE  IInv'
  <2>1. Turn(m, [workers[m] EXCEPT !.pc = "record", !.out = out, !.idx = 1])
    BY <1>2
  <2> QED BY <1>2, <2>1, TurnStep DEF FailPlan
<1>3. CASE RefuseUncertain(m)
  BY <1>2, <1>3 DEF RefuseUncertain
<1>4. CASE PlanFails(m)
  BY <1>2, <1>4 DEF PlanFails
<1>5. CASE PlanReady(m)
  <2>1. Turn(m, [workers[m] EXCEPT !.pc = "fanout"])
    BY <1>5 DEF PlanReady, Uncertain
  <2> QED BY <1>5, <2>1, TurnStep DEF PlanReady, Goto
<1>6. CASE Resume(m)
  <2>1. Turn(m, [workers[m] EXCEPT !.pc = "photo"])
    BY <1>6 DEF Resume, Planned, Code
  <2> QED BY <1>6, <2>1, TurnStep DEF Resume, Goto
<1>7. CASE LookupFails(m)
  BY <1>1, <1>7 DEF LookupFails
<1>8. CASE NoAnswer(m)
  <2>1. Turn(m, [workers[m] EXCEPT !.pc = "record", !.reply = "none",
                                   !.out = "transient"])
    BY <1>8 DEF NoAnswer
  <2> QED BY <1>8, <2>1, TurnStep DEF NoAnswer
<1>9. CASE PhotoDone(m)
  <2>1. Turn(m, [workers[m] EXCEPT !.pc = "fanout", !.idx = @ + 1, !.mem = @])
    BY <1>9 DEF PhotoDone, AtCode, Code
  <2> QED BY <1>9, <2>1, TurnStep DEF PhotoDone, NextCode
<1>10. CASE Conclude(m)
  BY <1>1, <1>10 DEF Conclude
<1>11. CASE PhotoSaveFails(m)
  BY <1>1, <1>2, <1>11 DEF PhotoSaveFails
<1> QED BY <1>3, <1>4, <1>5, <1>6, <1>7, <1>8, <1>9, <1>10, <1>11

\* Invocation m saves its record t, which says nothing new of any ticket.
Save(m, w, t) ==
  /\ w \in WorkerType /\ t \in Tickets
  /\ w.left = workers[m].left /\ w.seen = workers[m].seen
  /\ w.mem = t /\ \A c \in Codes : t[c].st = workers[m].mem[c].st
  /\ \/ w.pc = "reread" /\ workers[m].pc = "record"
     \/ w.pc = "fanout" /\ workers[m].pc \in {"photo", "awaitPhoto"}
     \/ /\ w.pc = "sendPhoto" /\ workers[m].pc = "photo"
        /\ w.idx = workers[m].idx

LEMMA SaveTurn ==
  ASSUME IInv, NEW m \in Messages, NEW w, NEW t, Save(m, w, t),
         Becomes(m, w), Checkpoint(m, t),
         UNCHANGED <<task, stream, queue, other, hub>>
  PROVE  IInv'
<1>1. Stands(m)
  BY Standing
<1>2. Steady(m, w)
  BY <1>1 DEF Save, Stands, Steady, Locked, AtCode, WorkerType
<1>3. Fits(m, w)
  BY <1>1 DEF Save, Stands, Fits, AtCode, Code
<1>4. workers[m].pc \in Locked \ {"release"}
  BY DEF Save, Locked
<1> QED BY <1>2, <1>3, <1>4, SaveStep DEF Save

\* Saving a photo's state, or the executed result, tells of no new ticket.
LEMMA SaveActions ==
  ASSUME IInv, NEW m \in Messages,
         \/ ReconcilePhoto(m) \/ PhotoLinkFails(m) \/ SavePhotoIntent(m)
         \/ PhotoAccepted(m) \/ PhotoUnknown(m) \/ Record(m)
  PROVE  IInv'
<1>1. TypeOK /\ Stands(m)
  BY Standing DEF IInv
<1>2. workers[m].mem \in Tickets
  BY <1>1 DEF Stands, WorkerType
<1>3. ASSUME NEW t \in Tickets, NextCode(m, t), Checkpoint(m, t),
             workers[m].pc \in {"photo", "awaitPhoto"},
             \A c \in Codes : t[c].st = workers[m].mem[c].st,
             UNCHANGED <<task, stream, queue, other, hub>>
      PROVE  IInv'
  <2>1. Save(m, [workers[m] EXCEPT !.pc = "fanout", !.idx = @ + 1, !.mem = t], t)
    BY <1>1, <1>3, PlacesType
    DEF Save, Stands, WorkerType, PCs, Locked, AtCode, Code
  <2> QED BY <1>3, <2>1, SaveTurn DEF NextCode
<1>4. CASE ReconcilePhoto(m)
  <2>1. PICK img \in {"pending"} \union {i \in {"sent"} : hub[Code(m)].shown} :
          Checkpoint(m, WithPhoto(m, img)) /\ NextCode(m, WithPhoto(m, img))
    BY <1>4 DEF ReconcilePhoto
  <2>2. img \in ImageStates
    BY DEF ImageStates
  <2> QED BY <1>1, <1>3, <1>4, <2>1, <2>2, WithPhotoType DEF ReconcilePhoto, At
<1>5. CASE PhotoLinkFails(m)
  BY <1>2, <1>3, <1>5 DEF PhotoLinkFails, At
<1>6. CASE SavePhotoIntent(m)
  <2>1. "pending" \in ImageStates
    BY DEF ImageStates
  <2>2. Save(m, [workers[m] EXCEPT !.pc = "sendPhoto",
                                   !.mem = WithPhoto(m, "pending")],
             WithPhoto(m, "pending"))
    BY <1>1, <1>6, <2>1, WithPhotoType
    DEF SavePhotoIntent, At, Save, Stands, WorkerType, PCs, Locked
  <2> QED BY <1>6, <2>2, SaveTurn DEF SavePhotoIntent
<1>7. CASE PhotoAccepted(m)
  <2>1. "sent" \in ImageStates
    BY DEF ImageStates
  <2> QED BY <1>1, <1>3, <1>7, <2>1, WithPhotoType DEF PhotoAccepted, At
<1>8. CASE PhotoUnknown(m)
  BY <1>2, <1>3, <1>8 DEF PhotoUnknown, At
<1>9. CASE Record(m)
  <2> DEFINE t == MergeTickets(workers[m].mem, Executed(m))
  <2>1. t \in Tickets
    BY <1>1, <1>2, MergeType, ExecutedType
  <2>2. \A c \in Codes : t[c].st = workers[m].mem[c].st
    BY <1>1, <1>2, ExecutedType DEF MergeTickets, MergeTicket, NoTicket
  <2> HIDE DEF t
  <2>3. Save(m, [workers[m] EXCEPT !.pc = "reread", !.mem = t], t)
    BY <1>1, <1>9, <2>1, <2>2
    DEF Record, At, Save, Stands, WorkerType, PCs, Locked
  <2>4. /\ Becomes(m, [workers[m] EXCEPT !.pc = "reread", !.mem = t])
        /\ Checkpoint(m, t)
        /\ UNCHANGED <<task, stream, queue, other, hub>>
    BY <1>9 DEF Record, t
  <2> QED BY <2>3, <2>4, SaveTurn
<1> QED BY <1>4, <1>5, <1>6, <1>7, <1>8, <1>9

\* A step of m that also moves its message, or writes the task and job rows
\* something the lock row knows.
LEMMA WriteStep ==
  ASSUME IInv, NEW m \in Messages, NEW w \in WorkerType,
         Becomes(m, w), Steady(m, w),
         w.pc # "idle" => queue'[m].state = "queued",
         w.pc \in AtCode => w.idx \in Codes,
         task' \in TaskType, Below(task'.tickets, lock.tickets),
         jobs' \in [Jobs -> [status : JobStatus, tickets : Tickets]],
         \A j \in Jobs : Below(jobs'[j].tickets, lock.tickets),
         queue' \in [Messages -> MessageType],
         \A n \in Messages :
           /\ queue'[n].job = queue[n].job
           /\ queue'[n].state = "unsent" <=> queue[n].state = "unsent"
           /\ n # m => queue'[n].state = queue[n].state,
         UNCHANGED <<stream, lock, other, hub>>
  PROVE  IInv'
<1>1. /\ workers' \in [Messages -> WorkerType]
      /\ workers'[m] = w
      /\ \A n \in Messages \ {m} : workers'[n] = workers[n]
  BY BecomesType DEF IInv
<1>2. TypeOK'
  BY <1>1 DEF IInv, TypeOK
<1>3. Shape'
  <2> SUFFICES ASSUME NEW n \in Messages
               PROVE  (/\ queue[n].state # "unsent" => queue[n].job \in Jobs
                       /\ workers[n].pc # "idle" => queue[n].state = "queued"
                       /\ workers[n].pc \in AtCode => workers[n].idx \in Codes)'
    BY DEF Shape
  <2>1. Shape
    BY DEF IInv
  <2>2. CASE n = m
    BY <1>1, <2>1, <2>2 DEF Shape
  <2>3. CASE n # m
    BY <1>1, <2>1, <2>3 DEF Shape
  <2> QED BY <2>2, <2>3
<1>4. Quiet
  BY <1>1 DEF IInv, Quiet
<1> QED BY <1>2, <1>3, <1>4, QuietStep DEF IInv, IInvRest

\* A worker out of the lease's hold is steady.
Out(m, w) ==
  /\ w \in WorkerType
  /\ w.left <= MaxRuntime
  /\ w.seen \in {NoTickets, workers[m].seen} \union {jobs[j].tickets : j \in Jobs}
  /\ w.pc \notin Locked \/ (/\ w.pc = "release" /\ workers[m].pc \in Locked
                            /\ w.left = workers[m].left)

LEMMA OutSteady ==
  ASSUME IInv, NEW m \in Messages, NEW w, Out(m, w)
  PROVE  w \in WorkerType /\ Steady(m, w) /\ w.pc \notin AtCode
<1>1. /\ Stands(m) /\ KnownInv
  BY Standing DEF IInv
<1>2. Below(NoTickets, lock.tickets)
  BY DEF Below, NoTickets, NoTicket
<1>3. Below(w.seen, lock.tickets)
  BY <1>1, <1>2 DEF Out, KnownInv
<1> QED BY <1>1, <1>3 DEF Out, Steady, Stands, Locked, AtCode, WorkerType

\* Leaving, arriving and dying.
LEMMA OutActions ==
  ASSUME IInv, NEW m \in Messages,
         \/ Start(m) \/ Contended(m) \/ CommitLost(m) \/ Settle(m)
         \/ Outage(m) \/ Die(m) \/ Receive(m)
  PROVE  IInv'
<1>1. Stands(m) /\ Shape /\ TypeOK /\ KnownInv
  BY Standing DEF IInv
<1>2. MaxRuntime \in Nat
  BY LeaseOutlivesRun
<1>3. /\ task \in TaskType /\ Below(task.tickets, lock.tickets)
      /\ jobs \in [Jobs -> [status : JobStatus, tickets : Tickets]]
      /\ \A j \in Jobs : Below(jobs[j].tickets, lock.tickets)
      /\ queue \in [Messages -> MessageType]
  BY <1>1 DEF TypeOK, KnownInv
<1>4. ASSUME NEW w, Out(m, w), Becomes(m, w), workers[m].pc # "idle",
             UNCHANGED <<task, jobs, stream, queue, lock, other, hub>>
      PROVE  IInv'
  <2>1. Fits(m, w)
    BY <1>1, <1>4, OutSteady DEF Stands, Fits
  <2> QED BY <1>4, <2>1, OutSteady, MoveStep
<1>5. ASSUME NEW how \in {"ack", "throw"}, End(m, how),
             UNCHANGED <<task, jobs, stream, queue, lock, other, hub>>,
             workers[m].pc \in Locked
      PROVE  IInv'
  <2> DEFINE w == [IdleWorker EXCEPT !.pc = "release", !.left = workers[m].left,
                                     !.end = how]
  <2>1. Out(m, w)
    BY <1>1, <1>5, IdleType DEF Out, Stands, IdleWorker, WorkerType, PCs, Locked
  <2>2. workers[m].pc # "idle"
    BY <1>5 DEF Locked
  <2> QED BY <1>4, <1>5, <2>1, <2>2 DEF End
<1>6. Out(m, IdleWorker)
  BY <1>2, IdleType DEF Out, IdleWorker, Locked
<1>7. CASE Start(m)
  <2>1. JobOf(m) \in Jobs
    BY <1>1, <1>7 DEF Start, At, Stands
  <2>2. CASE Goto(m, "settle")
    <3>1. Out(m, [workers[m] EXCEPT !.pc = "settle"])
      BY <1>1 DEF Out, Stands, WorkerType, PCs, Locked
    <3> QED BY <1>4, <1>7, <2>2, <3>1 DEF Start, At, Goto
  <2>3. CASE Becomes(m, [workers[m] EXCEPT !.pc = "claim",
                                           !.seen = jobs[JobOf(m)].tickets])
    <3>1. jobs[JobOf(m)].tickets \in Tickets
      BY <1>3, <2>1
    <3>2. Out(m, [workers[m] EXCEPT !.pc = "claim",
                                    !.seen = jobs[JobOf(m)].tickets])
      BY <1>1, <2>1, <3>1 DEF Out, Stands, WorkerType, PCs, Locked
    <3> QED BY <1>4, <1>7, <2>3, <3>2 DEF Start, At
  <2> QED BY <1>7, <2>2, <2>3 DEF Start
<1>8. CASE CommitLost(m)
  BY <1>5, <1>8 DEF CommitLost, At, Locked
<1>9. CASE Outage(m)
  <2>1. CASE workers[m].pc \in {"start", "claim"}
             /\ Becomes(m, [workers[m] EXCEPT !.pc = "settle", !.end = "throw"])
    <3>1. Out(m, [workers[m] EXCEPT !.pc = "settle", !.end = "throw"])
      BY <1>1 DEF Out, Stands, WorkerType, PCs, Locked
    <3> QED BY <1>4, <1>9, <2>1, <3>1 DEF Outage
  <2>2. CASE workers[m].pc \in {"read", "record", "reread", "commit"}
             /\ End(m, "throw")
    BY <1>5, <1>9, <2>2 DEF Outage, Locked
  <2> QED BY <1>9, <2>1, <2>2 DEF Outage
<1>10. CASE Die(m)
  BY <1>4, <1>6, <1>10 DEF Die, At
<1>11. CASE Contended(m)
  <2>1. /\ lock.left \in Int /\ lock.left >= 0
    BY <1>1, <1>11 DEF Contended, LeaseFree, TypeOK
  <2>2. queue' \in [Messages -> MessageType]
    BY <1>3, <1>11, <2>1 DEF Contended, MessageType
  <2>3. \A n \in Messages : /\ queue'[n].job = queue[n].job
                            /\ queue'[n].state = queue[n].state
    BY <1>3, <1>11 DEF Contended, MessageType
  <2> QED
    BY <1>3, <1>6, <1>11, <2>2, <2>3, OutSteady, WriteStep
    DEF Contended, IdleWorker
<1>12. CASE Settle(m)
  <2>1. queue' \in [Messages -> MessageType]
    BY <1>3, <1>12 DEF Settle, MessageType
  <2>2. /\ queue[m].state = "queued"
        /\ \A n \in Messages : /\ queue'[n].job = queue[n].job
                               /\ n # m => queue'[n].state = queue[n].state
        /\ queue'[m].state \in {"queued", "acked"}
    BY <1>1, <1>3, <1>12 DEF Settle, At, Stands, MessageType
  <2>3. ASSUME NEW n \in Messages
        PROVE  queue'[n].state = "unsent" <=> queue[n].state = "unsent"
    <3>1. CASE n = m
      BY <2>2, <3>1
    <3>2. CASE n # m
      BY <2>2, <3>2
    <3> QED BY <3>1, <3>2
  <2>4. IdleWorker.pc = "idle"
    BY DEF IdleWorker
  <2>5. Becomes(m, IdleWorker) /\ UNCHANGED <<task, jobs, stream, lock, other, hub>>
    BY <1>12 DEF Settle
  <2>6. Steady(m, IdleWorker) /\ IdleWorker \in WorkerType
    BY <1>6, OutSteady
  <2>7. IdleWorker.pc \notin AtCode
    BY <2>4 DEF AtCode
  <2> QED BY <1>3, <2>1, <2>2, <2>3, <2>4, <2>5, <2>6, <2>7, WriteStep
<1>13. CASE Receive(m)
  <2> DEFINE w == [IdleWorker EXCEPT !.pc = "start", !.left = MaxRuntime,
                                     !.attempt = queue[m].receives + 1]
  <2>1. /\ queue[m].receives + 1 \in 0..MaxReceives
        /\ Visibility \in Nat
    BY <1>3, <1>13, BudgetAssumption, HiddenWhileRunning DEF Receive, MessageType
  <2>2. queue' \in [Messages -> MessageType]
    BY <1>3, <1>13, <2>1 DEF Receive, MessageType
  <2>3. /\ queue[m].state = "queued"
        /\ \A n \in Messages : /\ queue'[n].job = queue[n].job
                               /\ queue'[n].state = queue[n].state
    BY <1>3, <1>13 DEF Receive, Deliverable, MessageType
  <2>4. /\ w \in WorkerType
        /\ w.pc = "start" /\ w.left = MaxRuntime /\ w.seen = NoTickets
    <3>1. w \in WorkerType
      BY <1>2, <2>1, IdleType DEF WorkerType, PCs
    <3> QED BY <3>1 DEF IdleWorker
  <2>5. Becomes(m, w) /\ UNCHANGED <<task, jobs, stream, lock, other, hub>>
    BY <1>13 DEF Receive
  <2> HIDE DEF w
  <2>6. Out(m, w)
    BY <1>2, <2>4 DEF Out, Locked
  <2> QED BY <1>3, <2>2, <2>3, <2>4, <2>5, <2>6, OutSteady, WriteStep
<1> QED BY <1>7, <1>8, <1>9, <1>10, <1>11, <1>12, <1>13

\* Reading the task and writing the outcome: neither tells the task row or the
\* job row of a ticket the lock row does not have.
LEMMA TaskActions ==
  ASSUME IInv, NEW m \in Messages, ReadTask(m) \/ Reread(m) \/ Commit(m)
  PROVE  IInv'
<1>1. Stands(m) /\ TypeOK /\ KnownInv
  BY Standing DEF IInv
<1>2. /\ task \in TaskType /\ Below(task.tickets, lock.tickets)
      /\ jobs \in [Jobs -> [status : JobStatus, tickets : Tickets]]
      /\ \A j \in Jobs : Below(jobs[j].tickets, lock.tickets)
      /\ queue \in [Messages -> MessageType]
      /\ workers[m].mem \in Tickets /\ workers[m].seen \in Tickets
      /\ task.tickets \in Tickets
  BY <1>1 DEF TypeOK, KnownInv, Stands, WorkerType, TaskType
<1>3. ASSUME NEW how \in {"ack", "throw"}, End(m, how), workers[m].pc \in Locked,
             UNCHANGED <<stream, queue, lock, other, hub>>,
             task' \in TaskType, Below(task'.tickets, lock.tickets),
             jobs' \in [Jobs -> [status : JobStatus, tickets : Tickets]],
             \A j \in Jobs : Below(jobs'[j].tickets, lock.tickets)
      PROVE  IInv'
  <2> DEFINE w == [IdleWorker EXCEPT !.pc = "release", !.left = workers[m].left,
                                     !.end = how]
  <2>1. Out(m, w)
    BY <1>1, <1>3, IdleType DEF Out, Stands, IdleWorker, WorkerType, PCs, Locked
  <2>2. queue'[m].state = "queued"
    BY <1>1, <1>3 DEF Stands, Locked
  <2>3. Becomes(m, w)
    BY <1>3 DEF End
  <2> HIDE DEF w
  <2> QED BY <1>2, <1>3, <2>1, <2>2, <2>3, OutSteady, WriteStep
<1>4. ASSUME FinishJob(m, "abandoned"), UNCHANGED task
      PROVE  /\ task' \in TaskType /\ Below(task'.tickets, lock.tickets)
             /\ jobs' \in [Jobs -> [status : JobStatus, tickets : Tickets]]
             /\ \A j \in Jobs : Below(jobs'[j].tickets, lock.tickets)
  <2>1. jobs' = [jobs EXCEPT ![JobOf(m)].status = "abandoned"]
    BY <1>4 DEF FinishJob
  <2>2. \A j \in Jobs : [jobs[j] EXCEPT !.status = "abandoned"]
                          \in [status : JobStatus, tickets : Tickets]
    BY <1>2 DEF JobStatus
  <2>3. \A j \in Jobs :
          jobs'[j] \in {jobs[j], [jobs[j] EXCEPT !.status = "abandoned"]}
    BY <1>2, <2>1
  <2>4. jobs' \in [Jobs -> [status : JobStatus, tickets : Tickets]]
    BY <1>2, <2>1, <2>2, <2>3
  <2>5. \A j \in Jobs : jobs'[j].tickets = jobs[j].tickets
    BY <1>2, <2>3
  <2> QED BY <1>2, <1>4, <2>4, <2>5
<1>5. CASE ReadTask(m)
  <2>1. CASE Waiting(task)
    <3> DEFINE t == MergeTickets(MergeTickets(task.tickets, workers[m].seen),
                                 workers[m].mem)
               w == [workers[m] EXCEPT !.pc = "plan", !.seen = NoTickets, !.mem = t]
    <3>1. \A c \in Codes : workers[m].mem[c].st = lock.tickets[c].st
      BY <1>1, <1>5 DEF ReadTask, At, Stands, Locked
    <3>2. /\ Below(task.tickets, workers[m].mem)
          /\ Below(workers[m].seen, workers[m].mem)
      BY <1>1, <1>2, <3>1 DEF Below, Stands
    <3>3. t \in Tickets
      BY <1>2, MergeType
    <3>4. \A c \in Codes : t[c].st = lock.tickets[c].st
      <4> DEFINE s == MergeTickets(task.tickets, workers[m].seen)
      <4>1. s \in Tickets /\ Below(s, workers[m].mem)
        BY <1>2, <3>2, MergeType, MergeBelow
      <4> HIDE DEF s
      <4>2. \A c \in Codes : MergeTickets(s, workers[m].mem)[c].st
                              = workers[m].mem[c].st
        BY <1>2, <4>1, MergeBelow
      <4> QED BY <3>1, <4>2 DEF s
    <3> HIDE DEF t
    <3>5. w \in WorkerType
      BY <1>1, <3>3, NoTicketsType DEF Stands, WorkerType, PCs, Locked
    <3>6. Below(NoTickets, lock.tickets)
      BY DEF Below, NoTickets, NoTicket
    <3>7. Steady(m, w)
      BY <1>1, <1>5, <3>4, <3>6
      DEF ReadTask, At, Steady, Stands, WorkerType, Locked, AtCode
    <3>8. Fits(m, w)
      BY <1>1, <1>5 DEF ReadTask, At, Fits, Stands, WorkerType, AtCode
    <3>9. Becomes(m, w) /\ UNCHANGED <<task, jobs, stream, queue, lock, other, hub>>
      BY <1>5, <2>1 DEF ReadTask, t
    <3> HIDE DEF w
    <3> QED BY <3>5, <3>7, <3>8, <3>9, MoveStep
  <2>2. CASE ~Waiting(task)
    BY <1>3, <1>4, <1>5, <2>2 DEF ReadTask, At, Locked
  <2> QED BY <2>1, <2>2
<1>6. CASE Reread(m)
  <2>1. CASE Waiting(task)
    <3> DEFINE w == [workers[m] EXCEPT !.pc = "commit", !.prior = task.tickets]
    <3>1. w \in WorkerType
      BY <1>1, <1>2 DEF Stands, WorkerType, PCs, Locked
    <3>2. Steady(m, w)
      BY <1>1, <1>6 DEF Reread, At, Steady, Stands, WorkerType, Locked, AtCode
    <3>3. Fits(m, w)
      BY <1>1, <1>6 DEF Reread, At, Fits, Stands, WorkerType, AtCode
    <3>4. Becomes(m, w) /\ UNCHANGED <<task, jobs, stream, queue, lock, other, hub>>
      BY <1>6, <2>1 DEF Reread
    <3> HIDE DEF w
    <3> QED BY <3>1, <3>2, <3>3, <3>4, MoveStep
  <2>2. CASE ~Waiting(task)
    BY <1>3, <1>4, <1>6, <2>2 DEF Reread, At, Locked
  <2> QED BY <2>1, <2>2
<1>7. CASE Commit(m)
  <2> DEFINE e == Executed(m)
  <2>1. e \in Tickets
    BY <1>1, ExecutedType
  <2>2. Below(e, lock.tickets)
    <3>1. \A c \in Codes : workers[m].mem[c].st = lock.tickets[c].st
      BY <1>1, <1>7 DEF Commit, At, Stands, Locked
    <3> QED BY <1>1, <3>1, ExecutedType DEF Below, NoTicket
  <2> HIDE DEF e
  <2>3. PICK action \in {"submitted", "queued", "failed"},
             status \in {"completed", task.status},
             method \in {"311_filed", task.method},
             job \in {"complete", "retry", "failed"},
             how \in {"ack", "throw"} :
          /\ task' = [task EXCEPT !.tickets = MergeTickets(task.tickets, e),
                                  !.action = action, !.status = status,
                                  !.method = method]
          /\ jobs' = [jobs EXCEPT ![JobOf(m)] = [status |-> job, tickets |-> e]]
          /\ End(m, how)
    BY <1>7 DEF Commit, e
  <2>4. /\ MergeTickets(task.tickets, e) \in Tickets
        /\ Below(MergeTickets(task.tickets, e), lock.tickets)
    BY <1>1, <1>2, <2>1, <2>2, MergeType, MergeBelow DEF TypeOK
  <2>5. task' \in TaskType /\ Below(task'.tickets, lock.tickets)
    BY <1>2, <2>3, <2>4 DEF TaskType
  <2>6. [status |-> job, tickets |-> e] \in [status : JobStatus, tickets : Tickets]
    BY <2>1 DEF JobStatus
  <2>7. /\ jobs' \in [Jobs -> [status : JobStatus, tickets : Tickets]]
        /\ \A j \in Jobs : Below(jobs'[j].tickets, lock.tickets)
    BY <1>2, <2>2, <2>3, <2>6
  <2> QED BY <1>3, <1>7, <2>3, <2>5, <2>7 DEF Commit, At, Locked
<1> QED BY <1>5, <1>6, <1>7

\* Claiming and giving back: the new holder is the only one, because a lease
\* that has run out has outlived its holder.
LEMMA ClaimAction ==
  ASSUME IInv, NEW m \in Messages, Claim(m)
  PROVE  IInv'
<1>1. Stands(m) /\ TypeOK /\ Shape /\ LeaseInv /\ MemInv /\ KnownInv /\ CityInv
  BY Standing DEF IInv
<1>0. /\ lock \in [token : Messages \union {NoOne, Other},
                  left : Int, tickets : Tickets]
      /\ other.left \in Nat
  BY <1>1 DEF TypeOK
<1> DEFINE w == [workers[m] EXCEPT !.pc = "read", !.mem = lock.tickets]
<1>2. w \in WorkerType
  BY <1>1 DEF TypeOK, Stands, WorkerType, PCs, Locked
<1>3. /\ w.pc = "read" /\ w.mem = lock.tickets /\ w.seen = workers[m].seen
      /\ w.left = workers[m].left /\ w.idx = workers[m].idx
  BY <1>1 DEF Stands, WorkerType
<1>4. Becomes(m, w)
  BY DEF Claim
<1> HIDE DEF w
<1>5. /\ workers' \in [Messages -> WorkerType]
      /\ workers'[m] = w
      /\ \A n \in Messages \ {m} : workers'[n] = workers[n]
  BY <1>1, <1>2, <1>4, BecomesType
<1>6. /\ lock' \in [token : Messages \union {NoOne, Other},
                   left : Int, tickets : Tickets]
      /\ lock'.token = m /\ lock'.left = LeaseTime
      /\ lock'.tickets = lock.tickets
  <2>1. /\ lock' = [lock EXCEPT !.token = m, !.left = LeaseTime]
        /\ LeaseTime \in Int
    BY LeaseOutlivesRun DEF Claim
  <2> QED BY <1>0, <2>1
<1>7. /\ UNCHANGED <<task, jobs, stream, queue, other, hub>>
      /\ workers[m].pc = "claim" /\ LeaseFree
  BY DEF Claim, At
<1>8. \A n \in Messages : workers[n].pc \notin Locked
  BY <1>1, <1>7, NamesAssumption DEF LeaseInv, LeaseFree, TypeOK, WorkerType
<1>9. ~other.live
  <2> SUFFICES ASSUME other.live PROVE FALSE
    OBVIOUS
  <2>1. lock.token = Other /\ other.left <= lock.left
    BY <1>1 DEF LeaseInv
  <2>2. ~(lock.left < 0)
    BY <1>0, <2>1
  <2>3. Other # NoOne
    BY DEF Other, NoOne
  <2> QED BY <1>7, <2>1, <2>2, <2>3 DEF LeaseFree
<1>10. TypeOK'
  BY <1>1, <1>5, <1>6, <1>7 DEF TypeOK
<1>11. Shape'
  BY <1>1, <1>3, <1>5, <1>7 DEF Shape, AtCode
<1>12. LeaseInv'
  BY <1>1, <1>3, <1>5, <1>6, <1>7, <1>8, <1>9, LeaseOutlivesRun
  DEF LeaseInv, TypeOK, WorkerType
<1>13. MemInv'
  BY <1>1, <1>3, <1>5, <1>6, <1>8 DEF MemInv, AtCode
<1>14. KnownInv'
  BY <1>1, <1>3, <1>5, <1>6, <1>7 DEF KnownInv
<1>15. CityInv'
  <2>1. \A n \in Messages : workers'[n].pc \notin {"send", "await"}
    BY <1>3, <1>5, <1>8 DEF Locked
  <2> QED BY <1>1, <1>6, <1>7, <2>1 DEF CityInv
<1> QED BY <1>10, <1>11, <1>12, <1>13, <1>14, <1>15 DEF IInv

LEMMA Unheld ==
  ASSUME lock \in [token : Messages \union {NoOne, Other},
                   left : Int, tickets : Tickets],
         lock' = [lock EXCEPT !.token = NoOne, !.left = 0]
  PROVE  /\ lock' \in [token : Messages \union {NoOne, Other},
                       left : Int, tickets : Tickets]
         /\ lock'.token = NoOne /\ lock'.tickets = lock.tickets
<1>1. lock' = [token |-> NoOne, left |-> 0, tickets |-> lock.tickets]
  OBVIOUS
<1> QED BY <1>1

LEMMA ReleaseAction ==
  ASSUME IInv, NEW m \in Messages, Release(m)
  PROVE  IInv'
<1>1. Stands(m) /\ TypeOK /\ Shape /\ LeaseInv /\ MemInv /\ KnownInv /\ CityInv
  BY Standing DEF IInv
<1>0. /\ lock \in [token : Messages \union {NoOne, Other},
                  left : Int, tickets : Tickets]
      /\ other.left \in Nat
  BY <1>1 DEF TypeOK
<1> DEFINE w == [workers[m] EXCEPT !.pc = "settle"]
<1>2. w \in WorkerType
  BY <1>1 DEF Stands, WorkerType, PCs
<1>3. /\ w.pc = "settle" /\ w.seen = workers[m].seen /\ w.left = workers[m].left
  BY <1>1 DEF Stands, WorkerType
<1>4. Becomes(m, w)
  BY DEF Release, Goto
<1> HIDE DEF w
<1>5. /\ workers' \in [Messages -> WorkerType]
      /\ workers'[m] = w
      /\ \A n \in Messages \ {m} : workers'[n] = workers[n]
  BY <1>1, <1>2, <1>4, BecomesType
<1>6. /\ lock' \in [token : Messages \union {NoOne, Other},
                   left : Int, tickets : Tickets]
      /\ lock'.tickets = lock.tickets
  <2>1. \/ lock' = [lock EXCEPT !.token = NoOne, !.left = 0]
        \/ lock' = lock
    BY Zenon DEF Release
  <2> QED BY <1>0, <2>1, Unheld
<1>7. /\ UNCHANGED <<task, jobs, stream, queue, other, hub>>
      /\ workers[m].pc = "release" /\ lock.token = m
  BY <1>1 DEF Release, At, LeaseInv, Locked
<1>8. \A n \in Messages \ {m} : workers[n].pc \notin Locked
  BY <1>1, <1>7 DEF LeaseInv
<1>9. ~other.live
  BY <1>1, <1>7, NamesAssumption DEF LeaseInv
<1>10. TypeOK'
  BY <1>1, <1>5, <1>6, <1>7 DEF TypeOK
<1>11. Shape'
  BY <1>1, <1>3, <1>5, <1>7 DEF Shape, AtCode
<1>12. \A n \in Messages : workers'[n].pc \notin Locked
  BY <1>3, <1>5, <1>8 DEF Locked
<1>13. LeaseInv'
  BY <1>1, <1>3, <1>5, <1>7, <1>9, <1>12 DEF LeaseInv
<1>14. MemInv'
  BY <1>12 DEF MemInv
<1>15. KnownInv'
  BY <1>1, <1>3, <1>5, <1>6, <1>7 DEF KnownInv
<1>16. CityInv'
  <2>1. \A n \in Messages : workers'[n].pc \notin {"send", "await"}
    BY <1>12 DEF Locked
  <2> QED BY <1>1, <1>6, <1>7, <2>1 DEF CityInv
<1> QED BY <1>10, <1>11, <1>13, <1>14, <1>15, <1>16 DEF IInv

\* What the lease gives its holder: nobody else is at work, so nobody else has
\* a request with the City or a record in memory.
LEMMA Alone ==
  ASSUME IInv, NEW m \in Messages, workers[m].pc \in Locked
  PROVE  /\ \A n \in Messages \ {m} : workers[n].pc \notin Locked
         /\ ~other.live /\ lock.token = m
BY NamesAssumption DEF IInv, LeaseInv

\* The ticket of the code in work takes a new state in memory and on the lock
\* row, at once.
LEMMA TicketStep ==
  ASSUME IInv, NEW m \in Messages, NEW w \in WorkerType, NEW st \in TicketStates,
         workers[m].pc \in {"fanout", "await"}, Code(m) \in Codes,
         lock.tickets[Code(m)].st # "filed", st # "none",
         Becomes(m, w), Checkpoint(m, WithTicket(m, st)),
         UNCHANGED <<task, stream, queue, other, hub>>,
         w.left = workers[m].left, w.seen = workers[m].seen,
         w.idx = workers[m].idx, w.mem = WithTicket(m, st),
         w.reply = "none" \/ w.pc # "await",
         \/ /\ w.pc = "send" /\ st = "pending"
            /\ hub[Code(m)].open = 0 /\ hub[Code(m)].srs = 0
         \/ w.pc = "photo" /\ st = "filed"
         \/ /\ w.pc = "record" /\ st = "rejected"
            /\ hub[Code(m)].open = 0 /\ hub[Code(m)].srs = 0,
         \A c \in Codes \ {Code(m)} : workers[m].mem[c].st # "pending"
  PROVE  IInv'
<1>1. Stands(m) /\ TypeOK /\ Shape /\ LeaseInv /\ MemInv /\ KnownInv /\ CityInv
  BY Standing DEF IInv
<1>2. /\ \A n \in Messages \ {m} : workers[n].pc \notin Locked
      /\ ~other.live /\ lock.token = m
  BY Alone DEF Locked
<1> DEFINE t == WithTicket(m, st)
<1>3. /\ t \in Tickets
      /\ \A c \in Codes \ {Code(m)} : t[c].st = lock.tickets[c].st
      /\ t[Code(m)].st = st
  <2>1. /\ workers[m].mem \in Tickets
        /\ \A c \in Codes : workers[m].mem[c].st = lock.tickets[c].st
    BY <1>1 DEF Stands, WorkerType, Locked
  <2>2. [NoTicket EXCEPT !.st = st].st = st
    BY DEF NoTicket
  <2> QED BY <1>1, <2>1, <2>2, WithTicketType DEF WithTicket, Tickets
<1>4. \A c \in Codes \ {Code(m)} : t[c].st # "pending"
  BY <1>1, <1>3 DEF Stands, Locked
<1>5. Checkpoint(m, t) /\ w.mem = t
  OBVIOUS
<1> HIDE DEF t
<1>6. /\ workers' \in [Messages -> WorkerType]
      /\ workers'[m] = w
      /\ \A n \in Messages \ {m} : workers'[n] = workers[n]
  BY <1>1, BecomesType
<1>7. /\ lock' \in [token : Messages \union {NoOne, Other},
                   left : Int, tickets : Tickets]
      /\ lock'.token = lock.token /\ lock'.left = lock.left
      /\ lock'.tickets = t
      /\ jobs' \in [Jobs -> [status : JobStatus, tickets : Tickets]]
      /\ \A j \in Jobs : jobs'[j].tickets \in {jobs[j].tickets, t}
  BY <1>1, <1>3, <1>5, CheckpointType
<1>8. TypeOK'
  BY <1>1, <1>6, <1>7 DEF TypeOK
<1>9. Shape'
  BY <1>1, <1>6 DEF Shape, Code
<1>10. LeaseInv'
  BY <1>1, <1>2, <1>6, <1>7 DEF LeaseInv, Locked
<1>11. MemInv'
  <2> SUFFICES ASSUME w.pc \in AtCode \union {"fanout"}
               PROVE  \A c \in Codes : t[c].st = "pending"
                                         <=> w.pc \in {"send", "await"} /\ c = w.idx
    BY <1>2, <1>5, <1>6, <1>7 DEF MemInv, Creating
  <2> QED BY <1>3, <1>4 DEF AtCode, Code
<1>12. Below(lock.tickets, t) /\ Below(t, t)
  BY <1>3 DEF Below
<1>13. \A s : Below(s, lock.tickets) => Below(s, t)
  BY <1>12 DEF Below
<1>14. KnownInv'
  BY <1>1, <1>6, <1>7, <1>12, <1>13 DEF KnownInv
<1>15. CityInv'
  <2>1. ASSUME NEW c \in Codes
        PROVE  /\ hub[c].open + hub[c].srs <= 1
               /\ hub[c].open + hub[c].srs = 1 => t[c].st \in {"pending", "filed"}
    <3>1. CASE c # Code(m)
      BY <1>1, <1>3, <3>1 DEF CityInv
    <3>2. CASE c = Code(m)
      BY <1>1, <1>3, <3>2 DEF CityInv
    <3> QED BY <3>1, <3>2
  <2>2. \A n \in Messages \ {m} : workers'[n].pc \notin {"send", "await"}
    BY <1>2, <1>6 DEF Locked
  <2> QED BY <1>6, <1>7, <2>1, <2>2 DEF CityInv, Code
<1> QED BY <1>8, <1>9, <1>10, <1>11, <1>14, <1>15 DEF IInv

\* The three steps that change what the record says of a ticket.
LEMMA TicketActions ==
  ASSUME IInv, NEW m \in Messages, SaveIntent(m) \/ Created(m) \/ Rejected(m)
  PROVE  IInv'
<1>1. Stands(m) /\ TypeOK /\ MemInv /\ CityInv
  BY Standing DEF IInv
<1>2. /\ "pending" \in TicketStates /\ "filed" \in TicketStates
      /\ "rejected" \in TicketStates
  BY DEF TicketStates
<1>3. \A c \in Codes : hub[c].open \in Nat /\ hub[c].srs \in Nat
  BY <1>1 DEF TypeOK
<1>4. CASE SaveIntent(m)
  <2> DEFINE w == [workers[m] EXCEPT !.pc = "send",
                                     !.mem = WithTicket(m, "pending")]
  <2>1. workers[m].pc = "fanout" /\ Code(m) \in Codes
    BY <1>4 DEF SaveIntent, At, Planned
  <2>2. \A c \in Codes : /\ workers[m].mem[c].st = lock.tickets[c].st
                         /\ workers[m].mem[c].st # "pending"
    BY <1>1, <2>1 DEF Stands, Locked, AtCode
  <2>3. lock.tickets[Code(m)].st \notin {"pending", "filed"}
    BY <1>4, <2>1, <2>2 DEF SaveIntent, Filed
  <2>4. hub[Code(m)].open = 0 /\ hub[Code(m)].srs = 0
    BY <1>1, <1>3, <2>1, <2>3 DEF CityInv
  <2>5. w \in WorkerType
    BY <1>1, <1>2, WithTicketType DEF Stands, WorkerType, PCs, Locked
  <2>6. /\ w.pc = "send" /\ w.left = workers[m].left /\ w.seen = workers[m].seen
        /\ w.idx = workers[m].idx /\ w.mem = WithTicket(m, "pending")
    BY <1>1 DEF Stands, WorkerType
  <2>7. /\ Becomes(m, w) /\ Checkpoint(m, WithTicket(m, "pending"))
        /\ UNCHANGED <<task, stream, queue, other, hub>>
    BY <1>4 DEF SaveIntent
  <2> HIDE DEF w
  <2> QED BY <1>2, <2>1, <2>2, <2>3, <2>4, <2>5, <2>6, <2>7, TicketStep
<1>5. ASSUME workers[m].pc = "await"
      PROVE  /\ Code(m) \in Codes
             /\ lock.tickets[Code(m)].st = "pending"
             /\ \A c \in Codes \ {Code(m)} : workers[m].mem[c].st # "pending"
  BY <1>1, <1>5 DEF Stands, MemInv, Creating, AtCode, Locked, Code
<1>6. CASE Created(m)
  <2> DEFINE w == [workers[m] EXCEPT !.pc = "photo", !.reply = "none",
                                     !.mem = WithTicket(m, "filed")]
  <2>1. workers[m].pc = "await"
    BY <1>6 DEF Created, At
  <2>2. w \in WorkerType
    BY <1>1, <1>2, WithTicketType DEF Stands, WorkerType, PCs, Locked
  <2>3. /\ w.pc = "photo" /\ w.left = workers[m].left /\ w.seen = workers[m].seen
        /\ w.idx = workers[m].idx /\ w.mem = WithTicket(m, "filed")
    BY <1>1 DEF Stands, WorkerType
  <2>4. /\ Becomes(m, w) /\ Checkpoint(m, WithTicket(m, "filed"))
        /\ UNCHANGED <<task, stream, queue, other, hub>>
    BY <1>6 DEF Created
  <2> HIDE DEF w
  <2> QED BY <1>2, <1>5, <2>1, <2>2, <2>3, <2>4, TicketStep
<1>7. CASE Rejected(m)
  <2> DEFINE w == [workers[m] EXCEPT !.pc = "record", !.reply = "none",
                                     !.mem = WithTicket(m, "rejected"),
                                     !.out = "rejected"]
  <2>1. workers[m].pc = "await" /\ workers[m].reply = "rejected"
    BY <1>7 DEF Rejected, At
  <2>2. w \in WorkerType
    BY <1>1, <1>2, WithTicketType
    DEF Stands, WorkerType, PCs, Locked, Outcomes
  <2>3. /\ w.pc = "record" /\ w.left = workers[m].left /\ w.seen = workers[m].seen
        /\ w.idx = workers[m].idx /\ w.mem = WithTicket(m, "rejected")
    BY <1>1 DEF Stands, WorkerType
  <2>4. /\ Becomes(m, w) /\ Checkpoint(m, WithTicket(m, "rejected"))
        /\ UNCHANGED <<task, stream, queue, other, hub>>
    BY <1>7 DEF Rejected
  <2>5. hub[Code(m)].open = 0 /\ hub[Code(m)].srs = 0
    BY <1>1, <2>1 DEF CityInv, Code
  <2> HIDE DEF w
  <2> QED BY <1>2, <1>5, <2>1, <2>2, <2>3, <2>4, <2>5, TicketStep
<1> QED BY <1>4, <1>6, <1>7

-----------------------------------------------------------------------------
(* Requests on their way to the City, and its answers *)

HubType == [Codes -> [open : Nat, srs : Nat, photos : Nat, shown : BOOLEAN]]

\* Only the City and the state of a request change.
LEMMA HubStep ==
  ASSUME IInv, CityInv', workers' \in [Messages -> WorkerType], hub' \in HubType,
         UNCHANGED <<task, jobs, stream, queue, lock, other>>,
         \A n \in Messages :
           /\ workers'[n].left = workers[n].left
           /\ workers'[n].seen = workers[n].seen
           /\ workers'[n].mem = workers[n].mem
           /\ workers'[n].idx = workers[n].idx
           /\ \/ workers'[n].pc = workers[n].pc
              \/ workers[n].pc = "send" /\ workers'[n].pc = "await"
              \/ workers[n].pc = "sendPhoto" /\ workers'[n].pc = "awaitPhoto"
  PROVE  IInv'
<1>1. TypeOK'
  BY DEF IInv, TypeOK, HubType
<1>2. Shape'
  <2> SUFFICES ASSUME NEW n \in Messages
               PROVE  (/\ queue[n].state # "unsent" => queue[n].job \in Jobs
                       /\ workers[n].pc # "idle" => queue[n].state = "queued"
                       /\ workers[n].pc \in AtCode => workers[n].idx \in Codes)'
    BY DEF Shape
  <2> QED BY DEF IInv, Shape, AtCode
<1>3. LeaseInv'
  BY DEF IInv, LeaseInv, Locked
<1>4. MemInv'
  <2> SUFFICES ASSUME NEW n \in Messages
               PROVE  (workers[n].pc \in Locked \ {"release"} =>
                        /\ \A c \in Codes :
                             workers[n].mem[c].st = lock.tickets[c].st
                        /\ workers[n].pc \in AtCode \union {"fanout"} =>
                             \A c \in Codes :
                               workers[n].mem[c].st = "pending"
                                 <=> Creating(n) /\ c = workers[n].idx)'
    BY DEF MemInv
  <2> QED BY DEF IInv, MemInv, Creating, AtCode, Locked
<1>5. KnownInv'
  BY DEF IInv, KnownInv
<1> QED BY <1>1, <1>2, <1>3, <1>4, <1>5 DEF IInv

LEMMA SendCreateAction ==
  ASSUME IInv, NEW m \in Messages, SendCreate(m)
  PROVE  IInv'
<1>1. Stands(m) /\ TypeOK /\ MemInv /\ CityInv
  BY Standing DEF IInv
<1> DEFINE w == [workers[m] EXCEPT !.pc = "await", !.reply = "none"]
           c == Code(m)
<1>2. /\ w \in WorkerType
      /\ w.pc = "await" /\ w.reply = "none" /\ w.left = workers[m].left
      /\ w.seen = workers[m].seen /\ w.mem = workers[m].mem
      /\ w.idx = workers[m].idx
  BY <1>1 DEF Stands, WorkerType, PCs, Locked
<1>3. /\ Becomes(m, w) /\ workers[m].pc = "send"
      /\ UNCHANGED <<task, jobs, stream, queue, lock, other>>
      /\ hub' = [hub EXCEPT ![c].open = @ + 1]
  BY DEF SendCreate, At
<1> HIDE DEF w
<1>4. /\ workers' \in [Messages -> WorkerType]
      /\ workers'[m] = w
      /\ \A n \in Messages \ {m} : workers'[n] = workers[n]
  BY <1>1, <1>2, <1>3, BecomesType
<1>5. /\ \A n \in Messages \ {m} : workers[n].pc \notin Locked
      /\ c \in Codes
      /\ lock.tickets[c].st = "pending"
      /\ hub[c].open = 0 /\ hub[c].srs = 0
  BY <1>1, <1>3, Alone
  DEF Stands, MemInv, Creating, CityInv, AtCode, Locked, Code
<1>6. hub \in HubType
  BY <1>1 DEF TypeOK, HubType
<1>7. /\ hub' \in HubType
      /\ hub'[c].open = 1 /\ hub'[c].srs = 0
      /\ \A d \in Codes \ {c} : hub'[d] = hub[d]
  BY <1>3, <1>5, <1>6 DEF HubType
<1> HIDE DEF c
<1>8. CityInv'
  BY <1>1, <1>2, <1>3, <1>4, <1>5, <1>7 DEF CityInv, Locked
<1> QED BY <1>2, <1>3, <1>4, <1>7, <1>8, HubStep

LEMMA SendPhotoAction ==
  ASSUME IInv, NEW m \in Messages, SendPhoto(m)
  PROVE  IInv'
<1>1. Stands(m) /\ TypeOK /\ CityInv
  BY Standing DEF IInv
<1> DEFINE w == [workers[m] EXCEPT !.pc = "awaitPhoto"]
           c == Code(m)
<1>2. /\ w \in WorkerType
      /\ w.pc = "awaitPhoto" /\ w.left = workers[m].left
      /\ w.seen = workers[m].seen /\ w.mem = workers[m].mem
      /\ w.idx = workers[m].idx
  BY <1>1 DEF Stands, WorkerType, PCs, Locked
<1>3. /\ Becomes(m, w) /\ workers[m].pc = "sendPhoto"
      /\ UNCHANGED <<task, jobs, stream, queue, lock, other>>
      /\ hub' = [hub EXCEPT ![c].photos = @ + 1]
  BY DEF SendPhoto, At, Goto
<1> HIDE DEF w
<1>4. /\ workers' \in [Messages -> WorkerType]
      /\ workers'[m] = w
      /\ \A n \in Messages \ {m} : workers'[n] = workers[n]
  BY <1>1, <1>2, <1>3, BecomesType
<1>5. /\ \A n \in Messages \ {m} : workers[n].pc \notin Locked
      /\ c \in Codes
  BY <1>1, <1>3, Alone DEF Stands, AtCode, Locked
<1>6. hub \in HubType
  BY <1>1 DEF TypeOK, HubType
<1>7. /\ hub' \in HubType
      /\ \A d \in Codes : hub'[d].open = hub[d].open /\ hub'[d].srs = hub[d].srs
  BY <1>3, <1>5, <1>6 DEF HubType
<1> HIDE DEF c
<1>8. CityInv'
  BY <1>1, <1>2, <1>3, <1>4, <1>5, <1>7 DEF CityInv, Locked
<1> QED BY <1>2, <1>3, <1>4, <1>7, <1>8, HubStep

\* The City decides on an open request, and the worker hears of it.
LEMMA HubAnswersAction ==
  ASSUME IInv, NEW m \in Messages, HubAnswers(m)
  PROVE  IInv'
<1>1. Stands(m) /\ TypeOK /\ CityInv
  BY Standing DEF IInv
<1> DEFINE c == Code(m)
<1>2. /\ workers[m].pc = "await" /\ hub[c].open > 0
      /\ UNCHANGED <<task, jobs, stream, queue, lock, other>>
  BY DEF HubAnswers, At
<1>3. PICK reply \in {"created", "rejected"} :
        /\ Becomes(m, [workers[m] EXCEPT !.reply = reply])
        /\ hub' = IF reply = "created"
                    THEN [hub EXCEPT ![c].open = @ - 1, ![c].srs = @ + 1]
                    ELSE [hub EXCEPT ![c].open = @ - 1]
  BY Zenon DEF HubAnswers
<1> DEFINE w == [workers[m] EXCEPT !.reply = reply]
<1>4. /\ w \in WorkerType
      /\ w.pc = "await" /\ w.reply = reply /\ w.left = workers[m].left
      /\ w.seen = workers[m].seen /\ w.mem = workers[m].mem
      /\ w.idx = workers[m].idx
  BY <1>1, <1>2 DEF Stands, WorkerType
<1>5. Becomes(m, w)
  BY <1>3
<1> HIDE DEF w
<1>6. /\ workers' \in [Messages -> WorkerType]
      /\ workers'[m] = w
      /\ \A n \in Messages \ {m} : workers'[n] = workers[n]
  BY <1>1, <1>4, <1>5, BecomesType
<1>7. /\ \A n \in Messages \ {m} : workers[n].pc \notin Locked
      /\ c \in Codes
  BY <1>1, <1>2, Alone DEF Stands, AtCode, Locked
<1>8. hub \in HubType
  BY <1>1 DEF TypeOK, HubType
<1>9. /\ hub[c].open = 1 /\ hub[c].srs = 0
      /\ lock.tickets[c].st \in {"pending", "filed"}
  BY <1>1, <1>2, <1>7, <1>8 DEF CityInv, HubType
<1>10. /\ hub' \in HubType
       /\ hub'[c].open = 0 /\ hub'[c].srs = IF reply = "created" THEN 1 ELSE 0
       /\ \A d \in Codes \ {c} : hub'[d] = hub[d]
  <2>1. CASE reply = "created"
    BY <1>3, <1>7, <1>8, <1>9, <2>1 DEF HubType
  <2>2. CASE reply = "rejected"
    BY <1>3, <1>7, <1>8, <1>9, <2>2 DEF HubType
  <2> QED BY <2>1, <2>2
<1>11. c = workers[m].idx
  BY DEF Code
<1> HIDE DEF c
<1>12. CityInv'
  BY <1>1, <1>2, <1>4, <1>6, <1>7, <1>9, <1>10, <1>11 DEF CityInv, Locked
<1> QED BY <1>2, <1>4, <1>6, <1>10, <1>12, HubStep

\* The City decides when nobody listens any more.
LEMMA HubAloneAction ==
  ASSUME IInv, NEW c \in Codes, HubAlone(c)
  PROVE  IInv'
<1>1. TypeOK /\ CityInv /\ Shape
  BY DEF IInv
<1>2. hub \in HubType
  BY <1>1 DEF TypeOK, HubType
<1>3. /\ UNCHANGED <<task, jobs, stream, queue, workers, lock, other>>
      /\ workers \in [Messages -> WorkerType]
  BY <1>1 DEF HubAlone, TypeOK
<1>4. CASE hub[c].open > 0 /\ hub' = [hub EXCEPT ![c].open = @ - 1, ![c].srs = @ + 1]
  <2>1. /\ hub' \in HubType
        /\ hub'[c].open = 0 /\ hub'[c].srs = 1 /\ hub[c].open = 1
        /\ lock.tickets[c].st \in {"pending", "filed"}
        /\ \A d \in Codes \ {c} : hub'[d] = hub[d]
    BY <1>1, <1>2, <1>4 DEF HubType, CityInv
  <2>2. \A m \in Messages : workers[m].pc \in {"send", "await"} => workers[m].idx \in Codes
    BY <1>1 DEF Shape, AtCode
  <2>3. CityInv'
    BY <1>1, <1>3, <2>1, <2>2 DEF CityInv
  <2> QED BY <1>3, <2>1, <2>3, HubStep
<1>5. CASE hub[c].open > 0 /\ hub' = [hub EXCEPT ![c].open = @ - 1]
  <2>1. /\ hub' \in HubType
        /\ hub'[c].open = 0 /\ hub'[c].srs = 0 /\ hub[c].open = 1
        /\ \A d \in Codes \ {c} : hub'[d] = hub[d]
    BY <1>1, <1>2, <1>5 DEF HubType, CityInv
  <2>2. \A m \in Messages : workers[m].pc \in {"send", "await"} => workers[m].idx \in Codes
    BY <1>1 DEF Shape, AtCode
  <2>3. CityInv'
    BY <1>1, <1>3, <2>1, <2>2 DEF CityInv
  <2> QED BY <1>3, <2>1, <2>3, HubStep
<1>6. CASE hub' = [hub EXCEPT ![c].shown = TRUE]
  <2>1. /\ hub' \in HubType
        /\ \A d \in Codes : hub'[d].open = hub[d].open /\ hub'[d].srs = hub[d].srs
    BY <1>2, <1>6 DEF HubType
  <2>2. \A m \in Messages : workers[m].pc \in {"send", "await"} => workers[m].idx \in Codes
    BY <1>1 DEF Shape, AtCode
  <2>3. CityInv'
    BY <1>1, <1>3, <2>1, <2>2 DEF CityInv
  <2> QED BY <1>3, <2>1, <2>3, HubStep
<1> QED BY <1>4, <1>5, <1>6, Zenon DEF HubAlone

-----------------------------------------------------------------------------
(* Taps, task updates, dispatch and the queue *)

JobsType == [Jobs -> [status : JobStatus, tickets : Tickets]]

\* No invocation moves and the lock row stays; the rows say nothing new.
LEMMA RowStep ==
  ASSUME IInv, UNCHANGED <<workers, lock, other, hub>>,
         task' \in TaskType, task'.tickets = task.tickets,
         jobs' \in JobsType, \A j \in Jobs : jobs'[j].tickets = jobs[j].tickets,
         stream' \in [Jobs -> {"idle", "record", "checked", "sent"}],
         queue' \in [Messages -> MessageType],
         \A m \in Messages :
           /\ queue'[m].state # "unsent" => queue'[m].job \in Jobs
           /\ workers[m].pc # "idle" => queue'[m].state = "queued"
  PROVE  IInv'
<1>1. TypeOK'
  BY DEF IInv, TypeOK, JobsType
<1>2. Shape'
  <2> SUFFICES ASSUME NEW n \in Messages
               PROVE  (/\ queue[n].state # "unsent" => queue[n].job \in Jobs
                       /\ workers[n].pc # "idle" => queue[n].state = "queued"
                       /\ workers[n].pc \in AtCode => workers[n].idx \in Codes)'
    BY DEF Shape
  <2> QED BY DEF IInv, Shape
<1>3. Quiet
  BY DEF IInv, KnownInv, Quiet
<1> QED BY <1>1, <1>2, <1>3, QuietStep DEF IInv, IInvRest

LEMMA TaskRowActions ==
  ASSUME IInv,
         \/ \E j \in Jobs : Tap(j) \/ Requeue(j)
         \/ ResolveTask \/ ReopenTask
  PROVE  IInv'
<1>1. TypeOK /\ Shape
  BY DEF IInv
<1>2. /\ task \in TaskType /\ jobs \in JobsType
      /\ stream \in [Jobs -> {"idle", "record", "checked", "sent"}]
      /\ queue \in [Messages -> MessageType]
  BY <1>1 DEF TypeOK, JobsType
<1>3. \A m \in Messages :
        /\ queue[m].state # "unsent" => queue[m].job \in Jobs
        /\ workers[m].pc # "idle" => queue[m].state = "queued"
  BY <1>1 DEF Shape
<1>4. ASSUME NEW j \in Jobs, NewJob(j), UNCHANGED <<queue, workers, lock, other, hub>>,
             task' \in TaskType, task'.tickets = task.tickets
      PROVE  IInv'
  <2>1. [jobs[j] EXCEPT !.status = "pending"]
          \in [status : JobStatus, tickets : Tickets]
    BY <1>2 DEF JobsType, JobStatus
  <2>2. jobs' = [jobs EXCEPT ![j] = [jobs[j] EXCEPT !.status = "pending"]]
    BY <1>4 DEF NewJob
  <2>3. jobs' \in JobsType /\ \A i \in Jobs : jobs'[i].tickets = jobs[i].tickets
    BY <1>2, <2>1, <2>2 DEF JobsType
  <2>4. stream' \in [Jobs -> {"idle", "record", "checked", "sent"}]
    BY <1>2, <1>4 DEF NewJob
  <2> QED BY <1>2, <1>3, <1>4, <2>3, <2>4, RowStep
<1>5. ASSUME NEW j \in Jobs, Tap(j)
      PROVE  IInv'
  <2>1. /\ task' \in TaskType /\ task'.tickets = task.tickets
        /\ NewJob(j) /\ UNCHANGED <<queue, workers, lock, other, hub>>
    BY <1>2, <1>5 DEF Tap, TaskType
  <2> QED BY <1>4, <2>1
<1>6. ASSUME NEW j \in Jobs, Requeue(j)
      PROVE  IInv'
  <2>1. /\ task' \in TaskType /\ task'.tickets = task.tickets
        /\ NewJob(j) /\ UNCHANGED <<queue, workers, lock, other, hub>>
    BY <1>2, <1>6 DEF Requeue, TaskType
  <2> QED BY <1>4, <2>1
<1>7. CASE ResolveTask
  <2>1. /\ task' \in TaskType /\ task'.tickets = task.tickets
        /\ UNCHANGED <<jobs, stream, queue, workers, lock, other, hub>>
    BY <1>2, <1>7 DEF ResolveTask, TaskType
  <2> QED BY <1>2, <1>3, <2>1, RowStep
<1>8. CASE ReopenTask
  <2>1. /\ task' \in TaskType /\ task'.tickets = task.tickets
        /\ UNCHANGED <<jobs, stream, queue, workers, lock, other, hub>>
    BY <1>2, <1>8 DEF ReopenTask, TaskType
  <2> QED BY <1>2, <1>3, <2>1, RowStep
<1> QED BY <1>5, <1>6, <1>7, <1>8

LEMMA DeliveryActions ==
  ASSUME IInv,
         \/ \E j \in Jobs : \/ DispatchRead(j) \/ DispatchMark(j) \/ DispatchFail(j)
                            \/ \E m \in Messages : DispatchSend(j, m)
         \/ \E m \in Messages : DeadLetter(m)
  PROVE  IInv'
<1>1. TypeOK /\ Shape
  BY DEF IInv
<1>2. /\ task \in TaskType /\ jobs \in JobsType
      /\ stream \in [Jobs -> {"idle", "record", "checked", "sent"}]
      /\ queue \in [Messages -> MessageType]
  BY <1>1 DEF TypeOK, JobsType
<1>3. \A m \in Messages :
        /\ queue[m].state # "unsent" => queue[m].job \in Jobs
        /\ workers[m].pc # "idle" => queue[m].state = "queued"
  BY <1>1 DEF Shape
<1>4. ASSUME NEW j \in Jobs, DispatchRead(j) \/ DispatchFail(j)
      PROVE  IInv'
  <2>1. /\ stream' \in [Jobs -> {"idle", "record", "checked", "sent"}]
        /\ UNCHANGED <<task, jobs, queue, workers, lock, other, hub>>
    BY <1>2, <1>4 DEF DispatchRead, DispatchFail
  <2> QED BY <1>2, <1>3, <2>1, RowStep
<1>5. ASSUME NEW j \in Jobs, DispatchMark(j)
      PROVE  IInv'
  <2>1. /\ stream' \in [Jobs -> {"idle", "record", "checked", "sent"}]
        /\ UNCHANGED <<task, queue, workers, lock, other, hub>>
    BY <1>2, <1>5 DEF DispatchMark
  <2>2. [jobs[j] EXCEPT !.status = "dispatched"]
          \in [status : JobStatus, tickets : Tickets]
    BY <1>2 DEF JobsType, JobStatus
  <2>3. jobs' \in {jobs, [jobs EXCEPT ![j] = [jobs[j] EXCEPT !.status = "dispatched"]]}
    BY <1>5 DEF DispatchMark
  <2>4. jobs' \in JobsType /\ \A i \in Jobs : jobs'[i].tickets = jobs[i].tickets
    BY <1>2, <2>2, <2>3 DEF JobsType
  <2> QED BY <1>2, <1>3, <2>1, <2>4, RowStep
<1>6. ASSUME NEW j \in Jobs, NEW m \in Messages, DispatchSend(j, m)
      PROVE  IInv'
  <2> DEFINE q == [queue[m] EXCEPT !.state = "queued", !.job = j]
  <2>1. /\ stream' \in [Jobs -> {"idle", "record", "checked", "sent"}]
        /\ UNCHANGED <<task, jobs, workers, lock, other, hub>>
    BY <1>2, <1>6 DEF DispatchSend
  <2>2. q \in MessageType /\ q.state = "queued" /\ q.job = j
    BY <1>2 DEF MessageType
  <2>3. queue' = [queue EXCEPT ![m] = q]
    BY <1>6 DEF DispatchSend
  <2> HIDE DEF q
  <2>4. /\ queue' \in [Messages -> MessageType]
        /\ queue'[m] = q /\ \A n \in Messages \ {m} : queue'[n] = queue[n]
    BY <1>2, <2>2, <2>3
  <2> QED BY <1>2, <1>3, <2>1, <2>2, <2>4, RowStep
<1>7. ASSUME NEW m \in Messages, DeadLetter(m)
      PROVE  IInv'
  <2> DEFINE q == [queue[m] EXCEPT !.state = "dead"]
  <2>1. /\ UNCHANGED <<task, jobs, stream, workers, lock, other, hub>>
        /\ workers[m].pc = "idle" /\ queue[m].state = "queued"
    BY <1>7 DEF DeadLetter, Deliverable
  <2>2. q \in MessageType /\ q.job = queue[m].job
    BY <1>2 DEF MessageType
  <2>3. queue' = [queue EXCEPT ![m] = q]
    BY <1>7 DEF DeadLetter
  <2> HIDE DEF q
  <2>4. /\ queue' \in [Messages -> MessageType]
        /\ queue'[m] = q /\ \A n \in Messages \ {m} : queue'[n] = queue[n]
    BY <1>2, <2>2, <2>3
  <2> QED BY <1>2, <1>3, <2>1, <2>2, <2>4, RowStep
<1> QED BY <1>4, <1>5, <1>6, <1>7

-----------------------------------------------------------------------------
(* Other holders of the lease, and time *)

LEMMA OtherActions ==
  ASSUME IInv, OtherClaims \/ OtherEnds
  PROVE  IInv'
<1>1. TypeOK /\ Shape /\ LeaseInv /\ MemInv /\ KnownInv /\ CityInv
  BY DEF IInv
<1>2. /\ lock \in [token : Messages \union {NoOne, Other},
                   left : Int, tickets : Tickets]
      /\ workers \in [Messages -> WorkerType]
      /\ LeaseTime \in Nat /\ MaxRuntime \in Nat /\ MaxRuntime < LeaseTime
      /\ \A m \in Messages : workers[m].left \in Nat
  BY <1>1, LeaseOutlivesRun DEF TypeOK, WorkerType
<1>3. UNCHANGED <<task, jobs, stream, queue, workers, hub>>
  BY DEF OtherClaims, OtherEnds
<1>4. \A m \in Messages : workers[m].pc \notin Locked
  <2>1. CASE OtherClaims
    BY <1>1, <1>2, <2>1, NamesAssumption DEF LeaseInv, OtherClaims, LeaseFree
  <2>2. CASE OtherEnds
    BY <1>1, <2>2, NamesAssumption DEF LeaseInv, OtherEnds
  <2> QED BY <2>1, <2>2
<1>5. /\ lock' \in [token : Messages \union {NoOne, Other},
                    left : Int, tickets : Tickets]
      /\ lock'.tickets = lock.tickets
      /\ other' \in [live : BOOLEAN, left : Nat]
      /\ other'.live => lock'.token = Other /\ other'.left <= lock'.left
  <2>1. CASE OtherClaims
    <3>1. lock' = [token |-> Other, left |-> LeaseTime, tickets |-> lock.tickets]
      BY <1>2, <2>1 DEF OtherClaims
    <3>2. other' = [live |-> TRUE, left |-> MaxRuntime]
      BY <2>1 DEF OtherClaims
    <3> QED BY <1>2, <3>1, <3>2
  <2>2. CASE OtherEnds
    <3>1. other' = [live |-> FALSE, left |-> 0]
      BY <2>2 DEF OtherEnds
    <3>2. \/ lock' = [lock EXCEPT !.token = NoOne, !.left = 0]
          \/ lock' = lock
      BY <2>2, Zenon DEF OtherEnds
    <3> QED BY <1>2, <3>1, <3>2, Unheld
  <2> QED BY <2>1, <2>2
<1>6. TypeOK'
  BY <1>1, <1>3, <1>5 DEF TypeOK
<1>7. Shape'
  BY <1>1, <1>3 DEF Shape
<1>8. LeaseInv'
  BY <1>1, <1>3, <1>4, <1>5 DEF LeaseInv
<1>9. MemInv'
  BY <1>3, <1>4 DEF MemInv
<1>10. KnownInv'
  BY <1>1, <1>3, <1>5 DEF KnownInv
<1>11. CityInv'
  BY <1>1, <1>3, <1>5 DEF CityInv
<1> QED BY <1>6, <1>7, <1>8, <1>9, <1>10, <1>11 DEF IInv

\* Runtime and lease run down together, and a lease that has run out stays so.
LEMMA TickAction ==
  ASSUME IInv, Tick
  PROVE  IInv'
<1>1. TypeOK /\ Shape /\ LeaseInv /\ MemInv /\ KnownInv /\ CityInv
  BY DEF IInv
<1>2. /\ lock \in [token : Messages \union {NoOne, Other},
                   left : Int, tickets : Tickets]
      /\ workers \in [Messages -> WorkerType]
      /\ other \in [live : BOOLEAN, left : Nat]
      /\ queue \in [Messages -> MessageType]
  BY <1>1 DEF TypeOK
<1>3. UNCHANGED <<task, jobs, stream, hub>>
  BY DEF Tick
<1>4. /\ workers' \in [Messages -> WorkerType]
      /\ \A m \in Messages :
           /\ workers'[m].pc = workers[m].pc /\ workers'[m].idx = workers[m].idx
           /\ workers'[m].seen = workers[m].seen /\ workers'[m].mem = workers[m].mem
           /\ workers'[m].reply = workers[m].reply
           /\ workers[m].pc # "idle" =>
                workers[m].left > 0 /\ workers'[m].left = workers[m].left - 1
           /\ workers[m].pc = "idle" => workers'[m].left = workers[m].left
  <2>1. ASSUME NEW m \in Messages, workers[m].pc # "idle"
        PROVE  /\ workers[m].left > 0
               /\ workers'[m] = [workers[m] EXCEPT !.left = @ - 1]
    BY <1>2, <2>1 DEF Tick, Running, At
  <2>2. ASSUME NEW m \in Messages, workers[m].pc = "idle"
        PROVE  workers'[m] = workers[m]
    BY <1>2, <2>2 DEF Tick, Running, At
  <2>3. ASSUME NEW m \in Messages
        PROVE  /\ workers'[m] \in WorkerType
               /\ workers'[m].pc = workers[m].pc
               /\ workers'[m].idx = workers[m].idx
               /\ workers'[m].seen = workers[m].seen
               /\ workers'[m].mem = workers[m].mem
               /\ workers'[m].reply = workers[m].reply
               /\ workers[m].pc # "idle" => workers'[m].left = workers[m].left - 1
    <3>1. workers[m] \in WorkerType
      BY <1>2
    <3>2. CASE workers[m].pc = "idle"
      BY <2>2, <3>1, <3>2
    <3>3. CASE workers[m].pc # "idle"
      <4>1. workers[m].left \in Nat
        BY <3>1 DEF WorkerType
      <4>2. workers[m].left > 0
        BY <2>1, <3>3
      <4>3. workers[m].left - 1 \in Nat
        BY <4>1, <4>2
      <4>4. workers'[m] = [workers[m] EXCEPT !.left = workers[m].left - 1]
        BY <2>1, <3>3
      <4> QED BY <3>1, <4>3, <4>4 DEF WorkerType
    <3> QED BY <3>2, <3>3
  <2>4. workers' \in [Messages -> WorkerType]
    BY <2>3 DEF Tick
  <2> QED BY <2>1, <2>2, <2>3, <2>4
<1>5. /\ lock' \in [token : Messages \union {NoOne, Other},
                    left : Int, tickets : Tickets]
      /\ lock'.token = lock.token /\ lock'.tickets = lock.tickets
      /\ lock.token # NoOne /\ lock.left >= 0 => lock'.left = lock.left - 1
      /\ ~(lock.token # NoOne /\ lock.left >= 0) => lock'.left = lock.left
  <2>1. CASE lock.token # NoOne /\ lock.left >= 0
    <3>1. lock' = [lock EXCEPT !.left = @ - 1]
      BY <2>1 DEF Tick
    <3> QED BY <1>2, <2>1, <3>1
  <2>2. CASE ~(lock.token # NoOne /\ lock.left >= 0)
    <3>1. lock' = lock
      BY <2>2, Zenon DEF Tick
    <3> QED BY <1>2, <2>2, <3>1
  <2> QED BY <2>1, <2>2
<1>6. /\ other' \in [live : BOOLEAN, left : Nat]
      /\ other'.live = other.live
      /\ other.live => other.left > 0 /\ other'.left = other.left - 1
  <2>1. CASE other.live
    <3>1. other' = [other EXCEPT !.left = @ - 1] /\ other.left > 0
      BY <2>1 DEF Tick
    <3>2. other.left - 1 \in Nat
      BY <1>2, <3>1
    <3>3. /\ other' \in [live : BOOLEAN, left : Nat]
          /\ other'.live = other.live /\ other'.left = other.left - 1
      BY <1>2, <3>1, <3>2
    <3> QED BY <3>1, <3>3
  <2>2. CASE ~other.live
    <3>1. other' = other
      BY <2>2, Zenon DEF Tick
    <3> QED BY <1>2, <2>2, <3>1
  <2> QED BY <2>1, <2>2
<1>7. /\ queue' \in [Messages -> MessageType]
      /\ \A m \in Messages : /\ queue'[m].state = queue[m].state
                             /\ queue'[m].job = queue[m].job
  <2>1. ASSUME NEW m \in Messages
        PROVE  /\ queue'[m] \in MessageType
               /\ queue'[m].state = queue[m].state
               /\ queue'[m].job = queue[m].job
    <3>1. queue[m] \in MessageType
      BY <1>2
    <3>2. CASE queue[m].delay > 0
      <4>1. queue'[m] = [queue[m] EXCEPT !.delay = @ - 1]
        BY <3>2 DEF Tick
      <4> QED BY <3>1, <3>2, <4>1 DEF MessageType
    <3>3. CASE ~(queue[m].delay > 0)
      <4>1. queue'[m] = queue[m]
        BY <3>3 DEF Tick
      <4> QED BY <3>1, <4>1
    <3> QED BY <3>2, <3>3
  <2>2. queue' \in [Messages -> MessageType]
    BY <2>1 DEF Tick
  <2> QED BY <2>1, <2>2
<1>8. TypeOK'
  BY <1>1, <1>3, <1>4, <1>5, <1>6, <1>7 DEF TypeOK
<1>9. Shape'
  <2> SUFFICES ASSUME NEW n \in Messages
               PROVE  (/\ queue[n].state # "unsent" => queue[n].job \in Jobs
                       /\ workers[n].pc # "idle" => queue[n].state = "queued"
                       /\ workers[n].pc \in AtCode => workers[n].idx \in Codes)'
    BY DEF Shape
  <2> QED BY <1>1, <1>4, <1>7 DEF Shape
<1>10. LeaseInv'
  <2>1. ASSUME NEW m \in Messages
        PROVE  workers'[m].left <= MaxRuntime
    BY <1>1, <1>2, <1>4, LeaseOutlivesRun DEF LeaseInv, WorkerType
  <2>2. ASSUME NEW m \in Messages, workers'[m].pc \in Locked
        PROVE  lock'.token = m /\ workers'[m].left <= lock'.left
    <3>1. /\ lock.token = m /\ workers[m].left <= lock.left
          /\ workers[m].left > 0 /\ workers'[m].left = workers[m].left - 1
      BY <1>1, <1>4, <2>2 DEF LeaseInv, Locked
    <3>2. workers[m].left \in Nat /\ lock.left \in Int
      BY <1>2 DEF WorkerType
    <3>3. lock'.left = lock.left - 1
      BY <1>5, <3>1, <3>2, NamesAssumption
    <3> QED BY <1>5, <3>1, <3>2, <3>3
  <2>3. ASSUME other'.live
        PROVE  lock'.token = Other /\ other'.left <= lock'.left
    <3>1. /\ lock.token = Other /\ other.left <= lock.left
          /\ other.left > 0 /\ other'.left = other.left - 1
      BY <1>1, <1>6, <2>3 DEF LeaseInv
    <3>2. other.left \in Nat /\ lock.left \in Int /\ Other # NoOne
      BY <1>2 DEF Other, NoOne
    <3>3. lock'.left = lock.left - 1
      BY <1>5, <3>1, <3>2
    <3> QED BY <1>5, <3>1, <3>2, <3>3
  <2> QED BY <2>1, <2>2, <2>3 DEF LeaseInv
<1>11. MemInv'
  <2> SUFFICES ASSUME NEW n \in Messages
               PROVE  (workers[n].pc \in Locked \ {"release"} =>
                        /\ \A c \in Codes :
                             workers[n].mem[c].st = lock.tickets[c].st
                        /\ workers[n].pc \in AtCode \union {"fanout"} =>
                             \A c \in Codes :
                               workers[n].mem[c].st = "pending"
                                 <=> Creating(n) /\ c = workers[n].idx)'
    BY DEF MemInv
  <2> QED BY <1>1, <1>4, <1>5 DEF MemInv, Creating
<1>12. KnownInv'
  BY <1>1, <1>3, <1>4, <1>5 DEF KnownInv
<1>13. CityInv'
  BY <1>1, <1>3, <1>4, <1>5 DEF CityInv
<1> QED BY <1>8, <1>9, <1>10, <1>11, <1>12, <1>13 DEF IInv

-----------------------------------------------------------------------------
(* The invariant, and what follows from it *)

LEMMA InitIInv ==
  ASSUME Init
  PROVE  IInv
<1>1. /\ task \in TaskType /\ task.tickets = NoTickets
      /\ jobs = [j \in Jobs |-> [status |-> "absent", tickets |-> NoTickets]]
      /\ queue = [m \in Messages |-> [state |-> "unsent", job |-> NoJob,
                                      receives |-> 0, delay |-> 0]]
      /\ workers = [m \in Messages |-> IdleWorker]
      /\ lock = [token |-> NoOne, left |-> 0, tickets |-> NoTickets]
      /\ other = [live |-> FALSE, left |-> 0]
      /\ hub = [c \in Codes |->
                  [open |-> 0, srs |-> 0, photos |-> 0, shown |-> FALSE]]
      /\ stream = [j \in Jobs |-> "idle"]
  BY NoTicketsType DEF Init, TaskType
<1>2. jobs \in JobsType
  BY <1>1, NoTicketsType DEF JobsType, JobStatus
<1>3. queue \in [Messages -> MessageType]
  BY <1>1, BudgetAssumption DEF MessageType
<1>4. workers \in [Messages -> WorkerType]
  BY <1>1, IdleType
<1>5. TypeOK
  BY <1>1, <1>2, <1>3, <1>4, NoTicketsType DEF TypeOK, JobsType
<1>6. \A m \in Messages :
        /\ workers[m].pc = "idle" /\ workers[m].left = 0
        /\ workers[m].seen = NoTickets
        /\ queue[m].state = "unsent"
  BY <1>1 DEF IdleWorker
<1>7. Shape
  BY <1>6 DEF Shape, AtCode
<1>8. LeaseInv
  BY <1>1, <1>6, LeaseOutlivesRun DEF LeaseInv, Locked
<1>9. MemInv
  BY <1>6 DEF MemInv, Locked
<1>10. Below(NoTickets, lock.tickets)
  BY DEF Below, NoTickets, NoTicket
<1>11. KnownInv
  BY <1>1, <1>6, <1>10 DEF KnownInv
<1>12. CityInv
  BY <1>1, <1>6 DEF CityInv
<1> QED BY <1>5, <1>7, <1>8, <1>9, <1>11, <1>12 DEF IInv

LEMMA NextIInv ==
  ASSUME IInv, [Next]_vars
  PROVE  IInv'
<1>1. ASSUME NEW m \in Messages, WorkerStep(m) PROVE IInv'
  BY <1>1, OutActions, ClaimAction, TaskActions, TurnActions, TicketActions,
     SendCreateAction, SendPhotoAction, SaveActions, ReleaseAction
  DEF WorkerStep
<1>2. ASSUME NEW m \in Messages, WorkerFault(m) PROVE IInv'
  BY <1>2, TurnActions, OutActions DEF WorkerFault
<1>3. CASE UNCHANGED vars
  BY <1>3 DEF vars, IInv, TypeOK, Shape, LeaseInv, MemInv, KnownInv, CityInv,
              Below, Creating
<1>4. CASE Next
  BY <1>1, <1>2, <1>4, TaskRowActions, DeliveryActions, OutActions,
     HubAnswersAction, HubAloneAction, OtherActions, TickAction
  DEF Next
<1> QED BY <1>3, <1>4

\* The invariant holds in every state, for any number of jobs, messages,
\* deliveries and service codes and whatever may fail.
THEOREM Invariance == Spec => []IInv
<1> QED BY InitIInv, NextIInv, PTL DEF Spec

\* Every row, message and invocation keeps its type: no attempt beyond
\* MAX_FILING_ATTEMPTS, no runtime below zero, no position outside the plan.
THEOREM TypeCorrect == Spec => []TypeOK
<1>1. IInv => TypeOK
  BY DEF IInv
<1> QED BY <1>1, Invariance, PTL

\* At most one invocation is between its claim of the SF311_LOCK lease and its
\* finally block, and none while another kind of job holds the lease.
THEOREM LeaseIsExclusive == Spec => []LeaseExclusive
<1>1. IInv => LeaseExclusive
  BY NamesAssumption DEF IInv, LeaseInv, LeaseExclusive, Holders
<1> QED BY <1>1, Invariance, PTL

\* Per service code the City has at most one request of a filing that is, or
\* may still become, a ticket.
THEOREM NoDuplicateTicket == Spec => []AtMostOneTicket
<1>1. IInv => AtMostOneTicket
  BY DEF IInv, CityInv, AtMostOneTicket
<1> QED BY <1>1, Invariance, PTL

\* Whatever the City may have is on the SF311_LOCK row, as a ticket or as an
\* intent.
THEOREM NothingIsHidden == Spec => []CityWorkIsRecorded
<1>1. ASSUME IInv PROVE CityWorkIsRecorded
  <2>1. /\ \A c \in Codes :
             /\ hub[c].open + hub[c].srs <= 1
             /\ hub[c].open + hub[c].srs = 1 =>
                  lock.tickets[c].st \in {"pending", "filed"}
        /\ \A c \in Codes : hub[c].open \in Nat /\ hub[c].srs \in Nat
    BY <1>1 DEF IInv, CityInv, TypeOK
  <2> QED BY <2>1 DEF CityWorkIsRecorded
<1> QED BY <1>1, Invariance, PTL

-----------------------------------------------------------------------------
(* What a step may never do *)

Keeps == \A c \in Codes : lock.tickets[c].st = "filed"
                             => lock'.tickets[c].st = "filed"

LEMMA CheckpointKeeps ==
  ASSUME TypeOK, NEW m \in Messages, NEW t \in Tickets, Checkpoint(m, t),
         \A c \in Codes : lock.tickets[c].st = "filed" => t[c].st = "filed"
  PROVE  Keeps
BY CheckpointType DEF Keeps

LEMMA LockStep ==
  ASSUME IInv, [Next]_vars
  PROVE  Keeps
<1>1. TypeOK /\ MemInv
  BY DEF IInv
<1>2. lock \in [token : Messages \union {NoOne, Other},
                left : Int, tickets : Tickets]
  BY <1>1 DEF TypeOK
<1>3. ASSUME NEW m \in Messages, NEW t \in Tickets, Checkpoint(m, t),
             workers[m].pc \in Locked \ {"release"},
             \A c \in Codes : t[c].st = workers[m].mem[c].st
      PROVE  Keeps
  BY <1>1, <1>3, CheckpointKeeps DEF MemInv
<1>4. ASSUME NEW m \in Messages, NEW st \in TicketStates,
             Checkpoint(m, WithTicket(m, st)), workers[m].pc \in {"fanout", "await"},
             Code(m) \in Codes, lock.tickets[Code(m)].st # "filed"
      PROVE  Keeps
  <2>1. /\ workers[m].mem \in Tickets
        /\ \A c \in Codes : workers[m].mem[c].st = lock.tickets[c].st
    BY <1>1, <1>4 DEF TypeOK, WorkerType, MemInv, Locked
  <2>2. \A c \in Codes \ {Code(m)} :
          WithTicket(m, st)[c].st = lock.tickets[c].st
    BY <2>1 DEF WithTicket, Tickets
  <2> QED BY <1>1, <1>4, <2>2, WithTicketType, CheckpointKeeps
<1>5. ASSUME NEW m \in Messages, NEW img \in ImageStates,
             Checkpoint(m, WithPhoto(m, img)),
             workers[m].pc \in {"photo", "awaitPhoto"}
      PROVE  Keeps
  <2> DEFINE t == WithPhoto(m, img)
  <2>1. t \in Tickets /\ \A c \in Codes : t[c].st = workers[m].mem[c].st
    BY <1>1, WithPhotoType
  <2>2. Checkpoint(m, t) /\ workers[m].pc \in Locked \ {"release"}
    BY <1>5 DEF Locked
  <2> HIDE DEF t
  <2> QED BY <1>3, <2>1, <2>2
<1>6. ASSUME NEW m \in Messages, Checkpoint(m, workers[m].mem),
             workers[m].pc \in {"photo", "awaitPhoto"}
      PROVE  Keeps
  <2>1. workers[m].mem \in Tickets
    BY <1>1 DEF TypeOK, WorkerType
  <2> QED BY <1>3, <1>6, <2>1 DEF Locked
<1>7. /\ "pending" \in ImageStates /\ "sent" \in ImageStates
      /\ "pending" \in TicketStates /\ "filed" \in TicketStates
      /\ "rejected" \in TicketStates
  BY DEF ImageStates, TicketStates
<1>8. ASSUME lock'.tickets = lock.tickets PROVE Keeps
  BY <1>8 DEF Keeps
<1>9. ASSUME NEW m \in Messages, WorkerStep(m) PROVE Keeps
  <2>1. CASE \/ Start(m) \/ Contended(m) \/ ReadTask(m) \/ RefuseUncertain(m)
             \/ PlanFails(m) \/ PlanReady(m) \/ Resume(m) \/ LookupFails(m)
             \/ SendCreate(m) \/ NoAnswer(m) \/ PhotoDone(m) \/ SendPhoto(m)
             \/ Conclude(m) \/ Reread(m) \/ Commit(m) \/ CommitLost(m)
             \/ Settle(m)
    <3>1. lock' = lock
      BY <2>1 DEF Start, Contended, ReadTask, RefuseUncertain, PlanFails,
                  PlanReady, Resume, LookupFails, SendCreate, NoAnswer,
                  PhotoDone, SendPhoto, Conclude, Reread, Commit, CommitLost,
                  Settle
    <3> QED BY <1>8, <3>1
  <2>2. CASE Claim(m)
    BY <1>2, <1>8, <2>2 DEF Claim
  <2>3. CASE SaveIntent(m)
    <3>1. lock.tickets[Code(m)].st # "filed"
      BY <1>1, <2>3 DEF SaveIntent, At, Planned, Filed, MemInv, Locked
    <3> QED BY <1>4, <1>7, <2>3, <3>1 DEF SaveIntent, At, Planned
  <2>4. CASE Created(m) \/ Rejected(m)
    <3>1. workers[m].pc = "await"
      BY <2>4 DEF Created, Rejected, At
    <3>2. Code(m) \in Codes /\ lock.tickets[Code(m)].st = "pending"
      BY <1>1, <3>1 DEF IInv, Shape, MemInv, Creating, AtCode, Locked, Code
    <3> QED BY <1>4, <1>7, <2>4, <3>1, <3>2 DEF Created, Rejected
  <2>5. CASE ReconcilePhoto(m)
    BY <1>5, <1>7, <2>5 DEF ReconcilePhoto, At
  <2>6. CASE PhotoLinkFails(m) \/ PhotoUnknown(m)
    BY <1>6, <2>6 DEF PhotoLinkFails, PhotoUnknown, At
  <2>7. CASE SavePhotoIntent(m) \/ PhotoAccepted(m)
    BY <1>5, <1>7, <2>7 DEF SavePhotoIntent, PhotoAccepted, At
  <2>8. CASE Record(m)
    <3>1. workers[m].mem \in Tickets
      BY <1>1 DEF TypeOK, WorkerType
    <3>2. MergeTickets(workers[m].mem, Executed(m)) \in Tickets
      BY <1>1, <3>1, MergeType, ExecutedType
    <3>3. \A c \in Codes : MergeTickets(workers[m].mem, Executed(m))[c].st
                             = workers[m].mem[c].st
      BY <1>1, <3>1, ExecutedType DEF MergeTickets, MergeTicket, NoTicket
    <3>4. Checkpoint(m, MergeTickets(workers[m].mem, Executed(m)))
      BY <2>8 DEF Record
    <3>5. workers[m].pc \in Locked \ {"release"}
      BY <2>8 DEF Record, At, Locked
    <3> QED BY <1>3, <3>2, <3>3, <3>4, <3>5
  <2>9. CASE Release(m)
    <3>1. \/ lock' = [lock EXCEPT !.token = NoOne, !.left = 0]
          \/ lock' = lock
      BY <2>9, Zenon DEF Release
    <3> QED BY <1>2, <1>8, <3>1, Unheld
  <2> QED BY <1>9, <2>1, <2>2, <2>3, <2>4, <2>5, <2>6, <2>7, <2>8, <2>9
      DEF WorkerStep
<1>10. CASE OtherClaims
  BY <1>2, <1>8, <1>10 DEF OtherClaims
<1>11. CASE OtherEnds
  <2>1. \/ lock' = [lock EXCEPT !.token = NoOne, !.left = 0]
        \/ lock' = lock
    BY <1>11, Zenon DEF OtherEnds
  <2> QED BY <1>2, <1>8, <2>1, Unheld
<1>12. CASE Tick
  <2>1. \/ lock' = [lock EXCEPT !.left = @ - 1]
        \/ lock' = lock
    BY <1>12, Zenon DEF Tick
  <2> QED BY <1>2, <1>8, <2>1
<1>13. ASSUME NEW j \in Jobs,
              \/ Tap(j) \/ Requeue(j)
              \/ DispatchRead(j) \/ DispatchMark(j) \/ DispatchFail(j)
              \/ \E m \in Messages : DispatchSend(j, m)
       PROVE  Keeps
  <2>1. lock' = lock
    BY <1>13 DEF Tap, Requeue, DispatchRead, DispatchMark, DispatchFail,
                 DispatchSend
  <2> QED BY <1>8, <2>1
<1>14. ASSUME NEW m \in Messages,
              Receive(m) \/ DeadLetter(m) \/ WorkerFault(m) \/ HubAnswers(m)
       PROVE  Keeps
  <2>1. lock' = lock
    BY <1>14 DEF Receive, DeadLetter, WorkerFault, PhotoSaveFails, Outage, Die,
                 HubAnswers
  <2> QED BY <1>8, <2>1
<1>15. CASE \/ ResolveTask \/ ReopenTask
            \/ \E c \in Codes : HubAlone(c)
            \/ UNCHANGED vars
  <2>1. lock' = lock
    BY <1>15 DEF ResolveTask, ReopenTask, HubAlone, vars
  <2> QED BY <1>8, <2>1
<1> QED
  BY <1>9, <1>10, <1>11, <1>12, <1>13, <1>14, <1>15 DEF Next

\* No step takes an SR number off the SF311_LOCK row.
THEOREM TicketNumbersStay == Spec => LockKeepsTicketNumbers
<1>1. IInv /\ [Next]_vars =>
        \A c \in Codes : lock.tickets[c].st = "filed"
                           => lock'.tickets[c].st = "filed"
  BY LockStep DEF Keeps
<1> QED BY <1>1, Invariance, PTL DEF Spec, LockKeepsTicketNumbers

\* A task the site team resolved is completed, so nothing may write it again.
ResolvedInv == task.method = "site_team_resolved" => task.status = "completed"

LEMMA ResolvedStep ==
  ASSUME TypeOK, ResolvedInv, [Next]_vars
  PROVE  /\ ResolvedInv'
         /\ task.method = "site_team_resolved" => task' = task
<1>1. task \in TaskType
  BY DEF TypeOK
<1>2. ASSUME task' = task
      PROVE  /\ ResolvedInv'
             /\ task.method = "site_team_resolved" => task' = task
  BY <1>2 DEF ResolvedInv
<1>3. CASE \E j \in Jobs : Tap(j) \/ Requeue(j)
  BY <1>1, <1>3 DEF Tap, Requeue, TaskType, ResolvedInv
<1>4. CASE ResolveTask
  BY <1>1, <1>4 DEF ResolveTask, CanUpdate, TaskType, ResolvedInv
<1>5. CASE ReopenTask
  BY <1>1, <1>5 DEF ReopenTask, CanUpdate, TaskType, ResolvedInv
<1>6. ASSUME NEW m \in Messages, Commit(m)
      PROVE  /\ ResolvedInv'
             /\ task.method = "site_team_resolved" => task' = task
  <2>1. task.status = "in_progress"
    BY <1>6 DEF Commit, MayCommit
  <2>2. task'.method \in {task.method, "311_filed"}
    BY <1>1, <1>6 DEF Commit, TaskType
  <2> QED BY <2>1, <2>2 DEF ResolvedInv
<1>7. ASSUME \/ \E j \in Jobs :
                  \/ DispatchRead(j) \/ DispatchMark(j) \/ DispatchFail(j)
                  \/ \E m \in Messages : DispatchSend(j, m)
             \/ \E m \in Messages :
                  \/ Receive(m) \/ DeadLetter(m) \/ WorkerFault(m)
                  \/ HubAnswers(m)
             \/ OtherClaims \/ OtherEnds \/ Tick
             \/ \E c \in Codes : HubAlone(c)
             \/ UNCHANGED vars
      PROVE  task' = task
  BY <1>7 DEF DispatchRead, DispatchMark, DispatchFail, DispatchSend, Receive,
     DeadLetter, WorkerFault, PhotoSaveFails, Outage, Die, HubAnswers,
     OtherClaims, OtherEnds, Tick, HubAlone, vars
<1>8. ASSUME NEW m \in Messages, WorkerStep(m), ~Commit(m)
      PROVE  task' = task
  BY <1>8 DEF WorkerStep, Start, Claim, Contended, ReadTask, RefuseUncertain,
     PlanFails, PlanReady, Resume, LookupFails, SaveIntent, SendCreate, Created,
     Rejected, NoAnswer, PhotoDone, ReconcilePhoto, PhotoLinkFails,
     SavePhotoIntent, SendPhoto, PhotoAccepted, PhotoUnknown, Conclude, Record,
     Reread, CommitLost, Release, Settle
<1> QED BY <1>2, <1>3, <1>4, <1>5, <1>6, <1>7, <1>8 DEF Next

\* Once the site team has resolved a task, no filing in flight, retry or update
\* changes its row.
THEOREM ResolutionIsFinal == Spec => UserResolutionStands
<1>1. Init => ResolvedInv
  BY DEF Init, ResolvedInv
<1>2. TypeOK /\ ResolvedInv /\ [Next]_vars => ResolvedInv'
  BY ResolvedStep
<1>3. TypeOK /\ ResolvedInv /\ [Next]_vars
        => (task.method = "site_team_resolved" => task' = task)
  BY ResolvedStep
<1> QED BY <1>1, <1>2, <1>3, TypeCorrect, PTL DEF Spec, UserResolutionStands

-----------------------------------------------------------------------------
(* Sf311Filing implements OneRequest *)

\* One code's counters move and no other's.
OnlyAt(c, open, srs) ==
  /\ hub'[c].open = open /\ hub'[c].srs = srs
  /\ \A d \in Codes \ {c} : hub'[d] = hub[d]

\* How the City's counters read, before and after a step at one code.
LEMMA RequestedReads ==
  ASSUME NEW c \in Codes, NEW open, NEW srs, OnlyAt(c, open, srs)
  PROVE  /\ Requested = [d \in Codes |-> Requested[d]]
         /\ Requested[c] = IF hub[c].open + hub[c].srs > 1 THEN "several"
                           ELSE IF hub[c].srs > 0 THEN "accepted"
                           ELSE IF hub[c].open > 0 THEN "asked" ELSE "nothing"
         /\ Requested' = [d \in Codes |-> Requested'[d]]
         /\ Requested'[c] = IF open + srs > 1 THEN "several"
                            ELSE IF srs > 0 THEN "accepted"
                            ELSE IF open > 0 THEN "asked" ELSE "nothing"
         /\ \A d \in Codes \ {c} : Requested'[d] = Requested[d]
<1>1. /\ Requested = [d \in Codes |-> Requested[d]]
      /\ Requested' = [d \in Codes |-> Requested'[d]]
  BY DEF Requested
<1>2. Requested[c] = IF hub[c].open + hub[c].srs > 1 THEN "several"
                     ELSE IF hub[c].srs > 0 THEN "accepted"
                     ELSE IF hub[c].open > 0 THEN "asked" ELSE "nothing"
  BY DEF Requested
<1>3. Requested'[c] = IF open + srs > 1 THEN "several"
                      ELSE IF srs > 0 THEN "accepted"
                      ELSE IF open > 0 THEN "asked" ELSE "nothing"
  BY DEF Requested, OnlyAt
<1>4. \A d \in Codes \ {c} : Requested'[d] = Requested[d]
  BY DEF Requested, OnlyAt
<1> QED BY <1>1, <1>2, <1>3, <1>4

LEMMA RequestAsked ==
  ASSUME NEW c \in Codes, hub[c].open = 0, hub[c].srs = 0, OnlyAt(c, 1, 0)
  PROVE  Abstract!Ask(c)
<1>1. Requested[c] = "nothing" /\ Requested'[c] = "asked"
  BY RequestedReads
<1> QED BY <1>1, RequestedReads DEF Abstract!Ask

LEMMA RequestAccepted ==
  ASSUME NEW c \in Codes, hub[c].open = 1, hub[c].srs = 0, OnlyAt(c, 0, 1)
  PROVE  Abstract!Accept(c)
<1>1. Requested[c] = "asked" /\ Requested'[c] = "accepted"
  BY RequestedReads
<1> QED BY <1>1, RequestedReads DEF Abstract!Accept

LEMMA RequestRefused ==
  ASSUME NEW c \in Codes, hub[c].open = 1, hub[c].srs = 0, OnlyAt(c, 0, 0)
  PROVE  Abstract!Refuse(c)
<1>1. Requested[c] = "asked" /\ Requested'[c] = "nothing"
  BY RequestedReads
<1> QED BY <1>1, RequestedReads DEF Abstract!Refuse

LEMMA RequestsStand ==
  ASSUME \A c \in Codes : hub'[c].open = hub[c].open /\ hub'[c].srs = hub[c].srs
  PROVE  UNCHANGED Requested
BY DEF Requested

\* The City's own decision on an open request.
Decided(c) ==
  /\ hub[c].open > 0
  /\ \/ hub' = [hub EXCEPT ![c].open = @ - 1, ![c].srs = @ + 1]
     \/ hub' = [hub EXCEPT ![c].open = @ - 1]

LEMMA DecidedStep ==
  ASSUME IInv, NEW c \in Codes, Decided(c)
  PROVE  Abstract!Next
<1>0. hub \in HubType /\ hub[c].open + hub[c].srs <= 1
  BY DEF IInv, TypeOK, CityInv, HubType
<1>1. hub \in HubType /\ hub[c].open = 1 /\ hub[c].srs = 0
  BY <1>0 DEF HubType, Decided
<1>2. CASE hub' = [hub EXCEPT ![c].open = @ - 1, ![c].srs = @ + 1]
  <2>1. hub' \in HubType /\ OnlyAt(c, 0, 1)
    BY <1>1, <1>2 DEF HubType, OnlyAt
  <2> QED BY <1>1, <2>1, RequestAccepted DEF Abstract!Next
<1>3. CASE hub' = [hub EXCEPT ![c].open = @ - 1]
  <2>1. hub' \in HubType /\ OnlyAt(c, 0, 0)
    BY <1>1, <1>3 DEF HubType, OnlyAt
  <2> QED BY <1>1, <2>1, RequestRefused DEF Abstract!Next
<1> QED BY <1>2, <1>3 DEF Decided

\* A step the City notices is a request made or a decision on one.
LEMMA StepsOfOneRequest ==
  ASSUME IInv, [Next]_vars
  PROVE  Abstract!Next \/ UNCHANGED Requested
<1>0. hub \in HubType
  BY DEF IInv, TypeOK, HubType
<1>1. CASE UNCHANGED hub
  BY <1>1, RequestsStand
<1>2. ASSUME NEW m \in Messages, SendCreate(m) PROVE Abstract!Next
  <2> DEFINE c == Code(m)
  <2>1. workers[m].pc = "send" /\ hub' = [hub EXCEPT ![c].open = @ + 1]
    BY <1>2 DEF SendCreate, At
  <2>2. c \in Codes /\ hub[c].open = 0 /\ hub[c].srs = 0
    BY <2>1 DEF IInv, Shape, CityInv, AtCode, Code
  <2> HIDE DEF c
  <2>3. hub' \in HubType /\ OnlyAt(c, 1, 0)
    BY <1>0, <2>1, <2>2 DEF HubType, OnlyAt
  <2> QED BY <1>0, <2>2, <2>3, RequestAsked DEF Abstract!Next
<1>3. ASSUME NEW m \in Messages, SendPhoto(m) PROVE UNCHANGED Requested
  <2>1. \A c \in Codes : hub'[c].open = hub[c].open /\ hub'[c].srs = hub[c].srs
    BY <1>0, <1>3 DEF SendPhoto, HubType
  <2> QED BY <2>1, RequestsStand
<1>4. ASSUME NEW m \in Messages, HubAnswers(m) PROVE Abstract!Next
  <2>1. Decided(Code(m)) /\ workers[m].pc = "await"
    BY <1>4 DEF HubAnswers, Decided, At
  <2>2. Code(m) \in Codes
    BY <2>1 DEF IInv, Shape, AtCode, Code
  <2> QED BY <2>1, <2>2, DecidedStep
<1>5. ASSUME NEW c \in Codes, HubAlone(c)
      PROVE  Abstract!Next \/ UNCHANGED Requested
  <2>1. CASE Decided(c)
    BY <2>1, DecidedStep
  <2>2. CASE hub' = [hub EXCEPT ![c].shown = TRUE]
    <3>1. \A d \in Codes : hub'[d].open = hub[d].open /\ hub'[d].srs = hub[d].srs
      BY <1>0, <2>2 DEF HubType
    <3> QED BY <3>1, RequestsStand
  <2> QED BY <1>5, <2>1, <2>2 DEF HubAlone, Decided
<1>6. ASSUME \/ \E j \in Jobs :
                  \/ Tap(j) \/ Requeue(j)
                  \/ DispatchRead(j) \/ DispatchMark(j) \/ DispatchFail(j)
                  \/ \E m \in Messages : DispatchSend(j, m)
             \/ ResolveTask \/ ReopenTask
             \/ \E m \in Messages : Receive(m) \/ DeadLetter(m) \/ WorkerFault(m)
             \/ OtherClaims \/ OtherEnds \/ Tick \/ UNCHANGED vars
      PROVE  UNCHANGED hub
  BY <1>6 DEF Tap, Requeue, ResolveTask, ReopenTask, DispatchRead, DispatchMark,
     DispatchFail, DispatchSend, Receive, DeadLetter, WorkerFault,
     PhotoSaveFails, Outage, Die, OtherClaims, OtherEnds, Tick, vars
<1>7. ASSUME NEW m \in Messages, WorkerStep(m), ~SendCreate(m), ~SendPhoto(m)
      PROVE  UNCHANGED hub
  BY <1>7 DEF WorkerStep, Start, Claim, Contended, ReadTask, RefuseUncertain,
     PlanFails, PlanReady, Resume, LookupFails, SaveIntent, Created,
     Rejected, NoAnswer, PhotoDone, ReconcilePhoto, PhotoLinkFails,
     SavePhotoIntent, PhotoAccepted, PhotoUnknown, Conclude, Record,
     Reread, Commit, CommitLost, Release, Settle
<1> QED BY <1>1, <1>2, <1>3, <1>4, <1>5, <1>6, <1>7 DEF Next

\* Sf311Filing implements OneRequest: for each service the City is asked again
\* only after it refused, and never once there is a ticket.
THEOREM ImplementsOneRequest == Spec => OneRequestPerService
<1>1. Init => Abstract!Init
  BY DEF Init, Abstract!Init, Requested
<1>2. IInv /\ [Next]_vars => [Abstract!Next]_Requested
  BY StepsOfOneRequest
<1> QED BY <1>1, <1>2, Invariance, PTL
        DEF Spec, OneRequestPerService, Abstract!Spec
=============================================================================
