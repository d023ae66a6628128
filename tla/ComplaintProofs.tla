----------------------------- MODULE ComplaintProofs -----------------------------
(***************************************************************************)
(* What holds of Complaint for any number of files, calls, workers,        *)
(* attempts and deliveries, and whatever faults may happen.                *)
(***************************************************************************)
EXTENDS Complaint, TLAPS, FiniteSetTheorems

-----------------------------------------------------------------------------
(* The inductive invariant *)

\* What a call still has to do is part of what it read.
TodoIsRead(w) ==
  /\ w.pc \in {"retag", "erase"} => w.todo \subseteq w.arts
  /\ w.pc = "drop" => w.todo \subseteq w.arts \union {Header}

\* The objects a call no longer has on its list are gone, and stay gone.
MediaErased(w) ==
  /\ w.pc = "erase" => \A a \in w.arts \ w.todo : media[a] = "gone"
  /\ w.pc \in {"drop", "forget"} => \A a \in w.arts : media[a] = "gone"

\* Rows are only dropped of a complaint that is being deleted, or was.
DeletionBegun(w) ==
  w.pc \in {"list", "erase", "drop"} => header.status = "deleting" \/ deleted

\* A file is removed by a call of its own.
OneFile(w) == w.pc \in {"tombstone", "unlink"} => \E a \in Artifacts : w.arts = {a}

\* It is marked first, and nothing takes the mark away before the object is gone.
Removing(w) ==
  w.pc = "unlink" => \A a \in w.arts : rows[a].st = "deleting" \/ media[a] = "gone"

\* While a complaint may still be published, the objects a submission has retagged
\* stay so, unless a late registration got at them or the file is removed.
Retagged(w) ==
  w.pc = "retag" /\ MayBecomeAnalyzing /\ ~deleted =>
    \A a \in w.arts \ w.todo :
      \/ media[a] = "complaint"
      \/ a \in overtaken
      \/ media[a] = "gone" /\ rows[a].st # "registered"

CallIsSound(c) ==
  /\ OneFile(calls[c])
  /\ TodoIsRead(calls[c])
  /\ MediaErased(calls[c])
  /\ DeletionBegun(calls[c])
  /\ Removing(calls[c])
  /\ Retagged(calls[c])

CallInv == \A c \in Calls : CallIsSound(c)

IInv == TypeOK /\ ResultIsCurrent /\ CallInv /\ CountedFilesAreKept

-----------------------------------------------------------------------------
(* Types *)

\* The steps that touch one call leave every other call alone.
LEMMA CallTypes ==
  ASSUME NEW c \in Calls, calls \in [Calls -> CallType]
  PROVE  /\ NoCall \in CallType
         /\ Return(c) => calls' \in [Calls -> CallType]
         /\ \A pc \in {"send", "rollback", "put", "list", "unlink", "forget"} :
              Goto(c, pc) => calls' \in [Calls -> CallType]
         /\ \A pc \in {"tag", "put", "retag", "mark", "list", "erase", "tombstone",
                       "unlink"}, arts \in SUBSET Artifacts :
              Begin(c, pc, arts) => calls' \in [Calls -> CallType]
         /\ \A x \in Artifacts \union {Header} :
              Did(c, x) => calls' \in [Calls -> CallType]
         /\ StartDrop(c) => calls' \in [Calls -> CallType]
         /\ \A n \in Attempts : StartAnalysis(c, n) => calls' \in [Calls -> CallType]
<1>1. NoCall \in CallType
  BY BoundsAssumption DEF NoCall, CallType
<1>2. Return(c) => calls' \in [Calls -> CallType]
  BY <1>1 DEF Return
<1>3. ASSUME NEW pc \in {"send", "rollback", "put", "list", "unlink", "forget"},
             Goto(c, pc)
      PROVE  calls' \in [Calls -> CallType]
  <2>1. [calls[c] EXCEPT !.pc = pc] \in CallType
    BY DEF CallType
  <2>. QED  BY <1>3, <2>1 DEF Goto
<1>4. ASSUME NEW pc \in {"tag", "put", "retag", "mark", "list", "erase", "tombstone",
                         "unlink"},
             NEW arts \in SUBSET Artifacts, Begin(c, pc, arts)
      PROVE  calls' \in [Calls -> CallType]
  <2>a. /\ arts \in SUBSET (Artifacts \union {Header})
        /\ 0 \in 0..MaxAttempts
    BY BoundsAssumption
  <2>1. [pc |-> pc, arts |-> arts, todo |-> arts, attempt |-> 0] \in CallType
    BY <2>a DEF CallType
  <2>. QED  BY <1>4, <2>1 DEF Begin
<1>5. ASSUME NEW x \in Artifacts \union {Header}, Did(c, x)
      PROVE  calls' \in [Calls -> CallType]
  <2>1. [calls[c] EXCEPT !.todo = @ \ {x}] \in CallType
    BY DEF CallType
  <2>. QED  BY <1>5, <2>1 DEF Did
<1>6. ASSUME StartDrop(c)
      PROVE  calls' \in [Calls -> CallType]
  <2>1. [calls[c] EXCEPT !.pc = "drop", !.todo = calls[c].arts \union {Header}] \in CallType
    BY DEF CallType
  <2>. QED  BY <1>6, <2>1 DEF StartDrop
<1>7. ASSUME NEW n \in Attempts, StartAnalysis(c, n)
      PROVE  calls' \in [Calls -> CallType]
  <2>a. n \in 0..MaxAttempts /\ {} \in SUBSET Artifacts
        /\ {} \in SUBSET (Artifacts \union {Header})
    BY BoundsAssumption DEF Attempts
  <2>1. [pc |-> "send", arts |-> {}, todo |-> {}, attempt |-> n] \in CallType
    BY <2>a DEF CallType
  <2>. QED  BY <1>7, <2>1 DEF StartAnalysis
<1>. QED  BY <1>1, <1>2, <1>3, <1>4, <1>5, <1>6, <1>7

LEMMA HeaderTypes ==
  ASSUME header \in HeaderType
  PROVE  /\ NoHeader \in HeaderType
         /\ \A status \in {"draft", "deleting"} :
              [header EXCEPT !.status = status] \in HeaderType
         /\ \A n \in Attempts :
              /\ [header EXCEPT !.status = "analyzing", !.attempt = n] \in HeaderType
              /\ \A k \in Nat : [status |-> "analyzing", attempt |-> n, result |-> 0,
                                count |-> k] \in HeaderType
         /\ \A n \in 0..MaxAttempts, status \in {"ready", "failed"} :
              Conclude(n, status) => header' \in HeaderType
<1>. USE BoundsAssumption DEF HeaderType, Published
<1>1. NoHeader \in HeaderType
  BY DEF NoHeader
<1>2. \A status \in {"draft", "deleting"} :
        [header EXCEPT !.status = status] \in HeaderType
  OBVIOUS
<1>3. ASSUME NEW n \in Attempts
      PROVE  /\ [header EXCEPT !.status = "analyzing", !.attempt = n] \in HeaderType
             /\ \A k \in Nat : [status |-> "analyzing", attempt |-> n, result |-> 0,
                               count |-> k] \in HeaderType
  <2>1. n \in 0..MaxAttempts /\ 0 \in 0..MaxAttempts
    BY DEF Attempts
  <2>2. [header EXCEPT !.status = "analyzing", !.attempt = n] \in HeaderType
    BY <2>1
  <2>3. ASSUME NEW k \in Nat
        PROVE  [status |-> "analyzing", attempt |-> n, result |-> 0, count |-> k]
                 \in HeaderType
    BY <2>1
  <2>. QED  BY <2>2, <2>3
<1>4. ASSUME NEW n \in 0..MaxAttempts, NEW status \in {"ready", "failed"},
             Conclude(n, status)
      PROVE  header' \in HeaderType
  <2>1. CASE status = "ready"
    BY <1>4, <2>1 DEF Conclude
  <2>2. CASE status = "failed"
    BY <1>4, <2>2 DEF Conclude
  <2>. QED  BY <2>1, <2>2
<1>. QED  BY <1>1, <1>2, <1>3, <1>4

LEMMA QueueTypes ==
  ASSUME queue \in [Attempts -> MessageType], NEW n \in Attempts
  PROVE  /\ Enqueue(n) => queue' \in [Attempts -> MessageType]
         /\ \A st \in {"acked", "dead"} :
              [queue EXCEPT ![n].st = st] \in [Attempts -> MessageType]
         /\ queue[n].receives < MaxReceives =>
              /\ [queue EXCEPT ![n].receives = @ + 1] \in [Attempts -> MessageType]
              /\ queue[n].receives + 1 \in 1..MaxReceives
<1>. USE BoundsAssumption DEF MessageType
<1>1. [st |-> "queued", receives |-> 0] \in MessageType
  OBVIOUS
<1>2. \A st \in {"acked", "dead"} : [queue[n] EXCEPT !.st = st] \in MessageType
  OBVIOUS
<1>3. ASSUME queue[n].receives < MaxReceives
      PROVE  /\ queue[n].receives + 1 \in 1..MaxReceives
             /\ [queue[n] EXCEPT !.receives = @ + 1] \in MessageType
  <2>1. queue[n].receives \in 0..MaxReceives
    OBVIOUS
  <2>. HIDE DEF MessageType
  <2>2. queue[n].receives + 1 \in 1..MaxReceives /\ queue[n].receives + 1 \in 0..MaxReceives
    BY <1>3, <2>1
  <2>. QED  BY <2>2 DEF MessageType
<1>. QED  BY <1>1, <1>2, <1>3 DEF Enqueue

\* A worker that has received a message works on an attempt that exists.
LEMMA WorkerTypes ==
  ASSUME workers \in [Workers -> WorkerType], NEW w \in Workers
  PROVE  /\ Rest(w) => workers' \in [Workers -> WorkerType]
         /\ \A pc \in {"analyze", "save", "fail"} :
              [workers EXCEPT ![w].pc = pc] \in [Workers -> WorkerType]
         /\ \A n \in Attempts, r \in 1..MaxReceives :
              [workers EXCEPT ![w] = [pc |-> "read", attempt |-> n, receive |-> r]]
                \in [Workers -> WorkerType]
<1>. USE BoundsAssumption DEF WorkerType
<1>1. NoWork \in WorkerType
  BY DEF NoWork
<1>2. \A pc \in {"analyze", "save", "fail"} : [workers[w] EXCEPT !.pc = pc] \in WorkerType
  OBVIOUS
<1>3. \A n \in Attempts, r \in 1..MaxReceives :
        [pc |-> "read", attempt |-> n, receive |-> r] \in WorkerType
  BY DEF Attempts
<1>. QED  BY <1>1, <1>2, <1>3 DEF Rest

\* Every action keeps the types: the components it writes, one by one.
LEMMA TypeStep == TypeOK /\ [Next]_vars => TypeOK'
<1>. SUFFICES ASSUME TypeOK, [Next]_vars
              PROVE  TypeOK'
  OBVIOUS
<1>1. /\ header \in HeaderType /\ deleted \in BOOLEAN
      /\ rows \in [Artifacts -> RowType]
      /\ media \in [Artifacts -> MediaStates] /\ overtaken \subseteq Artifacts
      /\ calls \in [Calls -> CallType]
      /\ queue \in [Attempts -> MessageType]
      /\ workers \in [Workers -> WorkerType]
  BY DEF TypeOK
<1>2. \A c \in Calls : Return(c) => calls' \in [Calls -> CallType]
  BY <1>1, CallTypes
<1>3. \A c \in Calls, pc \in {"send", "rollback", "put", "list", "unlink", "forget"} :
        Goto(c, pc) => calls' \in [Calls -> CallType]
  BY <1>1, CallTypes
<1>4. \A c \in Calls, pc \in {"tag", "put", "retag", "mark", "list", "erase",
                             "tombstone", "unlink"}, arts \in SUBSET Artifacts :
        Begin(c, pc, arts) => calls' \in [Calls -> CallType]
  BY <1>1, CallTypes
<1>5. \A c \in Calls, x \in Artifacts \union {Header} :
        Did(c, x) => calls' \in [Calls -> CallType]
  BY <1>1, CallTypes
<1>6. \A c \in Calls, n \in Attempts :
        StartAnalysis(c, n) => calls' \in [Calls -> CallType]
  BY <1>1, CallTypes
<1>7. \A c \in Calls : /\ calls[c].arts \in SUBSET Artifacts
                      /\ calls[c].todo \in SUBSET (Artifacts \union {Header})
                      /\ calls[c].attempt \in 0..MaxAttempts
  BY <1>1 DEF CallType
<1>8. \A w \in Workers : workers[w].attempt \in 0..MaxAttempts
  BY <1>1 DEF WorkerType
<1>9. ASSUME NEW a \in Artifacts, Presign(a) \/ Upload(a)
      PROVE  TypeOK'
  <2>1. header' \in HeaderType
    BY <1>1, <1>9, HeaderTypes DEF Presign, Upload
  <2>2. media' \in [Artifacts -> MediaStates]
    BY <1>1, <1>9 DEF Presign, Upload, MediaStates
  <2>. QED  BY <1>1, <1>9, <2>1, <2>2 DEF TypeOK, Presign, Upload
<1>10. ASSUME NEW c \in Calls, NEW a \in Artifacts, Register(c, a) \/ Remove(c, a)
       PROVE  TypeOK'
  <2>1. calls' \in [Calls -> CallType]
    BY <1>4, <1>10 DEF Register, Remove
  <2>. QED  BY <1>1, <1>10, <2>1 DEF TypeOK, Register, Remove
<1>11. ASSUME NEW c \in Calls, TagPending(c)
       PROVE  TypeOK'
  <2>1. calls' \in [Calls -> CallType]
    BY <1>3, <1>11 DEF TagPending
  <2>2. media' \in [Artifacts -> MediaStates] /\ overtaken' \subseteq Artifacts
    BY <1>1, <1>7, <1>11 DEF TagPending, MediaStates, Overtakes
  <2>. QED  BY <1>1, <1>11, <2>1, <2>2 DEF TypeOK, TagPending
<1>12. ASSUME NEW c \in Calls, PutRow(c)
       PROVE  TypeOK'
  <2>1. calls' \in [Calls -> CallType]
    BY <1>2, <1>12 DEF PutRow
  <2>2. rows' \in [Artifacts -> RowType] /\ overtaken' \subseteq Artifacts
    BY <1>1, <1>7, <1>12 DEF PutRow, RowType, Overtakes
  <2>. QED  BY <1>1, <1>12, <2>1, <2>2 DEF TypeOK, PutRow
<1>13. ASSUME NEW c \in Calls, Create(c) \/ Delete(c) \/ List(c)
       PROVE  TypeOK'
  <2>1. Listed \in SUBSET Artifacts /\ {} \in SUBSET Artifacts
    BY DEF Listed
  <2>2. calls' \in [Calls -> CallType]
    BY <1>4, <1>13, <2>1 DEF Create, Delete, List
  <2>. QED  BY <1>1, <1>13, <2>2 DEF TypeOK, Create, Delete, List
<1>14. ASSUME NEW c \in Calls, Retag(c) \/ Erase(c)
       PROVE  TypeOK'
  <2>1. calls' \in [Calls -> CallType]
    BY <1>5, <1>7, <1>14 DEF Retag, Erase
  <2>2. media' \in [Artifacts -> MediaStates]
    BY <1>1, <1>14 DEF Retag, Erase, MediaStates
  <2>. QED  BY <1>1, <1>14, <2>1, <2>2 DEF TypeOK, Retag, Erase
<1>15. ASSUME NEW c \in Calls, RetagFails(c) \/ PublishCancelled(c) \/ CallFails(c)
       PROVE  TypeOK'
  <2>1. calls' \in [Calls -> CallType]
    BY <1>2, <1>15 DEF RetagFails, PublishCancelled, CallFails
  <2>. QED  BY <1>1, <1>15, <2>1 DEF TypeOK, RetagFails, PublishCancelled, CallFails
<1>16. ASSUME NEW c \in Calls, NEW n \in Attempts, Publish(c, n)
       PROVE  TypeOK'
  <2>1. calls' \in [Calls -> CallType]
    BY <1>6, <1>16 DEF Publish
  <2>2. Cardinality(calls[c].arts) \in Nat
    BY <1>7, FilesAssumption, FS_Subset, FS_CardinalityType
  <2>3. header' \in HeaderType
    BY <1>1, <1>16, <2>2, HeaderTypes DEF Publish
  <2>4. rows' \in [Artifacts -> RowType]
    BY <1>1, <1>16 DEF Publish, RowType
  <2>. QED  BY <1>1, <1>16, <2>1, <2>3, <2>4 DEF TypeOK, Publish
<1>17. ASSUME NEW c \in Calls, NEW n \in Attempts, Retry(c, n)
       PROVE  TypeOK'
  <2>1. calls' \in [Calls -> CallType]
    BY <1>6, <1>17 DEF Retry
  <2>2. header' \in HeaderType
    BY <1>1, <1>17, HeaderTypes DEF Retry
  <2>. QED  BY <1>1, <1>17, <2>1, <2>2 DEF TypeOK, Retry
<1>18. ASSUME NEW c \in Calls, Send(c) \/ SendFails(c)
       PROVE  TypeOK'
  <2>1. calls' \in [Calls -> CallType]
    BY <1>2, <1>3, <1>18 DEF Send, SendFails
  <2>2. queue' \in [Attempts -> MessageType]
    BY <1>1, <1>18, BoundsAssumption DEF Send, SendFails, Enqueue, MessageType
  <2>. QED  BY <1>1, <1>18, <2>1, <2>2 DEF TypeOK, Send, SendFails
<1>19. ASSUME NEW c \in Calls, Rollback(c) \/ Mark(c)
       PROVE  TypeOK'
  <2>1. calls' \in [Calls -> CallType]
    BY <1>2, <1>3, <1>19 DEF Rollback, Mark
  <2>2. header' \in HeaderType
    BY <1>1, <1>7, <1>19, HeaderTypes DEF Rollback, Mark
  <2>. QED  BY <1>1, <1>19, <2>1, <2>2 DEF TypeOK, Rollback, Mark
<1>20. ASSUME NEW c \in Calls, Erased(c) \/ Dropped(c),
              UNCHANGED <<header, deleted, overtaken, rows, media, queue, workers>>
       PROVE  TypeOK'
  <2>1. calls' \in [Calls -> CallType]
    BY <1>1, <1>2, <1>20, CallTypes DEF Erased, Dropped
  <2>. QED  BY <1>1, <1>20, <2>1 DEF TypeOK
<1>21. ASSUME NEW c \in Calls, Drop(c)
       PROVE  TypeOK'
  <2>1. PICK x \in calls[c].todo :
          /\ Did(c, x)
          /\ IF x = Header
               THEN /\ IF header.status = "deleting"
                         THEN header' = NoHeader /\ deleted' = TRUE
                         ELSE UNCHANGED <<header, deleted>>
                    /\ UNCHANGED rows
               ELSE rows' = [rows EXCEPT ![x] = NoRow] /\ UNCHANGED <<header, deleted>>
    BY <1>21 DEF Drop
  <2>2. calls' \in [Calls -> CallType]
    BY <1>5, <1>7, <2>1
  <2>3. header' \in HeaderType /\ deleted' \in BOOLEAN
    BY <1>1, <2>1, HeaderTypes
  <2>4. NoRow \in RowType
    BY DEF NoRow, RowType
  <2>5. rows' \in [Artifacts -> RowType]
    BY <1>1, <2>1, <2>4
  <2>6. UNCHANGED <<overtaken, media, queue, workers>>
    BY <1>21 DEF Drop
  <2>. QED  BY <1>1, <2>2, <2>3, <2>5, <2>6 DEF TypeOK
<1>22. ASSUME NEW c \in Calls, Tombstone(c) \/ Forget(c)
       PROVE  TypeOK'
  <2>1. calls' \in [Calls -> CallType]
    BY <1>2, <1>3, <1>22 DEF Tombstone, Forget
  <2>2. ASSUME Tombstone(c)
        PROVE  rows' \in [Artifacts -> RowType]
    <3>1. PICK a \in Artifacts : rows' = [rows EXCEPT ![a].st = "deleting"] \/ rows' = rows
      BY <1>7, <2>2 DEF Tombstone
    <3>. QED  BY <1>1, <3>1 DEF RowType
  <2>3. ASSUME Forget(c)
        PROVE  rows' \in [Artifacts -> RowType]
    <3>1. PICK a \in Artifacts : rows' = [rows EXCEPT ![a] = NoRow] \/ rows' = rows
      BY <1>7, <2>3 DEF Forget
    <3>2. NoRow \in RowType
      BY DEF NoRow, RowType
    <3>. QED  BY <1>1, <3>1, <3>2
  <2>. QED  BY <1>1, <1>22, <2>1, <2>2, <2>3 DEF TypeOK, Tombstone, Forget
<1>23. ASSUME NEW c \in Calls, Unlink(c)
       PROVE  TypeOK'
  <2>1. calls' \in [Calls -> CallType]
    BY <1>3, <1>23 DEF Unlink
  <2>2. media' \in [Artifacts -> MediaStates]
    BY <1>1, <1>23 DEF Unlink, MediaStates
  <2>. QED  BY <1>1, <1>23, <2>1, <2>2 DEF TypeOK, Unlink
<1>24. ASSUME NEW w \in Workers, NEW n \in Attempts, Receive(w, n)
       PROVE  TypeOK'
  <2>1. queue' \in [Attempts -> MessageType] /\ queue[n].receives + 1 \in 1..MaxReceives
    BY <1>1, <1>24, QueueTypes DEF Receive
  <2>2. workers' \in [Workers -> WorkerType]
    BY <1>1, <1>24, <2>1, WorkerTypes DEF Receive
  <2>. QED  BY <1>1, <1>24, <2>1, <2>2 DEF TypeOK, Receive
<1>25. \A w \in Workers : /\ Rest(w) => workers' \in [Workers -> WorkerType]
                         /\ \A pc \in {"analyze", "save", "fail"} :
                              workers' = [workers EXCEPT ![w].pc = pc]
                                => workers' \in [Workers -> WorkerType]
  <2>. TAKE w \in Workers
  <2>1. Rest(w) => workers' \in [Workers -> WorkerType]
    BY <1>1, WorkerTypes
  <2>2. \A pc \in {"analyze", "save", "fail"} :
          [workers EXCEPT ![w].pc = pc] \in [Workers -> WorkerType]
    BY <1>1, WorkerTypes
  <2>. QED  BY <2>1, <2>2
<1>26. \A w \in Workers, st \in {"acked", "dead"} :
         queue' = [queue EXCEPT ![On(w)].st = st]
           => queue' \in [Attempts -> MessageType]
  BY <1>1 DEF MessageType
<1>27. \A w \in Workers : Ack(w) \/ Throw(w) =>
         queue' \in [Attempts -> MessageType] /\ workers' \in [Workers -> WorkerType]
  BY <1>1, <1>25, <1>26 DEF Ack, Throw
<1>28. ASSUME NEW w \in Workers,
              Read(w) \/ Extract(w) \/ ExtractFails(w) \/ WorkerDies(w)
       PROVE  TypeOK'
  <2>1. queue' \in [Attempts -> MessageType] /\ workers' \in [Workers -> WorkerType]
    BY <1>1, <1>25, <1>27, <1>28 DEF Read, Extract, ExtractFails, WorkerDies
  <2>. QED  BY <1>1, <1>28, <2>1 DEF TypeOK, Read, Extract, ExtractFails, WorkerDies
<1>29. ASSUME NEW w \in Workers, Save(w) \/ Fail(w)
       PROVE  TypeOK'
  <2>1. queue' \in [Attempts -> MessageType] /\ workers' \in [Workers -> WorkerType]
    BY <1>1, <1>27, <1>29 DEF Save, Fail
  <2>2. header' \in HeaderType
    BY <1>1, <1>8, <1>29, HeaderTypes DEF Save, Fail, On
  <2>. QED  BY <1>1, <1>29, <2>1, <2>2 DEF TypeOK, Save, Fail
<1>30. CASE UNCHANGED vars
  BY <1>1, <1>30 DEF TypeOK, vars
<1>. QED
  BY <1>9, <1>10, <1>11, <1>12, <1>13, <1>14, <1>15, <1>16, <1>17, <1>18, <1>19, <1>20,
     <1>21, <1>22, <1>23, <1>24, <1>28, <1>29, <1>30
  DEF Next, CallStep, WorkerStep

-----------------------------------------------------------------------------
(* The header *)

\* All that may happen to the header in one step.
LEMMA HeaderSteps ==
  ASSUME TypeOK, [Next]_vars
  PROVE  \/ header' = header
         \/ /\ MayBecomeAnalyzing
            /\ header' = [header EXCEPT !.status = "draft"]
         \/ /\ MayBecomeAnalyzing
            /\ \E c \in Calls, n \in Attempts : Publish(c, n)
         \/ /\ header.status = "failed"
            /\ \E n \in Attempts :
                 header' = [header EXCEPT !.status = "analyzing", !.attempt = n]
         \/ /\ header.status = "analyzing"
            /\ header' = [header EXCEPT !.status = "failed"]
         \/ /\ header.status = "analyzing"
            /\ header' = [header EXCEPT !.status = "ready", !.result = header.attempt]
         \/ /\ header.status \in {"ready", "failed"}
            /\ header' = [header EXCEPT !.status = "deleting"]
         \/ /\ header.status = "deleting"
            /\ header' = NoHeader /\ deleted'
<1>1. header \in HeaderType
  BY DEF TypeOK
<1>2. \A n \in 0..MaxAttempts : Conclude(n, "failed") =>
        \/ header' = header
        \/ header.status = "analyzing" /\ header' = [header EXCEPT !.status = "failed"]
  BY <1>1 DEF Conclude, Awaits, HeaderType
<1>3. \A n \in 0..MaxAttempts : Conclude(n, "ready") =>
        \/ header' = header
        \/ /\ header.status = "analyzing"
           /\ header' = [header EXCEPT !.status = "ready", !.result = header.attempt]
  BY <1>1 DEF Conclude, Awaits, HeaderType
<1>4. /\ \A c \in Calls : calls[c].attempt \in 0..MaxAttempts
      /\ \A w \in Workers : On(w) \in 0..MaxAttempts
  BY DEF TypeOK, CallType, WorkerType, On
<1>5. /\ \A c \in Calls : Rollback(c) => Conclude(calls[c].attempt, "failed")
      /\ \A w \in Workers : Save(w) => Conclude(On(w), "ready")
      /\ \A w \in Workers : Fail(w) => Conclude(On(w), "failed") \/ header' = header
  BY DEF Rollback, Save, Fail
<1>6. \A c \in Calls, n \in Attempts : Publish(c, n) => MayBecomeAnalyzing
  BY DEF Publish, MayPublish
<1>7. ASSUME NEW a \in Artifacts, Presign(a) \/ Upload(a)
      PROVE  \/ header' = header
             \/ MayBecomeAnalyzing /\ header' = [header EXCEPT !.status = "draft"]
  BY <1>7 DEF Presign, Upload
<1>8. ASSUME NEW c \in Calls, NEW n \in Attempts, Retry(c, n)
      PROVE  /\ header.status = "failed"
             /\ header' = [header EXCEPT !.status = "analyzing", !.attempt = n]
  BY <1>8 DEF Retry
<1>9. ASSUME NEW c \in Calls, Mark(c)
      PROVE  \/ header' = header
             \/ /\ header.status \in {"ready", "failed"}
                /\ header' = [header EXCEPT !.status = "deleting"]
  BY <1>9 DEF Mark
<1>10. ASSUME NEW c \in Calls, Drop(c)
       PROVE  \/ header' = header
              \/ header.status = "deleting" /\ header' = NoHeader /\ deleted'
  BY <1>10 DEF Drop
<1>11. ASSUME NEW c \in Calls, CallStep(c)
       PROVE  \/ header' = header
              \/ Drop(c) \/ Mark(c) \/ Rollback(c)
              \/ \E n \in Attempts : Publish(c, n)
  BY <1>11
  DEF TagPending, PutRow, Retag, RetagFails, PublishCancelled, Send, SendFails, List,
      Erase, Tombstone, Unlink, Forget, CallStep
<1>12. ASSUME NEW w \in Workers, WorkerStep(w)
       PROVE  header' = header \/ Save(w) \/ Fail(w)
  BY <1>12 DEF WorkerStep, Read, Extract, ExtractFails
<1>13. /\ \A c \in Calls : Create(c) \/ Delete(c) \/ CallFails(c) => header' = header
       /\ \A c \in Calls, a \in Artifacts : Register(c, a) \/ Remove(c, a) => header' = header
       /\ \A w \in Workers : WorkerDies(w) => header' = header
       /\ \A w \in Workers, n \in Attempts : Receive(w, n) => header' = header
       /\ UNCHANGED vars => header' = header
  BY DEF Create, Delete, CallFails, Register, Remove, WorkerDies, Receive, vars
<1>14. ASSUME NEW c \in Calls, Rollback(c)
       PROVE  \/ header' = header
              \/ header.status = "analyzing" /\ header' = [header EXCEPT !.status = "failed"]
  BY <1>2, <1>4, <1>5, <1>14
<1>15. ASSUME NEW w \in Workers, Save(w) \/ Fail(w)
       PROVE  \/ header' = header
              \/ header.status = "analyzing" /\ header' = [header EXCEPT !.status = "failed"]
              \/ /\ header.status = "analyzing"
                 /\ header' = [header EXCEPT !.status = "ready", !.result = header.attempt]
  BY <1>2, <1>3, <1>4, <1>5, <1>15
<1>. QED
  BY <1>6, <1>7, <1>8, <1>9, <1>10, <1>11, <1>12, <1>13, <1>14, <1>15 DEF Next

\* Ready means ready, and a deletion that has begun is not undone.
LEMMA StatusSteps ==
  ASSUME TypeOK, [Next]_vars
  PROVE  /\ header.status = "ready" => header'.status \in {"ready", "deleting"}
         /\ header.status = "deleting" =>
              \/ header'.status = "deleting"
              \/ header'.status = "none" /\ deleted'
<1>1. header \in HeaderType
  BY DEF TypeOK
<1>2. ASSUME NEW status \in {"draft", "failed", "ready", "deleting"}
      PROVE  [header EXCEPT !.status = status].status = status
  BY <1>1 DEF HeaderType
<1>3. /\ NoHeader.status = "none"
      /\ [header EXCEPT !.status = "ready", !.result = header.attempt].status = "ready"
  BY <1>1 DEF HeaderType, NoHeader
<1>. QED  BY <1>2, <1>3, HeaderSteps DEF MayBecomeAnalyzing

LEMMA DeletedStays == [Next]_vars /\ deleted => deleted'
BY DEF Next, vars, Presign, Upload, Register, TagPending, PutRow, Create, Retag,
     RetagFails, Publish, PublishCancelled, Retry, Send, SendFails, Rollback, Delete, Mark,
     List, Erase, Drop, Tombstone, Unlink, Forget, Remove, CallStep, WorkerStep, Read,
     Extract, ExtractFails, Save, Fail, CallFails, WorkerDies, Receive

LEMMA ResultStep == TypeOK /\ ResultIsCurrent /\ [Next]_vars => ResultIsCurrent'
<1>. SUFFICES ASSUME TypeOK, ResultIsCurrent, [Next]_vars
              PROVE  ResultIsCurrent'
  OBVIOUS
<1>1. header \in HeaderType
  BY DEF TypeOK
<1>2. CASE \E c \in Calls, n \in Attempts : Publish(c, n)
  BY <1>2 DEF Publish, ResultIsCurrent
<1>3. CASE header' = header
  BY <1>3 DEF ResultIsCurrent
<1>4. CASE \E status \in {"draft", "failed", "deleting"} :
             header' = [header EXCEPT !.status = status]
  BY <1>1, <1>4 DEF ResultIsCurrent, HeaderType
<1>5. CASE \E n \in Attempts :
             header' = [header EXCEPT !.status = "analyzing", !.attempt = n]
  BY <1>1, <1>5 DEF ResultIsCurrent, HeaderType
<1>6. CASE header' = [header EXCEPT !.status = "ready", !.result = header.attempt]
  BY <1>1, <1>6 DEF ResultIsCurrent, HeaderType
<1>7. CASE header' = NoHeader
  BY <1>7 DEF ResultIsCurrent, NoHeader
<1>. QED  BY <1>2, <1>3, <1>4, <1>5, <1>6, <1>7, HeaderSteps

-----------------------------------------------------------------------------
(* Media and calls *)

LEMMA GoneStays ==
  ASSUME TypeOK, [Next]_vars, NEW a \in Artifacts, media[a] = "gone"
  PROVE  media'[a] = "gone"
<1>1. media \in [Artifacts -> MediaStates]
  BY DEF TypeOK
<1>2. ~Stored(a)
  BY DEF Stored
<1>3. /\ \A b \in Artifacts : Presign(b) \/ Upload(b) => media'[a] = "gone"
      /\ \A c \in Calls : TagPending(c) \/ Retag(c) => media'[a] = "gone"
      /\ \A c \in Calls : Erase(c) \/ Unlink(c) => media'[a] = "gone"
  BY <1>1, <1>2 DEF Presign, Upload, TagPending, Retag, Erase, Unlink
<1>. QED
  BY <1>3
  DEF Next, vars, Register, PutRow, Create, RetagFails, Publish, PublishCancelled, Retry,
      Send, SendFails, Rollback, Delete, Mark, List, Drop, Tombstone, Forget, Remove,
      CallStep, WorkerStep, Read, Extract, ExtractFails, Save, Fail, CallFails,
      WorkerDies, Receive

\* A row goes only after its object.
LEMMA RowGoes ==
  ASSUME TypeOK, CallInv, [Next]_vars,
         NEW a \in Artifacts, rows[a].st # "none", rows'[a].st = "none"
  PROVE  media[a] = "gone"
<1>1. rows \in [Artifacts -> RowType] /\ calls \in [Calls -> CallType]
  BY DEF TypeOK
<1>2. ASSUME NEW c \in Calls, Drop(c)
      PROVE  media[a] = "gone"
  <2>1. a \in calls[c].todo /\ a # Header
    BY <1>1, <1>2, NamesAssumption DEF Drop
  <2>. QED
    BY <1>2, <2>1 DEF Drop, At, CallInv, CallIsSound, TodoIsRead, MediaErased
<1>3. ASSUME NEW c \in Calls, Forget(c)
      PROVE  media[a] = "gone"
  <2>1. a \in calls[c].arts
    BY <1>1, <1>3 DEF Forget, CallType
  <2>. QED  BY <1>3, <2>1 DEF Forget, At, CallInv, CallIsSound, MediaErased
<1>4. ASSUME NEW c \in Calls, PutRow(c) \/ Tombstone(c) \/ \E n \in Attempts : Publish(c, n)
      PROVE  FALSE
  BY <1>1, <1>4 DEF PutRow, Tombstone, Publish, RowType
<1>. QED
  BY <1>2, <1>3, <1>4
  DEF Next, vars, Presign, Upload, Register, TagPending, Create, Retag, RetagFails,
      PublishCancelled, Retry, Send, SendFails, Rollback, Delete, Mark, List, Erase,
      Unlink, Remove, CallStep, WorkerStep, Read, Extract, ExtractFails, Save, Fail,
      CallFails, WorkerDies, Receive

LEMMA OvertakenStays ==
  ASSUME TypeOK, [Next]_vars
  PROVE  overtaken \subseteq overtaken'
BY DEF Next, vars, Overtakes, Presign, Upload, Register, TagPending, PutRow, Create, Retag,
     RetagFails, Publish, PublishCancelled, Retry, Send, SendFails, Rollback, Delete, Mark,
     List, Erase, Erased, Dropped, Drop, Tombstone, Unlink, Forget, Remove, CallStep,
     WorkerStep, Read, Extract, ExtractFails, Save, Fail, CallFails, WorkerDies, Receive

\* A row appears without its object only by a late registration.
LEMMA RowAppears ==
  ASSUME TypeOK, CallInv, [Next]_vars, NEW a \in Artifacts, media[a] = "gone",
         rows[a].st # "registered", rows'[a].st = "registered"
  PROVE  a \in overtaken'
<1>1. rows \in [Artifacts -> RowType] /\ calls \in [Calls -> CallType]
  BY DEF TypeOK
<1>2. ASSUME NEW c \in Calls, PutRow(c)
      PROVE  a \in overtaken'
  BY <1>1, <1>2 DEF PutRow, Overtakes, RowType
<1>3. ASSUME NEW c \in Calls,
             Tombstone(c) \/ Forget(c) \/ Drop(c) \/ \E n \in Attempts : Publish(c, n)
      PROVE  FALSE
  <2>1. CASE Drop(c) \/ Forget(c)
    BY <1>1, <2>1 DEF Drop, Forget, NoRow, RowType
  <2>2. CASE Tombstone(c)
    BY <1>1, <2>2 DEF Tombstone, RowType
  <2>3. CASE \E n \in Attempts : Publish(c, n)
    BY <1>1, <2>3 DEF Publish, RowType
  <2>. QED  BY <1>3, <2>1, <2>2, <2>3
<1>. QED
  BY <1>2, <1>3
  DEF Next, vars, Presign, Upload, Register, TagPending, Create, Retag, RetagFails,
      PublishCancelled, Retry, Send, SendFails, Rollback, Delete, Mark, List, Erase,
      Erased, Dropped, Unlink, Remove, CallStep, WorkerStep, Read, Extract, ExtractFails,
      Save, Fail, CallFails, WorkerDies, Receive

\* A mark stays until the row goes.
LEMMA MarkStays ==
  ASSUME TypeOK, [Next]_vars, NEW a \in Artifacts, rows[a].st = "deleting"
  PROVE  rows'[a].st \in {"deleting", "none"}
<1>1. rows \in [Artifacts -> RowType]
  BY DEF TypeOK
<1>2. ASSUME NEW c \in Calls, PutRow(c) \/ Tombstone(c) \/ \E n \in Attempts : Publish(c, n)
      PROVE  rows'[a].st = "deleting"
  BY <1>1, <1>2 DEF PutRow, Tombstone, Publish, RowType
<1>3. ASSUME NEW c \in Calls, Drop(c) \/ Forget(c)
      PROVE  rows'[a].st \in {"deleting", "none"}
  BY <1>1, <1>3 DEF Drop, Forget, NoRow, RowType
<1>. QED
  BY <1>2, <1>3
  DEF Next, vars, Presign, Upload, Register, TagPending, Create, Retag, RetagFails,
      PublishCancelled, Retry, Send, SendFails, Rollback, Delete, Mark, List, Erase,
      Erased, Dropped, Unlink, Remove, CallStep, WorkerStep, Read, Extract, ExtractFails,
      Save, Fail, CallFails, WorkerDies, Receive

\* What may befall an object tagged for a year.
LEMMA ObjectStays ==
  ASSUME TypeOK, CallInv, [Next]_vars, header.status # "deleting", ~deleted,
         NEW a \in Artifacts, media[a] = "complaint"
  PROVE  \/ media'[a] = "complaint"
         \/ a \in overtaken'
         \/ media'[a] = "gone" /\ rows[a].st = "deleting" /\ rows'[a].st = "deleting"
<1>1. media \in [Artifacts -> MediaStates] /\ calls \in [Calls -> CallType]
  BY DEF TypeOK
<1>2. \A b \in Artifacts : Presign(b) \/ Upload(b) => media'[a] = "complaint"
  BY <1>1 DEF Presign, Upload
<1>3. ASSUME NEW c \in Calls, TagPending(c)
      PROVE  media'[a] = "complaint" \/ a \in overtaken'
  BY <1>1, <1>3 DEF TagPending, Overtakes
<1>4. \A c \in Calls : Retag(c) => media'[a] = "complaint"
  BY <1>1 DEF Retag
<1>5. \A c \in Calls : ~Erase(c)
  BY DEF Erase, At, CallInv, CallIsSound, DeletionBegun
<1>6. ASSUME NEW c \in Calls, Unlink(c)
      PROVE  \/ media'[a] = "complaint"
             \/ media'[a] = "gone" /\ rows[a].st = "deleting" /\ rows'[a].st = "deleting"
  <2>1. PICK b \in calls[c].arts : media' = [media EXCEPT ![b] = "gone"]
    BY <1>6 DEF Unlink
  <2>2. rows[b].st = "deleting" \/ media[b] = "gone"
    BY <1>6 DEF Unlink, At, CallInv, CallIsSound, Removing
  <2>3. rows' = rows
    BY <1>6 DEF Unlink
  <2>. QED  BY <1>1, <2>1, <2>2, <2>3
<1>. QED
  BY <1>2, <1>3, <1>4, <1>5, <1>6
  DEF Next, vars, Register, PutRow, Create, RetagFails, Publish, PublishCancelled, Retry,
      Send, SendFails, Rollback, Delete, Mark, List, Erased, Dropped, Drop, Tombstone,
      Forget, Remove, CallStep, WorkerStep, Read, Extract, ExtractFails, Save, Fail,
      CallFails, WorkerDies, Receive

\* A complaint that may be published could be before, too.
LEMMA MayHaveBecome ==
  ASSUME TypeOK, [Next]_vars, MayBecomeAnalyzing', ~deleted'
  PROVE  MayBecomeAnalyzing /\ ~deleted
<1>1. header \in HeaderType
  BY DEF TypeOK
<1>2. ~deleted
  BY DeletedStays
<1>3. \A c \in Calls, n \in Attempts : ~Publish(c, n)
  BY DEF Publish, MayBecomeAnalyzing
<1>4. CASE header' = header
  BY <1>2, <1>4 DEF MayBecomeAnalyzing
<1>5. CASE \/ \E n \in Attempts :
                header' = [header EXCEPT !.status = "analyzing", !.attempt = n]
           \/ header' = [header EXCEPT !.status = "failed"]
           \/ header' = [header EXCEPT !.status = "ready", !.result = header.attempt]
           \/ header' = [header EXCEPT !.status = "deleting"]
  BY <1>1, <1>5 DEF MayBecomeAnalyzing, HeaderType
<1>. QED  BY <1>2, <1>3, <1>4, <1>5, HeaderSteps

\* What the other calls do to a removal and to a submission under way.
LEMMA RemovingStays ==
  ASSUME TypeOK, CallInv, [Next]_vars, NEW w \in CallType, Removing(w)
  PROVE  Removing(w)'
<1>1. w.arts \subseteq Artifacts
  BY DEF CallType
<1>. QED  BY <1>1, GoneStays, MarkStays, RowGoes DEF Removing

LEMMA RetaggedStays ==
  ASSUME TypeOK, CallInv, [Next]_vars, NEW w \in CallType, Retagged(w)
  PROVE  Retagged(w)'
<1>. SUFFICES ASSUME w.pc = "retag", MayBecomeAnalyzing', ~deleted',
                     NEW a \in w.arts \ w.todo
              PROVE  \/ media'[a] = "complaint"
                     \/ a \in overtaken'
                     \/ media'[a] = "gone" /\ rows'[a].st # "registered"
  BY DEF Retagged
<1>1. MayBecomeAnalyzing /\ ~deleted /\ header.status # "deleting"
  BY MayHaveBecome DEF MayBecomeAnalyzing
<1>2. a \in Artifacts
  BY DEF CallType
<1>3. \/ media[a] = "complaint"
      \/ a \in overtaken
      \/ media[a] = "gone" /\ rows[a].st # "registered"
  BY <1>1 DEF Retagged
<1>4. CASE media[a] = "complaint"
  BY <1>1, <1>2, <1>4, ObjectStays
<1>5. CASE a \in overtaken
  BY <1>5, OvertakenStays
<1>6. CASE media[a] = "gone" /\ rows[a].st # "registered"
  BY <1>2, <1>6, GoneStays, RowAppears
<1>. QED  BY <1>3, <1>4, <1>5, <1>6

\* A call that takes no step stays sound, whatever the others do.
LEMMA RestingCall ==
  ASSUME TypeOK, CallInv, [Next]_vars, NEW d \in Calls, calls'[d] = calls[d]
  PROVE  CallIsSound(d)'
<1>. CallIsSound(d) /\ calls[d] \in CallType
  BY DEF TypeOK, CallInv
<1>1. calls[d].arts \subseteq Artifacts
  BY DEF TypeOK, CallType
<1>2. OneFile(calls[d])' /\ TodoIsRead(calls[d])'
  BY DEF CallIsSound, OneFile, TodoIsRead
<1>3. MediaErased(calls[d])'
  BY <1>1, GoneStays DEF CallIsSound, MediaErased
<1>4. DeletionBegun(calls[d])'
  BY StatusSteps, DeletedStays DEF CallIsSound, DeletionBegun
<1>5. PICK w \in CallType : w = calls[d] /\ w = calls'[d]
  OBVIOUS
<1>6. Removing(w) /\ Retagged(w)
  BY <1>5 DEF CallIsSound
<1>7. Removing(w)' /\ Retagged(w)'
  BY <1>6, RemovingStays, RetaggedStays
<1>8. Removing(calls[d])' /\ Retagged(calls[d])'
  BY <1>5, <1>7 DEF Removing, Retagged, MayBecomeAnalyzing
<1>. QED  BY <1>2, <1>3, <1>4, <1>8 DEF CallIsSound

\* The steps after which a call has nothing left to be sound about.
LEMMA FreshCall ==
  ASSUME NEW c \in Calls,
         calls'[c].pc \notin {"retag", "list", "erase", "drop", "tombstone", "unlink",
                              "forget"}
  PROVE  CallIsSound(c)'
BY DEF CallIsSound, OneFile, TodoIsRead, MediaErased, DeletionBegun, Removing, Retagged

LEMMA CallStepSound ==
  ASSUME TypeOK, CallInv, [Next]_vars, NEW c \in Calls, CallStep(c)
  PROVE  CallIsSound(c)' /\ \A d \in Calls \ {c} : calls'[d] = calls[d]
<1>1. calls \in [Calls -> CallType] /\ media \in [Artifacts -> MediaStates]
  BY DEF TypeOK
<1>2. /\ calls[c].arts \subseteq Artifacts
      /\ CallIsSound(c)
  BY <1>1 DEF CallType, CallInv
<1>3. CASE TagPending(c) \/ PutRow(c) \/ RetagFails(c) \/ PublishCancelled(c)
           \/ (\E n \in Attempts : Publish(c, n)) \/ Send(c) \/ SendFails(c) \/ Rollback(c)
           \/ Dropped(c) \/ Forget(c)
  <2>1. calls'[c].pc \in {"put", "idle", "send", "rollback"}
    BY <1>1, <1>3
    DEF TagPending, PutRow, RetagFails, PublishCancelled, Publish, Send, SendFails,
        Rollback, Dropped, Forget, Goto, Return, NoCall, StartAnalysis, CallType
  <2>2. \A d \in Calls \ {c} : calls'[d] = calls[d]
    BY <1>1, <1>3
    DEF TagPending, PutRow, RetagFails, PublishCancelled, Publish, Send, SendFails,
        Rollback, Dropped, Forget, Goto, Return, StartAnalysis
  <2>. QED  BY <2>1, <2>2, FreshCall
<1>4. CASE Retag(c)
  <2>1. PICK a \in calls[c].todo : Did(c, a)
    BY <1>4 DEF Retag
  <2>2. calls'[c].pc = "retag" /\ calls'[c].arts = calls[c].arts
        /\ calls'[c].todo = calls[c].todo \ {a}
    BY <1>1, <1>4, <2>1 DEF Retag, Did, At, CallType
  <2>a. calls[c].pc = "retag" /\ UNCHANGED <<header, deleted, overtaken, rows>>
    BY <1>4 DEF Retag, At
  <2>b. PICK b \in calls[c].todo : media' = [media EXCEPT ![b] = "complaint"] /\ Did(c, b)
    BY <1>4 DEF Retag
  <2>c. calls'[c].todo = calls[c].todo \ {b}
    BY <1>1, <2>b DEF Did, CallType
  <2>d. Retagged(calls[c])
    BY <1>2 DEF CallIsSound
  <2>e. Retagged(calls[c])'
    BY <1>1, <1>2, <2>2, <2>a, <2>b, <2>c, <2>d DEF Retagged, MayBecomeAnalyzing
  <2>3. CallIsSound(c)'
    BY <1>2, <2>2, <2>a, <2>e
    DEF CallIsSound, OneFile, TodoIsRead, MediaErased, DeletionBegun, Removing
  <2>. QED  BY <1>1, <2>1, <2>3 DEF Did
<1>5. CASE Mark(c)
  <2>1. CASE header.status \in {"ready", "failed"}
    <3>1. calls' = [calls EXCEPT ![c].pc = "list"] /\ header'.status = "deleting"
      BY <1>5, <2>1 DEF Mark, Goto, TypeOK, HeaderType
    <3>. QED  BY <1>1, <3>1 DEF CallType, CallIsSound, OneFile, TodoIsRead, MediaErased,
                             DeletionBegun, Removing, Retagged
  <2>2. CASE header.status \notin {"ready", "failed"}
    BY <1>1, <1>5, <2>2, FreshCall DEF Mark, Return, NoCall
  <2>. QED  BY <2>1, <2>2
<1>6. CASE List(c)
  <2>1. /\ calls'[c].pc = "erase" /\ calls'[c].todo = calls'[c].arts
        /\ \A d \in Calls \ {c} : calls'[d] = calls[d]
        /\ header' = header /\ deleted' = deleted /\ calls[c].pc = "list"
    BY <1>1, <1>6 DEF List, Begin, At
  <2>. QED
    BY <1>2, <2>1
    DEF CallIsSound, OneFile, TodoIsRead, MediaErased, DeletionBegun, Removing, Retagged
<1>7. CASE Erase(c)
  <2>1. PICK a \in calls[c].todo : media' = [media EXCEPT ![a] = "gone"] /\ Did(c, a)
    BY <1>7 DEF Erase
  <2>2. /\ calls'[c].pc = "erase" /\ calls'[c].arts = calls[c].arts
        /\ calls'[c].todo = calls[c].todo \ {a}
        /\ calls[c].pc = "erase" /\ header' = header /\ deleted' = deleted
    BY <1>1, <1>7, <2>1 DEF Erase, Did, At, CallType
  <2>3. calls[c].todo \subseteq calls[c].arts
    BY <1>2, <2>2 DEF CallIsSound, TodoIsRead
  <2>4. \A b \in calls'[c].arts \ calls'[c].todo : media'[b] = "gone"
    BY <1>1, <1>2, <2>1, <2>2 DEF CallIsSound, MediaErased
  <2>. QED
    BY <1>1, <1>2, <2>1, <2>2, <2>3, <2>4
    DEF Did, CallIsSound, OneFile, TodoIsRead, MediaErased, DeletionBegun, Removing, Retagged
<1>8. CASE /\ Erased(c)
           /\ UNCHANGED <<header, deleted, overtaken, rows, media, queue, workers>>
  <2>1. /\ calls[c].pc = "erase" /\ calls[c].todo = {}
        /\ calls'[c].pc = "drop" /\ calls'[c].arts = calls[c].arts
        /\ calls'[c].todo = calls[c].arts \union {Header}
        /\ \A d \in Calls \ {c} : calls'[d] = calls[d]
    BY <1>1, <1>8 DEF Erased, StartDrop, At, CallType
  <2>. QED
    BY <1>2, <1>8, <2>1
    DEF CallIsSound, OneFile, TodoIsRead, MediaErased, DeletionBegun, Removing, Retagged
<1>9. CASE Drop(c)
  <2>1. PICK x \in calls[c].todo : Did(c, x)
    BY <1>9 DEF Drop
  <2>2. /\ calls'[c].pc = "drop" /\ calls'[c].arts = calls[c].arts
        /\ calls'[c].todo = calls[c].todo \ {x}
        /\ calls[c].pc = "drop" /\ media' = media
        /\ \A d \in Calls \ {c} : calls'[d] = calls[d]
    BY <1>1, <1>9, <2>1 DEF Drop, Did, At, CallType
  <2>3. (header.status = "deleting" \/ deleted)'
    BY <1>2, <2>2, StatusSteps, DeletedStays DEF CallIsSound, DeletionBegun
  <2>. QED
    BY <1>2, <2>2, <2>3
    DEF CallIsSound, OneFile, TodoIsRead, MediaErased, DeletionBegun, Removing, Retagged
<1>10. CASE Tombstone(c)
  <2>1. \/ calls' = [calls EXCEPT ![c].pc = "unlink"]
        \/ calls' = [calls EXCEPT ![c] = NoCall]
    BY <1>2, <1>10 DEF Tombstone, Goto, Return, CallIsSound, OneFile, At
  <2>2. CASE calls' = [calls EXCEPT ![c] = NoCall]
    BY <1>1, <2>2, FreshCall DEF NoCall
  <2>3. CASE calls' = [calls EXCEPT ![c].pc = "unlink"]
    <3>1. calls'[c].pc = "unlink" /\ calls'[c].arts = calls[c].arts
          /\ calls[c].pc = "tombstone"
      BY <1>1, <1>10, <2>3 DEF Tombstone, At, CallType
    <3>2. PICK a \in calls[c].arts : rows' = [rows EXCEPT ![a].st = "deleting"]
      BY <1>1, <1>10, <3>1 DEF Tombstone, Return, NoCall
    <3>3. calls[c].arts = {a} /\ a \in Artifacts
      BY <1>1, <1>2, <3>1, <3>2 DEF CallIsSound, OneFile, CallType
    <3>4. rows'[a].st = "deleting"
      BY <3>2, <3>3 DEF TypeOK, RowType
    <3>5. CallIsSound(c)'
      BY <3>1, <3>3, <3>4
      DEF CallIsSound, OneFile, TodoIsRead, MediaErased, DeletionBegun, Removing, Retagged
    <3>. QED  BY <1>1, <2>3, <3>5
  <2>. QED  BY <2>1, <2>2, <2>3
<1>11. CASE Unlink(c)
  <2>1. calls' = [calls EXCEPT ![c].pc = "forget"] /\ calls[c].pc = "unlink"
    BY <1>11 DEF Unlink, Goto, At
  <2>2. PICK a \in calls[c].arts : media' = [media EXCEPT ![a] = "gone"]
    BY <1>11 DEF Unlink
  <2>3. calls[c].arts = {a}
    BY <1>2, <2>1, <2>2 DEF CallIsSound, OneFile
  <2>4. calls'[c].pc = "forget" /\ calls'[c].arts = {a} /\ media'[a] = "gone"
    BY <1>1, <1>2, <2>1, <2>2, <2>3 DEF CallType
  <2>5. CallIsSound(c)'
    BY <2>4
    DEF CallIsSound, OneFile, TodoIsRead, MediaErased, DeletionBegun, Removing, Retagged
  <2>. QED  BY <1>1, <2>1, <2>5
<1>. QED
  BY <1>3, <1>4, <1>5, <1>6, <1>7, <1>8, <1>9, <1>10, <1>11 DEF CallStep

LEMMA CallStarts ==
  ASSUME TypeOK, [Next]_vars, NEW c \in Calls,
         \/ Create(c) \/ Delete(c) \/ CallFails(c)
         \/ \E a \in Artifacts : Register(c, a) \/ Remove(c, a)
         \/ \E n \in Attempts : Retry(c, n)
  PROVE  CallIsSound(c)' /\ \A d \in Calls \ {c} : calls'[d] = calls[d]
<1>1. calls \in [Calls -> CallType]
  BY DEF TypeOK
<1>2. \A d \in Calls \ {c} : calls'[d] = calls[d]
  BY <1>1 DEF Create, Delete, CallFails, Register, Remove, Retry, Begin, Return, StartAnalysis
<1>3. CASE Create(c)
  <2>1. calls'[c].pc = "retag" /\ calls'[c].todo = calls'[c].arts
    BY <1>1, <1>3 DEF Create, Begin
  <2>. QED
    BY <1>2, <2>1
    DEF CallIsSound, OneFile, TodoIsRead, MediaErased, DeletionBegun, Removing, Retagged
<1>4. CASE Delete(c)
  <2>1. \/ calls'[c].pc = "mark"
        \/ calls'[c].pc = "list" /\ header'.status = "deleting"
    BY <1>1, <1>4 DEF Delete, Begin
  <2>. QED
    BY <1>2, <2>1
    DEF CallIsSound, OneFile, TodoIsRead, MediaErased, DeletionBegun, Removing, Retagged
<1>5. CASE CallFails(c) \/ \E n \in Attempts : Retry(c, n)
  <2>a. CallFails(c) => calls'[c].pc = "idle"
    BY <1>1 DEF CallFails, Return, NoCall
  <2>b. ASSUME NEW n \in Attempts, Retry(c, n)
        PROVE  calls'[c].pc = "send"
    <3>1. StartAnalysis(c, n)
      BY <2>b DEF Retry
    <3>. QED  BY <1>1, <3>1 DEF StartAnalysis
  <2>1. calls'[c].pc \in {"idle", "send"}
    BY <1>5, <2>a, <2>b
  <2>. QED  BY <1>2, <2>1, FreshCall
<1>6. ASSUME NEW a \in Artifacts, Register(c, a) \/ Remove(c, a)
      PROVE  CallIsSound(c)'
  <2>1. calls'[c].pc \in {"tag", "put", "tombstone", "unlink"} /\ calls'[c].arts = {a}
    BY <1>1, <1>6 DEF Register, Remove, Begin
  <2>2. calls'[c].pc = "unlink" => rows'[a].st = "deleting"
    BY <1>1, <1>6 DEF Register, Remove, Begin
  <2>. QED
    BY <2>1, <2>2
    DEF CallIsSound, OneFile, TodoIsRead, MediaErased, DeletionBegun, Removing, Retagged
<1>. QED  BY <1>2, <1>3, <1>4, <1>5, <1>6

LEMMA CallInvStep == TypeOK /\ CallInv /\ [Next]_vars => CallInv'
<1>. SUFFICES ASSUME TypeOK, CallInv, [Next]_vars, NEW d \in Calls
              PROVE  CallIsSound(d)'
  BY DEF CallInv
<1>2. CASE calls' = calls
  BY <1>2, RestingCall
<1>3. CASE \E c \in Calls : CallStep(c)
  BY <1>3, CallStepSound, RestingCall
<1>4. CASE \E c \in Calls : \/ Create(c) \/ Delete(c) \/ CallFails(c)
                            \/ \E a \in Artifacts : Register(c, a) \/ Remove(c, a)
                            \/ \E n \in Attempts : Retry(c, n)
  BY <1>4, CallStarts, RestingCall
<1>. QED
  BY <1>2, <1>3, <1>4
  DEF Next, vars, Presign, Upload, WorkerStep, Read, Extract, ExtractFails, Save, Fail,
      WorkerDies, Receive

-----------------------------------------------------------------------------
(* Counted files *)

\* A counted file stays, with its retention, until the complaint is deleted.
LEMMA CountedFileStays ==
  ASSUME TypeOK, CallInv, [Next]_vars,
         header.status \in Published, header'.status \in Published, ~deleted,
         NEW a \in Artifacts, KeptForAYear(a)
  PROVE  KeptForAYear(a)'
<1>1. rows \in [Artifacts -> RowType]
  BY DEF TypeOK
<1>2. ~IsDraft /\ ~MayBecomeAnalyzing /\ header.status # "deleting"
  BY DEF IsDraft, MayBecomeAnalyzing, Published
<1>3. \A c \in Calls : ~Drop(c)
  BY <1>2 DEF Drop, At, CallInv, CallIsSound, DeletionBegun
<1>4. \A c \in Calls : PutRow(c) \/ Tombstone(c) \/ Forget(c) => rows' = rows
  BY <1>1, <1>2 DEF PutRow, Tombstone, Forget, At, CallInv, CallIsSound, OneFile
<1>5. \A c \in Calls, n \in Attempts : ~Publish(c, n)
  BY <1>2 DEF Publish, MayPublish
<1>6. rows' = rows
  BY <1>3, <1>4, <1>5
  DEF Next, vars, Presign, Upload, Register, TagPending, Create, Retag, RetagFails,
      PublishCancelled, Retry, Send, SendFails, Rollback, Delete, Mark, List, Erase,
      Unlink, Remove, CallStep, WorkerStep, Read, Extract, ExtractFails, Save, Fail,
      CallFails, WorkerDies, Receive
<1>7. rows[a].st # "deleting"
  BY DEF KeptForAYear
<1>8. media'[a] = "complaint" \/ a \in overtaken'
  BY <1>2, <1>7, ObjectStays, OvertakenStays DEF KeptForAYear
<1>. QED  BY <1>6, <1>8 DEF KeptForAYear

CountedFiles == {a \in Artifacts : KeptForAYear(a)}

LEMMA CountStep ==
  TypeOK /\ CallInv /\ CountedFilesAreKept /\ [Next]_vars => CountedFilesAreKept'
<1>. SUFFICES ASSUME TypeOK, CallInv, CountedFilesAreKept, [Next]_vars,
                     header'.status \in Published, ~deleted'
              PROVE  header'.count <= Cardinality(CountedFiles')
  BY DEF CountedFilesAreKept, CountedFiles
<1>1. ~deleted
  BY DeletedStays
<1>2. header \in HeaderType /\ rows \in [Artifacts -> RowType]
      /\ calls \in [Calls -> CallType]
  BY DEF TypeOK
<1>3. header' \in HeaderType
  BY TypeStep DEF TypeOK
<1>4. IsFiniteSet(CountedFiles) /\ IsFiniteSet(CountedFiles')
  BY FilesAssumption, FS_Subset DEF CountedFiles
<1>5. Cardinality(CountedFiles) \in Nat /\ Cardinality(CountedFiles') \in Nat
  BY <1>4, FS_CardinalityType
<1>6. CASE \E c \in Calls, n \in Attempts : Publish(c, n)
  <2>1. PICK c \in Calls, n \in Attempts : Publish(c, n)
    BY <1>6
  <2>a. /\ calls[c].pc = "retag" /\ calls[c].todo = {} /\ MayBecomeAnalyzing
        /\ calls[c].arts \subseteq Artifacts
        /\ \A a \in calls[c].arts : rows[a].st = "registered"
        /\ UNCHANGED <<media, overtaken>>
    BY <1>2, <2>1 DEF Publish, MayPublish, At, CallType
  <2>b. \A a \in calls[c].arts : media[a] = "complaint" \/ a \in overtaken
    BY <1>1, <2>a DEF CallInv, CallIsSound, Retagged
  <2>c. \A a \in calls[c].arts : rows'[a].st = "registered" /\ rows'[a].kept
    BY <1>2, <2>1, <2>a DEF Publish, RowType
  <2>2. calls[c].arts \subseteq CountedFiles'
    BY <2>a, <2>b, <2>c DEF CountedFiles, KeptForAYear
  <2>3. header'.count = Cardinality(calls[c].arts)
    BY <2>1 DEF Publish
  <2>. QED  BY <1>4, <2>2, <2>3, FS_Subset
<1>7. CASE header.status \in Published /\ header'.count = header.count
  <2>1. header.count <= Cardinality(CountedFiles)
    BY <1>1, <1>7 DEF CountedFilesAreKept, CountedFiles
  <2>2. CountedFiles \subseteq CountedFiles'
    BY <1>1, <1>7, CountedFileStays DEF CountedFiles
  <2>3. Cardinality(CountedFiles) <= Cardinality(CountedFiles')
    BY <1>4, <2>2, FS_Subset
  <2>4. header.count \in Nat
    BY <1>2 DEF HeaderType
  <2>. QED  BY <1>5, <1>7, <2>1, <2>3, <2>4
<1>8. \/ \E c \in Calls, n \in Attempts : Publish(c, n)
      \/ header.status \in Published /\ header'.count = header.count
  <2>1. CASE header' = header
    BY <2>1
  <2>2. CASE \E status \in {"draft", "deleting"} :
               header' = [header EXCEPT !.status = status]
    BY <1>2, <2>2 DEF HeaderType, Published
  <2>3. CASE /\ header.status \in {"failed", "analyzing"}
             /\ header'.count = header.count
    BY <2>3 DEF Published
  <2>4. CASE header' = NoHeader
    BY <2>4 DEF NoHeader, Published
  <2>5. /\ [header EXCEPT !.status = "failed"].count = header.count
        /\ [header EXCEPT !.status = "ready", !.result = header.attempt].count = header.count
        /\ \A n \in Attempts :
             [header EXCEPT !.status = "analyzing", !.attempt = n].count = header.count
    BY <1>2 DEF HeaderType
  <2>. QED  BY <2>1, <2>2, <2>3, <2>4, <2>5, HeaderSteps
<1>. QED  BY <1>6, <1>7, <1>8

-----------------------------------------------------------------------------
(* The theorems *)

\* The inductive invariant: types, the summary on display, what every call still has
\* to do, or has done, against the media, and the counted files against rows and media.
THEOREM Invariance == Spec => []IInv
<1>1. Init => IInv
  <2>. SUFFICES ASSUME Init
                PROVE  IInv
    OBVIOUS
  <2>1. TypeOK
    <3>1. header \in HeaderType
      BY BoundsAssumption DEF Init, HeaderType, NoHeader
    <3>2. rows \in [Artifacts -> RowType] /\ media \in [Artifacts -> MediaStates]
      BY DEF Init, RowType, NoRow, MediaStates
    <3>3. NoCall \in CallType
      BY BoundsAssumption DEF CallType, NoCall
    <3>4. queue \in [Attempts -> MessageType]
      BY BoundsAssumption DEF Init, MessageType
    <3>5. NoWork \in WorkerType
      BY BoundsAssumption DEF WorkerType, NoWork
    <3>. QED  BY <3>1, <3>2, <3>3, <3>4, <3>5 DEF Init, TypeOK
  <2>2. ResultIsCurrent /\ CountedFilesAreKept
    BY DEF Init, NoHeader, ResultIsCurrent, CountedFilesAreKept, Published
  <2>3. CallInv
    BY
    DEF Init, NoCall, CallInv, CallIsSound, OneFile, TodoIsRead, MediaErased,
        DeletionBegun, Removing, Retagged
  <2>. QED  BY <2>1, <2>2, <2>3 DEF IInv
<1>2. IInv /\ [Next]_vars => IInv'
  BY TypeStep, ResultStep, CallInvStep, CountStep DEF IInv
<1>. QED  BY <1>1, <1>2, PTL DEF Spec

\* Every row, object, call, message and worker keeps its type.
THEOREM TypeCorrect == Spec => []TypeOK
<1>1. IInv => TypeOK
  BY DEF IInv
<1>. QED  BY <1>1, Invariance, PTL

\* The summary a ready complaint shows is the one of its last attempt
\* (the conditions of processComplaint's save and of the rollbacks).
THEOREM SummaryIsCurrent == Spec => []ResultIsCurrent
<1>1. IInv => ResultIsCurrent
  BY DEF IInv
<1>. QED  BY <1>1, Invariance, PTL

\* A ready complaint stays ready until it is deleted, and one being deleted never
\* comes back, whatever workers, rollbacks or replayed submissions arrive late.
THEOREM ReadyStays == Spec => ReadyUntilDeleted
<1>1. IInv /\ [Next]_vars =>
        /\ header.status = "ready" => header'.status \in {"ready", "deleting"}
        /\ header.status = "deleting" => header'.status \in {"deleting", "none"}
  BY StatusSteps DEF IInv
<1>. QED  BY <1>1, Invariance, PTL DEF Spec, ReadyUntilDeleted

\* The files a published complaint counts are all there, with its retention: the row
\* always, the object unless a late registration got at it (createComplaint's tags and
\* transaction against deleteComplaintArtifact and registerComplaintArtifact).
THEOREM CountedFilesStay == Spec => []CountedFilesAreKept
<1>1. IInv => CountedFilesAreKept
  BY DEF IInv
<1>. QED  BY <1>1, Invariance, PTL

\* No step takes an artifact row whose object is still in the bucket
\* (deleteComplaint and deleteComplaintArtifact).
THEOREM EvidenceGoesFirst == Spec => MediaGoesFirst
<1>1. IInv /\ [Next]_vars =>
        \A a \in Artifacts :
          rows[a].st # "none" /\ rows'[a].st = "none" => media[a] = "gone"
  BY RowGoes DEF IInv
<1>. QED  BY <1>1, Invariance, PTL DEF Spec, MediaGoesFirst

=============================================================================
