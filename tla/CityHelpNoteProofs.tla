--------------------------- MODULE CityHelpNoteProofs ---------------------------
(***************************************************************************)
(* CityHelpNote's safety for any number of requests, messages and          *)
(* deliveries, with and without the silent-workflow control.  IInv is the  *)
(* inductive invariant:                                                    *)
(*                                                                         *)
(*   Memory   what a sender knows: it works only on a note it read as      *)
(*            unsettled, holds "sent" only for a note that arrived, and    *)
(*            brings to a job's bookkeeping what the row says              *)
(*   Sends    at most one sender is between its claim of a pending note    *)
(*            and the City's answer, and while one is, the row is neither  *)
(*            pending nor failed, nor can its lease's owner make it so     *)
(***************************************************************************)
EXTENDS CityHelpNote, TLAPS

\* Between the claim of a pending note and the end of its request.
Out == {"send", "await"}

Working == {"control", "suppress", "claim", "feed", "send", "await", "save",
            "save again"}

\* Nothing of the note is at the City or on its way.
NothingOut ==
  /\ city.open = 0 /\ city.notes = 0
  /\ \A s \in Senders : senders[s].pc \notin Out

ReadUnsettled ==
  \A s \in Senders :
    senders[s].pc \in Working => senders[s].prior \notin Settled

KnowsItArrived ==
  \A s \in Senders :
    senders[s].pc \in {"save", "save again"} /\ senders[s].verdict = "sent"
      => city.notes = 1

Concludes ==
  \A s \in Senders : senders[s].pc = "finish" =>
    IF senders[s].settled THEN note.status \in {"sent", "suppressed"}
    ELSE senders[s].prior = "failed" => note.status = "failed"

Memory == ReadUnsettled /\ KnowsItArrived /\ Concludes

Sends ==
  /\ city.open + city.notes <= 1
  /\ \A s, t \in Senders :
       senders[s].pc \in Out /\ senders[t].pc \in Out => s = t
  /\ \A s \in Senders :
       /\ senders[s].pc = "send" => city.open = 0 /\ city.notes = 0
       /\ senders[s].pc = "save" /\ senders[s].verdict \in {"pending", "failed"}
            /\ Owns(s) => NothingOut
  /\ note.status \in {"pending", "failed"} => NothingOut

Row ==
  /\ note.live => note.status = "sending"
  /\ note.status = "sent" => city.notes = 1
  /\ JobAnswersForNote

IInv == TypeOK /\ Memory /\ Sends /\ Row

-----------------------------------------------------------------------------
(* What a sender becomes *)

LEMMA IdleType == Idle \in SenderType
BY DEF Idle, SenderType, PCs, Statuses

LEMMA BecomesType ==
  ASSUME TypeOK, NEW s \in Senders, NEW w \in SenderType, Becomes(s, w)
  PROVE  /\ senders' \in [Senders -> SenderType]
         /\ senders'[s] = w
         /\ \A t \in Senders \ {s} : senders'[t] = senders[t]
BY DEF TypeOK, Becomes

LEMMA MoveType ==
  ASSUME TypeOK, NEW s \in Senders, NEW pc \in PCs,
         Becomes(s, [senders[s] EXCEPT !.pc = pc])
  PROVE  /\ senders' \in [Senders -> SenderType]
         /\ senders'[s].pc = pc /\ senders'[s].prior = senders[s].prior
         /\ senders'[s].verdict = senders[s].verdict
         /\ \A t \in Senders \ {s} : senders'[t] = senders[t]
<1>1. senders[s] \in SenderType
  BY DEF TypeOK
<1>2. [senders[s] EXCEPT !.pc = pc] \in SenderType
  BY <1>1 DEF SenderType
<1>3. /\ senders' \in [Senders -> SenderType]
      /\ senders'[s] = [senders[s] EXCEPT !.pc = pc]
      /\ \A t \in Senders \ {s} : senders'[t] = senders[t]
  BY <1>2, BecomesType
<1> QED BY <1>1, <1>3 DEF SenderType

LEMMA DecideType ==
  ASSUME TypeOK, NEW s \in Senders, NEW v \in Statuses, Decide(s, v)
  PROVE  /\ senders' \in [Senders -> SenderType]
         /\ senders'[s].pc = "save" /\ senders'[s].prior = senders[s].prior
         /\ senders'[s].verdict = v
         /\ \A t \in Senders \ {s} : senders'[t] = senders[t]
<1> DEFINE w == [senders[s] EXCEPT !.pc = "save", !.verdict = v]
<1>1. senders[s] \in SenderType
  BY DEF TypeOK
<1>2. w.pc = "save" /\ w.prior = senders[s].prior /\ w.verdict = v
  BY <1>1 DEF SenderType
<1>3. w \in SenderType
  BY <1>1 DEF SenderType, PCs
<1>4. Becomes(s, w)
  BY DEF Decide
<1> HIDE DEF w
<1>5. /\ senders' \in [Senders -> SenderType] /\ senders'[s] = w
      /\ \A t \in Senders \ {s} : senders'[t] = senders[t]
  BY <1>3, <1>4, BecomesType
<1> QED BY <1>2, <1>5

LEMMA ReturnType ==
  ASSUME TypeOK, NEW s \in Senders, NEW w \in SenderType,
         NEW settled \in BOOLEAN, Return(s, settled, w)
  PROVE  /\ senders' \in [Senders -> SenderType]
         /\ senders'[s].pc \in {"idle", "finish"}
         /\ senders'[s].pc = "finish" =>
              senders'[s].prior = w.prior /\ senders'[s].settled = settled
         /\ \A t \in Senders \ {s} : senders'[t] = senders[t]
<1>1. CASE s \in Deliveries
  <2> DEFINE v == [w EXCEPT !.pc = "finish", !.settled = settled]
  <2>1. v.pc = "finish" /\ v.prior = w.prior /\ v.settled = settled
    BY DEF SenderType
  <2>2. v \in SenderType
    BY DEF SenderType, PCs
  <2>3. Becomes(s, v)
    BY <1>1 DEF Return
  <2> HIDE DEF v
  <2>4. /\ senders' \in [Senders -> SenderType] /\ senders'[s] = v
        /\ \A t \in Senders \ {s} : senders'[t] = senders[t]
    BY <2>2, <2>3, BecomesType
  <2> QED BY <2>1, <2>4
<1>2. CASE s \notin Deliveries
  <2>1. Becomes(s, Idle)
    BY <1>2 DEF Return
  <2>2. /\ senders' \in [Senders -> SenderType] /\ senders'[s] = Idle
        /\ \A t \in Senders \ {s} : senders'[t] = senders[t]
    BY <2>1, IdleType, BecomesType
  <2> QED BY <2>2 DEF Idle
<1> QED BY <1>1, <1>2

-----------------------------------------------------------------------------
(* Steps that change no more than one sender, its count and the job *)

\* What LocalStep asks of the sender that moved.
Harmless(s) ==
  /\ senders' \in [Senders -> SenderType]
  /\ \A t \in Senders \ {s} : senders'[t] = senders[t]
  /\ senders'[s].pc \notin Out
  /\ senders'[s].pc \in Working => senders'[s].prior \notin Settled
  /\ senders'[s].pc = "save" => senders'[s].verdict \notin {"pending", "failed"}
  /\ senders'[s].pc \in {"save", "save again"} /\ senders'[s].verdict = "sent"
       => city.notes = 1
  /\ senders'[s].pc = "finish" =>
       IF senders'[s].settled THEN note.status \in {"sent", "suppressed"}
       ELSE senders'[s].prior = "failed" => note.status = "failed"

LEMMA LocalStep ==
  ASSUME IInv, NEW s \in Senders, Harmless(s), UNCHANGED <<note, city, allowed>>,
         receives' \in [Senders -> 0..MaxReceives],
         job' \in [status : JobStatus, reason : Reasons], JobAnswersForNote'
  PROVE  IInv'
<1>1. TypeOK'
  BY DEF IInv, TypeOK, Harmless
<1>2. Memory'
  BY DEF IInv, Memory, ReadUnsettled, KnowsItArrived, Concludes, Harmless
<1>3. NothingOut => NothingOut'
  BY DEF NothingOut, Harmless
<1>4. \A t \in Senders : Owns(t)' <=> Owns(t)
  BY DEF Owns
<1>5. Sends'
  <2>1. \A t \in Senders : senders'[t].pc \in Out => t # s /\ senders[t].pc \in Out
    BY DEF Harmless
  <2>2. ASSUME NEW t \in Senders, senders'[t].pc = "send"
        PROVE  city.open = 0 /\ city.notes = 0
    BY <2>1, <2>2 DEF IInv, Sends, Harmless, Out
  <2>3. ASSUME NEW t \in Senders, senders'[t].pc = "save",
               senders'[t].verdict \in {"pending", "failed"}, Owns(t)
        PROVE  NothingOut
    BY <2>3 DEF IInv, Sends, Harmless
  <2>4. \A t, u \in Senders :
          senders'[t].pc \in Out /\ senders'[u].pc \in Out => t = u
    BY <2>1 DEF IInv, Sends
  <2>5. city.open + city.notes <= 1
        /\ (note.status \in {"pending", "failed"} => NothingOut)
    BY DEF IInv, Sends
  <2> QED BY <1>3, <1>4, <2>2, <2>3, <2>4, <2>5 DEF Sends
<1>6. Row'
  BY DEF IInv, Row
<1> QED BY <1>1, <1>2, <1>5, <1>6 DEF IInv

\* To idle is harmless, and so is a return that leaves the note as it was read.
LEMMA IdleStep ==
  ASSUME IInv, NEW s \in Senders, Becomes(s, Idle)
  PROVE  Harmless(s)
<1>1. /\ senders' \in [Senders -> SenderType] /\ senders'[s] = Idle
      /\ \A t \in Senders \ {s} : senders'[t] = senders[t]
  BY IdleType, BecomesType DEF IInv
<1> QED BY <1>1 DEF Harmless, Idle, Out, Working

LEMMA ReturnStep ==
  ASSUME IInv, NEW s \in Senders, senders[s].pc \in Working,
         Return(s, FALSE, senders[s])
  PROVE  Harmless(s)
<1>1. senders[s] \in SenderType /\ senders[s].prior \notin Settled
  BY DEF IInv, TypeOK, Memory, ReadUnsettled, KnowsItArrived, Concludes
<1>2. /\ senders' \in [Senders -> SenderType]
      /\ senders'[s].pc \in {"idle", "finish"}
      /\ senders'[s].pc = "finish" =>
           senders'[s].prior = senders[s].prior /\ senders'[s].settled = FALSE
      /\ \A t \in Senders \ {s} : senders'[t] = senders[t]
  BY <1>1, ReturnType DEF IInv
<1> QED BY <1>1, <1>2 DEF Harmless, Out, Working, Settled

LEMMA StartActions ==
  ASSUME IInv, NEW s \in Senders,
         Arrive(s) \/ TakeLock(s) \/ LockTaken(s) \/ ReadUpdate(s)
           \/ ReadControl(s) \/ NoClaim(s) \/ Die(s)
  PROVE  IInv'
<1> SUFFICES Harmless(s) /\ receives' \in [Senders -> 0..MaxReceives]
             /\ UNCHANGED <<note, city, job, allowed>>
  <2>1. job' \in [status : JobStatus, reason : Reasons] /\ JobAnswersForNote'
    BY DEF IInv, TypeOK, Row, JobAnswersForNote
  <2> QED BY <2>1, LocalStep
<1>0. TypeOK /\ receives \in [Senders -> 0..MaxReceives]
  BY DEF IInv, TypeOK
<1>1. ASSUME Arrive(s) PROVE Harmless(s) /\ receives' \in [Senders -> 0..MaxReceives]
  <2>1. PICK pc \in {"lock", "start"} : Becomes(s, [Idle EXCEPT !.pc = pc])
    BY <1>1 DEF Arrive
  <2>2. [Idle EXCEPT !.pc = pc] \in SenderType
    BY DEF Idle, SenderType, PCs, Statuses
  <2>3. /\ senders' \in [Senders -> SenderType]
        /\ senders'[s] = [Idle EXCEPT !.pc = pc]
        /\ \A t \in Senders \ {s} : senders'[t] = senders[t]
    BY <1>0, <2>1, <2>2, BecomesType
  <2>4. receives' \in [Senders -> 0..MaxReceives]
    BY <1>0, <1>1, ReceivesAssumption DEF Arrive
  <2> QED BY <2>3, <2>4 DEF Harmless, Idle, Out, Working
<1>2. ASSUME TakeLock(s) PROVE Harmless(s)
  <2>1. Becomes(s, [Idle EXCEPT !.pc = "start"])
    BY <1>2 DEF TakeLock
  <2>2. [Idle EXCEPT !.pc = "start"] \in SenderType
    BY DEF Idle, SenderType, PCs, Statuses
  <2>3. /\ senders' \in [Senders -> SenderType]
        /\ senders'[s] = [Idle EXCEPT !.pc = "start"]
        /\ \A t \in Senders \ {s} : senders'[t] = senders[t]
    BY <1>0, <2>1, <2>2, BecomesType
  <2> QED BY <2>3 DEF Harmless, Idle, Out, Working
<1>3. ASSUME ReadUpdate(s) PROVE Harmless(s)
  <2> DEFINE w == [senders[s] EXCEPT !.prior = note.status, !.lease = note.lease]
  <2>1. senders[s] \in SenderType
        /\ note \in [status : Statuses, lease : Senders \union {NoOne}, live : BOOLEAN]
    BY <1>0 DEF TypeOK
  <2>2. w.prior = note.status
    BY <2>1 DEF SenderType
  <2>3. w \in SenderType
    BY <2>1 DEF SenderType
  <2>4. CASE note.status \in Settled
    <3>1. Return(s, note.status # "failed", w)
      BY <1>3, <2>4 DEF ReadUpdate
    <3>a. w.prior = note.status
      BY <2>2
    <3> HIDE DEF w
    <3>2. /\ senders' \in [Senders -> SenderType]
          /\ senders'[s].pc \in {"idle", "finish"}
          /\ senders'[s].pc = "finish" =>
               /\ senders'[s].prior = note.status
               /\ senders'[s].settled = (note.status # "failed")
          /\ \A t \in Senders \ {s} : senders'[t] = senders[t]
      BY <1>0, <2>3, <3>1, <3>a, ReturnType
    <3> QED BY <2>4, <3>2 DEF Harmless, Out, Working, Settled
  <2>5. CASE note.status \notin Settled
    <3>1. Becomes(s, [w EXCEPT !.pc = "control"])
      BY <1>3, <2>5 DEF ReadUpdate
    <3>2. [w EXCEPT !.pc = "control"] \in SenderType
          /\ [w EXCEPT !.pc = "control"].pc = "control"
          /\ [w EXCEPT !.pc = "control"].prior = note.status
      BY <2>2, <2>3 DEF SenderType, PCs
    <3> HIDE DEF w
    <3>3. /\ senders' \in [Senders -> SenderType]
          /\ senders'[s] = [w EXCEPT !.pc = "control"]
          /\ \A t \in Senders \ {s} : senders'[t] = senders[t]
      BY <1>0, <3>1, <3>2, BecomesType
    <3> QED BY <2>5, <3>2, <3>3 DEF Harmless, Out, Working
  <2> QED BY <2>4, <2>5
<1>4. ASSUME ReadControl(s) PROVE Harmless(s)
  <2>0. senders[s].pc \in Working
    BY <1>4 DEF ReadControl, At, Working
  <2>1. CASE Return(s, FALSE, senders[s])
    BY <2>0, <2>1, ReturnStep
  <2>2. CASE \E pc \in {"suppress", "claim"} :
                Becomes(s, [senders[s] EXCEPT !.pc = pc])
    <3>1. PICK pc \in {"suppress", "claim"} : Becomes(s, [senders[s] EXCEPT !.pc = pc])
      BY <2>2
    <3>2. /\ senders' \in [Senders -> SenderType]
          /\ senders'[s].pc = pc /\ senders'[s].prior = senders[s].prior
          /\ \A t \in Senders \ {s} : senders'[t] = senders[t]
      BY <1>0, <3>1, MoveType DEF PCs
    <3>3. senders[s].prior \notin Settled
      BY <2>0 DEF IInv, Memory, ReadUnsettled, KnowsItArrived, Concludes
    <3> QED BY <3>2, <3>3 DEF Harmless, Out, Working
  <2> QED BY <1>4, <2>1, <2>2 DEF ReadControl
<1>5. ASSUME NoClaim(s) PROVE Harmless(s)
  BY <1>5, ReturnStep DEF NoClaim, At, Working
<1>6. ASSUME LockTaken(s) \/ Die(s) PROVE Harmless(s)
  BY <1>6, IdleStep DEF LockTaken, Die
<1>7. UNCHANGED <<note, city, job, allowed>>
  BY DEF Arrive, TakeLock, LockTaken, ReadUpdate, ReadControl, NoClaim, Die
<1>8. ~Arrive(s) => UNCHANGED receives
  BY DEF TakeLock, LockTaken, ReadUpdate, ReadControl, NoClaim, Die
<1> QED BY <1>0, <1>1, <1>2, <1>3, <1>4, <1>5, <1>6, <1>7, <1>8

LEMMA DecideStep ==
  ASSUME IInv, NEW s \in Senders, senders[s].pc \in Working,
         NEW v \in {"unknown", "suppressed", "sent"}, Decide(s, v),
         v = "sent" => city.notes = 1
  PROVE  Harmless(s)
<1>1. v \in Statuses /\ senders[s].prior \notin Settled
  BY DEF IInv, Memory, ReadUnsettled, KnowsItArrived, Concludes, Statuses, Settled
<1>2. /\ senders' \in [Senders -> SenderType]
      /\ senders'[s].pc = "save" /\ senders'[s].prior = senders[s].prior
      /\ senders'[s].verdict = v
      /\ \A t \in Senders \ {s} : senders'[t] = senders[t]
  BY <1>1, DecideType DEF IInv
<1> QED BY <1>1, <1>2 DEF Harmless, Out

\* Any move of a sender to a place where it neither decides nor concludes.
LEMMA MoveStep ==
  ASSUME IInv, NEW s \in Senders, NEW pc \in {"save again", "give up", "close"},
         senders[s].pc \in Working \/ pc \notin Working,
         Becomes(s, [senders[s] EXCEPT !.pc = pc]),
         pc = "save again" /\ senders[s].verdict = "sent" => city.notes = 1
  PROVE  Harmless(s)
<1>1. /\ senders' \in [Senders -> SenderType]
      /\ senders'[s].pc = pc /\ senders'[s].prior = senders[s].prior
      /\ senders'[s].verdict = senders[s].verdict
      /\ \A t \in Senders \ {s} : senders'[t] = senders[t]
  BY MoveType DEF IInv, PCs
<1>2. senders[s].pc \in Working => senders[s].prior \notin Settled
  BY DEF IInv, Memory, ReadUnsettled, KnowsItArrived, Concludes
<1> QED BY <1>1, <1>2 DEF Harmless, Out, Working

\* The actions of a sender that leave the note, the City and the job alone.
LEMMA VerdictActions ==
  ASSUME IInv, NEW s \in Senders,
         Forbidden(s) \/ LookUp(s) \/ NoAnswer(s) \/ SaveFails(s)
  PROVE  IInv'
<1> SUFFICES Harmless(s)
  <2>1. UNCHANGED <<note, city, job, allowed, receives>>
    BY DEF Forbidden, LookUp, NoAnswer, SaveFails
  <2>2. /\ receives' \in [Senders -> 0..MaxReceives]
        /\ job' \in [status : JobStatus, reason : Reasons] /\ JobAnswersForNote'
    BY <2>1 DEF IInv, TypeOK, Row, JobAnswersForNote
  <2> QED BY <2>1, <2>2, LocalStep
<1>1. ASSUME Forbidden(s) PROVE Harmless(s)
  BY <1>1, DecideStep DEF Forbidden, Working
<1>2. ASSUME LookUp(s) PROVE Harmless(s)
  <2>1. city.open \in Nat /\ city.notes \in Nat /\ city.open + city.notes <= 1
    BY DEF IInv, TypeOK, Sends
  <2>2. PICK v \in {"unknown", "sent"} :
          Decide(s, v) /\ (v = "sent" => city.notes > 0)
    BY <1>2 DEF LookUp
  <2>3. v = "sent" => city.notes = 1
    BY <2>1, <2>2
  <2>4. senders[s].pc \in Working
    BY <1>2 DEF LookUp, At, Working
  <2> QED BY <2>2, <2>3, <2>4, DecideStep
<1>3. ASSUME NoAnswer(s) PROVE Harmless(s)
  BY <1>3, DecideStep DEF NoAnswer, At, Working
<1>4. ASSUME SaveFails(s) PROVE Harmless(s)
  <2>1. senders[s].pc = "save" /\ senders[s].pc \in Working
    BY <1>4 DEF SaveFails, At, Working
  <2>2. CASE Becomes(s, [senders[s] EXCEPT !.pc = "save again"])
    <3>1. senders[s].verdict = "sent" => city.notes = 1
      BY <2>1 DEF IInv, Memory, ReadUnsettled, KnowsItArrived, Concludes
    <3> QED BY <2>1, <2>2, <3>1, MoveStep
  <2>3. CASE Return(s, FALSE, senders[s])
    BY <2>1, <2>3, ReturnStep
  <2>4. CASE Becomes(s, Idle)
    BY <2>4, IdleStep
  <2> QED BY <1>4, <2>2, <2>3, <2>4 DEF SaveFails
<1> QED BY <1>1, <1>2, <1>3, <1>4

\* A job's bookkeeping.
LEMMA JobActions ==
  ASSUME IInv, NEW s \in Senders, Finish(s) \/ Close(s)
  PROVE  IInv'
<1>0. /\ receives' \in [Senders -> 0..MaxReceives]
      /\ UNCHANGED <<note, city, allowed>>
  BY DEF IInv, TypeOK, Finish, Close
<1>1. job \in [status : JobStatus, reason : Reasons] /\ JobAnswersForNote
  BY DEF IInv, TypeOK, Row
<1>2. ASSUME Finish(s), senders[s].settled PROVE IInv'
  <2>1. Becomes(s, Idle) /\ job' = [status |-> "complete", reason |-> "none"]
    BY <1>2 DEF Finish, FinishJob
  <2>2. note.status \in {"sent", "suppressed"}
    BY <1>2 DEF IInv, Memory, ReadUnsettled, KnowsItArrived, Concludes, Finish, At
  <2>3. /\ job' \in [status : JobStatus, reason : Reasons] /\ JobAnswersForNote'
    BY <1>0, <2>1, <2>2 DEF JobStatus, Reasons, JobAnswersForNote
  <2> QED BY <1>0, <2>1, <2>3, IdleStep, LocalStep
<1>3. ASSUME Finish(s), ~senders[s].settled, senders[s].prior = "failed"
      PROVE  IInv'
  <2>1. Becomes(s, Idle) /\ job' = [status |-> "failed", reason |-> "note_rejected"]
    BY <1>3 DEF Finish, FinishJob
  <2>2. note.status = "failed"
    BY <1>3 DEF IInv, Memory, ReadUnsettled, KnowsItArrived, Concludes, Finish, At
  <2>3. /\ job' \in [status : JobStatus, reason : Reasons] /\ JobAnswersForNote'
    BY <1>0, <2>1, <2>2 DEF JobStatus, Reasons, JobAnswersForNote
  <2> QED BY <1>0, <2>1, <2>3, IdleStep, LocalStep
<1>4. ASSUME Finish(s), ~senders[s].settled, senders[s].prior # "failed"
      PROVE  IInv'
  <2>1. UNCHANGED job
    BY <1>4 DEF Finish
  <2>2. \/ Becomes(s, Idle)
        \/ \E pc \in {"give up", "close"} :
             Becomes(s, [senders[s] EXCEPT !.pc = pc])
    BY <1>4 DEF Finish
  <2>3. Harmless(s)
    BY <2>2, IdleStep, MoveStep DEF Working
  <2>4. JobAnswersForNote'
    BY <1>0, <1>1, <2>1 DEF JobAnswersForNote
  <2> QED BY <1>0, <1>1, <2>1, <2>3, <2>4, LocalStep
<1>5. ASSUME Close(s) PROVE IInv'
  <2>1. PICK reason \in {"note_not_sent", "note_delivery_unknown"} :
          Becomes(s, Idle) /\ job' = [status |-> "failed", reason |-> reason]
    BY <1>5 DEF Close, FinishJob
  <2>2. /\ job' \in [status : JobStatus, reason : Reasons] /\ JobAnswersForNote'
    BY <2>1 DEF JobStatus, Reasons, JobAnswersForNote
  <2> QED BY <1>0, <2>1, <2>2, IdleStep, LocalStep
<1> QED BY <1>2, <1>3, <1>4, <1>5

-----------------------------------------------------------------------------
(* Steps that write the row *)

\* The row takes a verdict from its sender, who then has nothing more to send.
LEMMA WriteStep ==
  ASSUME IInv, NEW s \in Senders, NEW st \in Statuses, note.status \notin Settled,
         note' = [status |-> st, lease |-> NoOne, live |-> FALSE],
         UNCHANGED <<city, job, allowed, receives>>,
         senders' \in [Senders -> SenderType],
         \A t \in Senders \ {s} : senders'[t] = senders[t],
         senders'[s].pc \in {"idle", "finish"},
         senders'[s].pc = "finish" =>
           senders'[s].prior = st
           /\ (senders'[s].settled => st \in {"sent", "suppressed"}),
         st = "sent" => city.notes = 1,
         st \in {"pending", "failed"} => NothingOut
  PROVE  IInv'
<1>1. TypeOK'
  <2>1. note' \in [status : Statuses, lease : Senders \union {NoOne}, live : BOOLEAN]
    OBVIOUS
  <2> QED BY <2>1 DEF IInv, TypeOK
<1>2. Memory'
  <2>1. ASSUME NEW t \in Senders \ {s}, senders[t].pc = "finish"
        PROVE  ~senders[t].settled /\ senders[t].prior # "failed"
    BY <2>1 DEF IInv, Memory, ReadUnsettled, KnowsItArrived, Concludes, Settled
  <2> QED BY <2>1 DEF IInv, Memory, ReadUnsettled, KnowsItArrived, Concludes, Working
<1>3. NothingOut => NothingOut'
  BY DEF NothingOut, Out
<1>4. \A t \in Senders : ~Owns(t)'
  BY NamesAssumption DEF Owns
<1>5. Sends'
  <2>1. \A t \in Senders : senders'[t].pc \in Out => t # s
    BY DEF Out
  <2>2. ASSUME NEW t \in Senders, senders'[t].pc = "send"
        PROVE  city.open = 0 /\ city.notes = 0
    BY <2>1, <2>2 DEF IInv, Sends, Out
  <2>3. \A t, u \in Senders :
          senders'[t].pc \in Out /\ senders'[u].pc \in Out => t = u
    BY <2>1 DEF IInv, Sends
  <2>4. city.open + city.notes <= 1
    BY DEF IInv, Sends
  <2> QED BY <1>3, <1>4, <2>2, <2>3, <2>4 DEF Sends
<1>6. Row'
  BY DEF IInv, Row, JobAnswersForNote, Settled
<1> QED BY <1>1, <1>2, <1>5, <1>6 DEF IInv

LEMMA SuppressAction ==
  ASSUME IInv, NEW s \in Senders, Suppress(s)
  PROVE  IInv'
<1>0. senders[s] \in SenderType /\ senders[s].pc = "suppress"
      /\ senders[s].pc \in Working
  BY DEF IInv, TypeOK, Suppress, At, Working
<1>1. CASE UNCHANGED note /\ Return(s, FALSE, senders[s])
  <2>1. /\ UNCHANGED <<note, city, job, allowed>>
        /\ receives' \in [Senders -> 0..MaxReceives]
        /\ job' \in [status : JobStatus, reason : Reasons] /\ JobAnswersForNote'
    BY <1>1 DEF IInv, TypeOK, Row, JobAnswersForNote, Suppress
  <2> QED BY <1>0, <1>1, <2>1, ReturnStep, LocalStep
<1>2. CASE /\ AsRead(s)
           /\ note' = [status |-> "suppressed", lease |-> NoOne, live |-> FALSE]
           /\ Return(s, TRUE, [senders[s] EXCEPT !.prior = "suppressed"])
  <2>1. note.status \notin Settled
    BY <1>0, <1>2 DEF IInv, Memory, ReadUnsettled, KnowsItArrived, Concludes, AsRead
  <2>2. [senders[s] EXCEPT !.prior = "suppressed"] \in SenderType
        /\ [senders[s] EXCEPT !.prior = "suppressed"].prior = "suppressed"
    BY <1>0 DEF SenderType, Statuses, Settled
  <2>3. /\ senders' \in [Senders -> SenderType]
        /\ senders'[s].pc \in {"idle", "finish"}
        /\ senders'[s].pc = "finish" =>
             senders'[s].prior = "suppressed"
        /\ \A t \in Senders \ {s} : senders'[t] = senders[t]
    BY <1>2, <2>2, ReturnType DEF IInv
  <2>4. UNCHANGED <<city, job, allowed, receives>>
    BY DEF Suppress
  <2> QED BY <1>2, <2>1, <2>3, <2>4, WriteStep DEF Statuses, Settled
<1> QED BY <1>1, <1>2 DEF Suppress

LEMMA WriteAction ==
  ASSUME IInv, NEW s \in Senders, NEW st \in Statuses, Write(s, st),
         UNCHANGED <<city, job, allowed, receives>>,
         st = "sent" => city.notes = 1,
         st \in {"pending", "failed"} => NothingOut
  PROVE  IInv'
<1>1. note.status \notin Settled
  BY DEF Write, Owns, Settled
<1>2. [senders[s] EXCEPT !.prior = st] \in SenderType
      /\ [senders[s] EXCEPT !.prior = st].prior = st
  BY DEF IInv, TypeOK, SenderType
<1> DEFINE over == st \in {"sent", "suppressed"}
<1>0. over \in BOOLEAN
  OBVIOUS
<1>a. Return(s, over, [senders[s] EXCEPT !.prior = st])
  BY DEF Write
<1>b. over => st \in {"sent", "suppressed"}
  OBVIOUS
<1> HIDE DEF over
<1>3. /\ senders' \in [Senders -> SenderType]
      /\ senders'[s].pc \in {"idle", "finish"}
      /\ senders'[s].pc = "finish" =>
           senders'[s].prior = st /\ senders'[s].settled = over
      /\ \A t \in Senders \ {s} : senders'[t] = senders[t]
  BY <1>0, <1>2, <1>a, ReturnType DEF IInv
<1>c. senders'[s].pc = "finish" =>
        senders'[s].prior = st
        /\ (senders'[s].settled => st \in {"sent", "suppressed"})
  BY <1>3, <1>b
<1>4. note' = [status |-> st, lease |-> NoOne, live |-> FALSE]
  BY DEF Write
<1> QED BY <1>1, <1>3, <1>4, <1>c, WriteStep

LEMMA SaveActions ==
  ASSUME IInv, NEW s \in Senders, Save(s) \/ SaveAgain(s)
  PROVE  IInv'
<1>1. ASSUME Save(s) PROVE IInv'
  <2>1. senders[s].pc = "save" /\ Owns(s) /\ Write(s, senders[s].verdict)
    BY <1>1 DEF Save, At, Write
  <2>2. senders[s].verdict \in Statuses
    BY DEF IInv, TypeOK, SenderType
  <2>3. senders[s].verdict = "sent" => city.notes = 1
    BY <2>1 DEF IInv, Memory, ReadUnsettled, KnowsItArrived, Concludes
  <2>4. senders[s].verdict \in {"pending", "failed"} => NothingOut
    BY <2>1 DEF IInv, Sends
  <2>5. UNCHANGED <<city, job, allowed, receives>>
    BY <1>1 DEF Save
  <2> QED BY <2>1, <2>2, <2>3, <2>4, <2>5, WriteAction
<1>2. ASSUME SaveAgain(s), Write(s, "unknown") PROVE IInv'
  BY <1>2, WriteAction DEF SaveAgain, Statuses
<1>3. ASSUME SaveAgain(s), UNCHANGED note, Return(s, FALSE, senders[s]) PROVE IInv'
  <2>1. /\ UNCHANGED <<note, city, job, allowed>>
        /\ receives' \in [Senders -> 0..MaxReceives]
        /\ job' \in [status : JobStatus, reason : Reasons] /\ JobAnswersForNote'
    BY <1>3 DEF IInv, TypeOK, Row, JobAnswersForNote, SaveAgain
  <2>2. senders[s].pc \in Working
    BY <1>3 DEF SaveAgain, At, Working
  <2> QED BY <1>3, <2>1, <2>2, ReturnStep, LocalStep
<1> QED BY <1>1, <1>2, <1>3 DEF SaveAgain

LEMMA GiveUpAction ==
  ASSUME IInv, NEW s \in Senders, GiveUp(s)
  PROVE  IInv'
<1>1. Becomes(s, [senders[s] EXCEPT !.pc = "close"])
  BY DEF GiveUp
<1>2. /\ senders' \in [Senders -> SenderType]
      /\ senders'[s].pc = "close"
      /\ \A t \in Senders \ {s} : senders'[t] = senders[t]
  BY <1>1, MoveType DEF IInv, PCs
<1>3. UNCHANGED <<city, job, allowed, receives>>
  BY DEF GiveUp
<1>4. CASE note.status = "pending"
  <2>1. note \in [status : Statuses, lease : Senders \union {NoOne}, live : BOOLEAN]
    BY DEF IInv, TypeOK
  <2>2. /\ note' \in [status : Statuses, lease : Senders \union {NoOne}, live : BOOLEAN]
        /\ note'.live = note.live /\ note'.status \in {"pending", "failed"}
    BY <1>4, <2>1 DEF GiveUp, Statuses, Settled
  <2>3. NothingOut /\ ~note.live
    BY <1>4 DEF IInv, Sends, Row
  <2>4. NothingOut'
    BY <1>2, <1>3, <2>3 DEF NothingOut, Out
  <2>5. TypeOK'
    BY <1>2, <1>3, <2>2 DEF IInv, TypeOK
  <2>6. Memory'
    <3>1. ASSUME NEW t \in Senders \ {s}, senders[t].pc = "finish"
          PROVE  ~senders[t].settled /\ senders[t].prior # "failed"
      BY <1>4, <3>1 DEF IInv, Memory, ReadUnsettled, KnowsItArrived, Concludes
    <3> QED BY <1>2, <1>3, <3>1 DEF IInv, Memory, ReadUnsettled, KnowsItArrived, Concludes, Working
  <2>7. Sends'
    BY <1>3, <2>4 DEF Sends, NothingOut, IInv
  <2>8. Row'
    BY <1>3, <1>4, <2>2, <2>3 DEF IInv, Row, JobAnswersForNote
  <2> QED BY <2>5, <2>6, <2>7, <2>8 DEF IInv
<1>5. CASE note.status # "pending"
  <2>1. Harmless(s)
    BY <1>1, MoveStep DEF Working
  <2>2. UNCHANGED note
    BY <1>5 DEF GiveUp
  <2>3. /\ receives' \in [Senders -> 0..MaxReceives]
        /\ job' \in [status : JobStatus, reason : Reasons] /\ JobAnswersForNote'
    BY <1>3, <2>2 DEF IInv, TypeOK, Row, JobAnswersForNote
  <2> QED BY <1>3, <2>1, <2>2, <2>3, LocalStep
<1> QED BY <1>4, <1>5

LEMMA ClaimAction ==
  ASSUME IInv, NEW s \in Senders, Claim(s)
  PROVE  IInv'
<1>1. PICK pc \in {"send", "feed"} :
        /\ Becomes(s, [senders[s] EXCEPT !.pc = pc])
        /\ pc = "send" => senders[s].prior = "pending"
  BY DEF Claim
<1>2. /\ senders' \in [Senders -> SenderType]
      /\ senders'[s].pc = pc /\ senders'[s].prior = senders[s].prior
      /\ \A t \in Senders \ {s} : senders'[t] = senders[t]
  BY <1>1, MoveType DEF IInv, PCs
<1>3. note' = [status |-> "sending", lease |-> s, live |-> TRUE]
      /\ UNCHANGED <<city, job, allowed, receives>>
  BY DEF Claim
<1>4. senders[s].prior \notin Settled /\ note.status = senders[s].prior
  BY DEF IInv, Memory, ReadUnsettled, KnowsItArrived, Concludes, Claim, At, Working, AsRead
<1>5. pc = "send" => NothingOut
  BY <1>1, <1>4 DEF IInv, Sends
<1>6. TypeOK'
  BY <1>2, <1>3 DEF IInv, TypeOK, Statuses, Settled
<1>7. Memory'
  <2>1. ASSUME NEW t \in Senders \ {s}, senders[t].pc = "finish"
        PROVE  ~senders[t].settled /\ senders[t].prior # "failed"
    BY <1>4, <2>1 DEF IInv, Memory, ReadUnsettled, KnowsItArrived, Concludes, Settled
  <2> QED BY <1>2, <1>3, <1>4, <2>1 DEF IInv, Memory, ReadUnsettled, KnowsItArrived, Concludes, Working
<1>8. Sends'
  <2>1. \A t, u \in Senders :
          senders'[t].pc \in Out /\ senders'[u].pc \in Out => t = u
    BY <1>2, <1>5 DEF IInv, Sends, NothingOut, Out
  <2>2. ASSUME NEW t \in Senders, senders'[t].pc = "send"
        PROVE  city.open = 0 /\ city.notes = 0
    BY <1>2, <1>5, <2>2 DEF IInv, Sends, NothingOut
  <2>3. \A t \in Senders : senders'[t].pc = "save" => ~Owns(t)'
    BY <1>2, <1>3 DEF Owns
  <2>4. city.open + city.notes <= 1
    BY DEF IInv, Sends
  <2> QED BY <1>3, <2>1, <2>2, <2>3, <2>4 DEF Sends
<1>9. Row'
  BY <1>3, <1>4 DEF IInv, Row, JobAnswersForNote, Settled
<1> QED BY <1>6, <1>7, <1>8, <1>9 DEF IInv

-----------------------------------------------------------------------------
(* The request and the City *)

\* As long as the City has no note, nobody believes it has.
LEMMA NobodyKnows ==
  ASSUME IInv, city.notes = 0
  PROVE  \A t \in Senders : senders[t].pc \in {"save", "save again"}
                             => senders[t].verdict # "sent"
<1>1. city.notes # 1
  OBVIOUS
<1>2. KnowsItArrived
  BY DEF IInv, Memory
<1> QED BY <1>1, <1>2 DEF KnowsItArrived

LEMMA SendAction ==
  ASSUME IInv, NEW s \in Senders, Send(s)
  PROVE  IInv'
<1>0. city \in [open : Nat, notes : Nat] /\ senders[s].pc = "send"
      /\ city.open = 0 /\ city.notes = 0
  BY DEF IInv, TypeOK, Sends, Send, At
<1>1. city' \in [open : Nat, notes : Nat] /\ city'.open = 1 /\ city'.notes = 0
  BY <1>0 DEF Send
<1>2. /\ senders' \in [Senders -> SenderType]
      /\ senders'[s].pc = "await" /\ senders'[s].prior = senders[s].prior
      /\ \A t \in Senders \ {s} : senders'[t] = senders[t]
  BY MoveType DEF IInv, PCs, Send
<1>3. UNCHANGED <<note, job, allowed, receives>>
  BY DEF Send
<1>4. ~NothingOut /\ note.status \notin {"pending", "failed", "sent"}
  BY <1>0 DEF IInv, Sends, Row, NothingOut, Out
<1>5. TypeOK'
  BY <1>1, <1>2, <1>3 DEF IInv, TypeOK
<1>6. Memory'
  <2>1. ReadUnsettled'
    BY <1>0, <1>2 DEF IInv, Memory, ReadUnsettled, Working
  <2>2. KnowsItArrived'
    BY <1>0, <1>2, NobodyKnows DEF KnowsItArrived
  <2>3. Concludes'
    BY <1>2, <1>3 DEF IInv, Memory, Concludes
  <2> QED BY <2>1, <2>2, <2>3 DEF Memory
<1>7. Sends'
  <2>1. \A t, u \in Senders :
          senders'[t].pc \in Out /\ senders'[u].pc \in Out => t = u
    BY <1>0, <1>2 DEF IInv, Sends, Out
  <2>2. \A t \in Senders : senders'[t].pc # "send"
    BY <1>0, <1>2 DEF IInv, Sends, Out
  <2>3. ASSUME NEW t \in Senders, senders'[t].pc = "save",
               senders'[t].verdict \in {"pending", "failed"}, Owns(t)'
        PROVE  FALSE
    BY <1>2, <1>3, <1>4, <2>3 DEF IInv, Sends, Owns
  <2> QED BY <1>1, <1>3, <1>4, <2>1, <2>2, <2>3 DEF Sends
<1>8. Row'
  BY <1>3, <1>4 DEF IInv, Row, JobAnswersForNote
<1> QED BY <1>5, <1>6, <1>7, <1>8 DEF IInv

\* The City decides: a note that was open is no more, and may have arrived.
LEMMA VerdictStep ==
  ASSUME IInv, city.open > 0,
         city' \in [open : Nat, notes : Nat], city'.open = city.open - 1,
         city'.notes \in {city.notes, city.notes + 1}
  PROVE  /\ city.open = 1 /\ city.notes = 0 /\ city'.open = 0
         /\ ~NothingOut /\ note.status \notin {"pending", "failed", "sent"}
<1>1. city \in [open : Nat, notes : Nat] /\ city.open + city.notes <= 1
  BY DEF IInv, TypeOK, Sends
<1>2. city.open = 1 /\ city.notes = 0 /\ city'.open = 0
  BY <1>1
<1> QED BY <1>2 DEF IInv, Sends, Row, NothingOut

LEMMA CountedIn ==
  ASSUME city \in [open : Nat, notes : Nat], city.open > 0,
         city' = [city EXCEPT !.open = @ - 1, !.notes = @ + 1]
  PROVE  /\ city' \in [open : Nat, notes : Nat]
         /\ city'.open = city.open - 1 /\ city'.notes = city.notes + 1
<1>1. city' = [open |-> city.open - 1, notes |-> city.notes + 1]
  OBVIOUS
<1>2. city.open - 1 \in Nat /\ city.notes + 1 \in Nat
  OBVIOUS
<1> QED BY <1>1, <1>2

LEMMA CountedOut ==
  ASSUME city \in [open : Nat, notes : Nat], city.open > 0,
         city' = [city EXCEPT !.open = @ - 1]
  PROVE  /\ city' \in [open : Nat, notes : Nat]
         /\ city'.open = city.open - 1 /\ city'.notes = city.notes
<1>1. city.open - 1 \in Nat
  OBVIOUS
<1> QED BY <1>1

LEMMA AnswerActions ==
  ASSUME IInv, NEW s \in Senders, Accepted(s) \/ Rejected(s)
  PROVE  IInv'
<1>0. city \in [open : Nat, notes : Nat] /\ city.open > 0
      /\ senders[s].pc = "await"
  BY DEF IInv, TypeOK, Accepted, Rejected, At
<1>1. PICK v \in {"sent", "failed", "pending"} :
        /\ Decide(s, v)
        /\ city' = IF v = "sent"
                     THEN [city EXCEPT !.open = @ - 1, !.notes = @ + 1]
                     ELSE [city EXCEPT !.open = @ - 1]
  BY DEF Accepted, Rejected
<1>2. /\ city' \in [open : Nat, notes : Nat] /\ city'.open = city.open - 1
      /\ city'.notes = IF v = "sent" THEN city.notes + 1 ELSE city.notes
  BY <1>0, <1>1, CountedIn, CountedOut
<1>3. /\ city.open = 1 /\ city.notes = 0 /\ city'.open = 0
      /\ ~NothingOut /\ note.status \notin {"pending", "failed", "sent"}
  BY <1>0, <1>2, VerdictStep
<1>4. /\ senders' \in [Senders -> SenderType]
      /\ senders'[s].pc = "save" /\ senders'[s].prior = senders[s].prior
      /\ senders'[s].verdict = v
      /\ \A t \in Senders \ {s} : senders'[t] = senders[t]
  BY <1>1, DecideType DEF IInv, Statuses, Settled
<1>5. UNCHANGED <<note, job, allowed, receives>>
  BY DEF Accepted, Rejected
<1>6. TypeOK'
  BY <1>2, <1>4, <1>5 DEF IInv, TypeOK
<1>7. Memory'
  <2>1. ReadUnsettled'
    BY <1>0, <1>4 DEF IInv, Memory, ReadUnsettled, Working
  <2>2. KnowsItArrived'
    <3>1. v = "sent" => city'.notes = 1
      BY <1>2, <1>3
    <3>2. \A t \in Senders \ {s} : senders[t].pc \in {"save", "save again"}
                                      => senders[t].verdict # "sent"
      BY <1>3, NobodyKnows
    <3> QED BY <1>4, <3>1, <3>2 DEF KnowsItArrived
  <2>3. Concludes'
    BY <1>4, <1>5 DEF IInv, Memory, Concludes
  <2> QED BY <2>1, <2>2, <2>3 DEF Memory
<1>8. Sends'
  <2>1. \A t \in Senders : senders'[t].pc \notin Out
    BY <1>0, <1>4 DEF IInv, Sends, Out
  <2>2. ASSUME NEW t \in Senders, senders'[t].pc = "save",
               senders'[t].verdict \in {"pending", "failed"}, Owns(t)'
        PROVE  NothingOut'
    <3>1. CASE t = s
      BY <1>2, <1>3, <1>4, <2>1, <2>2, <3>1 DEF NothingOut
    <3>2. CASE t # s
      BY <1>3, <1>4, <1>5, <2>2, <3>2 DEF IInv, Sends, Owns
    <3> QED BY <3>1, <3>2
  <2>3. city'.open + city'.notes <= 1
    BY <1>2, <1>3
  <2> QED BY <1>3, <1>5, <2>1, <2>2, <2>3 DEF Sends, Out
<1>9. Row'
  BY <1>3, <1>5 DEF IInv, Row, JobAnswersForNote
<1> QED BY <1>6, <1>7, <1>8, <1>9 DEF IInv

LEMMA CityAloneAction ==
  ASSUME IInv, CityAlone
  PROVE  IInv'
<1>0. city \in [open : Nat, notes : Nat] /\ city.open > 0
  BY DEF IInv, TypeOK, CityAlone
<1>1. /\ city' \in [open : Nat, notes : Nat] /\ city'.open = city.open - 1
      /\ city'.notes \in {city.notes, city.notes + 1}
  BY <1>0, CountedIn, CountedOut DEF CityAlone
<1>2. /\ city.open = 1 /\ city.notes = 0 /\ city'.open = 0
      /\ ~NothingOut /\ note.status \notin {"pending", "failed", "sent"}
  BY <1>0, <1>1, VerdictStep
<1>3. UNCHANGED <<note, job, allowed, senders, receives>>
  BY DEF CityAlone
<1>4. TypeOK'
  BY <1>1, <1>3 DEF IInv, TypeOK
<1>5. Memory'
  <2>1. ReadUnsettled' /\ Concludes'
    BY <1>3 DEF IInv, Memory, ReadUnsettled, Concludes
  <2>2. KnowsItArrived'
    BY <1>2, <1>3, NobodyKnows DEF KnowsItArrived
  <2> QED BY <2>1, <2>2 DEF Memory
<1>6. Sends'
  <2>1. \A t \in Senders : senders[t].pc # "send"
    BY <1>2 DEF IInv, Sends
  <2>2. \A t \in Senders : Owns(t)' <=> Owns(t)
    BY <1>3 DEF Owns
  <2>3. \A t \in Senders : ~(/\ senders[t].pc = "save"
                            /\ senders[t].verdict \in {"pending", "failed"}
                            /\ Owns(t))
    BY <1>2 DEF IInv, Sends
  <2>4. city'.open + city'.notes <= 1
    BY <1>1, <1>2
  <2> QED BY <1>2, <1>3, <2>1, <2>2, <2>3, <2>4 DEF IInv, Sends
<1>7. Row'
  BY <1>2, <1>3 DEF IInv, Row, JobAnswersForNote
<1> QED BY <1>4, <1>5, <1>6, <1>7 DEF IInv

LEMMA ClockActions ==
  ASSUME IInv, LeaseRunsOut \/ Disable
  PROVE  IInv'
<1>1. UNCHANGED <<job, senders, receives, city>> /\ allowed' \in BOOLEAN
  BY DEF IInv, TypeOK, LeaseRunsOut, Disable
<1>2. note \in [status : Statuses, lease : Senders \union {NoOne}, live : BOOLEAN]
  BY DEF IInv, TypeOK
<1>3. /\ note' \in [status : Statuses, lease : Senders \union {NoOne}, live : BOOLEAN]
      /\ note'.status = note.status /\ note'.lease = note.lease
      /\ note'.live => note.live
  BY <1>2 DEF LeaseRunsOut, Disable
<1>4. TypeOK'
  BY <1>1, <1>3 DEF IInv, TypeOK
<1>5. Memory'
  BY <1>1, <1>3 DEF IInv, Memory, ReadUnsettled, KnowsItArrived, Concludes
<1>6. Sends'
  BY <1>1, <1>3 DEF IInv, Sends, Owns, NothingOut
<1>7. Row'
  BY <1>1, <1>3 DEF IInv, Row, JobAnswersForNote
<1> QED BY <1>4, <1>5, <1>6, <1>7 DEF IInv

-----------------------------------------------------------------------------
(* The invariant, and what it gives *)

LEMMA InitIInv == Init => IInv
<1> SUFFICES ASSUME Init PROVE IInv
  OBVIOUS
<1>1. TypeOK
  <2>1. note \in [status : Statuses, lease : Senders \union {NoOne}, live : BOOLEAN]
    BY DEF Init, Statuses
  <2>2. job \in [status : JobStatus, reason : Reasons]
    BY DEF Init, JobStatus, Reasons
  <2>3. senders \in [Senders -> SenderType] /\ receives \in [Senders -> 0..MaxReceives]
    BY IdleType, ReceivesAssumption DEF Init
  <2>4. allowed \in BOOLEAN /\ city \in [open : Nat, notes : Nat]
    BY DEF Init
  <2> QED BY <2>1, <2>2, <2>3, <2>4 DEF TypeOK
<1>2. /\ \A s \in Senders : senders[s].pc = "idle"
      /\ city.open = 0 /\ city.notes = 0
  BY DEF Init, Idle
<1>3. Memory
  BY <1>2 DEF Memory, ReadUnsettled, KnowsItArrived, Concludes, Working
<1>5. Sends
  BY <1>2 DEF Sends, NothingOut, Out
<1>4. Row
  BY DEF Init, Row, JobAnswersForNote
<1> QED BY <1>1, <1>3, <1>4, <1>5 DEF IInv

LEMMA NextIInv == IInv /\ [Next]_vars => IInv'
<1> SUFFICES ASSUME IInv, [Next]_vars PROVE IInv'
  OBVIOUS
<1>1. CASE UNCHANGED vars
  BY <1>1 DEF vars, IInv, TypeOK, Memory, ReadUnsettled, KnowsItArrived, Concludes, Sends, Row, NothingOut, Owns,
              JobAnswersForNote
<1>2. ASSUME NEW s \in Senders, SenderStep(s) PROVE IInv'
  BY <1>2, StartActions, VerdictActions, JobActions, SuppressAction, SaveActions,
     GiveUpAction, ClaimAction, SendAction DEF SenderStep
<1>3. ASSUME NEW s \in Senders,
             Arrive(s) \/ Accepted(s) \/ Rejected(s) \/ Die(s)
      PROVE  IInv'
  BY <1>3, StartActions, AnswerActions
<1> QED BY <1>1, <1>2, <1>3, CityAloneAction, ClockActions DEF Next

\* IInv is an invariant of CityHelpNote.
THEOREM Invariance == Spec => []IInv
BY InitIInv, NextIInv, PTL DEF Spec

\* Every variable keeps to its type: no message is delivered too often.
THEOREM TypeCorrect == Spec => []TypeOK
<1>1. IInv => TypeOK
  BY DEF IInv
<1> QED BY <1>1, Invariance, PTL

\* cityNoteStatus is true where the app or an operator acts on it.
THEOREM StatusIsTrusted == Spec => []StatusIsTrue
<1>1. IInv => StatusIsTrue
  <2> SUFFICES ASSUME IInv PROVE StatusIsTrue
    OBVIOUS
  <2>1. note.status \in {"pending", "failed"} => city.open = 0 /\ city.notes = 0
    BY DEF IInv, Sends, NothingOut
  <2>2. note.status = "sent" => city.notes = 1
    BY DEF IInv, Row
  <2> QED BY <2>1, <2>2 DEF StatusIsTrue
<1> QED BY <1>1, Invariance, PTL

\* A finished job answers for its note.
THEOREM JobIsTrusted == Spec => []JobAnswersForNote
<1>1. IInv => JobAnswersForNote
  BY DEF IInv, Row
<1> QED BY <1>1, Invariance, PTL

\* Once settled, the delivery record is final.
THEOREM VerdictIsFinal == Spec => SettledStays
<1>1. IInv /\ [Next]_vars => [note.status \in Settled => note' = note]_vars
  <2> SUFFICES ASSUME IInv, Next, note.status \in Settled PROVE note' = note
    BY DEF vars
  <2>1. ~note.live /\ note.status \notin {"pending", "sending"}
    BY DEF IInv, Row, Settled
  <2>2. \A s \in Senders : senders[s].pc \in Working => ~AsRead(s)
    BY DEF IInv, Memory, ReadUnsettled, KnowsItArrived, Concludes, AsRead
  <2>3. ASSUME NEW s \in Senders, SenderStep(s) PROVE note' = note
    <3>1. ASSUME Suppress(s) PROVE note' = note
      BY <2>2, <3>1 DEF Suppress, At, Working
    <3>2. ASSUME Claim(s) PROVE note' = note
      BY <2>2, <3>2 DEF Claim, At, Working
    <3>3. ASSUME Save(s) \/ SaveAgain(s) PROVE note' = note
      BY <2>1, <3>3 DEF Save, SaveAgain, Write, Owns
    <3>4. ASSUME GiveUp(s) PROVE note' = note
      BY <2>1, <3>4 DEF GiveUp
    <3> QED BY <2>3, <3>1, <3>2, <3>3, <3>4
        DEF SenderStep, TakeLock, LockTaken, ReadUpdate, ReadControl, NoClaim,
            Forbidden, LookUp, Send, NoAnswer, SaveFails, Finish, Close
  <2>4. ASSUME NEW s \in Senders,
               Arrive(s) \/ Accepted(s) \/ Rejected(s) \/ Die(s)
        PROVE  note' = note
    BY <2>4 DEF Arrive, Accepted, Rejected, Die
  <2>5. ASSUME CityAlone \/ LeaseRunsOut \/ Disable PROVE note' = note
    BY <2>1, <2>5 DEF CityAlone, LeaseRunsOut, Disable
  <2> QED BY <2>3, <2>4, <2>5 DEF Next
<1> QED BY <1>1, Invariance, PTL DEF Spec, SettledStays

-----------------------------------------------------------------------------
(* CityHelpNote implements OneRequest *)

\* How the City's two counters read as the state of one request.
LEMMA RequestedIs ==
  ASSUME TypeOK
  PROVE  /\ Requested = [n \in {"note"} |-> Requested["note"]]
         /\ city.notes = 1 /\ city.open = 0 => Requested["note"] = "accepted"
         /\ city.notes = 0 /\ city.open = 1 => Requested["note"] = "asked"
         /\ city.notes = 0 /\ city.open = 0 => Requested["note"] = "nothing"
BY DEF Requested, TypeOK

LEMMA RequestedBecomes ==
  ASSUME TypeOK'
  PROVE  /\ Requested' = [n \in {"note"} |-> Requested'["note"]]
         /\ city'.notes = 1 /\ city'.open = 0 => Requested'["note"] = "accepted"
         /\ city'.notes = 0 /\ city'.open = 1 => Requested'["note"] = "asked"
         /\ city'.notes = 0 /\ city'.open = 0 => Requested'["note"] = "nothing"
BY DEF Requested, TypeOK

\* One request, one verdict: every step of CityHelpNote that the City notices is
\* a step of OneRequest.
LEMMA StepsOfOneRequest ==
  ASSUME IInv, IInv', Next
  PROVE  Abstract!Next \/ UNCHANGED Requested
<1>0. city \in [open : Nat, notes : Nat]
  BY DEF IInv, TypeOK
<1>1. CASE UNCHANGED city
  BY <1>1 DEF Requested
<1>2. ASSUME NEW s \in Senders, Send(s) PROVE Abstract!Ask("note")
  <2>1. city.open = 0 /\ city.notes = 0
    BY <1>2 DEF IInv, Sends, Send, At
  <2>2. city'.open = 1 /\ city'.notes = 0
    BY <1>0, <1>2, <2>1 DEF Send
  <2>3. Requested["note"] = "nothing" /\ Requested'["note"] = "asked"
        /\ Requested = [n \in {"note"} |-> Requested["note"]]
        /\ Requested' = [n \in {"note"} |-> Requested'["note"]]
    BY <2>1, <2>2, RequestedIs, RequestedBecomes DEF IInv
  <2> QED BY <2>3 DEF Abstract!Ask
<1>3. ASSUME city.open > 0, city' = [city EXCEPT !.open = @ - 1, !.notes = @ + 1]
      PROVE  Abstract!Accept("note")
  <2>1. city'.open = city.open - 1 /\ city'.notes = city.notes + 1
        /\ city' \in [open : Nat, notes : Nat]
    BY <1>0, <1>3, CountedIn
  <2>2. city.open = 1 /\ city.notes = 0
    BY <1>3, <2>1, VerdictStep
  <2>3. Requested["note"] = "asked" /\ Requested'["note"] = "accepted"
        /\ Requested = [n \in {"note"} |-> Requested["note"]]
        /\ Requested' = [n \in {"note"} |-> Requested'["note"]]
    BY <2>1, <2>2, RequestedIs, RequestedBecomes DEF IInv
  <2> QED BY <2>3 DEF Abstract!Accept
<1>4. ASSUME city.open > 0, city' = [city EXCEPT !.open = @ - 1]
      PROVE  Abstract!Refuse("note")
  <2>1. city'.open = city.open - 1 /\ city'.notes = city.notes
        /\ city' \in [open : Nat, notes : Nat]
    BY <1>0, <1>4, CountedOut
  <2>2. city.open = 1 /\ city.notes = 0
    BY <1>4, <2>1, VerdictStep
  <2>3. Requested["note"] = "asked" /\ Requested'["note"] = "nothing"
        /\ Requested = [n \in {"note"} |-> Requested["note"]]
        /\ Requested' = [n \in {"note"} |-> Requested'["note"]]
    BY <2>1, <2>2, RequestedIs, RequestedBecomes DEF IInv
  <2> QED BY <2>3 DEF Abstract!Refuse
<1>5. ASSUME NEW s \in Senders, Accepted(s) \/ Rejected(s)
      PROVE  /\ city.open > 0
             /\ \/ city' = [city EXCEPT !.open = @ - 1, !.notes = @ + 1]
                \/ city' = [city EXCEPT !.open = @ - 1]
  BY <1>5 DEF Accepted, Rejected
<1>6. CityAlone =>
        /\ city.open > 0
        /\ \/ city' = [city EXCEPT !.open = @ - 1, !.notes = @ + 1]
           \/ city' = [city EXCEPT !.open = @ - 1]
  BY DEF CityAlone
<1>7. \/ UNCHANGED city
      \/ CityAlone
      \/ \E s \in Senders : Send(s) \/ Accepted(s) \/ Rejected(s)
  BY DEF Next, SenderStep, Arrive, TakeLock, LockTaken, ReadUpdate, ReadControl,
         Suppress, Claim, NoClaim, Forbidden, LookUp, NoAnswer, Save, SaveFails,
         SaveAgain, Finish, GiveUp, Close, Die, LeaseRunsOut, Disable
<1> QED BY <1>1, <1>2, <1>3, <1>4, <1>5, <1>6, <1>7 DEF Abstract!Next

\* CityHelpNote implements OneRequest: the City is asked again only after it
\* refused, and never once it has the note.
THEOREM ImplementsOneRequest == Spec => NoteReachesCityOnce
<1>1. Init => Abstract!Init
  BY DEF Init, Abstract!Init, Requested
<1>2. IInv /\ IInv' /\ [Next]_vars => [Abstract!Next]_Requested
  <2> SUFFICES ASSUME IInv, IInv', [Next]_vars
               PROVE  Abstract!Next \/ UNCHANGED Requested
    OBVIOUS
  <2>1. CASE UNCHANGED vars
    BY <2>1 DEF vars, Requested
  <2> QED BY <2>1, StepsOfOneRequest
<1> QED BY <1>1, <1>2, Invariance, PTL DEF Spec, NoteReachesCityOnce, Abstract!Spec
=============================================================================
