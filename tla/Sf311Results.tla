------------------------------ MODULE Sf311Results ------------------------------
(***************************************************************************)
(* The durable record of one 311 filing: for every service code of the     *)
(* filing's frozen plan, what is known about its City ticket.  The task    *)
(* row, the job row and the SF311_LOCK row each hold such a record          *)
(* (payload.tickets of a create_311_ticket result), and the worker merges  *)
(* them.  Only the facts that steer the control flow are kept:              *)
(*   st   none      no entry for this service code                          *)
(*        pending   creationState "pending": intent saved, outcome unknown  *)
(*        rejected  creationState "rejected": the HUB said no               *)
(*        filed     the entry carries an srNum                              *)
(*   img  none / pending / sent, the entry of the task's one photo in the   *)
(*        ticket's attachments ("submitted" is called sent here).           *)
(***************************************************************************)
EXTENDS Naturals

CONSTANT NumCodes   \* how many service codes the filing's plan names

ASSUME NumCodesAssumption == NumCodes \in Nat \ {0}

Codes == 1..NumCodes

TicketStates == {"none", "pending", "rejected", "filed"}
ImageStates == {"none", "pending", "sent"}
Ticket == [st : TicketStates, img : ImageStates]
Tickets == [Codes -> Ticket]

NoTicket == [st |-> "none", img |-> "none"]
NoTickets == [c \in Codes |-> NoTicket]

\* The entry mergeBackgroundResult keeps for one service code: a later entry
\* replaces an earlier one, except that one without an srNum never replaces
\* one that has it.
MergeTicket(before, after) ==
  IF after.st = "none" \/ (before.st = "filed" /\ after.st # "filed")
    THEN before
    ELSE after

MergeTickets(before, after) ==
  [c \in Codes |-> MergeTicket(before[c], after[c])]
=============================================================================
