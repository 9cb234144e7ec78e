----------------------------- MODULE DeferredSlot -----------------------------
(***************************************************************************)
(* What the deferred-play mailbox promises: one start at a time is         *)
(* admitted, claimed once by a worker, started at most once and only       *)
(* after a grant that a cancelled start never receives, and reported as    *)
(* succeeded exactly if it was started.                                    *)
(***************************************************************************)
EXTENDS Naturals

CONSTANT Bound  \* number of tickets

VARIABLES
  status,   \* of the mailbox
  ticket,   \* the admission in the mailbox, 0 if it is empty
  holder,   \* the admission the worker holds, 0 if it holds none
  granted,  \* the worker was told to start what it holds
  begun     \* the admissions that were started

slotState == <<status, ticket, holder, granted, begun>>

InitSlot ==
  status = "none" /\ ticket = 0 /\ holder = 0 /\ granted = FALSE /\ begun = {}

Admit ==
  /\ status = "none" /\ status' = "queued"
  /\ ticket' \in 1..Bound /\ ticket' # holder /\ ticket' \notin begun
  /\ UNCHANGED <<holder, granted, begun>>

Withdraw ==
  /\ status \in {"queued", "running"} /\ status' = "cancelled"
  /\ UNCHANGED <<ticket, holder, granted, begun>>

Release ==
  /\ status \in {"succeeded", "failed", "cancelled"}
  /\ status' = "none" /\ ticket' = 0
  /\ UNCHANGED <<holder, granted, begun>>

Take ==
  /\ status = "queued" /\ holder = 0
  /\ status' = "running" /\ holder' = ticket
  /\ UNCHANGED <<ticket, granted, begun>>

Grant ==
  /\ status = "running" /\ holder = ticket /\ ~granted /\ holder \notin begun
  /\ granted' = TRUE
  /\ UNCHANGED <<status, ticket, holder, begun>>

(* The grant is used up, by a start or by a start that failed.             *)
Begin ==
  /\ granted /\ granted' = FALSE
  /\ \/ begun' = begun \union {holder}
     \/ UNCHANGED begun
  /\ UNCHANGED <<status, ticket, holder>>

Settle ==
  /\ holder # 0 /\ ~granted /\ holder' = 0
  /\ status' = IF status = "running" /\ holder = ticket
                 THEN IF holder \in begun THEN "succeeded" ELSE "failed"
                 ELSE status
  /\ UNCHANGED <<ticket, granted, begun>>

NextSlot ==
  Admit \/ Withdraw \/ Release \/ Take \/ Grant \/ Begin \/ Settle

SlotSpec == InitSlot /\ [][NextSlot]_slotState
=============================================================================
