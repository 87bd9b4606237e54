-------------------------- MODULE OutboxDispatcher --------------------------
(***************************************************************************)
(* infrastructure/jobs/OutboxDispatcher.ts.  A dispatcher is sequential    *)
(* (the "dispatching" flag): a poll reads the stalled operations, puts     *)
(* their published outbox rows back to PENDING, then claims due rows one   *)
(* after another, enqueues an Agenda job for each and confirms or refuses  *)
(* it.  Every step is a separate statement to MongoDB and other processes  *)
(* run between them.  The lease token of a row is the dispatcher that drew *)
(* it: a dispatcher never holds two tokens at once.  attempts stops        *)
(* counting at MaxPublishAttempts, which is all the code compares it to.   *)
(***************************************************************************)
EXTENDS InterviewStore

Stalled(o) == operation[o].status \in {"PENDING", "PROCESSING"} /\ operation[o].due

(* recoverStalledPublications, the find: the operations it will act on.    *)
FindStalled(d) ==
  /\ dispatcher[d].pc = "poll"
  /\ LET found == {o \in Operations : Stalled(o)} IN
       dispatcher' = [dispatcher EXCEPT ![d] =
         [IdleDispatcher EXCEPT !.pc = IF found = {} THEN "claim" ELSE "redeliver",
                                !.stalled = found]]
  /\ UNCHANGED <<storeVars, jobs, worker, bus>>

(* recoverStalledPublications, the updateMany.                             *)
RedeliverNothing(d) ==
  /\ dispatcher[d].pc = "redeliver"
  /\ dispatcher' = [dispatcher EXCEPT ![d].pc = "claim", ![d].stalled = {}]
  /\ UNCHANGED <<storeVars, jobs, worker, bus>>

Redeliver(d) ==
  /\ dispatcher[d].pc = "redeliver"
  /\ outbox' = [o \in Operations |->
       IF /\ o \in dispatcher[d].stalled
          /\ outbox[o].status = "PUBLISHED" /\ outbox[o].due
       THEN [outbox[o] EXCEPT !.status = "PENDING", !.lease = None, !.due = TRUE]
       ELSE outbox[o]]
  /\ dispatcher' = [dispatcher EXCEPT ![d].pc = "claim", ![d].stalled = {}]
  /\ UNCHANGED <<session, questions, operation, submission, results, ledger,
                 usage, jobs, worker, bus>>

ClaimableRow(o) == outbox[o].status \in {"PENDING", "LEASED"} /\ outbox[o].due

CountedUp(n) == IF n < MaxPublishAttempts THEN n + 1 ELSE n

ClaimRow(d, o) ==
  /\ dispatcher[d].pc = "claim"
  /\ ClaimableRow(o)
  /\ outbox' = [outbox EXCEPT ![o] =
       [status |-> "LEASED", attempts |-> CountedUp(@.attempts), lease |-> d,
        due |-> FALSE]]
  /\ dispatcher' = [dispatcher EXCEPT ![d].pc = "enqueue", ![d].event = o,
                                      ![d].attempts = CountedUp(outbox[o].attempts)]
  /\ UNCHANGED <<session, questions, operation, submission, results, ledger,
                 usage, jobs, worker, bus>>

NothingDue(d) ==
  /\ dispatcher[d].pc = "claim"
  /\ ~ \E o \in Operations : ClaimableRow(o)
  /\ dispatcher' = [dispatcher EXCEPT ![d] = IdleDispatcher]
  /\ UNCHANGED <<storeVars, jobs, worker, bus>>

Enqueue(d) ==
  /\ dispatcher[d].pc = "enqueue"
  /\ jobs' = jobs \cup {dispatcher[d].event}
  /\ dispatcher' = [dispatcher EXCEPT ![d].pc = "confirm"]
  /\ UNCHANGED <<storeVars, worker, bus>>

(* The job store refuses the job, or stores it and the answer is lost.     *)
EnqueueFails(d) ==
  /\ "queue" \in Faults
  /\ dispatcher[d].pc = "enqueue"
  /\ jobs' \in {jobs, jobs \cup {dispatcher[d].event}}
  /\ dispatcher' = [dispatcher EXCEPT ![d].pc = "refused"]
  /\ UNCHANGED <<storeVars, worker, bus>>

HoldsRow(d) == LET row == outbox[dispatcher[d].event] IN
  row.status = "LEASED" /\ row.lease = d

LeaseEnds(d, status) ==
  /\ outbox' = IF HoldsRow(d)
               THEN [outbox EXCEPT ![dispatcher[d].event] =
                      [@ EXCEPT !.status = status, !.lease = None, !.due = FALSE]]
               ELSE outbox
  /\ dispatcher' = [dispatcher EXCEPT ![d] = [IdleDispatcher EXCEPT !.pc = "claim"]]
  /\ UNCHANGED <<session, questions, operation, submission, results, ledger,
                 usage, jobs, worker, bus>>

ConfirmRow(d) ==
  /\ dispatcher[d].pc = "confirm"
  /\ LeaseEnds(d, "PUBLISHED")

RefuseRow(d) ==
  /\ dispatcher[d].pc = "refused"
  /\ LeaseEnds(d, IF dispatcher[d].attempts >= MaxPublishAttempts
                  THEN "FAILED" ELSE "PENDING")

(* One turn of the sequential loop.                                        *)
DispatcherStep(d) ==
  \/ FindStalled(d)
  \/ Redeliver(d)
  \/ \E o \in Operations : ClaimRow(d, o)
  \/ NothingDue(d)
  \/ Enqueue(d)
  \/ EnqueueFails(d)
  \/ ConfirmRow(d)
  \/ RefuseRow(d)

(* The process dies between two statements and starts again.  The dispatch *)
(* that reaches MaxPublishAttempts is not cut short (bound).               *)
DispatcherCrash(d) ==
  /\ "crash" \in Faults
  /\ dispatcher[d].pc \in {"enqueue", "confirm", "refused"}
  /\ dispatcher[d].attempts < MaxPublishAttempts
  /\ dispatcher' = [dispatcher EXCEPT ![d] = IdleDispatcher]
  /\ UNCHANGED <<storeVars, jobs, worker, bus>>

(* Time passes for an outbox row: its backoff, its lease (while its holder *)
(* still works on it only if "late" is a fault), or redeliveryMs.          *)
OutboxDue(o) ==
  /\ ~ outbox[o].due
  /\ \/ outbox[o].status = "PENDING"
     \/ /\ outbox[o].status = "LEASED"
        /\ "late" \in Faults \/ \A d \in Dispatchers : dispatcher[d].event # o
     \/ outbox[o].status = "PUBLISHED"
  /\ outbox' = [outbox EXCEPT ![o].due = TRUE]
  /\ UNCHANGED <<session, questions, operation, submission, results, ledger,
                 usage, jobs, worker, dispatcher, bus>>
=============================================================================
