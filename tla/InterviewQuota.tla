--------------------------- MODULE InterviewQuota ---------------------------
(***************************************************************************)
(* InterviewQuotaMiddleware, InterviewQuotaService and the repository with *)
(* the statements on the quota document of the day.  The middleware runs   *)
(* before the handlers of generate and settles in listeners of the         *)
(* response.                                                               *)
(***************************************************************************)
EXTENDS InterviewRecords

(* getQuotaDate: the calendar day at the moment of the reservation.        *)
Dated(r) == [request EXCEPT ![r].day = today]
Mark(r) == quota[request[r].day].mark[request[r].session]
Marked(r, n, m) ==
  [quota EXCEPT ![request[r].day] =
     [used |-> n, mark |-> [@.mark EXCEPT ![request[r].session] = m]]]

(* The document exists after the upsert; a key that is in it passes, and   *)
(* no listener is installed.                                               *)
Look(r) ==
  /\ At(r, "look")
  /\ request' =
       [Dated(r) EXCEPT ![r].pc =
          IF quota[today].mark[request[r].session] # "NONE" THEN "read" ELSE "reserve"]
  /\ UNCHANGED <<serverVars, worker, clockVars, faults>>

(* One statement checks used < limit and the key, increments and pushes.   *)
ReserveUnlimited(r) ==
  /\ At(r, "reserve")
  /\ IF Mark(r) = "NONE"
     THEN /\ quota' = Marked(r, quota[request[r].day].used + 1, "RESERVED")
          /\ request' = [request EXCEPT ![r].pc = "read", ![r].holder = TRUE]
     ELSE /\ Go(r, "inspect")
          /\ UNCHANGED quota
  /\ UNCHANGED <<session, streamVars, rate, jobs, worker, clockVars, faults>>
Reserve(r) ==
  /\ At(r, "reserve")
  /\ IF quota[request[r].day].used < DailyLimit /\ Mark(r) = "NONE"
     THEN /\ quota' = Marked(r, quota[request[r].day].used + 1, "RESERVED")
          /\ request' = [request EXCEPT ![r].pc = "read", ![r].holder = TRUE]
     ELSE /\ Go(r, "inspect")
          /\ UNCHANGED quota
  /\ UNCHANGED <<session, streamVars, rate, jobs, worker, clockVars, faults>>

(* The update matched nothing: the key is there, or the quota is used up.  *)
Inspect(r) ==
  /\ At(r, "inspect")
  /\ IF Mark(r) # "NONE" THEN Go(r, "read") ELSE Respond(r, "limited")
  /\ UNCHANGED <<serverVars, worker, clockVars, faults>>

(* Only a RESERVED key can be committed or released.                       *)
Commit(r) == IF Mark(r) = "RESERVED"
             THEN Marked(r, quota[request[r].day].used, "COMMITTED") ELSE quota
Freed(r) == Marked(r, quota[request[r].day].used - 1, "NONE")
Release(r) == IF Mark(r) = "RESERVED" THEN Freed(r) ELSE quota

(* finish: a 2xx commits, anything else releases.                          *)
FinishWithoutRelease(r) ==
  /\ At(r, "answered")
  /\ quota' = IF request[r].holder /\ request[r].code = "ok" THEN Commit(r) ELSE quota
  /\ Go(r, "done")
  /\ UNCHANGED <<session, streamVars, rate, jobs, worker, clockVars, faults>>
Finish(r) ==
  /\ At(r, "answered")
  /\ quota' = IF ~ request[r].holder THEN quota
              ELSE IF request[r].code = "ok" THEN Commit(r) ELSE Release(r)
  /\ Go(r, "done")
  /\ UNCHANGED <<session, streamVars, rate, jobs, worker, clockVars, faults>>

(* close before finish: the client is gone; the reservation is released and*)
(* nothing settles it again, while the handler goes on.                    *)
Disconnect(r) ==
  /\ "disconnect" \in Faults /\ faults < MaxFaults
  /\ request[r].holder /\ request[r].pc \notin {"answered", "done"}
  /\ quota' = Release(r)
  /\ request' = [request EXCEPT ![r].holder = FALSE]
  /\ faults' = faults + 1
  /\ UNCHANGED <<session, streamVars, rate, jobs, worker, clockVars>>

QuotaStep(r) == Look(r) \/ Reserve(r) \/ Inspect(r) \/ Finish(r)
=============================================================================
