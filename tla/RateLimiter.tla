---------------------------- MODULE RateLimiter ----------------------------
(***************************************************************************)
(* RateLimitMiddleware and ApiRateLimitRepository.consume: a counter per   *)
(* user, kind of request and fixed window.  The windows of this model are  *)
(* the days: a new day starts a new window.                                *)
(***************************************************************************)
EXTENDS InterviewRecords

Count(r) == rate[request[r].kind][request[r].window]
Counted(r) == [rate EXCEPT ![request[r].kind][request[r].window] = @ + 1]
Admit(r) ==
  request' = [request EXCEPT ![r].admitted = TRUE,
                             ![r].pc = IF request[r].kind = "generate" THEN "look" ELSE "read"]

(* An authenticated owner sends a well-formed request; the window is the   *)
(* one of the moment the limiter looks at the clock.                       *)
Arrive(r) ==
  /\ At(r, "new")
  /\ \E k \in Kinds, s \in Sessions, a \in Drafts :
       /\ session[s].version <= MaxVersion
       /\ request' = [request EXCEPT ![r] =
            [NewRequest EXCEPT !.pc = "consume", !.kind = k, !.session = s,
                               !.draft = IF k = "generate" THEN None ELSE a,
                               !.day = today, !.window = today]]
  /\ UNCHANGED <<serverVars, worker, clockVars, faults>>

(* findOneAndUpdate(key, count < limit) with upsert: counts, or meets the  *)
(* unique key, because the window is full or because another request has   *)
(* inserted the counter in between.                                        *)
Consume(r) ==
  /\ At(r, "consume")
  /\ \/ /\ Count(r) < RateLimit
        /\ rate' = Counted(r)
        /\ Admit(r)
     \/ /\ Count(r) > 0
        /\ Go(r, "reconsume")
        /\ UNCHANGED rate
  /\ UNCHANGED <<session, streamVars, quota, jobs, worker, clockVars, faults>>

(* The update without upsert decides.                                      *)
ReconsumeUnguarded(r) ==
  /\ At(r, "reconsume")
  /\ rate' = Counted(r)
  /\ Admit(r)
  /\ UNCHANGED <<session, streamVars, quota, jobs, worker, clockVars, faults>>
Reconsume(r) ==
  /\ At(r, "reconsume")
  /\ IF Count(r) < RateLimit
     THEN /\ rate' = Counted(r)
          /\ Admit(r)
     ELSE /\ Respond(r, "limited")
          /\ UNCHANGED rate
  /\ UNCHANGED <<session, streamVars, quota, jobs, worker, clockVars, faults>>

LimiterStep(r) == Consume(r) \/ Reconsume(r)
=============================================================================
