-------------------------- MODULE AuditedMutations --------------------------
(***************************************************************************)
(* runAuditedMutation with the mutations it carries: AdminUserService and  *)
(* the services of roles, levels and technologies.  A mutation reads       *)
(* outside the transaction; its write and the row of its success commit    *)
(* together, under the unique index on (requestId, action).                *)
(***************************************************************************)
EXTENDS AdminRecords

Elsewhere == <<prompts, provenance, page, desk>>
HasAudit(c) == \E row \in audit : row.id = call[c].id /\ row.op = call[c].op
TakenBy(code) == {i \in Items : taxonomy[i] # None /\ taxonomy[i].code = code}

(* What the callback finds before it writes: it throws, or returns the     *)
(* document without a write, or goes on.                                   *)
Throws(c) ==
  \/ call[c].op = "LOCK_USER" /\ call[c].target = Self
  \/ call[c].op = "CREATE" /\ TakenBy(call[c].value) # {}
  \/ call[c].op = "UPDATE" /\ ~ (TakenBy(call[c].value) \subseteq {call[c].target})
AlreadySo(c) ==
  /\ call[c].op \in UserOps
  /\ users[call[c].target].status = IF call[c].op = "LOCK_USER" THEN "LOCKED" ELSE "ACTIVE"

(* What makes the transaction abort: the row of the request exists, the    *)
(* item does not, or the index on the code refuses the write.              *)
RefusedByCode(c) == call[c].op \in {"CREATE", "UPDATE"} /\ ~ (TakenBy(call[c].value) \subseteq {call[c].target})
AbortsWithoutRow(c) ==
  \/ call[c].op \in {"UPDATE", "DELETE"} /\ taxonomy[call[c].target] = None
  \/ RefusedByCode(c)
Aborts(c) ==
  \/ HasAudit(c)
  \/ call[c].op \in {"UPDATE", "DELETE"} /\ taxonomy[call[c].target] = None
  \/ RefusedByCode(c)

FailedTarget(c) == IF call[c].op = "CREATE" THEN None ELSE call[c].target

(* The write: a lock also invalidates every token of the account.          *)
ChangedUsers(c) ==
  [users EXCEPT ![call[c].target] =
     IF call[c].op = "LOCK_USER" THEN [status |-> "LOCKED", authVersion |-> @.authVersion + 1]
                                 ELSE [@ EXCEPT !.status = "ACTIVE"]]
ChangedItem(c) ==
  CASE call[c].op = "CREATE" -> [code |-> call[c].value, status |-> "ACTIVE"]
    [] call[c].op = "UPDATE" -> [taxonomy[call[c].target] EXCEPT !.code = call[c].value]
    [] call[c].op = "DELETE" -> [taxonomy[call[c].target] EXCEPT !.status = "INACTIVE"]
Write(c) ==
  /\ users' = IF call[c].op \in UserOps /\ call[c].write THEN ChangedUsers(c) ELSE users
  /\ taxonomy' = IF call[c].op \in ItemOps
                 THEN [taxonomy EXCEPT ![call[c].target] = ChangedItem(c)] ELSE taxonomy

-----------------------------------------------------------------------------
Check(c) ==
  /\ At(c, "check")
  /\ IF HasAudit(c) THEN Respond(c, "replay") ELSE Go(c, "mutate")
  /\ UNCHANGED <<users, taxonomy, audit, faults, Elsewhere>>

Mutate(c) ==
  /\ At(c, "mutate")
  /\ IF Throws(c) THEN Go(c, "recheck")
     ELSE call' = [call EXCEPT ![c].pc = "commit", ![c].write = ~ AlreadySo(c)]
  /\ UNCHANGED <<users, taxonomy, audit, faults, Elsewhere>>

(* A transaction that wrote the same document at the same time is run again*)
(* by withTransaction, from its first read.                                *)
Overlapping(c) ==
  {d \in Calls \ {c} : /\ At(d, "commit") /\ call[d].target = call[c].target
                       /\ call[c].write /\ call[d].write}
Commit(c) ==
  /\ At(c, "commit") /\ ~ Aborts(c)
  /\ Write(c)
  /\ audit' = audit \cup {AuditRow(call[c].id, call[c].op, "SUCCESS", call[c].target)}
  /\ \E again \in SUBSET Overlapping(c), told \in BOOLEAN :
       /\ \/ told /\ UNCHANGED faults
          \/ ~ told /\ Fault("unknown")
       /\ call' = [d \in Calls |->
            IF d = c /\ told THEN [call[d] EXCEPT !.pc = "done", !.code = "ok"]
            ELSE IF d = c THEN [call[d] EXCEPT !.pc = "recheck"]
            ELSE IF d \in again THEN [call[d] EXCEPT !.pc = "mutate"]
            ELSE call[d]]
  /\ UNCHANGED Elsewhere
Abort(c) ==
  /\ At(c, "commit")
  /\ \/ Aborts(c) /\ UNCHANGED faults
     \/ ~ Aborts(c) /\ Fault("database")
  /\ Go(c, "recheck")
  /\ UNCHANGED <<users, taxonomy, audit, Elsewhere>>

(* The catch block: a row tells that the request has been processed, by    *)
(* this call (whose commit was not acknowledged) or by one with its id.    *)
RecheckNothing(c) ==
  /\ At(c, "recheck")
  /\ Respond(c, "error")
  /\ UNCHANGED <<users, taxonomy, audit, faults, Elsewhere>>
Recheck(c) ==
  /\ At(c, "recheck")
  /\ IF HasAudit(c) THEN Respond(c, "replay") ELSE Go(c, "auditFailure")
  /\ UNCHANGED <<users, taxonomy, audit, faults, Elsewhere>>
AuditFailure(c) ==
  /\ At(c, "auditFailure") /\ call[c].op \in AuditedOps
  /\ IF HasAudit(c)
     THEN Respond(c, "unavailable") /\ UNCHANGED audit
     ELSE /\ audit' = audit \cup {AuditRow(call[c].id, call[c].op, "FAILURE", FailedTarget(c))}
          /\ Respond(c, "error")
  /\ UNCHANGED <<users, taxonomy, faults, Elsewhere>>

AuditStatementFails(c) ==
  /\ Fault("database")
  /\ \/ call[c].pc \in {"check", "recheck"} /\ Respond(c, "unavailable")
     \/ At(c, "auditFailure") /\ call[c].op \in AuditedOps /\ Respond(c, "unavailable")
     \/ At(c, "mutate") /\ Go(c, "recheck")
  /\ UNCHANGED <<users, taxonomy, audit, Elsewhere>>

MutationStep(c) ==
  Check(c) \/ Mutate(c) \/ Commit(c) \/ Abort(c) \/ Recheck(c) \/ AuditFailure(c)
=============================================================================
