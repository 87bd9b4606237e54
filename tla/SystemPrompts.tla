---------------------------- MODULE SystemPrompts ----------------------------
(***************************************************************************)
(* SystemPromptService and SystemPromptRepository: drafts, publication and *)
(* rollback of a versioned prompt, statement by statement and without a    *)
(* transaction, and the interviews that record the published version.      *)
(***************************************************************************)
EXTENDS AdminRecords

Versions == 1 .. Len(prompts)
Published == {v \in Versions : prompts[v].status = "PUBLISHED"}
NextVersion == Len(prompts) + 1

(* create: the unique index on the version refuses a number that is taken. *)
Free(version) == version \notin Versions
Draft(content) == Append(prompts, Version(content, "DRAFT"))

ArchiveCurrentPublished ==
  prompts' = [v \in Versions |->
    IF v \in Published THEN [prompts[v] EXCEPT !.status = "ARCHIVED"] ELSE prompts[v]]

(* publish matches a DRAFT only; the partial unique index refuses a second *)
(* published version.                                                      *)
PublishableBeside(version) == version \in Versions /\ prompts[version].status = "DRAFT"
Publishable(version) ==
  /\ version \in Versions /\ prompts[version].status = "DRAFT"
  /\ Published = {}
SetPublished(version) ==
  prompts' = [prompts EXCEPT ![version].status = "PUBLISHED", ![version].publishedAt = TRUE]

(* find: the newest version before `target` that has been published.       *)
PreviousAny(target) == 1 .. target - 1
PreviousPublished(target) == {v \in 1 .. target - 1 : prompts[v].publishedAt}
Newest(S) == CHOOSE v \in S : \A w \in S : w <= v

OtherData == <<provenance, users, taxonomy, page, desk>>
InPrompts(c, op, pc) == call[c].op = op /\ At(c, pc)

-----------------------------------------------------------------------------
(* createDraft, of content that is not blank: the next version is read ... *)
ReadNext(c) ==
  /\ At(c, "next")
  /\ call' = [call EXCEPT ![c].pc = "create", ![c].version = NextVersion]
  /\ UNCHANGED <<prompts, audit, faults, OtherData>>

(* ... and created, for the first of two that read the same.               *)
CreateDraft(c) ==
  /\ At(c, "create")
  /\ \/ /\ Free(call[c].version)
        /\ prompts' = Draft(call[c].value)
        /\ Go(c, IF call[c].op = "ROLLBACK_PROMPT" THEN "archive" ELSE "audit")
     \/ /\ ~ Free(call[c].version)
        /\ IF call[c].op = "ROLLBACK_PROMPT" THEN Go(c, "auditFailure") ELSE Respond(c, "error")
        /\ UNCHANGED prompts
  /\ UNCHANGED <<audit, faults, OtherData>>

(* publish finds its version: published already, or not a draft any more.  *)
FindDraft(c) ==
  /\ InPrompts(c, "PUBLISH_PROMPT", "find")
  /\ LET status == prompts[call[c].subject].status IN
     \/ status = "PUBLISHED" /\ Respond(c, "ok")
     \/ status = "ARCHIVED" /\ Go(c, "auditFailure")
     \/ /\ status = "DRAFT"
        /\ call' = [call EXCEPT ![c].pc = "archive", ![c].version = call[c].subject]
  /\ UNCHANGED <<prompts, audit, faults, OtherData>>

(* rollback finds its target and the versions before it.                   *)
FindTarget(c) ==
  /\ InPrompts(c, "ROLLBACK_PROMPT", "find")
  /\ Go(c, IF prompts[call[c].subject].status = "PUBLISHED" THEN "versions" ELSE "auditFailure")
  /\ UNCHANGED <<prompts, audit, faults, OtherData>>
FindPrevious(c) ==
  /\ At(c, "versions")
  /\ LET previous == PreviousPublished(call[c].subject)
     IN IF previous = {} THEN Go(c, "auditFailure")
        ELSE call' = [call EXCEPT ![c].pc = "next",
                                  ![c].value = prompts[Newest(previous)].content]
  /\ UNCHANGED <<prompts, audit, faults, OtherData>>

Archive(c) ==
  /\ At(c, "archive")
  /\ ArchiveCurrentPublished
  /\ Go(c, "publish")
  /\ UNCHANGED <<audit, faults, OtherData>>

PublishUnchecked(c) ==
  /\ At(c, "publish")
  /\ IF Publishable(call[c].version) THEN SetPublished(call[c].version) ELSE UNCHANGED prompts
  /\ Go(c, "audit")
  /\ UNCHANGED <<audit, faults, OtherData>>
Publish(c) ==
  /\ At(c, "publish")
  /\ \/ Publishable(call[c].version) /\ SetPublished(call[c].version) /\ Go(c, "audit")
     \/ ~ Publishable(call[c].version) /\ Go(c, "auditFailure") /\ UNCHANGED prompts
  /\ UNCHANGED <<audit, faults, OtherData>>

(* The request ids of these rows are fresh: no index refuses them.         *)
Audit(c) ==
  /\ At(c, "audit") /\ call[c].op \in PromptOps
  /\ audit' = audit \cup {AuditRow(0, call[c].op, "SUCCESS", call[c].version)}
  /\ Respond(c, "ok")
  /\ UNCHANGED <<prompts, faults, OtherData>>
AuditPromptFailure(c) ==
  /\ At(c, "auditFailure") /\ call[c].op \in PromptOps
  /\ audit' = audit \cup {AuditRow(0, call[c].op, "FAILURE", call[c].subject)}
  /\ Respond(c, "error")
  /\ UNCHANGED <<prompts, faults, OtherData>>

(* An interview records the version it finds published, if there is one.   *)
Lookup(c) ==
  /\ At(c, "lookup")
  /\ IF Published = {} THEN Respond(c, "ok")
     ELSE call' = [call EXCEPT ![c].pc = "record", ![c].version = Newest(Published)]
  /\ UNCHANGED <<prompts, audit, faults, OtherData>>
Record(c) ==
  /\ At(c, "record")
  /\ provenance' = call[c].version
  /\ Respond(c, "ok")
  /\ UNCHANGED <<prompts, audit, users, taxonomy, page, desk, faults>>

(* A statement fails: a failed publish or rollback is audited as such, also*)
(* when it is the audit row of its success that failed.                    *)
PromptStatementFails(c) ==
  /\ Fault("database")
  /\ \/ /\ call[c].op \in {"PUBLISH_PROMPT", "ROLLBACK_PROMPT"}
        /\ call[c].pc \in {"versions", "next", "create", "archive", "publish", "audit"}
        /\ Go(c, "auditFailure")
     \/ /\ \/ call[c].op = "CREATE_PROMPT_DRAFT" /\ call[c].pc \in {"next", "create", "audit"}
           \/ call[c].op \in PromptOps /\ call[c].pc \in {"find", "lookup", "record", "auditFailure"}
        /\ Respond(c, "error")
  /\ UNCHANGED <<prompts, audit, OtherData>>

PromptStep(c) ==
  \/ ReadNext(c) \/ CreateDraft(c) \/ FindDraft(c) \/ FindTarget(c) \/ FindPrevious(c)
  \/ Archive(c) \/ Publish(c) \/ Audit(c) \/ AuditPromptFailure(c)
  \/ Lookup(c) \/ Record(c)
=============================================================================
