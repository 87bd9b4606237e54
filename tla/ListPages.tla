------------------------------ MODULE ListPages ------------------------------
(***************************************************************************)
(* The list pages: useInterviewHistory, useAdminUsers, useAdminMetrics,    *)
(* useInterviewAnalytics and useSystemPrompts with AdminSystemPromptsPage. *)
(* Each asks the server again when its query changes; the first two ignore *)
(* the answers of effects that have been cleaned up.                       *)
(***************************************************************************)
EXTENDS AdminRecords

Is(kinds) == page.kind \in kinds
Cancels == Is({"history", "users"})
Input == page.inputs < MaxInputs
Elsewhere2 == <<prompts, provenance, users, taxonomy, audit, desk>>

(* The effect of a query: the answer to the previous one is ignored, where *)
(* the hook has a cleanup; metrics, analytics and prompts clear the error. *)
AskedAlso(p, q, refresh) ==
  [p EXCEPT !.n = @ + 1, !.asked = @ \cup {[n |-> p.n + 1, query |-> q, refresh |-> refresh]}]
AskedUncancelled(p, q, refresh) ==
  [AskedAlso(p, q, refresh) EXCEPT !.loading = @ \/ ~ Cancels, !.error = @ /\ Cancels]
Asked(p, q, refresh) ==
  LET kept == {r \in p.asked : r.refresh \/ ~ Cancels} IN
  [p EXCEPT !.n = @ + 1,
            !.asked = kept \cup {[n |-> p.n + 1, query |-> q, refresh |-> refresh]},
            !.loading = @ \/ ~ Cancels, !.error = @ /\ Cancels]
Effect(p, q) ==
  IF q = p.filters THEN p
  ELSE Asked([p EXCEPT !.filters = q], q, FALSE)

-----------------------------------------------------------------------------
(* A filter goes back to the first page.  History shows that it loads and  *)
(* forgets its error; the users' list shows that it loads.                 *)
Refined(q) == [q EXCEPT !.page = 1]
Filter ==
  /\ Input /\ Is({"history", "metrics", "analytics", "prompts"})
  /\ Is({"metrics"}) => ~ page.loading
  /\ \E t \in Terms \ {page.filters.by} :
       page' = Effect([page EXCEPT !.inputs = @ + 1, !.loading = TRUE,
                                   !.error = @ /\ ~ Is({"history"})],
                      Refined([page.filters EXCEPT !.by = t]))
  /\ UNCHANGED <<Elsewhere2, call, faults>>

FilterStatus ==
  /\ Input /\ Is({"users"})
  /\ \E t \in Terms \ {page.filters.status} :
       page' = Effect([page EXCEPT !.inputs = @ + 1, !.loading = TRUE],
                      Refined([page.filters EXCEPT !.status = t]))
  /\ UNCHANGED <<Elsewhere2, call, faults>>

(* The buttons of the pages wait for the list.                             *)
TurnPageOn ==
  /\ Input /\ Is({"history", "users"}) /\ ~ page.loading
  /\ page' = Effect([page EXCEPT !.inputs = @ + 1, !.loading = TRUE],
                    [page.filters EXCEPT !.page = @ + 1])
  /\ UNCHANGED <<Elsewhere2, call, faults>>
TurnPage ==
  /\ Input /\ Is({"history", "users"}) /\ ~ page.loading
  /\ page' = Effect([page EXCEPT !.inputs = @ + 1, !.loading = TRUE,
                                 !.error = @ /\ ~ Is({"history"})],
                    [page.filters EXCEPT !.page = 3 - @])
  /\ UNCHANGED <<Elsewhere2, call, faults>>

(* A text is searched for once it has stood for 400 ms: the timer starts   *)
(* again with each key.                                                    *)
Type ==
  /\ Input /\ Is({"users"})
  /\ \E t \in Terms \ {page.typed} :
       page' = Effect([page EXCEPT !.inputs = @ + 1, !.loading = TRUE, !.typed = t,
                                   !.retyped = @ \/ t = page.filters.by],
                      Refined(page.filters))
  /\ UNCHANGED <<Elsewhere2, call, faults>>
Debounce ==
  /\ page.typed # page.filters.by /\ Is({"users"})
  /\ page' = Effect(page, [page.filters EXCEPT !.by = page.typed])
  /\ UNCHANGED <<Elsewhere2, call, faults>>

(* The browser goes back: the address has other filters, which nothing has *)
(* announced (history is said to load if it is the query that was loading).*)
(* The other pages keep their filters out of the address.                  *)
Back ==
  /\ Input /\ Is({"history", "analytics"})
  /\ \E t \in Terms \ {page.filters.by}, loads \in {FALSE, page.loading} :
       page' = Effect([page EXCEPT !.inputs = @ + 1, !.loading = loads],
                      [page.filters EXCEPT !.by = t])
  /\ UNCHANGED <<Elsewhere2, call, faults>>

(* Retry and reload ask for the present query.                             *)
Retry ==
  /\ Input /\ \/ page.error /\ Is({"history", "analytics"})
              \/ Is({"metrics"})
  /\ page' = Asked([page EXCEPT !.inputs = @ + 1, !.loading = TRUE, !.error = FALSE],
                   page.filters, FALSE)
  /\ UNCHANGED <<Elsewhere2, call, faults>>

-----------------------------------------------------------------------------
(* An answer.  The users' list takes the page of the answer for its own,   *)
(* and asks again if that is another one.                                  *)
Arrived(r) ==
  [page EXCEPT !.asked = @ \ {r}, !.newest = IF r.n > @ THEN r.n ELSE @,
               !.actions = IF r.refresh /\ Is({"users"}) THEN {} ELSE @]
Shows(r) ==
  [Arrived(r) EXCEPT !.shown = r.query, !.loading = FALSE,
     !.error = @ /\ (~ Cancels \/ r.refresh),
     !.crossed = @ \/ r.n < page.newest \/ (r.refresh /\ r.query # page.filters)]
AnswerArrives(r) ==
  /\ r \in page.asked
  /\ page' = IF Is({"users"})
             THEN Effect(Shows(r), [page.filters EXCEPT !.page = r.query.page])
             ELSE Shows(r)
  /\ UNCHANGED <<Elsewhere2, call, faults>>
AnswerFailsSilently(r) ==
  /\ r \in page.asked
  /\ page' = [Arrived(r) EXCEPT !.error = TRUE]
  /\ UNCHANGED <<Elsewhere2, call, faults>>
AnswerFails(r) ==
  /\ r \in page.asked
  /\ page' = [Arrived(r) EXCEPT !.error = TRUE, !.loading = FALSE,
                                !.shown = IF Is({"history"}) THEN None ELSE @]
  /\ UNCHANGED <<Elsewhere2, call, faults>>

(* An action of the page has ended: the list is reloaded with the query    *)
(* that was current when the button was pressed.                           *)
Acted(act) ==
  /\ act \in page.actions /\ At(act.call, "done")
  /\ ~ \E r \in page.asked : r.refresh /\ Is({"users"})
  /\ page' =
       IF call[act.call].code = "ok"
       THEN AskedAlso([page EXCEPT !.loading = TRUE, !.error = @ /\ Is({"users"}),
                                   !.actions = IF Is({"users"}) THEN @ ELSE @ \ {act}],
                      act.query, TRUE)
       ELSE [page EXCEPT !.actions = @ \ {act}, !.error = @ \/ Is({"users"}),
                         !.loading = @ /\ ~ Is({"users"})]
  /\ UNCHANGED <<Elsewhere2, call, faults>>

PageStep ==
  \/ Debounce
  \/ \E r \in page.asked : AnswerArrives(r) \/ AnswerFails(r)
  \/ \E act \in page.actions : Acted(act)
PageInput == Filter \/ FilterStatus \/ TurnPage \/ Type \/ Back \/ Retry
=============================================================================
