-------------------------- MODULE ListPages_proofs --------------------------
(***************************************************************************)
(* Proofs about the list pages of Administration, for any texts, any number*)
(* of inputs and answers, beside any calls and faults.                     *)
(*                                                                         *)
(* Part 1: what a page knows of the answers it waits for.  Part 2: the     *)
(* records a step of the page makes.  Part 3: the steps.  Part 4: the      *)
(* theorems.                                                               *)
(***************************************************************************)
EXTENDS Administration_proofs

-----------------------------------------------------------------------------
(* Part 1. *)

(* Requests are numbered as they are sent.                                 *)
Numbered(p) == p.newest <= p.n /\ \A r \in p.asked : r.n <= p.n
(* Only a page with buttons reloads its list.                              *)
Reloads(p) ==
  (p.actions # {} \/ \E r \in p.asked : r.refresh) => p.kind \in {"users", "prompts"}
Closed(p) == p.kind = "closed" => p.asked = {} /\ p.actions = {} /\ ~ p.loading
(* A page that loads has asked, or is a search whose text is not asked for.*)
Loads(p) ==
  p.loading => \/ p.asked # {}
               \/ p.kind = "users" /\ (p.retyped \/ p.typed # p.filters.by)
(* A hook with a cleanup awaits its present query, besides reloads; ...    *)
Cancelled(p) ==
  p.kind \in {"history", "users"} =>
    /\ \A r \in p.asked : r.refresh \/ r.query = p.filters
    /\ (~ p.error /\ (p.kind = "history" \/ ~ p.crossed)) =>
         p.shown = p.filters \/ p.asked # {} \/ p.actions # {}
(* ... one without shows the answer to its last request, or has it before  *)
(* it, or has taken it before an earlier one.                              *)
Awaits(p) == \E r \in p.asked : r.n = p.n
Latest(p) ==
  p.kind \in {"metrics", "analytics", "prompts"} =>
    /\ \A r \in p.asked : r.n = p.n => r.refresh \/ r.query = p.filters
    /\ p.newest = p.n \/ Awaits(p)
    /\ (~ p.error /\ ~ p.crossed) => p.shown = p.filters \/ Awaits(p)
ListOK(p) == Numbered(p) /\ Reloads(p) /\ Closed(p) /\ Loads(p) /\ Cancelled(p) /\ Latest(p)

PageInv == page \in PageState /\ ListOK(page)

-----------------------------------------------------------------------------
(* Part 2: what is asked. *)

(* A page that may ask.                                                    *)
Asks(p) ==
  /\ p \in PageState /\ p.kind = page.kind /\ p.kind # "closed"
  /\ Numbered(p) /\ Reloads(p)

(* A query that was asked is awaited, and nothing older hides it.          *)
LEMMA AskedOK ==
  ASSUME NEW p, Asks(p)
  PROVE  LET q == Asked(p, p.filters, FALSE) IN q \in PageState /\ ListOK(q)
<1> DEFINE new == [n |-> p.n + 1, query |-> p.filters, refresh |-> FALSE]
           kept == {r \in p.asked : r.refresh \/ ~ Cancels}
           asked == kept \cup {new}
           l == p.loading \/ ~ Cancels
           e == p.error /\ Cancels
           q == [p EXCEPT !.n = p.n + 1, !.asked = asked, !.loading = l, !.error = e]
<1>1. q = Asked(p, p.filters, FALSE)
  BY DEF Asked
<1>2. p.filters \in Query /\ p.asked \subseteq Request /\ p.n \in Nat /\ p.newest \in Nat
  BY DEF Asks, PageState
<1>3. new \in Request
  BY <1>2 DEF Request
<1>4. asked \in SUBSET Request /\ p.n + 1 \in Nat /\ l \in BOOLEAN /\ e \in BOOLEAN
  <2> HIDE DEF new
  <2>1. asked \in SUBSET Request
    BY <1>2, <1>3
  <2>2. l \in BOOLEAN /\ e \in BOOLEAN
    OBVIOUS
  <2> QED BY <1>2, <2>1, <2>2
<1>5. q \in PageState
  <2> HIDE DEF asked, l, e
  <2> QED BY <1>4 DEF Asks, PageState
<1>6. /\ q.kind = p.kind /\ q.filters = p.filters /\ q.asked = asked /\ q.n = p.n + 1
      /\ q.newest = p.newest /\ q.actions = p.actions
  <2> HIDE DEF asked, l, e
  <2> QED BY DEF Asks, PageState
<1>7. new \in asked /\ new.n = p.n + 1 /\ new.query = p.filters /\ ~ new.refresh
  OBVIOUS
<1>8. \A r \in asked : r = new \/ (r \in p.asked /\ (r.refresh \/ ~ Cancels))
  OBVIOUS
<1> HIDE DEF new, asked, l, e, q
<1>9. Numbered(q)
  BY <1>2, <1>4, <1>6, <1>7, <1>8 DEF Numbered, Asks, Request
<1>10. Reloads(q)
  BY <1>6, <1>7, <1>8 DEF Reloads, Asks
<1>11. Closed(q) /\ Loads(q)
  BY <1>6, <1>7 DEF Closed, Loads, Asks
<1>12. Cancelled(q)
  BY <1>6, <1>7, <1>8 DEF Cancelled, Cancels, Is, Asks
<1>13. Latest(q)
  <2>1. \A r \in asked : r.n = q.n => r = new
    <3> SUFFICES ASSUME NEW r \in asked, r.n = q.n, r \in p.asked
                 PROVE  FALSE
      BY <1>8
    <3> QED BY <1>2, <1>6 DEF Numbered, Asks, Request
  <2>2. Awaits(q)
    BY <1>6, <1>7 DEF Awaits
  <2> QED BY <1>6, <1>7, <2>1, <2>2 DEF Latest
<1> QED BY <1>1, <1>5, <1>9, <1>10, <1>11, <1>12, <1>13 DEF ListOK

LEMMA EffectOK ==
  ASSUME NEW p, Asks(p), NEW f \in Query, f # p.filters
  PROVE  Effect(p, f) \in PageState /\ ListOK(Effect(p, f))
<1> DEFINE q == [p EXCEPT !.filters = f]
<1>1. q \in PageState
  BY DEF Asks, PageState
<1>2. /\ q.kind = p.kind /\ q.filters = f /\ q.asked = p.asked /\ q.n = p.n
      /\ q.newest = p.newest /\ q.actions = p.actions
  BY DEF Asks, PageState
<1>3. Effect(p, f) = Asked(q, q.filters, FALSE)
  BY <1>2 DEF Effect
<1> HIDE DEF q
<1>4. Asks(q)
  BY <1>1, <1>2 DEF Asks, Numbered, Reloads
<1> QED BY <1>3, <1>4, AskedOK

(* A reload after an action.                                               *)
LEMMA ReloadOK ==
  ASSUME NEW p, Asks(p), p.kind \in {"users", "prompts"}, NEW f \in Query,
         \A r \in p.asked : p.kind = "users" => (r.refresh \/ r.query = p.filters)
  PROVE  LET q == AskedAlso(p, f, TRUE) IN q \in PageState /\ ListOK(q)
<1> DEFINE new == [n |-> p.n + 1, query |-> f, refresh |-> TRUE]
           asked == p.asked \cup {new}
           q == [p EXCEPT !.n = p.n + 1, !.asked = asked]
<1>1. q = AskedAlso(p, f, TRUE)
  BY DEF AskedAlso
<1>2. p.asked \subseteq Request /\ p.n \in Nat /\ p.newest \in Nat
  BY DEF Asks, PageState
<1>3. new \in Request
  BY <1>2 DEF Request
<1>4. asked \in SUBSET Request /\ p.n + 1 \in Nat
  <2> HIDE DEF new
  <2> QED BY <1>2, <1>3
<1>5. q \in PageState
  <2> HIDE DEF asked
  <2> QED BY <1>4 DEF Asks, PageState
<1>6. /\ q.kind = p.kind /\ q.filters = p.filters /\ q.asked = asked /\ q.n = p.n + 1
      /\ q.newest = p.newest /\ q.actions = p.actions
  <2> HIDE DEF asked
  <2> QED BY DEF Asks, PageState
<1>7. new \in asked /\ new.n = p.n + 1 /\ new.refresh /\ \A r \in asked : r = new \/ r \in p.asked
  OBVIOUS
<1> HIDE DEF new, asked, q
<1>8. Numbered(q) /\ Reloads(q) /\ Closed(q) /\ Loads(q)
  BY <1>2, <1>4, <1>6, <1>7 DEF Numbered, Reloads, Closed, Loads, Asks, Request
<1>9. Cancelled(q)
  BY <1>6, <1>7 DEF Cancelled
<1>10. Latest(q)
  <2>1. \A r \in asked : r.n = q.n => r = new
    <3> SUFFICES ASSUME NEW r \in asked, r.n = q.n, r \in p.asked
                 PROVE  FALSE
      BY <1>7
    <3> QED BY <1>2, <1>6 DEF Numbered, Asks, Request
  <2>2. Awaits(q)
    BY <1>6, <1>7 DEF Awaits
  <2> QED BY <1>6, <1>7, <2>1, <2>2 DEF Latest
<1> QED BY <1>1, <1>5, <1>8, <1>9, <1>10 DEF ListOK

-----------------------------------------------------------------------------
(* Part 3: the steps of a page. *)

LEMMA Bounds == MaxInputs \in Nat /\ MaxFaults \in Nat /\ MaxCalls \in Nat
BY AdminAssumption

LEMMA QueryUpdates ==
  ASSUME NEW q \in Query, NEW t \in Terms
  PROVE  /\ Refined(q) \in Query /\ Refined(q).by = q.by /\ Refined(q).status = q.status
         /\ [q EXCEPT !.by = t] \in Query /\ [q EXCEPT !.by = t].by = t
         /\ [q EXCEPT !.status = t] \in Query /\ [q EXCEPT !.status = t].status = t
<1>1. Refined(q) \in Query /\ Refined(q).by = q.by /\ Refined(q).status = q.status
  BY DEF Query, Refined
<1>2. [q EXCEPT !.by = t] \in Query /\ [q EXCEPT !.by = t].by = t
  BY DEF Query
<1>3. [q EXCEPT !.status = t] \in Query /\ [q EXCEPT !.status = t].status = t
  BY DEF Query
<1> QED BY <1>1, <1>2, <1>3

LEMMA PageUpdate ==
  ASSUME NEW q \in Query, NEW n \in 1 .. 2
  PROVE  [q EXCEPT !.page = n] \in Query /\ [q EXCEPT !.page = n].page = n
BY DEF Query

(* A page that differs only in what is typed and shown to load.            *)
Like(p) ==
  /\ p \in PageState /\ p.kind = page.kind /\ p.filters = page.filters
  /\ p.asked = page.asked /\ p.n = page.n /\ p.newest = page.newest
  /\ p.actions = page.actions

LEMMA LikeAsks ==
  ASSUME PageInv, page.kind # "closed", NEW p, Like(p)
  PROVE  Asks(p) /\ p.filters = page.filters
BY DEF PageInv, ListOK, Asks, Like, Numbered, Reloads

LEMMA FilterOK ==
  ASSUME PageInv, Filter
  PROVE  PageInv'
<1>1. PICK t \in Terms \ {page.filters.by} :
        page' = Effect([page EXCEPT !.inputs = @ + 1, !.loading = TRUE,
                                    !.error = @ /\ ~ Is({"history"})],
                       Refined([page.filters EXCEPT !.by = t]))
  BY DEF Filter
<1> DEFINE e == page.error /\ ~ Is({"history"})
           p == [page EXCEPT !.inputs = @ + 1, !.loading = TRUE, !.error = e]
           g == [page.filters EXCEPT !.by = t]
           f == Refined(g)
<1>2. page \in PageState /\ page.inputs + 1 \in 0 .. MaxInputs /\ e \in BOOLEAN
      /\ page.kind # "closed"
  BY Bounds DEF PageInv, PageState, Filter, Input, Is
<1>3. Like(p)
  <2> HIDE DEF e
  <2> QED BY <1>2 DEF Like, PageState
<1>4. f \in Query /\ f.by = t /\ f # page.filters
  <2>1. page.filters \in Query
    BY <1>2 DEF PageState
  <2>2. g \in Query /\ g.by = t
    BY <2>1, QueryUpdates
  <2> HIDE DEF g
  <2>3. f \in Query /\ f.by = t
    BY <2>2, QueryUpdates
  <2> HIDE DEF f
  <2> QED BY <2>3
<1> HIDE DEF p, f
<1>5. page' = Effect(p, f)
  BY <1>1 DEF p, f
<1> QED BY <1>2, <1>3, <1>4, <1>5, LikeAsks, EffectOK DEF PageInv

LEMMA FilterStatusOK ==
  ASSUME PageInv, FilterStatus
  PROVE  PageInv'
<1>1. PICK t \in Terms \ {page.filters.status} :
        page' = Effect([page EXCEPT !.inputs = @ + 1, !.loading = TRUE],
                       Refined([page.filters EXCEPT !.status = t]))
  BY DEF FilterStatus
<1> DEFINE p == [page EXCEPT !.inputs = @ + 1, !.loading = TRUE]
           g == [page.filters EXCEPT !.status = t]
           f == Refined(g)
<1>2. page \in PageState /\ page.inputs + 1 \in 0 .. MaxInputs /\ page.kind # "closed"
  BY Bounds DEF PageInv, PageState, FilterStatus, Input, Is
<1>3. Like(p)
  BY <1>2 DEF Like, PageState
<1>4. f \in Query /\ f.status = t /\ f # page.filters
  <2>1. page.filters \in Query
    BY <1>2 DEF PageState
  <2>2. g \in Query /\ g.status = t
    BY <2>1, QueryUpdates
  <2> HIDE DEF g
  <2>3. f \in Query /\ f.status = t
    BY <2>2, QueryUpdates
  <2> HIDE DEF f
  <2> QED BY <2>3
<1> HIDE DEF p, f
<1>5. page' = Effect(p, f)
  BY <1>1 DEF p, f
<1> QED BY <1>2, <1>3, <1>4, <1>5, LikeAsks, EffectOK DEF PageInv

LEMMA TurnPageOK ==
  ASSUME PageInv, TurnPage
  PROVE  PageInv'
<1> DEFINE e == page.error /\ ~ Is({"history"})
           n == 3 - page.filters.page
           p == [page EXCEPT !.inputs = @ + 1, !.loading = TRUE, !.error = e]
           f == [page.filters EXCEPT !.page = n]
<1>1. page \in PageState /\ page.inputs + 1 \in 0 .. MaxInputs /\ e \in BOOLEAN
      /\ page.kind # "closed"
  BY Bounds DEF PageInv, PageState, TurnPage, Input, Is
<1>2. page' = Effect(p, f)
  BY DEF TurnPage
<1>3. Like(p)
  <2> HIDE DEF e
  <2> QED BY <1>1 DEF Like, PageState
<1>4. f \in Query /\ f # page.filters
  <2>1. page.filters \in Query /\ page.filters.page \in 1 .. 2
    BY <1>1 DEF PageState, Query
  <2>2. n \in 1 .. 2 /\ n # page.filters.page
    BY <2>1
  <2> HIDE DEF n
  <2> QED BY <2>1, <2>2, PageUpdate
<1> HIDE DEF p, f
<1> QED BY <1>1, <1>2, <1>3, <1>4, LikeAsks, EffectOK DEF PageInv

LEMMA BackOK ==
  ASSUME PageInv, Back
  PROVE  PageInv'
<1>1. PICK t \in Terms \ {page.filters.by}, loads \in {FALSE, page.loading} :
        page' = Effect([page EXCEPT !.inputs = @ + 1, !.loading = loads],
                       [page.filters EXCEPT !.by = t])
  BY DEF Back
<1> DEFINE p == [page EXCEPT !.inputs = @ + 1, !.loading = loads]
           f == [page.filters EXCEPT !.by = t]
<1>2. page \in PageState /\ page.inputs + 1 \in 0 .. MaxInputs /\ page.kind # "closed"
  BY Bounds DEF PageInv, PageState, Back, Input, Is
<1>6. loads \in BOOLEAN
  BY <1>2 DEF PageState
<1>3. Like(p)
  BY <1>2, <1>6 DEF Like, PageState
<1>4. f \in Query /\ f.by = t /\ f # page.filters
  <2>1. page.filters \in Query
    BY <1>2 DEF PageState
  <2>2. f \in Query /\ f.by = t
    BY <2>1, QueryUpdates
  <2> HIDE DEF f
  <2> QED BY <2>2
<1> HIDE DEF p, f
<1>5. page' = Effect(p, f)
  BY <1>1 DEF p, f
<1> QED BY <1>2, <1>3, <1>4, <1>5, LikeAsks, EffectOK DEF PageInv

LEMMA RetryOK ==
  ASSUME PageInv, Retry
  PROVE  PageInv'
<1> DEFINE p == [page EXCEPT !.inputs = @ + 1, !.loading = TRUE, !.error = FALSE]
<1>1. page \in PageState /\ page.inputs + 1 \in 0 .. MaxInputs /\ page.kind # "closed"
  BY Bounds DEF PageInv, PageState, Retry, Input, Is
<1>2. Like(p)
  BY <1>1 DEF Like, PageState
<1>3. page' = Asked(p, page.filters, FALSE)
  BY DEF Retry
<1> HIDE DEF p
<1> QED BY <1>1, <1>2, <1>3, LikeAsks, AskedOK DEF PageInv

LEMMA DebounceOK ==
  ASSUME PageInv, Debounce
  PROVE  PageInv'
<1> DEFINE f == [page.filters EXCEPT !.by = page.typed]
<1>1. page \in PageState /\ page.kind # "closed" /\ page.typed \in Terms /\ page.filters \in Query
  BY DEF PageInv, PageState, Debounce, Is
<1>2. Like(page) /\ page' = Effect(page, f)
  BY <1>1 DEF Like, Debounce
<1>3. f \in Query /\ f.by = page.typed
  BY <1>1, QueryUpdates
<1>4. f # page.filters
  BY <1>3 DEF Debounce
<1> QED BY <1>1, <1>2, <1>3, <1>4, LikeAsks, EffectOK DEF PageInv

LEMMA LikeOK ==
  ASSUME PageInv, page.kind # "closed", NEW p, Like(p), p.shown = page.shown, Loads(p),
         ~ p.error => ~ page.error, ~ p.crossed => ~ page.crossed
  PROVE  p \in PageState /\ ListOK(p)
<1>1. Numbered(p) /\ Reloads(p) /\ Closed(p)
  BY DEF PageInv, ListOK, Like, Numbered, Reloads, Closed
<1>2. Cancelled(p)
  BY DEF PageInv, ListOK, Like, Cancelled
<1>3. Latest(p)
  BY DEF PageInv, ListOK, Like, Latest, Awaits
<1> QED BY <1>1, <1>2, <1>3 DEF ListOK, Like

LEMMA TypeTextOK ==
  ASSUME PageInv, Type
  PROVE  PageInv'
<1>1. PICK t \in Terms \ {page.typed} :
        page' = Effect([page EXCEPT !.inputs = @ + 1, !.loading = TRUE, !.typed = t,
                                    !.retyped = @ \/ t = page.filters.by],
                       Refined(page.filters))
  BY DEF Type
<1> DEFINE r == page.retyped \/ t = page.filters.by
           p == [page EXCEPT !.inputs = @ + 1, !.loading = TRUE, !.typed = t, !.retyped = r]
           f == Refined(page.filters)
<1>2. page \in PageState /\ page.inputs + 1 \in 0 .. MaxInputs /\ page.kind = "users"
  BY Bounds DEF PageInv, PageState, Type, Input, Is
<1>3. r \in BOOLEAN
  BY <1>2 DEF PageState
<1>4. Like(p) /\ p.shown = page.shown /\ p.typed = t
  <2> HIDE DEF r
  <2> QED BY <1>2, <1>3 DEF Like, PageState
<1>5. /\ p.retyped <=> r
      /\ p.error <=> page.error
      /\ p.crossed <=> page.crossed
  BY <1>2 DEF PageState
<1>6. f \in Query
  BY <1>2, QueryUpdates DEF PageState
<1> HIDE DEF p, f
<1>7. page' = Effect(p, f)
  BY <1>1 DEF p, f
<1>8. CASE f # p.filters
  BY <1>2, <1>4, <1>6, <1>7, <1>8, LikeAsks, EffectOK DEF PageInv
<1>9. CASE f = p.filters
  <2>1. page' = p
    BY <1>7, <1>9 DEF Effect
  <2>2. Loads(p)
    BY <1>2, <1>4, <1>5 DEF Loads, Like
  <2>3. page.kind # "closed"
    BY <1>2
  <2> QED BY <1>4, <1>5, <2>1, <2>2, <2>3, LikeOK DEF PageInv
<1> QED BY <1>8, <1>9

(* A button: no answer is awaited for it yet.                              *)
LEMMA PressOK ==
  ASSUME PageInv, NEW c \in Calls, Press(c)
  PROVE  PageInv'
<1> DEFINE act == [call |-> c, query |-> page.filters]
           actions == page.actions \cup {act}
           e == page.error /\ ~ Is({"users"})
           p == [page EXCEPT !.actions = actions, !.inputs = @ + 1, !.error = e]
<1>1. page' = p
  BY DEF Press
<1>2. page \in PageState /\ page.inputs + 1 \in 0 .. MaxInputs /\ e \in BOOLEAN
      /\ page.kind \in {"users", "prompts"}
  BY Bounds DEF PageInv, PageState, Press, Input, Is
<1>3. ~ page.loading
  BY DEF Press
<1>4. actions \in SUBSET [call : Calls, query : Query] /\ actions # {}
  <2>1. page.filters \in Query /\ page.actions \subseteq [call : Calls, query : Query]
    BY <1>2 DEF PageState
  <2>2. act \in [call : Calls, query : Query]
    BY <2>1
  <2> HIDE DEF act
  <2> QED BY <2>1, <2>2
<1>5. p \in PageState
  <2> HIDE DEF actions, e
  <2> QED BY <1>2, <1>4 DEF PageState
<1>6. /\ p.kind = page.kind /\ p.filters = page.filters /\ p.asked = page.asked /\ p.n = page.n
      /\ p.newest = page.newest /\ p.shown = page.shown /\ p.actions = actions
  <2> HIDE DEF actions, e
  <2> QED BY <1>2 DEF PageState
<1>7. /\ p.error <=> e
      /\ p.crossed <=> page.crossed
      /\ p.loading <=> page.loading
  <2> HIDE DEF actions
  <2>1. p.error <=> e
    BY <1>2 DEF PageState
  <2> HIDE DEF e
  <2>2. /\ p.crossed <=> page.crossed
        /\ p.loading <=> page.loading
    BY <1>2 DEF PageState
  <2> QED BY <2>1, <2>2
<1>8. p.kind = "prompts" => (p.error <=> page.error)
  BY <1>6, <1>7 DEF Is
<1> HIDE DEF p, actions, e
<1>9. Numbered(p) /\ Reloads(p) /\ Closed(p) /\ Loads(p)
  BY <1>2, <1>3, <1>6, <1>7 DEF PageInv, ListOK, Numbered, Reloads, Closed, Loads
<1>10. Cancelled(p)
  <2>1. ASSUME p.kind = "users"
        PROVE  \A r \in p.asked : r.refresh \/ r.query = p.filters
    BY <1>6, <2>1 DEF PageInv, ListOK, Cancelled
  <2> QED BY <1>2, <1>4, <1>6, <2>1 DEF Cancelled
<1>11. Latest(p)
  BY <1>2, <1>6, <1>7, <1>8 DEF PageInv, ListOK, Latest, Awaits
<1> QED BY <1>1, <1>5, <1>9, <1>10, <1>11 DEF PageInv, ListOK

(* An answer leaves the page a state of its own kind.                      *)
Emptied(p, r) ==
  /\ p \in PageState /\ p.kind = page.kind /\ p.filters = page.filters
  /\ p.asked = page.asked \ {r} /\ p.n = page.n
  /\ p.newest = IF r.n > page.newest THEN r.n ELSE page.newest
  /\ p.actions = IF r.refresh /\ Is({"users"}) THEN {} ELSE page.actions
  /\ ~ p.loading

LEMMA EmptiedOK ==
  ASSUME PageInv, NEW r \in page.asked, NEW p, Emptied(p, r)
  PROVE  /\ Asks(p) /\ Closed(p) /\ Loads(p)
         /\ (page.kind \in {"metrics", "analytics", "prompts"} => p.newest = p.n \/ Awaits(p))
<1>1. page \in PageState /\ r \in Request /\ r.n \in Nat /\ page.n \in Nat /\ page.newest \in Nat
  BY DEF PageInv, PageState, Request
<1>2. r.n <= page.n /\ page.newest <= page.n
  BY DEF PageInv, ListOK, Numbered
<1>3. page.kind # "closed"
  BY DEF PageInv, ListOK, Closed
<1>4. Numbered(p)
  BY <1>1, <1>2 DEF Emptied, PageInv, ListOK, Numbered
<1>5. Reloads(p)
  BY DEF Emptied, PageInv, ListOK, Reloads
<1>6. ASSUME page.kind \in {"metrics", "analytics", "prompts"}
      PROVE  p.newest = p.n \/ Awaits(p)
  <2>1. page.newest = page.n \/ Awaits(page)
    BY <1>6 DEF PageInv, ListOK, Latest
  <2>2. CASE r.n = page.n
    BY <1>1, <1>2, <2>2 DEF Emptied
  <2>3. CASE page.newest = page.n
    BY <1>1, <1>2, <2>3 DEF Emptied
  <2>4. CASE Awaits(page) /\ r.n # page.n
    BY <2>4 DEF Emptied, Awaits
  <2> QED BY <2>1, <2>2, <2>3, <2>4
<1> QED BY <1>3, <1>4, <1>5, <1>6 DEF Emptied, Asks, Closed, Loads

LEMMA AnswerFailsOK ==
  ASSUME PageInv, NEW r \in page.asked, AnswerFails(r)
  PROVE  PageInv'
<1> DEFINE w == IF r.n > page.newest THEN r.n ELSE page.newest
           ac == IF r.refresh /\ Is({"users"}) THEN {} ELSE page.actions
           sh == IF Is({"history"}) THEN None ELSE page.shown
           p == [page EXCEPT !.asked = page.asked \ {r}, !.newest = w, !.actions = ac,
                             !.error = TRUE, !.loading = FALSE, !.shown = sh]
<1>1. page' = p
  BY DEF AnswerFails, Arrived
<1>2. page \in PageState /\ r \in Request /\ r.n \in Nat
  BY DEF PageInv, PageState, Request
<1>3. /\ w \in Nat /\ ac \in SUBSET [call : Calls, query : Query]
      /\ sh \in Query \cup {None} /\ page.asked \ {r} \in SUBSET Request
  BY <1>2 DEF PageState
<1>4. p \in PageState
  <2> HIDE DEF w, ac, sh
  <2> QED BY <1>2, <1>3 DEF PageState
<1>5. /\ p.kind = page.kind /\ p.filters = page.filters
      /\ p.asked = page.asked \ {r} /\ p.n = page.n /\ p.newest = w /\ p.actions = ac
  <2> HIDE DEF w, ac, sh
  <2> QED BY <1>2 DEF PageState
<1>6. p.error /\ ~ p.loading
  <2> HIDE DEF w, ac, sh
  <2> QED BY <1>2 DEF PageState
<1>7. Emptied(p, r)
  <2> HIDE DEF p
  <2> QED BY <1>4, <1>5, <1>6 DEF Emptied
<1> HIDE DEF p, w, ac, sh
<1>8. Asks(p) /\ Closed(p) /\ Loads(p)
  BY <1>7, EmptiedOK
<1>9. Cancelled(p)
  BY <1>5, <1>6 DEF Cancelled, PageInv, ListOK
<1>10. Latest(p)
  <2>1. page.kind \in {"metrics", "analytics", "prompts"} => p.newest = p.n \/ Awaits(p)
    BY <1>7, EmptiedOK
  <2> QED BY <1>5, <1>6, <2>1 DEF Latest, PageInv, ListOK
<1> QED BY <1>1, <1>4, <1>8, <1>9, <1>10 DEF PageInv, ListOK, Asks

(* A page that shows an answer.                                            *)
LEMMA ShowsOK ==
  ASSUME PageInv, NEW r \in page.asked
  PROVE  /\ Emptied(Shows(r), r) /\ Shows(r).shown = r.query
         /\ (page.kind = "users" /\ page.filters # r.query) => Shows(r).crossed
         /\ ListOK(Shows(r))
<1> DEFINE w == IF r.n > page.newest THEN r.n ELSE page.newest
           ac == IF r.refresh /\ Is({"users"}) THEN {} ELSE page.actions
           e == page.error /\ (~ Cancels \/ r.refresh)
           x == page.crossed \/ r.n < page.newest \/ (r.refresh /\ r.query # page.filters)
           p == [page EXCEPT !.asked = page.asked \ {r}, !.newest = w, !.actions = ac,
                             !.shown = r.query, !.loading = FALSE, !.error = e, !.crossed = x]
<1>1. Shows(r) = p
  BY DEF Shows, Arrived
<1>2. page \in PageState /\ r \in Request /\ r.n \in Nat /\ r.query \in Query
      /\ page.n \in Nat /\ page.newest \in Nat
  BY DEF PageInv, PageState, Request
<1>3. /\ w \in Nat /\ ac \in SUBSET [call : Calls, query : Query]
      /\ page.asked \ {r} \in SUBSET Request
  BY <1>2 DEF PageState
<1>4. e \in BOOLEAN /\ x \in BOOLEAN
  BY <1>2 DEF PageState
<1>5. p \in PageState
  <2> HIDE DEF w, ac, e, x
  <2> QED BY <1>2, <1>3, <1>4 DEF PageState
<1>6. /\ p.kind = page.kind /\ p.filters = page.filters /\ p.shown = r.query
      /\ p.asked = page.asked \ {r} /\ p.n = page.n /\ p.newest = w /\ p.actions = ac
  <2> HIDE DEF w, ac, e, x
  <2> QED BY <1>2 DEF PageState
<1>7. ~ p.loading
  <2> HIDE DEF w, ac, e, x
  <2> QED BY <1>2 DEF PageState
<1>8. p.error <=> e
  <2> HIDE DEF w, ac, x
  <2> QED BY <1>2 DEF PageState
<1>9. p.crossed <=> x
  <2> HIDE DEF w, ac, e
  <2> QED BY <1>2 DEF PageState
<1>10. Emptied(p, r)
  <2> HIDE DEF p
  <2> QED BY <1>5, <1>6, <1>7 DEF Emptied
<1> HIDE DEF p, w, ac
<1>11. Asks(p) /\ Closed(p) /\ Loads(p)
  BY <1>10, EmptiedOK
<1>12. page.kind = "history" => ~ r.refresh
  BY DEF PageInv, ListOK, Reloads
<1>13. page.kind \in {"history", "users"} => r.refresh \/ r.query = page.filters
  BY DEF PageInv, ListOK, Cancelled
<1>14. (page.kind = "users" /\ page.filters # r.query) => p.crossed
  BY <1>9, <1>13
<1>15. Cancelled(p)
  <2>1. page.kind \in {"history", "users"} => \A s \in p.asked : s.refresh \/ s.query = p.filters
    BY <1>6 DEF PageInv, ListOK, Cancelled
  <2>2. page.kind = "history" => p.shown = p.filters
    BY <1>6, <1>12, <1>13
  <2>3. page.kind = "users" /\ ~ p.crossed => p.shown = p.filters
    BY <1>6, <1>14
  <2> QED BY <1>6, <2>1, <2>2, <2>3 DEF Cancelled
<1>16. Latest(p)
  <2> SUFFICES ASSUME page.kind \in {"metrics", "analytics", "prompts"}
               PROVE  /\ \A s \in p.asked : s.n = p.n => s.refresh \/ s.query = p.filters
                      /\ p.newest = p.n \/ Awaits(p)
                      /\ (~ p.error /\ ~ p.crossed) => p.shown = p.filters \/ Awaits(p)
    BY <1>6 DEF Latest
  <2>1. p.newest = p.n \/ Awaits(p)
    BY <1>10, EmptiedOK
  <2>2. \A s \in p.asked : s.n = p.n => s.refresh \/ s.query = p.filters
    BY <1>6 DEF PageInv, ListOK, Latest
  <2>3. ASSUME ~ p.error, ~ p.crossed
        PROVE  p.shown = p.filters \/ Awaits(p)
    <3>1. CASE r.n = page.n
      <4>1. r.refresh \/ r.query = page.filters
        BY <3>1 DEF PageInv, ListOK, Latest
      <4> QED BY <1>6, <1>9, <2>3, <4>1
    <3>2. CASE r.n # page.n
      <4>1. r.n < page.n /\ ~ (r.n < page.newest)
        BY <1>2, <1>9, <2>3, <3>2 DEF PageInv, ListOK, Numbered
      <4>2. Awaits(page)
        BY <1>2, <4>1 DEF PageInv, ListOK, Latest
      <4> QED BY <1>6, <3>2, <4>2 DEF Awaits
    <3> QED BY <3>1, <3>2
  <2> QED BY <2>1, <2>2, <2>3
<1> QED BY <1>1, <1>6, <1>10, <1>11, <1>14, <1>15, <1>16 DEF ListOK, Asks

LEMMA AnswerArrivesOK ==
  ASSUME PageInv, NEW r \in page.asked, AnswerArrives(r)
  PROVE  PageInv'
<1> DEFINE p == Shows(r)
           f == [page.filters EXCEPT !.page = r.query.page]
<1>1. Emptied(p, r) /\ ListOK(p)
  BY ShowsOK
<1>2. p \in PageState /\ Asks(p) /\ p.filters = page.filters
  BY <1>1, EmptiedOK DEF Emptied
<1>3. f \in Query
  <2>1. page.filters \in Query /\ r.query.page \in 1 .. 2
    BY DEF PageInv, PageState, Request, Query
  <2> QED BY <2>1, PageUpdate
<1> HIDE DEF p, f
<1>4. page' = p \/ (page' = Effect(p, f) /\ f # p.filters)
  BY <1>2 DEF AnswerArrives, Effect, p, f
<1> QED BY <1>1, <1>2, <1>3, <1>4, EffectOK DEF PageInv

LEMMA ActedOK ==
  ASSUME PageInv, call \in [Calls -> CallState], NEW act \in page.actions, Acted(act)
  PROVE  PageInv'
<1>1. page \in PageState /\ page.actions \subseteq [call : Calls, query : Query]
      /\ page.kind \in {"users", "prompts"} /\ act.query \in Query
  BY DEF PageInv, PageState, ListOK, Reloads
<1>2. CASE call[act.call].code = "ok"
  <2> DEFINE e == page.error /\ Is({"users"})
             ac == IF Is({"users"}) THEN page.actions ELSE page.actions \ {act}
             p == [page EXCEPT !.loading = TRUE, !.error = e, !.actions = ac]
  <2>1. page' = AskedAlso(p, act.query, TRUE)
    BY <1>2 DEF Acted
  <2>2. e \in BOOLEAN /\ ac \in SUBSET [call : Calls, query : Query]
    BY <1>1 DEF PageState
  <2>3. p \in PageState
    <3> HIDE DEF e, ac
    <3> QED BY <1>1, <2>2 DEF PageState
  <2>4. /\ p.kind = page.kind /\ p.filters = page.filters /\ p.asked = page.asked /\ p.n = page.n
        /\ p.newest = page.newest /\ p.shown = page.shown /\ p.actions = ac
    <3> HIDE DEF e, ac
    <3> QED BY <1>1, <2>2 DEF PageState
  <2> HIDE DEF p, e, ac
  <2>5. Asks(p)
    BY <1>1, <2>3, <2>4 DEF Asks, Numbered, Reloads, PageInv, ListOK
  <2>6. \A r \in p.asked : p.kind = "users" => (r.refresh \/ r.query = p.filters)
    BY <2>4 DEF PageInv, ListOK, Cancelled
  <2> QED BY <1>1, <2>1, <2>4, <2>5, <2>6, ReloadOK DEF PageInv
<1>3. CASE call[act.call].code # "ok"
  <2> DEFINE e == page.error \/ Is({"users"})
             l == page.loading /\ ~ Is({"users"})
             p == [page EXCEPT !.actions = page.actions \ {act}, !.error = e, !.loading = l]
  <2>1. page' = p
    BY <1>3 DEF Acted
  <2>2. e \in BOOLEAN /\ l \in BOOLEAN
    BY <1>1 DEF PageState
  <2>3. p \in PageState
    <3> HIDE DEF e, l
    <3> QED BY <1>1, <2>2 DEF PageState
  <2>4. /\ p.kind = page.kind /\ p.filters = page.filters /\ p.asked = page.asked /\ p.n = page.n
        /\ p.newest = page.newest /\ p.shown = page.shown /\ p.actions = page.actions \ {act}
    <3> HIDE DEF e, l
    <3> QED BY <1>1 DEF PageState
  <2>5. p.error <=> e
    <3> HIDE DEF l
    <3> QED BY <1>1 DEF PageState
  <2>6. p.loading <=> l
    <3> HIDE DEF e
    <3> QED BY <1>1 DEF PageState
  <2>7. p.crossed <=> page.crossed
    <3> HIDE DEF e, l
    <3> QED BY <1>1 DEF PageState
  <2> HIDE DEF p
  <2>8. Numbered(p) /\ Reloads(p) /\ Closed(p)
    BY <1>1, <2>4 DEF PageInv, ListOK, Numbered, Reloads, Closed
  <2>9. Loads(p)
    BY <1>1, <2>4, <2>6 DEF PageInv, ListOK, Loads, Is
  <2>10. Cancelled(p)
    BY <1>1, <2>4, <2>5 DEF PageInv, ListOK, Cancelled, Is
  <2>11. Latest(p)
    BY <1>1, <2>4, <2>5, <2>7 DEF PageInv, ListOK, Latest, Awaits
  <2> QED BY <2>1, <2>3, <2>8, <2>9, <2>10, <2>11 DEF PageInv, ListOK
<1> QED BY <1>2, <1>3

-----------------------------------------------------------------------------
(* Part 4: the theorems. *)

LEMMA PageInit == Init => PageInv
<1> SUFFICES ASSUME Init PROVE PageInv
  OBVIOUS
<1>1. FirstQuery \in Query
  BY AdminAssumption DEF FirstQuery, Query
<1>2. PICK kind \in PageKinds :
        page = IF kind = "closed"
               THEN [Opened(kind, FirstQuery) EXCEPT !.asked = {}, !.loading = FALSE]
               ELSE Opened(kind, FirstQuery)
  BY DEF Init
<1> DEFINE first == [n |-> 1, query |-> FirstQuery, refresh |-> FALSE]
           asked == IF kind = "closed" THEN {} ELSE {first}
           l == kind # "closed"
           p == [kind |-> kind, filters |-> FirstQuery, typed |-> FirstQuery.by,
                 asked |-> asked, n |-> 1, newest |-> 0, shown |-> None, loading |-> l,
                 error |-> FALSE, actions |-> {}, inputs |-> 0, crossed |-> FALSE,
                 retyped |-> FALSE]
<1>3. page = p
  BY <1>2 DEF Opened
<1>4. first \in Request
  BY <1>1 DEF Request
<1>5. asked \in SUBSET Request /\ l \in BOOLEAN
  <2> HIDE DEF first
  <2> QED BY <1>4
<1>6. \A r \in asked : r.n = 1 /\ r.query = FirstQuery /\ ~ r.refresh
  OBVIOUS
<1>7. kind = "closed" => (asked = {} /\ ~ l)
  OBVIOUS
<1>8. kind # "closed" => \E r \in asked : r.n = 1
  BY DEF asked, first
<1>9. FirstQuery.by \in Terms /\ 0 \in 0 .. MaxInputs
  BY <1>1, Bounds DEF Query
<1> HIDE DEF first, asked, l
<1>10. p \in PageState
  BY <1>1, <1>5, <1>9 DEF PageState
<1>11. Numbered(p) /\ Reloads(p) /\ Closed(p)
  BY <1>6, <1>7 DEF Numbered, Reloads, Closed
<1>12. Loads(p) /\ Cancelled(p)
  BY <1>6, <1>7, <1>8 DEF Loads, Cancelled
<1>13. Latest(p)
  BY <1>6, <1>8 DEF Latest, Awaits
<1> QED BY <1>3, <1>10, <1>11, <1>12, <1>13 DEF PageInv, ListOK

(* The calls and the server leave the page alone.                          *)
LEMMA PageStays ==
  ASSUME Next, ~ PageStep, ~ PageInput, \A c \in Calls : ~ Press(c)
  PROVE  page' = page
<1>1. ASSUME NEW c \in Calls, PromptStep(c) \/ PromptStatementFails(c)
      PROVE  page' = page
  BY <1>1 DEF PromptStep, ReadNext, CreateDraft, FindDraft, FindTarget, FindPrevious, Archive,
     Publish, Audit, AuditPromptFailure, Lookup, Record, PromptStatementFails, OtherData
<1>2. ASSUME NEW c \in Calls, MutationStep(c) \/ AuditStatementFails(c)
      PROVE  page' = page
  BY <1>2 DEF MutationStep, AuditStatementFails, Check, Mutate, Commit, Abort, Recheck,
     AuditFailure, Elsewhere
<1>3. ASSUME NEW c \in Calls, Send(c) \/ \E d \in Calls : Resend(c, d)
      PROVE  page' = page
  BY <1>3 DEF Send, Resend
<1>4. ASSUME Crash \/ Rest
      PROVE  page' = page
  BY <1>4 DEF Crash, Rest, vars
<1> QED BY <1>1, <1>2, <1>3, <1>4 DEF Next, CallStep

LEMMA PageSteps ==
  ASSUME IInv, PageInv, [Next]_vars
  PROVE  PageInv'
<1>1. call \in [Calls -> CallState]
  BY DEF IInv, CallsOK
<1>2. CASE PageStep
  BY <1>1, <1>2, DebounceOK, AnswerArrivesOK, AnswerFailsOK, ActedOK DEF PageStep
<1>3. CASE PageInput
  BY <1>3, FilterOK, FilterStatusOK, TurnPageOK, TypeTextOK, BackOK, RetryOK DEF PageInput
<1>4. CASE \E c \in Calls : Press(c)
  BY <1>4, PressOK
<1>5. CASE page' = page
  BY <1>5 DEF PageInv
<1> QED BY <1>2, <1>3, <1>4, <1>5, PageStays DEF vars

LEMMA PagesStand == Spec => [](IInv /\ PageInv)
BY Invariance, PageInit, PageSteps, PTL DEF Spec

FaultsOK == faults \in 0 .. MaxFaults

LEMMA FaultsBounded == Spec => []FaultsOK
<1>1. Init => FaultsOK
  BY Bounds DEF Init, FaultsOK
<1>2. ASSUME FaultsOK, [Next]_vars
      PROVE  FaultsOK'
  <2>1. ASSUME faults' = faults \/ \E kind \in FaultKinds : Fault(kind)
        PROVE  FaultsOK'
    BY <1>2, <2>1, Bounds DEF Fault, FaultsOK
  <2>2. ASSUME NEW c \in Calls, PromptStep(c) \/ PromptStatementFails(c)
        PROVE  FaultsOK'
    BY <2>1, <2>2 DEF PromptStep, ReadNext, CreateDraft, FindDraft, FindTarget, FindPrevious,
       Archive, Publish, Audit, AuditPromptFailure, Lookup, Record, PromptStatementFails,
       FaultKinds
  <2>3. ASSUME NEW c \in Calls, MutationStep(c) \/ AuditStatementFails(c)
        PROVE  FaultsOK'
    BY <2>1, <2>3 DEF MutationStep, AuditStatementFails, Check, Mutate, Commit, Abort, Recheck,
       AuditFailure, FaultKinds
  <2>4. ASSUME NEW c \in Calls, Send(c) \/ Press(c) \/ \E d \in Calls : Resend(c, d)
        PROVE  FaultsOK'
    BY <2>1, <2>4 DEF Send, Press, Resend, FaultKinds
  <2>5. CASE PageStep \/ PageInput \/ Crash \/ Rest \/ UNCHANGED vars
    BY <2>1, <2>5, PageLeaves DEF Crash, Rest, vars, FaultKinds
  <2> QED BY <1>2, <2>2, <2>3, <2>4, <2>5 DEF Next, CallStep
<1> QED BY <1>1, <1>2, PTL DEF Spec

(* Every document, row and state has the shape its schema gives it, for any *)
(* sets of accounts, items and contents and any faults.                    *)
THEOREM TypeCorrect == Spec => []TypeOK
<1>1. IInv /\ PageInv /\ FaultsOK => TypeOK
  <2> SUFFICES ASSUME IInv, PageInv, FaultsOK
               PROVE  TypeOK
    OBVIOUS
  <2>1. prompts \in Seq(PromptDoc) /\ call \in [Calls -> CallState]
    BY DEF IInv, CallsOK, VersionsOK
  <2>2. provenance \in Nat
    <3>1. Len(prompts) \in Nat
      BY <2>1
    <3> QED BY <3>1 DEF IInv, Log, PublicationsTrue, Versions
  <2> QED BY <2>1, <2>2 DEF IInv, Documents, Data, PageInv, FaultsOK, TypeOK
<1> QED BY <1>1, PagesStand, FaultsBounded, PTL

(* A page that has settled shows what its filters say, whatever order the  *)
(* answers came in and whatever was clicked between.                       *)
THEOREM SettledListsAreCurrent == Spec => []SettledListIsCurrent
<1>1. PageInv => SettledListIsCurrent
  <2> SUFFICES ASSUME PageInv, page.kind # "closed", page.asked = {}, page.actions = {},
                      ~ page.error, page.kind = "history" \/ ~ page.crossed
               PROVE  page.shown = page.filters
    BY DEF SettledListIsCurrent, Is
  <2>1. page.kind \in AllPageKinds
    BY AdminAssumption DEF PageInv, PageState
  <2>2. CASE page.kind \in {"history", "users"}
    BY <2>2 DEF PageInv, ListOK, Cancelled
  <2>3. CASE page.kind \in {"metrics", "analytics", "prompts"}
    BY <2>3 DEF PageInv, ListOK, Latest, Awaits
  <2> QED BY <2>1, <2>2, <2>3 DEF AllPageKinds
<1> QED BY <1>1, PagesStand, PTL

(* A page that loads waits for an answer or for the timer of its search,   *)
(* unless a text was typed and undone.                                     *)
THEOREM LoadingHasEnd == Spec => []LoadingEnds
<1>1. PageInv => LoadingEnds
  BY DEF PageInv, ListOK, Loads, LoadingEnds, Is
<1> QED BY <1>1, PagesStand, PTL
=============================================================================
