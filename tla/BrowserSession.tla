--------------------------- MODULE BrowserSession ---------------------------
(***************************************************************************)
(* client/src/auth: what a tab keeps of its session and how its calls use  *)
(* it.  A refused call starts the one shared refresh of its tab, or awaits *)
(* the one under way, and is sent again with the new access token.         *)
(***************************************************************************)
EXTENDS PasswordRecovery

Free == {k \in Calls : call[k].pc = "free"}
CallsOf(c) == {k \in Calls : call[k].tab = c}
Pending(c, kinds) == {k \in CallsOf(c) : call[k].kind \in kinds}
NextFree == CHOOSE k \in Free : \A j \in Free : k <= j

(* A call leaves a slot for the refresh it may need.                       *)
RoomForCall == Cardinality(Free) >= 2

Sent(c, kind, t) ==
  [pc |-> "sent", kind |-> kind, tab |-> c, token |-> t,
   credential |-> IF kind \in {"api", "profile", "change"} THEN tab[c].access ELSE None,
   retry |-> TRUE, status |-> None]

SignedOut(c) == [tab EXCEPT ![c].refresh = None, ![c].access = None, ![c].user = FALSE]
SignedIn(c, t) == [tab EXCEPT ![c] = [refresh |-> t, access |-> token[t].credential,
                                      user |-> TRUE, ready |-> TRUE]]

Keeping == UNCHANGED <<account, token, rate, code, mailbox, asker, resetter>>
Harmless == UNCHANGED mishaps
Mishap(m) == CanHappen(m) /\ mishaps' = mishaps + 1

(* A sign-in or sign-out that overlaps with other calls of its tab is a    *)
(* mishap of the candidate's timing, whichever of the two starts first.    *)
Alone(c, kind) ==
  IF \/ kind \in Forms \cup {"logout", "change"} /\ CallsOf(c) # {}
     \/ Pending(c, {"logout", "change"}) # {}
  THEN Mishap("overlap") ELSE Harmless

-----------------------------------------------------------------------------
(* Login, registration and Google button of a guest; each is disabled while*)
(* its own call is under way.                                              *)
SubmitForm(c, kind) ==
  /\ tab[c].ready /\ ~ tab[c].user /\ Pending(c, {kind}) = {}
  /\ RoomForCall
  /\ call' = [call EXCEPT ![NextFree] = Sent(c, kind, None)]
  /\ Alone(c, kind) /\ UNCHANGED tab /\ Keeping

SubmitLogin(c) == SubmitForm(c, "login")
SubmitRegistration(c) == SubmitForm(c, "register")
PressGoogle(c) == SubmitForm(c, "google")

(* A page asks for data, the profile page for the user it then shows.      *)
CallApi(c, kind) ==
  /\ tab[c].ready /\ tab[c].user /\ RoomForCall
  /\ kind = "change" => Pending(c, {"change"}) = {}
  /\ call' = [call EXCEPT ![NextFree] = Sent(c, kind, None)]
  /\ Alone(c, kind) /\ UNCHANGED tab /\ Keeping

AskData(c) == CallApi(c, "api")
LoadProfile(c) == CallApi(c, "profile")
SubmitChange(c) == CallApi(c, "change")

Logout(c) ==
  /\ tab[c].user
  /\ IF tab[c].refresh # None
     THEN /\ RoomForCall
          /\ call' = [call EXCEPT ![NextFree] = Sent(c, "logout", tab[c].refresh)]
          /\ UNCHANGED tab
     ELSE tab' = SignedOut(c) /\ UNCHANGED call
  /\ Alone(c, "logout") /\ Keeping

(* A page load: memory and promises are gone, requests are still on their  *)
(* way; AuthBootstrap refreshes if sessionStorage holds a token.           *)
Dropped(c) ==
  [k \in Calls |-> IF call[k].tab # c THEN call[k]
                   ELSE IF call[k].pc \in {"sent", "checked"}
                        THEN [call[k] EXCEPT !.tab = None] ELSE FreeCall]
Reload(c) ==
  /\ Mishap("reload")
  /\ call' = Dropped(c)
  /\ tab' = [tab EXCEPT ![c].access = None, ![c].user = FALSE,
                        ![c].ready = (tab[c].refresh = None)]
  /\ Keeping

(* A duplicated tab starts with a copy of sessionStorage.                  *)
DuplicateTab(c, d) ==
  /\ tab[c].refresh # None /\ tab[d] = EmptyTab /\ CallsOf(d) = {}
  /\ Mishap("duplicate")
  /\ tab' = [tab EXCEPT ![d].refresh = tab[c].refresh, ![d].ready = FALSE]
  /\ UNCHANGED call /\ Keeping

Bootstrap(c) ==
  /\ ~ tab[c].ready /\ tab[c].refresh # None
  /\ Pending(c, {"refresh"}) = {} /\ Free # {}
  /\ call' = [call EXCEPT ![NextFree] = Sent(c, "refresh", tab[c].refresh)]
  /\ UNCHANGED tab /\ Harmless /\ Keeping

-----------------------------------------------------------------------------
(* The answer of a call, or its failure; `rest` is what is left of it.     *)

(* refreshSession is awaited by a refused call: it joins the refresh under *)
(* way, starts one, or finds no token and ends the session.                *)
AwaitRefresh(c, k, rest) ==
  IF Pending(c, {"refresh"}) # {}
  THEN /\ call' = [call EXCEPT ![k].pc = "waiting", ![k].status = None]
       /\ UNCHANGED tab
  ELSE IF tab[c].refresh = None
  THEN call' = [call EXCEPT ![k] = rest] /\ tab' = SignedOut(c)
  ELSE /\ Free # {}
       /\ call' = [call EXCEPT ![k].pc = "waiting", ![k].status = None,
                               ![NextFree] = Sent(c, "refresh", tab[c].refresh)]
       /\ UNCHANGED tab

(* The refresh ends for every call that awaits it.                         *)
\* Mutant: the page is opened only by a refresh that succeeds.
RefreshEndsUnready(c, k, ok, rest) ==
  /\ tab' = IF ok THEN SignedIn(c, call[k].token) ELSE SignedOut(c)
  /\ call' = [j \in Calls |->
       IF j = k THEN rest
       ELSE IF call[j].tab = c /\ call[j].pc = "waiting" THEN FreeCall ELSE call[j]]
RefreshEnds(c, k, ok, rest) ==
  LET after == IF ok THEN SignedIn(c, call[k].token) ELSE SignedOut(c) IN
  /\ tab' = [after EXCEPT ![c].ready = TRUE]
  /\ call' = [j \in Calls |->
       IF j = k THEN rest
       ELSE IF call[j].tab = c /\ call[j].pc = "waiting"
       THEN IF ok THEN [call[j] EXCEPT !.pc = "sent", !.retry = FALSE,
                                       !.credential = after[c].access]
                  ELSE FreeCall
       ELSE call[j]]

Settle(c, k, status, rest) ==
  LET kind == call[k].kind IN
  CASE kind \in Forms ->
         /\ tab' = IF status = "ok" THEN SignedIn(c, call[k].token) ELSE tab
         /\ call' = [call EXCEPT ![k] = rest]
    [] kind = "refresh" -> RefreshEnds(c, k, status = "ok", rest)
    [] kind = "logout" ->
         /\ tab' = SignedOut(c)
         /\ call' = [call EXCEPT ![k] = rest]
    [] OTHER ->
         IF status = "unauthorized" /\ call[k].retry THEN AwaitRefresh(c, k, rest)
         ELSE /\ tab' = CASE status = "unauthorized" -> SignedOut(c)
                          [] status = "ok" /\ kind = "change" -> SignedOut(c)
                          [] status = "ok" /\ kind = "profile" -> [tab EXCEPT ![c].user = TRUE]
                          [] OTHER -> tab
              /\ call' = [call EXCEPT ![k] = rest]

Receive(k) ==
  /\ call[k].pc = "answered"
  /\ Settle(call[k].tab, k, call[k].status, FreeCall)
  /\ Harmless /\ Keeping

(* fetch rejects: the request never arrived, or its answer was lost.       *)
CallFails(k) ==
  /\ call[k].tab # None /\ call[k].pc \in {"sent", "checked", "answered"}
  /\ Mishap("lost")
  /\ \E rest \in {FreeCall} \cup (IF call[k].pc = "answered" THEN {}
                                  ELSE {[call[k] EXCEPT !.tab = None]}) :
       Settle(call[k].tab, k, None, rest)
  /\ Keeping

(* The 15 minutes of an access token end; left out of a run in which no    *)
(* call presents it.                                                       *)
AccessExpires(c) ==
  /\ UserCalls \ Forms # {}
  /\ tab[c].access \in Credentials
  /\ tab' = [tab EXCEPT ![c].access = Expired]
  /\ UNCHANGED call /\ Harmless /\ Keeping

Browse ==
  \E c \in Tabs :
    \/ "login" \in UserCalls /\ SubmitLogin(c)
    \/ "register" \in UserCalls /\ SubmitRegistration(c)
    \/ "google" \in UserCalls /\ PressGoogle(c)
    \/ "api" \in UserCalls /\ AskData(c)
    \/ "profile" \in UserCalls /\ LoadProfile(c)
    \/ "change" \in UserCalls /\ SubmitChange(c)
    \/ Logout(c) \/ Reload(c) \/ Bootstrap(c) \/ AccessExpires(c)
    \/ \E d \in Tabs : DuplicateTab(c, d)
Deliver(k) == Receive(k) \/ CallFails(k)
=============================================================================
