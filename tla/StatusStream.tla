---------------------------- MODULE StatusStream ----------------------------
(***************************************************************************)
(* InterviewController.streamStatus and useInterviewSSE: a page reads the  *)
(* status of an interview from a stream of events, reconnects when it ends *)
(* and polls when it has reconnected too often.                            *)
(***************************************************************************)
EXTENDS InterviewRecords

(* accept: only a later version than the one shown.                        *)
Accepted(v, event) ==
  IF viewer[v].status = None \/ event.version > viewer[v].version
  THEN [viewer EXCEPT ![v].status = event.status, ![v].version = event.version]
  ELSE viewer

(* The stream ended, or could not be opened: a timer for the next attempt, *)
(* or polling.  The count of attempts is never reset.                      *)
DisconnectedForGood(v) ==
  IF viewer[v].retries < MaxRetries
  THEN [viewer[v] EXCEPT !.pc = "waiting", !.retries = @ + 1]
  ELSE [viewer[v] EXCEPT !.pc = "away"]
Disconnected(v) ==
  IF viewer[v].retries < MaxRetries
  THEN [viewer[v] EXCEPT !.pc = "waiting", !.retries = @ + 1]
  ELSE [viewer[v] EXCEPT !.pc = "polling"]

-----------------------------------------------------------------------------
(* The page of a session is opened.                                        *)
Watch(v, s) ==
  /\ viewer[v].pc = "away"
  /\ viewer' = [viewer EXCEPT ![v] = [AwayViewer EXCEPT !.pc = "connect", !.session = s]]
  /\ UNCHANGED <<session, stream, quota, rate, request, jobs, worker, clockVars, faults>>

(* streamStatus reads the session ...                                      *)
Connect(v) ==
  /\ viewer[v].pc = "connect" /\ stream[v].pc = "none"
  /\ viewer' = [viewer EXCEPT ![v].pc = "reading"]
  /\ stream' = [stream EXCEPT ![v] =
       [pc |-> "read", session |-> viewer[v].session,
        told |-> <<Current(viewer[v].session)>>, gap |-> FALSE]]
  /\ UNCHANGED <<session, quota, rate, request, jobs, worker, clockVars, faults>>

(* ... and, once it has it, writes it and subscribes, or ends the response.*)
Subscribe(v) ==
  /\ stream[v].pc = "read"
  /\ stream' = [stream EXCEPT ![v].pc =
       IF Terminal(stream[v].told[1].status) THEN "ended" ELSE "open"]
  /\ UNCHANGED <<session, viewer, quota, rate, request, jobs, worker, clockVars, faults>>

Receive(v) ==
  /\ viewer[v].pc = "reading" /\ stream[v].pc \in {"open", "ended"}
  /\ stream[v].told # <<>>
  /\ viewer' = Accepted(v, Head(stream[v].told))
  /\ stream' = [stream EXCEPT ![v].told = Tail(@)]
  /\ UNCHANGED <<session, quota, rate, request, jobs, worker, clockVars, faults>>

(* The end of the response, after which the server forgets the listener.   *)
EndOfStream(v) ==
  /\ viewer[v].pc = "reading" /\ stream[v].pc = "ended" /\ stream[v].told = <<>>
  /\ viewer' = [viewer EXCEPT ![v] = Disconnected(v)]
  /\ stream' = [stream EXCEPT ![v] = NoStream]
  /\ UNCHANGED <<session, quota, rate, request, jobs, worker, clockVars, faults>>

(* The connection is lost, with what it had not delivered.                 *)
Drop(v) ==
  /\ "drop" \in Faults /\ faults < MaxFaults
  /\ viewer[v].pc \in {"connect", "reading"}
  /\ viewer' = [viewer EXCEPT ![v] = Disconnected(v)]
  /\ stream' = [stream EXCEPT ![v] = NoStream]
  /\ faults' = faults + 1
  /\ UNCHANGED <<session, quota, rate, request, jobs, worker, clockVars>>

Reconnect(v) ==
  /\ viewer[v].pc = "waiting"
  /\ viewer' = [viewer EXCEPT ![v].pc = "connect"]
  /\ UNCHANGED <<session, stream, quota, rate, request, jobs, worker, clockVars, faults>>

(* An interval timer asks without waiting for the previous answer; answers *)
(* may overtake each other.  One with the version shown changes nothing,   *)
(* and is not asked for here.                                              *)
Ask(v) ==
  /\ viewer[v].pc = "polling"
  /\ Current(viewer[v].session) \notin viewer[v].answers
  /\ viewer[v].version < session[viewer[v].session].version \/ viewer[v].status = None
  /\ viewer' = [viewer EXCEPT ![v].answers = @ \cup {Current(viewer[v].session)}]
  /\ UNCHANGED <<session, stream, quota, rate, request, jobs, worker, clockVars, faults>>

Answer(v) ==
  /\ \E event \in viewer[v].answers :
       viewer' = [Accepted(v, event) EXCEPT ![v].answers = @ \ {event}]
  /\ UNCHANGED <<session, stream, quota, rate, request, jobs, worker, clockVars, faults>>

ViewerStep(v) ==
  \/ Connect(v) \/ Subscribe(v) \/ Receive(v) \/ EndOfStream(v)
  \/ Reconnect(v) \/ Ask(v) \/ Answer(v)
=============================================================================
