------------------------------- MODULE Polling -------------------------------
(***************************************************************************)
(* Waiting for the outcome of a standalone activity (pollActivityOutcome)   *)
(* or of a nexus operation (pollNexusOperationOutcome): the same loop of    *)
(* requests, each under a timeout of its own, inside the command's context. *)
(* The operation goes on at the server meanwhile.                          *)
(***************************************************************************)
VARIABLES
  operation,  \* what the server knows of the operation
  poll,       \* where the command is
  expired,    \* the timeout of the current request has passed
  cancelled,  \* the command's context has ended
  answer,     \* what the last request brought
  timedOut,   \* pollTimedOut
  verdict     \* how the command ended

pollVars == <<operation, poll, expired, cancelled, answer, timedOut, verdict>>

Outcomes == {"result", "failure"}

\* "gone": deleted, or never there, so that every request is refused.
Closed == Outcomes \cup {"gone"}

Init ==
  /\ operation = "running" /\ poll = "request" /\ expired = FALSE /\ cancelled = FALSE
  /\ answer = "none" /\ timedOut = FALSE /\ verdict = "none"

-----------------------------------------------------------------------------
(* The server, the clock and the user.                                     *)

Close ==
  /\ operation = "running" /\ operation' \in Closed
  /\ UNCHANGED <<poll, expired, cancelled, answer, timedOut, verdict>>

RequestExpires ==
  /\ poll \in {"waiting", "failed"} /\ ~expired /\ expired' = TRUE
  /\ UNCHANGED <<operation, poll, cancelled, answer, timedOut, verdict>>

\* A signal, or --command-timeout.
Cancel ==
  /\ poll # "ended" /\ ~cancelled /\ cancelled' = TRUE
  /\ UNCHANGED <<operation, poll, expired, answer, timedOut, verdict>>

-----------------------------------------------------------------------------
(* The loop.                                                               *)

Request ==
  /\ poll = "request" /\ poll' = "waiting" /\ expired' = FALSE
  /\ UNCHANGED <<operation, cancelled, answer, timedOut, verdict>>

\* The server answers with the outcome. A request under a context that has
\* ended may still be answered: the answer was on its way.
AnswerOutcome ==
  /\ poll = "waiting" /\ operation \in Outcomes
  /\ answer' = operation /\ poll' = "outcome"
  /\ UNCHANGED <<operation, expired, cancelled, timedOut, verdict>>

\* When the server has waited long enough for a running operation it answers
\* without an outcome. No request gets so far once the context has ended.
AnswerEmpty ==
  /\ poll = "waiting" /\ operation = "running" /\ ~cancelled
  /\ answer' = "none" /\ poll' = "request"
  /\ UNCHANGED <<operation, expired, cancelled, timedOut, verdict>>

\* The server may refuse any request.
AnswerError ==
  /\ poll = "waiting" /\ poll' = "failed" /\ answer' = "error"
  /\ UNCHANGED <<operation, expired, cancelled, timedOut, verdict>>

\* A request ends early with its own timeout or with the command's context.
RequestFails ==
  /\ poll = "waiting" /\ (expired \/ cancelled)
  /\ poll' = "failed" /\ answer' = "deadline"
  /\ UNCHANGED <<operation, expired, cancelled, timedOut, verdict>>

\* Mutant: the error is looked at after the request's context was released,
\* which always ends it.
ReadTimedOut_AfterCancel ==
  /\ poll = "failed"
  /\ timedOut' = TRUE /\ poll' = "decide"
  /\ UNCHANGED <<operation, expired, cancelled, answer, verdict>>

\* Whether the request's context had ended is read before cancel() ends it.
ReadTimedOut ==
  /\ poll = "failed"
  /\ timedOut' = (expired \/ cancelled) /\ poll' = "decide"
  /\ UNCHANGED <<operation, expired, cancelled, answer, verdict>>

\* Mutant: an error that is not a timeout is swallowed.
Decide_Silent ==
  /\ poll = "decide"
  /\ IF timedOut /\ ~cancelled
       THEN poll' = "request" /\ verdict' = verdict
       ELSE poll' = "ended" /\ verdict' = (IF cancelled THEN "interrupted" ELSE verdict)
  /\ UNCHANGED <<operation, expired, cancelled, answer, timedOut>>

\* The command's own end comes first, then a new request after a timeout.
Decide ==
  /\ poll = "decide"
  /\ IF timedOut /\ ~cancelled
       THEN poll' = "request" /\ verdict' = verdict
       ELSE poll' = "ended" /\ verdict' = (IF cancelled THEN "interrupted" ELSE "error")
  /\ UNCHANGED <<operation, expired, cancelled, answer, timedOut>>

\* getActivityResult and getNexusOperationResult: the outcome is printed, and
\* a failure fails the command.
Tell ==
  /\ poll = "outcome"
  /\ poll' = "ended" /\ verdict' = (IF answer = "result" THEN "ok" ELSE "failed")
  /\ UNCHANGED <<operation, expired, cancelled, answer, timedOut>>

Loop == Request \/ RequestFails \/ ReadTimedOut \/ Decide \/ Tell

Next ==
  Close \/ RequestExpires \/ Cancel \/ AnswerOutcome \/ AnswerEmpty \/ AnswerError \/ Loop

\* The process and the clock go on. A server that is there answers sooner or
\* later, with the outcome or because there will be none, although some requests
\* may expire first; and sooner or later an error comes, and is looked at, within
\* its request's minute.
Fairness ==
  /\ WF_pollVars(Loop) /\ WF_pollVars(RequestExpires)
  /\ SF_pollVars(AnswerOutcome) /\ SF_pollVars(AnswerError /\ operation = "gone" /\ ~expired)
  /\ SF_pollVars(ReadTimedOut /\ ~expired)

Spec == Init /\ [][Next]_pollVars /\ Fairness

-----------------------------------------------------------------------------

TypeOK ==
  /\ operation \in {"running"} \cup Closed
  /\ poll \in {"request", "waiting", "failed", "decide", "outcome", "ended"}
  /\ expired \in BOOLEAN /\ cancelled \in BOOLEAN /\ timedOut \in BOOLEAN
  /\ answer \in {"none", "deadline", "error"} \cup Outcomes
  /\ verdict \in {"none", "ok", "failed", "interrupted", "error"}
  /\ poll = "ended" <=> verdict # "none"

\* The command ends with the operation's outcome, with an interrupt if there
\* was one, or with an error of the server; never because one of its requests
\* has expired.
TellsWhatHappened ==
  /\ verdict = "ok" => operation = "result"
  /\ verdict = "failed" => operation = "failure"
  /\ verdict = "interrupted" => cancelled
  /\ verdict = "error" => answer = "error" /\ ~expired

\* Once the operation has closed, or the command's context has ended, the
\* command ends as well.
EndsInTime == operation \in Closed \/ cancelled ~> poll = "ended"

\* Waiting ends when it should and says what happened.
PollAnswered == []TellsWhatHappened /\ EndsInTime
==============================================================================
