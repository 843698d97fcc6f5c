---------------------------- MODULE SingleFlight ----------------------------
(***************************************************************************)
(* What the engine worker promises the user interface, with no word about  *)
(* tasks, cancellation or connections: requests are answered one at a      *)
(* time, once each and in the order they were submitted, and an answer     *)
(* other than "unknown" is the truth about the database for ever.          *)
(* EngineWorker implements it.                                             *)
(***************************************************************************)
EXTENDS Naturals, Sequences

CONSTANT MaxRequest

Request == 1 .. MaxRequest
Answer == {"success", "error", "canceled", "unknown"}

VARIABLES
    submitted,  \* how many requests the user interface has sent
    serving,    \* the request being executed, or 0
    answers,    \* answers[r]: what request r was told
    applied     \* the requests whose change is committed

flightVars == <<submitted, serving, answers, applied>>

FlightInit ==
    /\ submitted = 0
    /\ serving = 0
    /\ answers = <<>>
    /\ applied = {}

SubmitRequest ==
    /\ submitted < MaxRequest
    /\ submitted' = submitted + 1
    /\ UNCHANGED <<serving, answers, applied>>

\* Only the next request in line starts, and only when nothing is served.
StartServing ==
    /\ serving = 0
    /\ Len(answers) < submitted
    /\ serving' = Len(answers) + 1
    /\ UNCHANGED <<submitted, answers, applied>>

\* The database applies a change while its request is served, or after an
\* answer that admitted that the outcome was not known.
Apply(r) ==
    /\ \/ r = serving
       \/ r \in DOMAIN answers /\ answers[r] = "unknown"
    /\ applied' = applied \union {r}
    /\ UNCHANGED <<submitted, serving, answers>>

Truthful(r, answer) ==
    /\ answer = "success" => r \in applied
    /\ answer \in {"error", "canceled"} => r \notin applied

\* The next request may start in the same step: it interrupted this one.
AnswerServed(answer) ==
    /\ serving # 0
    /\ Truthful(serving, answer)
    /\ answers' = Append(answers, answer)
    /\ serving' \in {0, serving + 1}
    /\ serving' <= submitted
    /\ UNCHANGED <<submitted, applied>>

FlightNext ==
    \/ SubmitRequest
    \/ StartServing
    \/ \E r \in Request : Apply(r)
    \/ \E answer \in Answer : AnswerServed(answer)

FlightSpec == FlightInit /\ [][FlightNext]_flightVars
=============================================================================
