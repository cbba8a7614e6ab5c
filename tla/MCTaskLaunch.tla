----------------------------- MODULE MCTaskLaunch -----------------------------
(* Instances of TaskLaunch for TLC.                                          *)
EXTENDS TaskLaunch

CONSTANTS first, second

Step(id, owner, after) == [id |-> id, owner |-> owner, after |-> after]
Plan(roles, steps) == [clarify |-> FALSE, questions |-> FALSE, roles |-> roles, steps |-> steps]

OneStep  == Plan(<<"builder">>, <<Step("build", "builder", {})>>)
TwoSteps == Plan(<<"builder", "checker">>,
                 <<Step("build", "builder", {}), Step("check", "checker", {"build"})>>)

Question   == [OneStep EXCEPT !.clarify = TRUE, !.questions = TRUE]
Speechless == [OneStep EXCEPT !.clarify = TRUE]
Twins      == Plan(<<"builder", "builder">>, OneStep.steps)
Unowned    == Plan(<<"builder">>, <<Step("build", "checker", {})>>)
Unknown    == Plan(<<"builder">>, <<Step("build", "builder", {"plan"})>>)
Circle     == Plan(<<"builder">>, <<Step("build", "builder", {"build"})>>)

\* The first request meets every kind of output, the second two that start no job.
AllOutputs == [q \in Requests |->
  IF q = first THEN {NoPlan, OneStep, TwoSteps, Question, Speechless, Twins, Unowned, Unknown, Circle}
  ELSE {NoPlan, Question}]
=============================================================================
