----------------------------- MODULE PureCalls -----------------------------
(***************************************************************************)
(* The parts of the program that compute a result from their arguments,    *)
(* one call per behaviour: the graph of a pipeline when it is loaded; the  *)
(* calls of Decisions; an arithmetic expression.                           *)
(***************************************************************************)
EXTENDS Decisions, PipelineLoad, MathEval

CONSTANT Expressions    \* sequences of tokens

decideVars == <<call, verdict, check>>
vars == <<loadVars, decideVars>>

\* No pipeline is being loaded.
Unloaded ==
    /\ pipeline = << >>
    /\ step = 1
    /\ link = 1
    /\ deps = << >>
    /\ color = << >>
    /\ visits = << >>
    /\ loaded = "none"

Init ==
    /\ \/ LoadInit /\ call = [fn |-> "load"]
       \/ AnswerCall /\ Unloaded
       \/ Unloaded /\ \E s \in Expressions : call = [fn |-> "eval", expr |-> s]
       \/ RequestCall /\ Unloaded
    /\ verdict = NoVerdict
    /\ check = NoCheck

EvalMath ==
    /\ Returns("eval", [of |-> "eval", result |-> Eval(call.expr)])
    /\ UNCHANGED check

Next ==
    \/ LoadNext /\ UNCHANGED decideVars
    \/ (DecideNext \/ EvalMath) /\ UNCHANGED loadVars

Spec == Init /\ [][Next]_vars
-----------------------------------------------------------------------------
\* eval finds a value exactly when the grammar derives one, and it is the only
\* one: operators group to the left, * and / before + and -, signs first.
EvalExact ==
    verdict.of = "eval" =>
        LET values == Sums(call.expr) IN
        /\ verdict.result.ok <=> values # {}
        /\ \A x \in values : Same(x, verdict.result.val)

=============================================================================
