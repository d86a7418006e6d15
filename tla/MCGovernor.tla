------------------------------ MODULE MCGovernor ------------------------------
(***************************************************************************)
(* The Economic Governor for TLC: its budget, its efficiency scores and    *)
(* its spin detector share no state, so a behaviour is one of the part in  *)
(* focus while the others stay in their initial states.                    *)
(***************************************************************************)
EXTENDS MCEconomicGovernor, AgentWatch

VARIABLE focus

MCInit ==
    /\ focus \in {"budget", "scores", "spin"}
    /\ Init /\ WatchInit
    /\ focus # "budget" => allocated = CHOOSE b \in Budgets : TRUE

\* The agents are alike: the first message is about this one, and so are failures.
OneAgentFirst ==
    message'.phase = "handle" /\ (events = 0 \/ message'.event.kind = "failed")
        => message'.event.agent = CHOOSE a \in Agents : TRUE

\* Scores get one message less than streaks.
ScoresBound == events' < MaxEvents

MCNext ==
    \/ focus = "budget" /\ Next /\ UNCHANGED <<watchVars, focus>>
    \/ focus = "scores" /\ ScoreNext(CHOOSE t \in WatchedTasks : TRUE) /\ OneAgentFirst /\ ScoresBound /\ UNCHANGED <<vars, focus>>
    \/ focus = "spin" /\ SpinNext(CHOOSE a \in Agents : TRUE) /\ UNCHANGED <<vars, focus>>

\* Fairness of EconomicGovernor.
MCFairness ==
    /\ WF_vars(focus = "budget" /\ Poll)
    /\ \A p \in Procs : SF_vars(focus = "budget" /\ Continue(p))

MCSpec == MCInit /\ [][MCNext]_<<vars, watchVars, focus>> /\ MCFairness
=============================================================================
