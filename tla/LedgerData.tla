------------------------------ MODULE LedgerData ------------------------------
(***************************************************************************)
(* World states and the mutation lists that change them: the static        *)
(* helpers of StateManager (state_manager.py) and the pydantic models they *)
(* parse into (models.py).                                                 *)
(***************************************************************************)
EXTENDS Integers, FiniteSets, Sequences, FiniteSetsExt

CONSTANTS
    Fields,              \* dot-paths of WorldState that the model tells apart
    Remaining,           \* the field budget.remaining_tokens
    MutationLists,       \* the mutation lists a client may propose
    None                 \* Python's None

ASSUME RemainingAssumption == Remaining \in Fields

\* A proposed value: an integer, a string spelling one, or something pydantic
\* refuses for an integer field.
Kinds == {"int", "text", "bad"}

Mutations ==
    [path : STRING, old : Int \cup {None}, new : [kind : Kinds, n : Int]]

ASSUME MutationListsAssumption == MutationLists \subseteq Seq(Mutations)

WorldStates == [Fields -> Int]

\* WorldState(): every counter starts at its default.
Pristine == [f \in Fields |-> 0]

\* The mutation that decides the final value at path f (the last one wins),
\* or 0 when the list does not touch f.
Decisive(ms, f) ==
    LET at == {i \in DOMAIN ms : ms[i].path = f}
    IN  IF at = {} THEN 0 ELSE Max(at)

\* StateManager._apply_mutations: pydantic turns a numeric string into the
\* integer it spells, and drops a path that is not a field of WorldState.
ApplyMutations(s, ms) ==
    [f \in Fields |-> IF Decisive(ms, f) = 0 THEN s[f] ELSE ms[Decisive(ms, f)].new.n]

\* model_validate raises: a field is left with a value pydantic refuses.
Unparsable(ms) ==
    \E f \in Fields : Decisive(ms, f) # 0 /\ ms[Decisive(ms, f)].new.kind = "bad"

\* The value found by walking a dot-path (None off the tree).
ValueAt(s, path) == IF path \in Fields THEN s[path] ELSE None

\* First half of _validate_mutations: no mutation has a stale old_value.
OldValuesMatch(s, ms) ==
    \A i \in DOMAIN ms : ms[i].old = None \/ ms[i].old = ValueAt(s, ms[i].path)

\* Fault: the budget is tested before the mutations are simulated.
BudgetRespectedBefore(s, ms) == s[Remaining] >= 0

\* Second half: the simulated remaining_tokens, tested only when it is a number.
BudgetRespected(s, ms) ==
    LET d == Decisive(ms, Remaining)
    IN  IF d = 0 THEN s[Remaining] >= 0
                 ELSE ms[d].new.kind = "int" => ms[d].new.n >= 0

ValidateMutations(s, ms) == OldValuesMatch(s, ms) /\ BudgetRespected(s, ms)

=============================================================================
