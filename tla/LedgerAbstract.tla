---------------------------- MODULE LedgerAbstract ----------------------------
(***************************************************************************)
(* What the World State Ledger promises its clients: one linear history of *)
(* world states.  A proposal is resolved at most once; an accepted one     *)
(* extends the history by exactly one state, computed from the state just  *)
(* before it, against which its old values were checked.                   *)
(***************************************************************************)
EXTENDS LedgerData

CONSTANT Proposals

VARIABLES
    history,   \* the world states so far, the pristine one first
    verdict    \* proposal id -> absent, pending, accepted or rejected

Current == history[Len(history)]

Init ==
    /\ history = <<Pristine>>
    /\ verdict = [p \in Proposals |-> "absent"]

Resolve(p, from, to) ==
    /\ verdict[p] = from
    /\ verdict' = [verdict EXCEPT ![p] = to]

Submit(p) == Resolve(p, "absent", "pending") /\ UNCHANGED history

Reject(p) == Resolve(p, "pending", "rejected") /\ UNCHANGED history

Accept(p, ms) ==
    /\ Resolve(p, "pending", "accepted")
    /\ OldValuesMatch(Current, ms)
    /\ history' = Append(history, ApplyMutations(Current, ms))

Next ==
    \E p \in Proposals :
        Submit(p) \/ Reject(p) \/ \E ms \in MutationLists : Accept(p, ms)

Spec == Init /\ [][Next]_<<history, verdict>>
=============================================================================
