------------------------------ MODULE MCEventBus ------------------------------
(* Small instances of EventBus for TLC. *)
EXTENDS EventBus, TLC

CONSTANTS c1, c2

\* c1 gives up at the first failure, c2 as the default says.
MCMaxRetries == (c1 :> 1) @@ (c2 :> 3)

MCDefaultRetries == (c1 :> 3)

\* Nothing crashes, no Redis call fails and nobody looks at the dead letters.
ReliableSpec ==
    /\ Init
    /\ [][\/ \E bad \in BOOLEAN : Publish(bad)
          \/ \E c \in Consumers : Consume(c)
          \/ ClaimStaleMessages]_vars
    /\ \A c \in Consumers : WF_vars(Consume(c))
=============================================================================
