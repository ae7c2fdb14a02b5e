--------------------------- MODULE MCCloudMaster ---------------------------
(* Small instances of CloudMaster for TLC *)
EXTENDS CloudMaster

CONSTANTS a1, a2, t1, t2, t3

\* t2 belongs to the second application, if there is one
MCAppOf == [t \in Tasks |-> IF t = t2 /\ a2 \in Apps THEN a2 ELSE a1]

MCAppRateLimit == [a \in Apps |-> 1]

\* Bounds of the larger instances
NoStop == ~stopped
OneCrash == Cardinality({w \in Workers : proc[w] = "dead" /\ w \notin broker.killed}) <= 1
DeployBeforeDeath == loop.of = "deploy" => \A w \in Workers : proc[w] # "dead"

=============================================================================
