---------------------------- MODULE MCScheduler ----------------------------
(* Small instances of Scheduler for TLC.  The suffix of a definition names  *)
(* the run it belongs to.                                                   *)
EXTENDS SchedulerInv

CONSTANTS r1, r2, r3

R2 == {r1, r2}
R3 == {r1, r2, r3}

\* Same key and configuration for r1 and r2, another model for r3.
ModelOfShare == [r \in Requests |-> IF r = r3 THEN 2 ELSE 1]
\* A model each.
ModelOfEach == [r \in Requests |-> CASE r = r1 -> 1 [] r = r2 -> 2 [] OTHER -> 3]
\* One model for all.
ModelOfOne == [r \in Requests |-> 1]

SameCfg == [r \in Requests |-> 0]

KeepAliveUnset == [r \in Requests |-> Unset]

OneGpu == [r \in Requests |-> {1}]
NoKinds == [m \in Models |-> {}]
NoLimit == [k \in Kinds |-> 0]
PinnedR1 == {r1}

\* Models 1 and 2 are of kind 1, which is capped; 2 is also of kind 2, which is
\* not, so that 2 and 3 share the pool.
KindsOfTwo == [m \in Models |-> CASE m = 1 -> {1} [] m = 2 -> {1, 2} [] OTHER -> {}]
OneOfKindOne == [k \in Kinds |-> IF k = 1 THEN 1 ELSE 0]
\* r3 is placed on another GPU than r1 and r2.
TwoGpus == [r \in Requests |-> IF r = r3 THEN {2} ELSE {1}]
=============================================================================
