----------------------------- MODULE MCScheduler ----------------------------
(***************************************************************************)
(* Instances of the dvsim scheduler: builds (target 1), test runs (2) and  *)
(* coverage merges (3), with the weights the Deploy classes give them.     *)
(***************************************************************************)
EXTENDS Scheduler, TLC

Weights == <<5, 1, 10>>

\* One cfg: two builds, two tests of the first, one of the second, a merge of
\* the coverage of all tests. Every launch succeeds.
CovItems == <<"b1", "b2", "r1", "r2", "r3", "c">>
CovTarget == ("b1" :> 1) @@ ("b2" :> 1) @@ ("r1" :> 2) @@ ("r2" :> 2) @@ ("r3" :> 2) @@ ("c" :> 3)
CovDeps == ("b1" :> {}) @@ ("b2" :> {}) @@ ("r1" :> {"b1"}) @@ ("r2" :> {"b1"})
           @@ ("r3" :> {"b2"}) @@ ("c" :> {"r1", "r2", "r3"})
Coverage ==
  [items |-> CovItems, target |-> CovTarget, deps |-> CovDeps,
   cfg |-> [i \in Range(CovItems) |-> "A"], needs_all |-> [i \in Range(CovItems) |-> i # "c"],
   max_parallel |-> 2, launch_errors |-> {}]

\* Two cfgs that share the scheduler: A has two builds with a test each and a
\* merge, B a build, a test and a merge. Every launch may fail.
TwoItems == <<"a1", "a2", "b", "ra1", "ra2", "rb", "ca", "cb">>
TwoTarget == ("a1" :> 1) @@ ("a2" :> 1) @@ ("b" :> 1)
             @@ ("ra1" :> 2) @@ ("ra2" :> 2) @@ ("rb" :> 2) @@ ("ca" :> 3) @@ ("cb" :> 3)
TwoDeps == ("a1" :> {}) @@ ("a2" :> {}) @@ ("b" :> {}) @@ ("ra1" :> {"a1"})
           @@ ("ra2" :> {"a2"}) @@ ("rb" :> {"b"}) @@ ("ca" :> {"ra1", "ra2"})
           @@ ("cb" :> {"rb"})
TwoCfgs ==
  [items |-> TwoItems, target |-> TwoTarget, deps |-> TwoDeps,
   cfg |-> [i \in Range(TwoItems) |-> IF i \in {"b", "rb", "cb"} THEN "B" ELSE "A"],
   needs_all |-> [i \in Range(TwoItems) |-> i \notin {"ca", "cb"}],
   max_parallel |-> 3, launch_errors |-> Range(TwoItems)]

BothPlans == {Coverage, TwoCfgs}
=============================================================================
