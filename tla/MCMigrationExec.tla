-------------------------- MODULE MCMigrationExec --------------------------
(***************************************************************************)
(* Instances of MigrationExec for TLC: a directory of two assets, one of   *)
(* which takes two chunks, and the budgets of events of each run.          *)
(***************************************************************************)
EXTENDS MigrationExec

CONSTANTS a, b, c

Two == {a, b}
Three == {a, b, c}

\* One asset that needs more than one chunk, one that needs one.
LongAndShort == [x \in Two |-> IF x = a THEN 3 ELSE 1]

\* And an empty one, whose size another node does not tell.
AndEmpty == [x \in Three |-> CASE x = a -> 3 [] x = b -> 1 [] x = c -> 0]

\* REPLICA tasks copy one asset, MIGRATION tasks the directory.
AnyJob == {{a}, {b}, {a, b}}
SomeJobs == {{a}, {a, b}, {b, c}}

Budget(jobs, crashes, faults, torn, vanish, removals, refusals) ==
  [e \in Events |-> CASE e = "job" -> jobs
                      [] e = "crash" -> crashes
                      [] e = "fault" -> faults
                      [] e = "torn" -> torn
                      [] e = "vanish" -> vanish
                      [] e = "removal" -> removals
                      [] e = "refusal" -> refusals]

\* Every failure the executor meets, over three jobs.
FailureBudget == Budget(3, 2, 1, 1, 1, 0, 0)
\* A caller that cleans up, unless it dies or Finish is refused.
CleanupBudget == Budget(4, 1, 2, 0, 1, 1, 1)
=============================================================================
