------------------------------ MODULE DirCopy ------------------------------
(***************************************************************************)
(* What copying a directory to another disk promises, with neither chunks, *)
(* manifest nor resumption: a job names a set of assets, assets become     *)
(* complete at the target one at a time, and the job may be vouched for    *)
(* only when every asset it names is complete there.  Outside a job        *)
(* nothing at the target changes, and a job touches only its own assets.   *)
(* MigrationExec (migrationexec/executor.go) implements this module.       *)
(***************************************************************************)
CONSTANTS Assets,  \* the assets of the directory
          Jobs     \* the sets of assets a copy may be asked for

VARIABLES copied,  \* assets whose bytes are complete at the target
          job,     \* the assets of the latest job
          verdict  \* its standing

vars == <<copied, job, verdict>>

Verdicts == {"none", "open", "verified", "failed"}

TypeOK ==
  /\ copied \subseteq Assets
  /\ job \subseteq Assets
  /\ verdict \in Verdicts

Init ==
  /\ copied \in SUBSET Assets
  /\ job = {}
  /\ verdict = "none"

\* A caller asks for the assets of S.
Open(S) ==
  /\ verdict = "none"
  /\ job' = S
  /\ verdict' = "open"
  /\ UNCHANGED copied

\* The last unit of one asset of the job arrives.
Place(a) ==
  /\ verdict = "open"
  /\ a \in job
  /\ copied' = copied \union {a}
  /\ UNCHANGED <<job, verdict>>

\* The job starts one of its assets over, discarding what the target held.
StartOver(a) ==
  /\ verdict = "open"
  /\ a \in job
  /\ copied' = copied \ {a}
  /\ UNCHANGED <<job, verdict>>

\* The job is vouched for: allowed only when all of it is complete.
Vouch ==
  /\ verdict = "open"
  /\ job \subseteq copied
  /\ verdict' = "verified"
  /\ UNCHANGED <<copied, job>>

\* The job ends without a promise.
GiveUp ==
  /\ verdict = "open"
  /\ verdict' = "failed"
  /\ UNCHANGED <<copied, job>>

\* The caller has its answer, or the process died and there is none.
Close ==
  /\ verdict # "none"
  /\ verdict' = "none"
  /\ UNCHANGED <<copied, job>>

Next ==
  \/ \E S \in Jobs : Open(S)
  \/ \E a \in Assets : Place(a) \/ StartOver(a)
  \/ Vouch
  \/ GiveUp
  \/ Close

Spec == Init /\ [][Next]_vars
=============================================================================
