------------------------------- MODULE OneShot -------------------------------
(***************************************************************************)
(* What the staging table of a job promises, with everything else left     *)
(* out.  The rows of one uploaded file are processed by at most one run:   *)
(* the first run that creates FT_Staging_<JobID> owns them, and when that  *)
(* run is over -- successfully or not -- no later run of the same job ever *)
(* gets at the rows again, nor merges them into Master a second time.      *)
(*                                                                         *)
(* JobLifecycle implements this: see OneShotRefinement there.              *)
(***************************************************************************)
EXTENDS Naturals

CONSTANT Jobs

VARIABLES
    phase,      \* of each job: fresh, then inuse, then done or spoiled
    merged      \* the jobs whose rows have reached Master

vars == <<phase, merged>>

TypeOK ==
    /\ phase \in [Jobs -> {"fresh", "inuse", "done", "spoiled"}]
    /\ merged \subseteq Jobs

Init ==
    /\ phase = [j \in Jobs |-> "fresh"]
    /\ merged = {}

\* A run takes possession of the rows.
Take(j) ==
    /\ phase[j] = "fresh"
    /\ phase' = [phase EXCEPT ![j] = "inuse"]
    /\ UNCHANGED merged

\* The owner merges; `last` says whether it gives the job up in the same step.
MergeRows(j, last) ==
    /\ phase[j] = "inuse"
    /\ j \notin merged
    /\ merged' = merged \cup {j}
    /\ phase' = IF last THEN [phase EXCEPT ![j] = "spoiled"] ELSE phase

Finish(j) ==
    /\ phase[j] = "inuse"
    /\ phase' = [phase EXCEPT ![j] = "done"]
    /\ UNCHANGED merged

\* Owners can be lost together: the process that hosts them all may die.
Spoil(S) ==
    /\ S # {}
    /\ \A j \in S : phase[j] = "inuse"
    /\ phase' = [j \in Jobs |-> IF j \in S THEN "spoiled" ELSE phase[j]]
    /\ UNCHANGED merged

Next ==
    \/ \E j \in Jobs : Take(j) \/ Finish(j) \/ \E last \in BOOLEAN : MergeRows(j, last)
    \/ \E S \in SUBSET Jobs : Spoil(S)

Spec == Init /\ [][Next]_vars
==============================================================================
