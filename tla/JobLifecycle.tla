---------------------------- MODULE JobLifecycle ----------------------------
(***************************************************************************)
(* The life of a job row as every other part of Peritus sees it: which     *)
(* status may follow which, what a claim does to the attempt counter, and  *)
(* that an expert never has two active builds.  It says nothing of who     *)
(* moves a row, when, or with which guard: JobQueue does, and implements   *)
(* this module.                                                            *)
(***************************************************************************)
EXTENDS Naturals

CONSTANTS
    Jobs,      \* ids of the build_jobs rows that may ever be inserted
    Builds,    \* the ids of job_type 'build'; the others are 'ingest_source'
    ExpertOf   \* the expert each row belongs to

VARIABLES
    status,    \* [Jobs -> Status]
    attempts   \* [Jobs -> Nat]

Active   == {"queued", "running"}
Terminal == {"succeeded", "failed", "cancelled"}

\* "absent" is a row not inserted yet, "deleted" one removed with its expert.
Status == {"absent", "deleted"} \cup Active \cup Terminal

\* The transitions any code path makes; a deletion may follow any of them.
Edges ==
    {<<"absent", "queued">>, <<"queued", "running">>, <<"running", "queued">>}
    \cup ({"running"} \X Terminal)
    \cup {<<"queued", "cancelled">>}
    \cup ((Active \cup Terminal) \X {"deleted"})

SameExpertBuilds(i, j) ==
    i \in Builds /\ j \in Builds /\ i # j /\ ExpertOf[i] = ExpertOf[j]

Init ==
    /\ status = [j \in Jobs |-> "absent"]
    /\ attempts = [j \in Jobs |-> 0]

Moved(j) ==
    /\ <<status[j], status'[j]>> \in Edges
    /\ attempts'[j] = attempts[j]
                      + (IF status'[j] = "running" THEN 1 ELSE 0)

Kept(j) == status'[j] = status[j] /\ attempts'[j] = attempts[j]

\* One statement may move several rows (the reaper, a cancel, a cascade).
Next ==
    /\ status' \in [Jobs -> Status]
    /\ attempts' \in [Jobs -> Nat]
    /\ \A j \in Jobs : Moved(j) \/ Kept(j)
    /\ \A i, j \in Jobs :
           SameExpertBuilds(i, j) => ~(status'[i] \in Active /\ status'[j] \in Active)

vars == <<status, attempts>>

Spec == Init /\ [][Next]_vars
=============================================================================
