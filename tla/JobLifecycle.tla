---------------------------- MODULE JobLifecycle ----------------------------
(***************************************************************************)
(* What the job service promises to a client that polls a session: the     *)
(* status of a job moves along                                             *)
(*                                                                         *)
(*     (no job) -> PENDING -> RUNNING -> COMPLETED | FAILED                *)
(*                    ^----------'  (requeue of an orphan at startup)      *)
(*                                                                         *)
(* and step results are added to a job only while it is RUNNING.  A        *)
(* terminal job never changes again.  CANCELED is declared in the model    *)
(* package and shown in the docs, but no code writes it.                   *)
(***************************************************************************)
EXTENDS Naturals

CONSTANT Jobs

VARIABLES
    status,     \* status[j]: the status column of job j, "ABSENT" if no row
    rows        \* rows[j]: how many step results are stored for job j

lvars == <<status, rows>>

Terminal == {"COMPLETED", "FAILED"}
JobStatus == {"ABSENT", "PENDING", "RUNNING"} \cup Terminal

Init ==
    /\ status = [j \in Jobs |-> "ABSENT"]
    /\ rows = [j \in Jobs |-> 0]

Move(j, from, to) ==
    /\ status[j] \in from
    /\ \E s \in to : status' = [status EXCEPT ![j] = s]
    /\ UNCHANGED rows

Create(j)  == Move(j, {"ABSENT"}, {"PENDING"})
Claim(j)   == Move(j, {"PENDING"}, {"RUNNING"})
Finish(j)  == Move(j, {"RUNNING"}, Terminal)
Requeue(j) == Move(j, {"RUNNING"}, {"PENDING"})

Record(j) ==
    /\ status[j] = "RUNNING"
    /\ rows' = [rows EXCEPT ![j] = @ + 1]
    /\ UNCHANGED status

Next == \E j \in Jobs :
    Create(j) \/ Claim(j) \/ Record(j) \/ Finish(j) \/ Requeue(j)

Spec == Init /\ [][Next]_lvars
=============================================================================
