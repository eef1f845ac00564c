--------------------------- MODULE AlertLifecycle ---------------------------
(***************************************************************************)
(* What the tables `alerts' and `agent_runs' show of an alert to the       *)
(* dashboard and to whoever is on call: it is new, under investigation, or *)
(* settled with the verdict of its newest run.  AlertPipeline implements   *)
(* this specification, whatever is delivered twice, fails or crashes.      *)
(***************************************************************************)
EXTENDS Naturals, Sequences

VARIABLES
    status,  \* alerts.status, by row
    runs     \* the [alert, status] columns of agent_runs, in insertion order

lifecycle_vars == <<status, runs>>

LifecycleInit == status = <<>> /\ runs = <<>>

Verdict(outcome) == IF outcome = "completed" THEN "diagnosed" ELSE "error"

IsNewestRunOf(i, a) ==
    /\ runs[i].alert = a
    /\ \A j \in DOMAIN runs : runs[j].alert = a => j <= i

Raised ==
    /\ status' = Append(status, "new")
    /\ UNCHANGED runs

(* From any status: a settled alert that is delivered again included.      *)
Taken(a) ==
    /\ status' = [status EXCEPT ![a] = "investigating"]
    /\ UNCHANGED runs

Recorded(a) ==
    /\ status[a] = "investigating"
    /\ \E outcome \in {"completed", "failed"} :
         runs' = Append(runs, [alert |-> a, status |-> outcome])
    /\ UNCHANGED status

Settled(a) ==
    /\ status[a] = "investigating"
    /\ \E i \in DOMAIN runs :
         /\ IsNewestRunOf(i, a)
         /\ status' = [status EXCEPT ![a] = Verdict(runs[i].status)]
    /\ UNCHANGED runs

LifecycleNext ==
    Raised \/ \E a \in DOMAIN status : Taken(a) \/ Recorded(a) \/ Settled(a)

LifecycleSpec == LifecycleInit /\ [][LifecycleNext]_lifecycle_vars
=============================================================================
