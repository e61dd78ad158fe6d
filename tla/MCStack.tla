------------------------------ MODULE MCStack -------------------------------
(***************************************************************************)
(* RunAll over the dev environment, each behaviour in one of its clouds.   *)
(***************************************************************************)
EXTENDS RunAll, DevStacks

CONSTANTS j1

ASSUME DevSecretsAssumption == SecretsBelow

(* Private deploys build an image after one directory, create schemas after another. *)
DevSteps == [aws |-> {1, 5}, azure |-> {2, 5}, gcp |-> {2}]

(* GCP, where some deploy has already applied the whole stack. *)
WholeInit ==
    /\ cloud = "gcp"
    /\ state = [u \in Unit |-> "applied"]
    /\ lock = [u \in Unit |-> Free]
    /\ left = {}
    /\ kind = [j \in Job |-> "idle"]
    /\ at = [j \in Job |-> 1]
    /\ phase = [j \in Job |-> "idle"]
    /\ prog = [j \in Job |-> NoProgress]
    /\ retried = [j \in Job |-> FALSE]

WholeSpec == WholeInit /\ [][Next]_vars
=============================================================================
