---------------------------- MODULE LayeredStack -----------------------------
(***************************************************************************)
(* What the deploy and destroy workflows promise of a stack, without jobs, *)
(* directories, retries or locks: units are built on what stands, taken    *)
(* down from the top, and whatever is left standing in spite of that has   *)
(* been announced.  RunAll implements it while jobs do not overlap, and    *)
(* AzurePath with a resource for a unit.                                   *)
(***************************************************************************)
EXTENDS Naturals

CONSTANT Stack      \* cloud by cloud, what each unit takes outputs from and follows

VARIABLES
    cloud,          \* the cloud the workflows are dispatched for
    standing,       \* the units Terraform has something of
    left            \* those a destroy has announced it leaves standing

vars == <<cloud, standing, left>>

Unit == DOMAIN Stack[cloud]
Outputs(u) == Stack[cloud][u].outputs
Needs(u) == Outputs(u) \cup Stack[cloud][u].after

Init ==
    /\ cloud \in DOMAIN Stack
    /\ standing = {}
    /\ left = {}

(* Units go up, whole or in part, on outputs that are there. *)
Build(B) ==
    /\ \A u \in B : Outputs(u) \subseteq standing
    /\ standing' = standing \cup B
    /\ left' = left \ B
    /\ UNCHANGED cloud

(* A unit goes only from under units that have been announced. *)
TakeDown(u) ==
    /\ u \in standing
    /\ \A v \in standing \ left : u \notin Needs(v)
    /\ standing' = standing \ {u}
    /\ left' = left \ {u}
    /\ UNCHANGED cloud

(* Who leaves a unit standing leaves all that stands on it. *)
Announce(W) ==
    /\ \A v \in standing : Needs(v) \cap W # {} => v \in W
    /\ left' = left \cup W
    /\ UNCHANGED <<cloud, standing>>

Next ==
    \/ \E B \in SUBSET Unit : Build(B)
    \/ \E u \in standing : TakeDown(u)
    \/ \E W \in SUBSET standing : Announce(W)

Spec == Init /\ [][Next]_vars

-----------------------------------------------------------------------------
(* What is not announced never floats: all it takes outputs from stands. *)
NothingFloats == \A u \in standing \ left : Outputs(u) \subseteq standing

=============================================================================
