------------------------------ MODULE MCSmall -------------------------------
(***************************************************************************)
(* RunAll over the top of the Azure stack alone: storage, integration and  *)
(* the grants that follow them, small enough for jobs that overlap, for    *)
(* jobs nobody starts with care, and for liveness.                         *)
(***************************************************************************)
EXTENDS RunAll, DevStacks

CONSTANTS j1, j2

SmallUnit == {"mssql", "mssql_schemas", "integration"}
SmallStack ==
    [azure |->
        [u \in SmallUnit |->
            UnitAt(AzureStack[u].dir - storage + 1, AzureStack[u].outputs \cap SmallUnit,
                   AzureStack[u].after \cap SmallUnit, AzureStack[u].secrets \cap SmallUnit)]]
SmallSteps == [azure |-> {2}]
=============================================================================
