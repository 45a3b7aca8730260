------------------------------ MODULE MCSession ------------------------------
(* An instance of Session for TLC.                                          *)
EXTENDS Session

MCReports ==
    {[RunspaceState |-> Opened], [RunspaceState |-> Broken], [RunspaceState |-> Closed],
     [RunspaceState |-> Opened, MinRunspaces |-> 0, MaxRunspaces |-> 3],
     [RunspacePoolState |-> Opened], [MinRunspaces |-> 2, MaxRunspaces |-> 3], <<>>}
=============================================================================
