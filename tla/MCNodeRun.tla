----------------------------- MODULE MCNodeRun -----------------------------
(* Small instances of NodeRun for TLC. *)
EXTENDS NodeRun

CONSTANTS g1, g2

MCGateways == {g1, g2}

\* Every role, with and without each task, timed or not.
MCConfigs == [role : Roles, rx : BOOLEAN, tx : BOOLEAN, timed : BOOLEAN, dhcp : {TRUE}]

\* An access point with everything it runs.
MCAccessPoint == [role : {"ap"}, rx : {TRUE}, tx : {TRUE}, timed : {FALSE}, dhcp : {TRUE}]
=============================================================================
