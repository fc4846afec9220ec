---------------------------- MODULE MCMachinePool ----------------------------
(* MachinePool on small instances.                                          *)
EXTENDS MachinePool

Pool(s3, machines, external, norefresh) ==
    [s3 |-> s3, machines |-> machines, external |-> external, norefresh |-> norefresh]

\* A pool with pool machines; one of an autoscaler that boots from S3 and does
\* not refresh its instances.
PlainAndExternal == {Pool(FALSE, TRUE, FALSE, FALSE), Pool(TRUE, FALSE, TRUE, TRUE)}
\* Without pool machines.
Plain == {Pool(FALSE, FALSE, FALSE, FALSE), Pool(TRUE, FALSE, TRUE, FALSE)}
OnlyS3 == {Pool(TRUE, FALSE, FALSE, FALSE)}
OnlyPlain == {Pool(FALSE, FALSE, FALSE, FALSE)}
==============================================================================
