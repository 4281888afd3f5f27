-------------------------- MODULE VgpuAllocationMC --------------------------
(* Small instances of VgpuAllocation for TLC.                               *)
EXTENDS VgpuAllocation, TLC

CONSTANTS a, b, c

\* One pod with two containers, as vgpu-pod1 of GPU-device-plugin/examples.
TwoContainers == a :> <<1, 1>>
\* The faults meet pods of one and of two containers.
Mixed == a :> <<2, 1>> @@ b :> <<2>> @@ c :> <<1>>
=============================================================================
