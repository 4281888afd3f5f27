----------------------------- MODULE VxpuInfoMC -----------------------------
(* A small instance of VxpuInfo for TLC.                                    *)
EXTENDS VxpuInfo, TLC

CONSTANTS p1, p2, g1

\* A pod with a container without vGPU before the one that has a vGPU, and a
\* pod with one container, on the same GPU.
Numbers == (p1 :> <<0, 1>>) @@ (p2 :> <<1>>)
Assignment == (p1 :> << <<g1>> >>) @@ (p2 :> << <<g1>> >>)
=============================================================================
