------------------------------ MODULE MCGpuSession ------------------------------
EXTENDS GpuSession, TLC

\* Instances and processes have no order.
Symmetry == Permutations(Instances) \cup Permutations(Processes)
===============================================================================
