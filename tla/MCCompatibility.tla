-------------------------- MODULE MCCompatibility --------------------------
(* Instance of Compatibility for TLC. *)
EXTENDS Compatibility
CONSTANTS a100, d1, d2, c1

\* Two drivers, and a CPU-only machine.
AllMachines ==
    {[gpu |-> a100, driver |-> d1, criu |-> c1],
     [gpu |-> a100, driver |-> d2, criu |-> c1],
     [gpu |-> Empty, driver |-> Empty, criu |-> c1]}

\* Nothing pinned, or the driver.
SomePins == {EmptyKey, [EmptyKey EXCEPT !["driver"] = d1]}
=============================================================================
