--------------------------- MODULE MCSharedBuckets ---------------------------
(* SharedBuckets for TLC: either one CPU for longer or two for a short time. *)
EXTENDS SharedBuckets, TLC

MCScenarios ==
    {[cpus |-> {c}, packets |-> 6, clock |-> 5] : c \in Cpus}
        \cup {[cpus |-> Cpus, packets |-> 3, clock |-> 3]}

MCSymmetry == Permutations(Cpus)
==============================================================================
