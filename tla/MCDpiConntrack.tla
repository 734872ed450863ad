--------------------------- MODULE MCDpiConntrack ---------------------------
(* DpiConntrackHistory for TLC: one HTTPS flow and one DNS flow on two CPUs. *)
EXTENDS DpiConntrackHistory, TLC

CONSTANTS tls, dns

MCFlows   == {tls, dns}
MCService == [f \in MCFlows |-> IF f = tls THEN "tls" ELSE "system"]

\* CPUs and map elements are interchangeable; flows are not
MCSymmetry == Permutations(Cpus) \cup Permutations(Elems)
=============================================================================
