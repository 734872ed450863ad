----------------------------- MODULE MCExporter ------------------------------
(***************************************************************************)
(* Exporter for TLC: two flows of one domain and one monitored file.       *)
(***************************************************************************)
EXTENDS Exporter

CONSTANTS domain, flow1, flow2, file

MCRiskKeys == {flow1, flow2}
MCDomainOf == [k \in MCRiskKeys |-> domain]

\* much traffic, traffic on a connection that may break, and a shutdown with
\* little traffic
MCBudgets == {[updates |-> 3, faults |-> 0, signal |-> "never"],
              [updates |-> 2, faults |-> 1, signal |-> "never"],
              [updates |-> 1, faults |-> 1, signal |-> "due"]}
==============================================================================
