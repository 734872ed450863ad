------------------------ MODULE DpiConntrackHistory ------------------------
(***************************************************************************)
(* The connection tracker with two history variables that tell the         *)
(* behaviours in which the unlocked code is left undisturbed from the      *)
(* others: raced, once two CPUs handled packets of the same flow at the    *)
(* same time, and evicted, once a flow lost its entry to another one.      *)
(***************************************************************************)
EXTENDS DpiConntrack

VARIABLES raced, evicted

historyVars == <<vars, raced, evicted>>

HistoryInit == Init /\ raced = FALSE /\ evicted = FALSE

HistoryNext ==
    /\ Next
    /\ raced' = (raced \/ \E c, d \in Cpus : c # d /\ task'[c].flow = task'[d].flow
                                                   /\ task'[c].flow # NoFlow)
    /\ evicted' = (evicted \/ \E f \in Flows : Holding(f) # {} /\ \A e \in Elems : elem'[e].key # f)

HistorySpec == HistoryInit /\ [][HistoryNext]_historyVars

----------------------------------------------------------------------------
Undisturbed == ~raced /\ ~evicted

\* As long as every flow keeps to one CPU at a time and keeps its entry, no
\* more than MAX_DPI_ATTEMPTS of its packets are offered to user space, other
\* flows being handled in parallel (trace_connect.c:113-182).
BudgetKept == Undisturbed => EgressBudget

\* Under the same condition a DNS flow is never offered to user space nor
\* waits for an SNI.  (A stale pointer into a recycled element is what breaks
\* it: trace_connect.c:138 and 181.)
SystemFlowsKept == Undisturbed => SystemFlowsIgnored

\* Under the same condition a finished classification is never changed.
FinalKept ==
    [][Undisturbed' => \A e \in Elems :
          /\ elem[e].key \in Flows
          /\ DPI_ST(elem[e].dpi) \in {DPI_IGNORE, DPI_BLOCKLIST, DPI_TLS_DONE}
          => elem'[e] = elem[e]]_historyVars
============================================================================
