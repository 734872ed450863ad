---------------------------- MODULE MCLifecycle -----------------------------
(***************************************************************************)
(* Lifecycle for TLC: an uplink that is configured when the process starts *)
(* and a second interface in any state.                                    *)
(***************************************************************************)
EXTENDS Lifecycle

CONSTANTS eth, wlan

MCIfaces == {eth, wlan}

MCBoot == {l \in [MCIfaces -> [state : LinkStates, addr : BOOLEAN]] :
              l[eth] = [state |-> "up", addr |-> TRUE]}
=============================================================================
