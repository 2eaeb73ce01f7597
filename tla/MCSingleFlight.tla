--------------------------- MODULE MCSingleFlight ---------------------------
(* Goroutines on one key whose fn returns and on one whose fn may panic.   *)
EXTENDS SingleFlight, TLC

CONSTANTS good, bad, v, err

MCKeys == {good, bad}
MCPanicKeys == {bad}
MCOutcomes == (good :> {v, err}) @@ (bad :> {err})
=============================================================================
