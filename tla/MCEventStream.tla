--------------------------- MODULE MCEventStream ---------------------------
(* Timestamps for model checking EventStream on a host in zone 1. *)
EXTENDS EventStream

\* The host's own zone, and the one behind it.
Here(w) == [wall |-> w, zone |-> 1]
West(w) == [wall |-> w, zone |-> 0]

SomeStamps == {West(1), Here(2)}

=============================================================================
