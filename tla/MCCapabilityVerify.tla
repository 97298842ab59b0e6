------------------------- MODULE MCCapabilityVerify -------------------------
(* Small instances of CapabilityVerify for TLC. *)
EXTENDS CapabilityVerify

CONSTANTS d1, d2

TwoDigests == {d1, d2}

With(S)   == [x \in Disturbances |-> IF x \in S THEN 1 ELSE 0]
Calm      == {With({"edit"})}
\* Six outages in a row double the backoff up to its cap.
Outage    == [With({}) EXCEPT !["blip"] = 6]
Lifetimes == {With({"edit", "blip"}), With({"edit", "restart"}),
              [With({"recreate"}) EXCEPT !["delete"] = 2], Outage}
=============================================================================
