---------------------------- MODULE MCWidgetBuilds ----------------------------
(* Two messages with the guarded build and with one skin, one with the others. *)
EXTENDS WidgetBuilds, TLC

MCDepth == [b \in Builds |-> IF b \in {"classic", "clay"} THEN MaxSends ELSE 1]
=============================================================================
