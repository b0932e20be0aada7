----------------------------- MODULE MCWidgetLocks -----------------------------
(* One message with the guarded build. *)
EXTENDS WidgetLocks, TLC

MCLocksDepth == [b \in Builds |-> MaxSends]
=============================================================================
