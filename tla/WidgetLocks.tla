------------------------------ MODULE WidgetLocks ------------------------------
(***************************************************************************)
(* WidgetChat beside what the server knows of its visitor: blocked by the  *)
(* injection guard, or refused because the chat of the plan is closed.     *)
(* The server's answers agree with it, operators and plans change it.      *)
(***************************************************************************)
EXTENDS WidgetChat

VARIABLE locks   \* why the server refuses this visitor

\* The answer of the server to the message in flight: the guard may block the
\* visitor now, or have done so before.
Decides(v) ==
    /\ Done(v) \/ PlainReply(v)
    /\ v = "answer" => locks = {}
    /\ v = "quota" => v \in locks
    /\ locks' = locks \cup ({v} \cap {"blocked"})

\* guard_unblock of the admin panel, or the plan's quota reached or renewed.
LocksChange ==
    /\ \/ locks' = locks \ {"blocked"}
       \/ locks' \in {locks \cup {"quota"}, locks \ {"quota"}}
    /\ UNCHANGED vars

\* Every step that brings no decision of the server.
Undecided ==
    /\ \/ \E b \in Builds : Boot(b)
       \/ Starting \/ Sending \/ Buttons \/ RowButtons \/ Typing
       \/ StreamOpens \/ Meta \/ Token \/ StreamEnds \/ StreamFails \/ StreamTimeout
       \/ PlainFails \/ PlainTimeout
       \/ Leave \/ OtherTab
    /\ UNCHANGED locks

LocksInit == Init /\ locks = {}

LocksNext == (\E v \in Verdicts : Decides(v)) \/ LocksChange \/ Undecided

LocksSpec == LocksInit /\ [][LocksNext]_<<vars, locks>>

\* restoreHistory asks the server, which is authoritative: when a page on which
\* nothing was sent yet has asked, a visitor the server does not refuse any more
\* can write again, though sessionStorage said otherwise.
HistoryUnlocks ==
    [][/\ HistoryArrives
       /\ build \in Guarded /\ locks = {}
       /\ \A m \in Messages : ans[m] = NoAnswer
       => ~blocked']_<<vars, locks>>

=============================================================================
