--------------------------- MODULE OutboxPromise ---------------------------
(***************************************************************************)
(* What an outbox row promises the application that enqueued it, without   *)
(* attempts, leases, fences or processes: its effect happens at most once, *)
(* its outcome is decided once, and the outcome is the truth about the     *)
(* effect.  For the rows a pre-intent worker left behind (Unproven) the    *)
(* promise to be truthful stops at giving up on them.                      *)
(***************************************************************************)
EXTENDS Naturals

CONSTANTS Rows, Unproven

VARIABLES effect, outcome

promiseVars == <<effect, outcome>>

Init ==
    /\ effect \in [Rows -> {0, 1}]
    /\ \A r \in Rows : effect[r] = 1 => r \in Unproven
    /\ outcome = [r \in Rows |-> "open"]

\* The provider applies the effect of an open row, or of an abandoned one nobody
\* could vouch for.
TakeEffect(r) ==
    /\ effect[r] = 0
    /\ outcome[r] = "open" \/ (outcome[r] = "abandoned" /\ r \in Unproven)
    /\ effect' = [effect EXCEPT ![r] = 1]
    /\ UNCHANGED outcome

\* The outcome the row's effect allows.
MayBecome(r, verdict) ==
    CASE verdict = "delivered" -> effect[r] = 1
      [] verdict \in {"noop", "cancelled"} -> effect[r] = 0
      [] verdict = "abandoned" -> effect[r] = 0 \/ r \in Unproven

\* An open row is decided, once.
Decide ==
    /\ \E r \in Rows, verdict \in {"delivered", "noop", "cancelled", "abandoned"} :
        /\ outcome[r] = "open"
        /\ MayBecome(r, verdict)
        /\ outcome' = [outcome EXCEPT ![r] = verdict]
    /\ UNCHANGED effect

Next == (\E r \in Rows : TakeEffect(r)) \/ Decide

Spec == Init /\ [][Next]_promiseVars
=============================================================================
