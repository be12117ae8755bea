----------------------- MODULE CleanerOutboxInvariant -----------------------
(***************************************************************************)
(* Why a row is never sent twice: the inductive strengthening of           *)
(* AtMostOneEffect, NoReclaimableSend, SuccessIsTrue and PermitIsFresh.    *)
(***************************************************************************)
EXTENDS CleanerOutbox

Owed(r) == wire[r] + effects[r]

\* p may still put a request for its row on the wire.  At sendCheck that takes
\* the writer lease of this very run, which cannot be regained once lost.
MaySend(p) == pc[p] = "send" \/ (pc[p] = "sendCheck" /\ writer = p)

Claiming == {"failCheck", "fail", "intentCheck", "intent"}
Delivering == {"sendCheck", "send", "await", "resolveCheck", "resolve"}
Recovering == {"recInspect", "recCheck", "recResolve"}
Concluding == {"resolveCheck", "resolve", "recCheck", "recResolve"}

\* Fences count claims; only SUCCEEDED rows have a receipt; a permit is the
\* last one issued.
RowShape(r) ==
    /\ row[r].fence = row[r].attempt
    /\ row[r].status = "RUNNING" => row[r].attempt > 0
    /\ row[r].receipt => row[r].status = "SUCCEEDED"
    /\ row[r].code.kind = "NO_EFFECT_CONFIRMED" => row[r].code.fence = cleared[r]

\* A row somebody sent for before intents existed carries no permit.
NoPermitWhileOwed(r) ==
    row[r].status = "RUNNING" /\ Owed(r) > 0 => row[r].code.kind # "NO_EFFECT_CONFIRMED"

\* The three safety properties, of one row.
RowIsSafe(r) ==
    /\ Owed(r) <= 1
    /\ Owed(r) > 0 =>
         /\ row[r].status \notin Queued \cup {"CANCELLED"}
         /\ r \notin Legacy => row[r].status \in {"PENDING_RECONCILIATION", "SUCCEEDED"}
    /\ row[r].status = "SUCCEEDED" =>
         IF row[r].receipt THEN effects[r] = 1 ELSE Owed(r) = 0

\* What a process holds in its hands, and that its row has not gone back
\* since: same fence or a later one, and no earlier stage of the same fence.
Knows(p) ==
    /\ pc[p] \in Claiming \cup Delivering \cup Recovering \cup {"recRead"} => obj[p] \in Rows
    /\ pc[p] \in {"failCheck", "fail"} => obj[p] \in Unroutable
    /\ pc[p] \in Claiming => seen[p].status = "RUNNING"
    /\ pc[p] \in Delivering \cup Recovering => seen[p].status = "PENDING_RECONCILIATION"
    /\ pc[p] \in Claiming \cup Delivering \cup Recovering =>
         /\ seen[p].fence <= row[obj[p]].fence
         /\ seen[p].fence = row[obj[p]].fence =>
              /\ Stage(seen[p].status) <= Stage(row[obj[p]].status)
              /\ row[obj[p]].status = seen[p].status => row[obj[p]] = seen[p]

\* A process that may still send works on the current row, which nothing has
\* been sent for, under a fresh permit, and is the only one.
SendsAlone(p) ==
    MaySend(p) =>
        /\ row[obj[p]] = seen[p]
        /\ Owed(obj[p]) = 0
        /\ seen[p].attempt > 1 => cleared[obj[p]] = seen[p].fence - 1
        /\ \A q \in Procs : MaySend(q) /\ obj[q] = obj[p] => q = p

\* What a process concluded from the provider still holds when it is written.
VerdictHolds(p) ==
    pc[p] \in Concluding =>
        /\ verdict[p] \in {"EFFECT", "NO_EFFECT"}
        /\ verdict[p] = "EFFECT" => effects[obj[p]] > 0
        /\ verdict[p] = "NO_EFFECT" /\ row[obj[p]] = seen[p] =>
             /\ Owed(obj[p]) = 0
             /\ \A q \in Procs : obj[q] = obj[p] => ~MaySend(q)

\* A claim of a row that owes an effect is not a first attempt.
ClaimsAgain(p) ==
    pc[p] \in {"intentCheck", "intent"} /\ row[obj[p]] = seen[p] /\ Owed(obj[p]) > 0
        => seen[p].attempt > 1

RowInv(r) == RowShape(r) /\ NoPermitWhileOwed(r) /\ RowIsSafe(r)
ProcInv(p) == Knows(p) /\ SendsAlone(p) /\ VerdictHolds(p) /\ ClaimsAgain(p)

\* The inductive invariant.
IInv == /\ TypeOK
        /\ \A r \in Rows : RowInv(r)
        /\ \A p \in Procs : ProcInv(p)
=============================================================================
