--------------------------- MODULE CleanerOutbox ---------------------------
(***************************************************************************)
(* Delivery of the rows of propertyai.integration_outbox by the W07 worker *)
(* processes, and their evidence-bound recovery.                           *)
(*                                                                         *)
(*   db/v2_2_1/.../V20260904.107  the fenced SQL functions on a row        *)
(*   adapters/postgres/repository.py   PostgresOutboxWorkerRepository      *)
(*   runtime/postgres_outbox_worker.py CleanerPostgresOutboxWorker         *)
(*   runtime/outbox_reconciliation.py  GeneralOutboxReconciliation         *)
(*   global_writer.py              the lease every run holds as W07        *)
(*                                                                         *)
(* A SQL transaction is one action; everything between two transactions, a *)
(* provider call or a revalidation of the writer lease is an interleaving  *)
(* point, where a process may crash, a lease may lapse and another process *)
(* may run.  A row's deadlines are the two flags leased and due, which     *)
(* time sets at any moment.                                                *)
(***************************************************************************)
EXTENDS Naturals

CONSTANTS
    Rows,          \* outbox_id values
    Procs,         \* process incarnations that run as W07
    NoRow,         \* "no outbox row", a value outside Rows
    NoProc,        \* "nobody holds the writer lease", a value outside Procs
    MaxAttempts,   \* integration_outbox.max_attempts
    Telegram,      \* rows whose destination is TELEGRAM_PROJECTION
    Unroutable,    \* rows whose event/destination pair the worker refuses
    Legacy,        \* rows a pre-intent worker left RUNNING, sent or not
    MaxCrashes,    \* bound: crashes of worker processes
    MaxRecoveries  \* bound: recovery calls made by operators

ASSUME RowsAssumption ==
    /\ NoRow \notin Rows
    /\ Telegram \subseteq Rows
    /\ Unroutable \subseteq Rows
    /\ Legacy \subseteq Rows \ Unroutable
ASSUME ProcsAssumption == NoProc \notin Procs
ASSUME BoundsAssumption ==
    /\ MaxAttempts \in Nat \ {0}
    /\ MaxCrashes \in Nat
    /\ MaxRecoveries \in Nat

VARIABLES
    row,        \* the durable row
    leased,     \* lease_until has not passed
    due,        \* available_at has passed
    wire,       \* provider requests in flight, per row
    effects,    \* provider effects applied, per row
    writer,     \* holder of the GLOBAL_PRODUCTION writer lease
    pc,         \* where a process is
    obj,        \* the row a process works on
    seen,       \* the row contents it last read or wrote
    verdict,    \* what it learnt from the provider
    cleared,    \* history: the last fence whose no-effect proof was recorded
    crashes,    \* crashes so far
    recoveries  \* recovery calls so far

dbVars == <<row, leased, due>>
providerVars == <<wire, effects>>
procVars == <<pc, obj, seen, verdict>>
boundVars == <<crashes, recoveries>>
vars == <<row, leased, due, wire, effects, writer, pc, obj, seen, verdict,
          cleared, crashes, recoveries>>

-----------------------------------------------------------------------------
(* The row.                                                                *)

Statuses == {"PENDING", "RUNNING", "FAILED_RETRYABLE",
             "PENDING_RECONCILIATION", "SUCCEEDED", "DEAD_LETTER", "CANCELLED"}
Queued == {"PENDING", "FAILED_RETRYABLE"}
Terminal == {"SUCCEEDED", "DEAD_LETTER", "CANCELLED"}

\* last_error_code; a no-effect permit names the attempt and the fence it
\* was issued at, and no other code carries numbers anyone reads.
CodeKinds == {"NONE", "INVALID_CLAIM", "DELIVERY_INTENT_UNRESOLVED",
              "RECLAIMED_OUTCOME_REQUIRES_EVIDENCE", "DELIVERY_CONFIRMED",
              "EFFECT_CONFIRMED", "NO_EFFECT_CONFIRMED", "MAX_ATTEMPTS_EXHAUSTED"}
Codes == [kind : CodeKinds, attempt : 0..MaxAttempts, fence : 0..MaxAttempts]
Code(kind) == [kind |-> kind, attempt |-> 0, fence |-> 0]
Permit(rec) == [kind |-> "NO_EFFECT_CONFIRMED",
                attempt |-> rec.attempt, fence |-> rec.fence]

\* receipt: external_effect_id is not null.
RowRecords == [status : Statuses, attempt : 0..MaxAttempts,
               fence : 0..MaxAttempts, receipt : BOOLEAN, code : Codes]

Fresh == [status |-> "PENDING", attempt |-> 0, fence |-> 0,
          receipt |-> FALSE, code |-> Code("NONE")]
LeftRunning == [status |-> "RUNNING", attempt |-> 1, fence |-> 1,
                receipt |-> FALSE, code |-> Code("NONE")]

\* Mutant: an expired RUNNING row is not taken over.
DueIfQueued(r) == row[r].status \in Queued /\ due[r]

\* What claim_integration_outbox may take: due, or RUNNING past its lease.
Due(r) == \/ row[r].status \in Queued /\ due[r]
          \/ row[r].status = "RUNNING" /\ ~leased[r]

\* Mutant: the claim forgets to raise the fence.
ClaimedUnfenced(rec) == [rec EXCEPT !.status = "RUNNING", !.attempt = @ + 1]

Claimed(rec) == [rec EXCEPT !.status = "RUNNING",
                            !.attempt = @ + 1, !.fence = @ + 1]
Reaped(rec) ==
    [rec EXCEPT !.status = "DEAD_LETTER",
                !.code = IF @.kind = "NONE" THEN Code("MAX_ATTEMPTS_EXHAUSTED") ELSE @]

\* Mutant: one attempt too many.
ExhaustedLate(rec) == rec.attempt > MaxAttempts

Exhausted(rec) == rec.attempt >= MaxAttempts

\* fail_integration_outbox for a claim that cannot be routed.
Failed(rec) ==
    [rec EXCEPT !.status = IF Exhausted(rec) THEN "DEAD_LETTER" ELSE "FAILED_RETRYABLE",
                !.code = Code("INVALID_CLAIM")]

\* resolve_integration_outbox_reconciliation, to SUCCEEDED and to a retry.
Succeeded(rec, receipt, kind) ==
    [rec EXCEPT !.status = "SUCCEEDED", !.receipt = receipt, !.code = Code(kind)]
Cleared(rec) ==
    [rec EXCEPT !.status = IF Exhausted(rec) THEN "DEAD_LETTER" ELSE "FAILED_RETRYABLE",
                !.code = Permit(rec)]

Cancelled(rec) == [rec EXCEPT !.status = "CANCELLED"]

\* A retry whose row carries the proof of the attempt and fence just before.
ConfirmedNoEffectRetryAllowed(rec) ==
    /\ rec.code.kind = "NO_EFFECT_CONFIRMED"
    /\ rec.attempt = rec.code.attempt + 1
    /\ rec.fence = rec.code.fence + 1

\* Mutant: a reclaimed row is delivered again.
AlwaysPermitted(rec) == TRUE

Permitted(rec) == rec.attempt = 1 \/ ConfirmedNoEffectRetryAllowed(rec)

Intent(rec) ==
    [rec EXCEPT !.status = "PENDING_RECONCILIATION",
                !.code = IF Permitted(rec)
                           THEN Code("DELIVERY_INTENT_UNRESOLVED")
                           ELSE Code("RECLAIMED_OUTCOME_REQUIRES_EVIDENCE")]

-----------------------------------------------------------------------------
(* Processes.                                                              *)

\* assert_current_production_writer stands before the call named on the right.
AfterCheck == [failCheck |-> "fail", intentCheck |-> "intent",
               sendCheck |-> "send", resolveCheck |-> "resolve",
               recCheck |-> "recResolve"]
Checks == {"failCheck", "intentCheck", "sendCheck", "resolveCheck", "recCheck"}
Writes == {"fail", "intent", "resolve", "recResolve"}
PCs == Checks \cup Writes
       \cup {"idle", "claim", "send", "await", "recRead", "recInspect"}
Verdicts == {"NONE", "EFFECT", "NO_EFFECT"}

Go(p, label) == pc' = [pc EXCEPT ![p] = label]

\* Leaving mutation_scope releases the writer lease if it is still ours.
\* Nothing of the run is left but the durable row.
Leave(p) ==
    /\ pc' = [pc EXCEPT ![p] = "idle"]
    /\ obj' = [obj EXCEPT ![p] = NoRow]
    /\ seen' = [seen EXCEPT ![p] = Fresh]
    /\ verdict' = [verdict EXCEPT ![p] = "NONE"]
    /\ writer' = IF writer = p THEN NoProc ELSE writer

\* The full-row expectation every exact update starts from.
AsExpected(p) == row[obj[p]] = seen[p]

Init ==
    /\ row = [r \in Rows |-> IF r \in Legacy THEN LeftRunning ELSE Fresh]
    /\ leased \in [Rows -> BOOLEAN]
    /\ \A r \in Rows : leased[r] => r \in Legacy
    /\ due = [r \in Rows |-> TRUE]
    /\ effects \in [Rows -> {0, 1}]
    /\ wire \in [Rows -> {0, 1}]
    /\ \A r \in Rows : effects[r] + wire[r] <= IF r \in Legacy THEN 1 ELSE 0
    /\ writer = NoProc
    /\ pc = [p \in Procs |-> "idle"]
    /\ obj = [p \in Procs |-> NoRow]
    /\ seen = [p \in Procs |-> Fresh]
    /\ verdict = [p \in Procs |-> "NONE"]
    /\ cleared = [r \in Rows |-> 0]
    /\ crashes = 0
    /\ recoveries = 0

\* run_once: mutation_scope("W07") and the first revalidation.  While another
\* process holds the lease the loop reports WAITING_CONTROL and sleeps.
EnterRun(p) ==
    /\ pc[p] = "idle"
    /\ writer = NoProc
    /\ writer' = p
    /\ Go(p, "claim")
    /\ UNCHANGED <<dbVars, providerVars, obj, seen, verdict, cleared, boundVars>>

\* LIMIT 1: one row of S, or none when S is empty.
AtMostOne(S) == IF S = {} THEN {{}} ELSE {{x} : x \in S}

\* claim_integration_outbox(worker, 1, lease): one exhausted due row becomes
\* DEAD_LETTER, then one due row is claimed, in the same transaction.  The
\* loop goes back to sleep when nothing was claimed; a claim the worker cannot
\* route is failed without entering an adapter.
Claim(p) ==
    /\ pc[p] = "claim"
    /\ \E dead \in AtMostOne({r \in Rows : Due(r) /\ Exhausted(row[r])}),
          picked \in AtMostOne({r \in Rows : Due(r) /\ ~Exhausted(row[r])}) :
        /\ row' = [r \in Rows |-> IF r \in dead THEN Reaped(row[r])
                                  ELSE IF r \in picked THEN Claimed(row[r])
                                  ELSE row[r]]
        /\ leased' = [r \in Rows |-> r \in picked \/ (leased[r] /\ r \notin dead)]
        /\ \/ /\ picked = {}
              /\ Leave(p)
           \/ \E r \in picked :
                /\ Go(p, IF r \in Unroutable THEN "failCheck" ELSE "intentCheck")
                /\ obj' = [obj EXCEPT ![p] = r]
                /\ seen' = [seen EXCEPT ![p] = Claimed(row[r])]
                /\ UNCHANGED <<verdict, writer>>
    /\ UNCHANGED <<due, providerVars, cleared, boundVars>>

\* assert_current_production_writer: the run goes on only while this process
\* still holds the writer lease; otherwise it raises, and nothing is written.
AssertWriter(p) ==
    /\ pc[p] \in Checks
    /\ IF writer = p
         THEN Go(p, AfterCheck[pc[p]]) /\ UNCHANGED <<obj, seen, verdict, writer>>
         ELSE Leave(p)
    /\ UNCHANGED <<dbVars, providerVars, cleared, boundVars>>

\* fail_integration_outbox, fenced by status, owner and fence.
FailClaim(p) ==
    /\ pc[p] = "fail"
    /\ LET r == obj[p] IN
         IF row[r].status = "RUNNING" /\ row[r].fence = seen[p].fence
           THEN /\ row' = [row EXCEPT ![r] = Failed(@)]
                /\ due' = [due EXCEPT ![r] = Exhausted(row[r]) /\ @]
                /\ leased' = [leased EXCEPT ![r] = FALSE]
           ELSE UNCHANGED dbVars
    /\ Leave(p)
    /\ UNCHANGED <<providerVars, cleared, boundVars>>

\* begin_outbox_delivery: the claimed row, read back whole, becomes
\* PENDING_RECONCILIATION before the provider is called.  Without a permit the
\* run ends there; a row that changed since the claim rejects the intent.
BeginDelivery(p) ==
    /\ pc[p] = "intent"
    /\ LET r == obj[p] IN
         IF AsExpected(p)
           THEN /\ row' = [row EXCEPT ![r] = Intent(seen[p])]
                /\ leased' = [leased EXCEPT ![r] = FALSE]
                /\ IF Permitted(seen[p])
                     THEN /\ Go(p, "sendCheck")
                          /\ seen' = [seen EXCEPT ![p] = Intent(seen[p])]
                          /\ UNCHANGED <<obj, verdict, writer>>
                     ELSE Leave(p)
           ELSE UNCHANGED <<row, leased>> /\ Leave(p)
    /\ UNCHANGED <<due, providerVars, cleared, boundVars>>

\* adapter.deliver puts the request on the wire.  Telegram is never asked
\* again after the first attempt.
Send(p) ==
    /\ pc[p] = "send"
    /\ obj[p] \in Telegram => seen[p].attempt = 1
    /\ wire' = [wire EXCEPT ![obj[p]] = @ + 1]
    /\ Go(p, "await")
    /\ UNCHANGED <<dbVars, effects, writer, obj, seen, verdict, cleared, boundVars>>

\* adapter.deliver raises before any request: identity ambiguous, projection
\* state missing, or a Telegram row that was attempted before.
RefuseToSend(p) ==
    /\ pc[p] = "send"
    /\ Leave(p)
    /\ UNCHANGED <<dbVars, providerVars, cleared, boundVars>>

\* A Calendar projection that needs no effect says so without a receipt.
ConfirmNoOp(p) ==
    /\ pc[p] = "send"
    /\ obj[p] \notin Telegram
    /\ verdict' = [verdict EXCEPT ![p] = "NO_EFFECT"]
    /\ Go(p, "resolveCheck")
    /\ UNCHANGED <<dbVars, providerVars, writer, obj, seen, cleared, boundVars>>

\* A Notion or Calendar projection finds the destination already showing what
\* the row asks for, and returns its identity without a request.
FindApplied(p) ==
    /\ pc[p] = "send"
    /\ obj[p] \notin Telegram
    /\ effects' = [effects EXCEPT ![obj[p]] = 1]
    /\ verdict' = [verdict EXCEPT ![p] = "EFFECT"]
    /\ Go(p, "resolveCheck")
    /\ UNCHANGED <<dbVars, wire, writer, obj, seen, cleared, boundVars>>

\* The provider's receipt arrives.
ReceiveReceipt(p) ==
    /\ pc[p] = "await"
    /\ effects[obj[p]] > 0
    /\ verdict' = [verdict EXCEPT ![p] = "EFFECT"]
    /\ Go(p, "resolveCheck")
    /\ UNCHANGED <<dbVars, providerVars, writer, obj, seen, cleared, boundVars>>

\* Timeout, broken connection or a malformed receipt: the effect may or may
\* not exist, and the intent stays as the durable record of that doubt.
LoseAcknowledgement(p) ==
    /\ pc[p] = "await"
    /\ Leave(p)
    /\ UNCHANGED <<dbVars, providerVars, cleared, boundVars>>

\* resolve_outbox_reconciliation_exact(pending, SUCCEEDED): a full-row
\* comparison and the status/fence predicate, in one transaction.
ResolveDelivery(p) ==
    /\ pc[p] = "resolve"
    /\ LET r == obj[p] IN
         IF AsExpected(p)
           THEN row' = [row EXCEPT ![r] =
                        Succeeded(@, @.receipt \/ verdict[p] = "EFFECT", "DELIVERY_CONFIRMED")]
           ELSE UNCHANGED row
    /\ Leave(p)
    /\ UNCHANGED <<leased, due, providerVars, cleared, boundVars>>

-----------------------------------------------------------------------------
(* Recovery: GeneralOutboxReconciliation.resolve, one call per row.        *)

EnterRecovery(p, r) ==
    /\ pc[p] = "idle"
    /\ writer = NoProc
    /\ recoveries < MaxRecoveries
    /\ recoveries' = recoveries + 1
    /\ writer' = p
    /\ Go(p, "recRead")
    /\ obj' = [obj EXCEPT ![p] = r]
    /\ UNCHANGED <<dbVars, providerVars, seen, verdict, cleared, crashes>>

\* The row must be PENDING_RECONCILIATION, at the attempt and fence the caller
\* diagnosed.
ReadExpected(p) ==
    /\ pc[p] = "recRead"
    /\ IF row[obj[p]].status = "PENDING_RECONCILIATION"
         THEN /\ Go(p, "recInspect")
              /\ seen' = [seen EXCEPT ![p] = row[obj[p]]]
              /\ UNCHANGED <<obj, verdict, writer>>
         ELSE Leave(p)
    /\ UNCHANGED <<dbVars, providerVars, cleared, boundVars>>

\* The contract of ProviderEvidencePort, which src/ declares and does not
\* implement: absence is certified only when nothing was applied, nothing is
\* in flight, and no current process is past the point of deciding to send.
AbsenceProven(r) ==
    /\ effects[r] = 0
    /\ wire[r] = 0
    /\ \A q \in Procs : obj[q] = r =>
         /\ pc[q] # "send"
         /\ ~(pc[q] = "sendCheck" /\ writer = q)

Inspect(p) ==
    /\ pc[p] = "recInspect"
    /\ \/ /\ effects[obj[p]] > 0
          /\ verdict' = [verdict EXCEPT ![p] = "EFFECT"]
          /\ Go(p, "recCheck")
          /\ UNCHANGED <<obj, seen, writer>>
       \/ /\ AbsenceProven(obj[p])
          /\ ~seen[p].receipt
          /\ verdict' = [verdict EXCEPT ![p] = "NO_EFFECT"]
          /\ Go(p, "recCheck")
          /\ UNCHANGED <<obj, seen, writer>>
       \/ Leave(p)   \* ambiguous, unavailable, conflicting, or no retry asked
    /\ UNCHANGED <<dbVars, providerVars, cleared, boundVars>>

\* The same exact resolution: SUCCEEDED for a proven effect, otherwise a retry
\* permit for the next attempt and fence, or DEAD_LETTER at the limit.
ResolveByEvidence(p) ==
    /\ pc[p] = "recResolve"
    /\ LET r == obj[p] IN
         IF ~AsExpected(p)
           THEN UNCHANGED <<row, due, cleared>>
           ELSE IF verdict[p] = "EFFECT"
             THEN /\ row' = [row EXCEPT ![r] = Succeeded(@, TRUE, "EFFECT_CONFIRMED")]
                  /\ UNCHANGED <<due, cleared>>
             ELSE /\ row' = [row EXCEPT ![r] = Cleared(@)]
                  /\ due' = [due EXCEPT ![r] = TRUE]
                  /\ cleared' = [cleared EXCEPT ![r] = seen[p].fence]
    /\ Leave(p)
    /\ UNCHANGED <<leased, providerVars, boundVars>>

-----------------------------------------------------------------------------
(* Everyone else.                                                          *)

\* Mutant: a row waiting for evidence can be cancelled.
CancelPending(r) ==
    /\ row[r].status \in Queued \cup {"PENDING_RECONCILIATION"}
    /\ row' = [row EXCEPT ![r] = Cancelled(@)]
    /\ UNCHANGED <<leased, due, providerVars, writer, procVars, cleared, boundVars>>

\* cancel_integration_outbox, granted to the application role.
Cancel(r) ==
    /\ row[r].status \in Queued
    /\ row' = [row EXCEPT ![r] = Cancelled(@)]
    /\ UNCHANGED <<leased, due, providerVars, writer, procVars, cleared, boundVars>>

ProviderApplies(r) ==
    /\ wire[r] > 0
    /\ wire' = [wire EXCEPT ![r] = @ - 1]
    /\ effects' = [effects EXCEPT ![r] = @ + 1]
    /\ UNCHANGED <<dbVars, writer, procVars, cleared, boundVars>>

RequestLost(r) ==
    /\ wire[r] > 0
    /\ wire' = [wire EXCEPT ![r] = @ - 1]
    /\ UNCHANGED <<dbVars, effects, writer, procVars, cleared, boundVars>>

LeaseExpires(r) ==
    /\ row[r].status = "RUNNING"
    /\ leased[r]
    /\ leased' = [leased EXCEPT ![r] = FALSE]
    /\ UNCHANGED <<row, due, providerVars, writer, procVars, cleared, boundVars>>

RetryBecomesDue(r) ==
    /\ row[r].status = "FAILED_RETRYABLE"
    /\ ~due[r]
    /\ due' = [due EXCEPT ![r] = TRUE]
    /\ UNCHANGED <<row, leased, providerVars, writer, procVars, cleared, boundVars>>

\* The writer lease lives 60 seconds past its last heartbeat.  A crashed
\* holder stops heartbeating; a paused one, or one whose heartbeat thread
\* failed, may still be in its run when the lease is gone.
WriterLapses ==
    /\ writer # NoProc
    /\ writer' = NoProc
    /\ UNCHANGED <<dbVars, providerVars, procVars, cleared, boundVars>>

\* SIGKILL: the process forgets everything and its writer lease is orphaned.
Crash(p) ==
    /\ pc[p] # "idle"
    /\ crashes < MaxCrashes
    /\ crashes' = crashes + 1
    /\ pc' = [pc EXCEPT ![p] = "idle"]
    /\ obj' = [obj EXCEPT ![p] = NoRow]
    /\ seen' = [seen EXCEPT ![p] = Fresh]
    /\ verdict' = [verdict EXCEPT ![p] = "NONE"]
    /\ UNCHANGED <<dbVars, providerVars, writer, cleared, recoveries>>

-----------------------------------------------------------------------------
RunStep(p) ==
    \/ Claim(p) \/ AssertWriter(p) \/ FailClaim(p) \/ BeginDelivery(p)
    \/ Send(p) \/ RefuseToSend(p) \/ ConfirmNoOp(p) \/ FindApplied(p)
    \/ ReceiveReceipt(p) \/ LoseAcknowledgement(p) \/ ResolveDelivery(p)
    \/ ReadExpected(p) \/ Inspect(p) \/ ResolveByEvidence(p)

Next ==
    \/ \E p \in Procs : EnterRun(p) \/ RunStep(p) \/ Crash(p)
    \/ \E p \in Procs, r \in Rows : EnterRecovery(p, r)
    \/ \E r \in Rows : \/ Cancel(r) \/ ProviderApplies(r) \/ RequestLost(r)
                       \/ LeaseExpires(r) \/ RetryBecomesDue(r)
    \/ WriterLapses

Spec == Init /\ [][Next]_vars

\* A process that is running gets on with its run (every provider call has a
\* timeout) and its loop comes round again; clocks advance, so leases and
\* retry delays end and the lease of a process that died lapses.
Fairness ==
    /\ \A p \in Procs : WF_vars(EnterRun(p)) /\ WF_vars(RunStep(p))
    /\ \A r \in Rows : WF_vars(LeaseExpires(r)) /\ WF_vars(RetryBecomesDue(r))
    /\ WF_vars(WriterLapses /\ pc[writer] = "idle")

FairSpec == Spec /\ Fairness
-----------------------------------------------------------------------------
(* Properties.                                                             *)

\* The values every variable may take; the table's own CHECK constraints
\* (attempt_count <= max_attempts among them) are part of it.
TypeOK ==
    /\ row \in [Rows -> RowRecords]
    /\ leased \in [Rows -> BOOLEAN]
    /\ due \in [Rows -> BOOLEAN]
    /\ wire \in [Rows -> Nat]
    /\ effects \in [Rows -> Nat]
    /\ writer \in Procs \cup {NoProc}
    /\ pc \in [Procs -> PCs]
    /\ obj \in [Procs -> Rows \cup {NoRow}]
    /\ seen \in [Procs -> RowRecords]
    /\ verdict \in [Procs -> Verdicts]
    /\ cleared \in [Rows -> 0..MaxAttempts]
    /\ crashes \in 0..MaxCrashes
    /\ recoveries \in 0..MaxRecoveries

\* Whatever crashes, reclaims, lost acknowledgements and recoveries happen, no
\* outbox row reaches its provider twice ("never blind resend").
AtMostOneEffect == \A r \in Rows : wire[r] + effects[r] <= 1

\* A row whose effect exists or may still arrive is never left where a later
\* claim would send it again or a cancellation would disown it; and unless a
\* pre-intent worker left it behind, it waits for evidence or is SUCCEEDED.
NoReclaimableSend ==
    \A r \in Rows : wire[r] + effects[r] > 0 =>
        /\ row[r].status \notin Queued \cup {"CANCELLED"}
        /\ r \notin Legacy => row[r].status \in {"PENDING_RECONCILIATION", "SUCCEEDED"}

\* SUCCEEDED tells the truth about the provider: with a receipt the effect
\* exists, without one nothing was or will be applied.
SuccessIsTrue ==
    \A r \in Rows : row[r].status = "SUCCEEDED" =>
        IF row[r].receipt THEN effects[r] = 1 ELSE wire[r] + effects[r] = 0

\* Every delivery after the first attempt spends a no-effect proof recorded at
\* exactly the fence before its own: a permit does not survive a reclaim.
PermitIsFresh ==
    \A p \in Procs :
        pc[p] = "send" /\ seen[p].attempt > 1 =>
            cleared[obj[p]] = seen[p].fence - 1

\* How far a row has come under one fence.
Stage(status) == CASE status = "PENDING" -> 0
                   [] status = "RUNNING" -> 1
                   [] status = "PENDING_RECONCILIATION" -> 2
                   [] status = "FAILED_RETRYABLE" -> 3
                   [] OTHER -> 4

\* b may follow a: a is not finished, and b has a higher fence or a later stage.
Later(a, b) ==
    /\ a.status \notin Terminal
    /\ \/ b.fence > a.fence
       \/ b.fence = a.fence /\ Stage(b.status) > Stage(a.status)

\* A row only moves forward, by fence and then by stage, and a finished row is
\* never touched again.  So it never comes back to PENDING_RECONCILIATION under
\* the same fence, which is why a plain status-and-fence predicate is enough
\* for an exact resolution (no ABA).
RowMovesForward ==
    [][\A r \in Rows : row'[r] = row[r] \/ Later(row[r], row'[r])]_vars

\* A process whose knowledge of its row is out of date changes nothing: not
\* after a lapsed writer lease, a reclaim or a competing resolution.
StaleProcessWritesNothing ==
    [][\A p \in Procs :
        (pc[p] \in Writes /\ pc'[p] # pc[p] /\ row[obj[p]] # seen[p])
            => row' = row]_vars

\* No row stays in the hands of the queue: it is delivered, dead-lettered,
\* cancelled, or parked for evidence, however often workers crash.
EveryRowLeavesTheQueue ==
    \A r \in Rows : row[r].status \in Queued \cup {"RUNNING"}
                     ~> row[r].status \notin Queued \cup {"RUNNING"}

-----------------------------------------------------------------------------
(* What the outbox promises its producers, and the step-by-step mapping.   *)

Outcome(r) ==
    CASE row[r].status = "SUCCEEDED" -> IF row[r].receipt THEN "delivered" ELSE "noop"
      [] row[r].status = "DEAD_LETTER" -> "abandoned"
      [] row[r].status = "CANCELLED" -> "cancelled"
      [] OTHER -> "open"

Promise == INSTANCE OutboxPromise WITH
    Unproven <- Legacy,
    effect <- [r \in Rows |-> effects[r]],
    outcome <- [r \in Rows |-> Outcome(r)]

\* Every behaviour of the worker, its crashes and its recoveries is one the
\* producers were promised.
KeepsThePromise == Promise!Spec
=============================================================================
