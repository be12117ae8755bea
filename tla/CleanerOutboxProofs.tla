------------------------ MODULE CleanerOutboxProofs ------------------------
(***************************************************************************)
(* For any number of rows, worker processes, crashes and recoveries: the   *)
(* invariant IInv of CleanerOutboxInvariant is inductive, and the safety   *)
(* properties of CleanerOutbox follow from it.                             *)
(***************************************************************************)
EXTENDS CleanerOutboxInvariant, TLAPS

USE RowsAssumption, ProcsAssumption, BoundsAssumption
    DEF RowsAssumption, ProcsAssumption, BoundsAssumption

\* q holds after the step what it held before.
SameRun(q) == /\ pc'[q] = pc[q]
              /\ obj'[q] = obj[q]
              /\ seen'[q] = seen[q]
              /\ verdict'[q] = verdict[q]

MovesForward == \A r \in Rows : row'[r] = row[r] \/ Later(row[r], row'[r])

-----------------------------------------------------------------------------
\* Initially nothing is claimed, and only legacy rows owe an effect.
LEMMA InitIInv == Init => IInv
<1> SUFFICES ASSUME Init PROVE IInv
  OBVIOUS
<1>1. LeftRunning \in RowRecords /\ Fresh \in RowRecords
  BY DEF RowRecords, Fresh, LeftRunning, Code, Codes, CodeKinds, Statuses
<1>2. TypeOK
  BY <1>1 DEF Init, TypeOK, PCs, Checks, Writes, Verdicts
<1>3. ASSUME NEW r \in Rows PROVE RowInv(r)
  <2>1. row[r] = IF r \in Legacy THEN LeftRunning ELSE Fresh
    BY DEF Init
  <2>2. Owed(r) <= (IF r \in Legacy THEN 1 ELSE 0) /\ Owed(r) \in Nat
    BY DEF Init, Owed
  <2>3. CASE r \in Legacy
    BY <2>1, <2>2, <2>3 DEF RowInv, RowShape, NoPermitWhileOwed, RowIsSafe, LeftRunning,
       Code, Queued
  <2>4. CASE r \notin Legacy
    BY <2>1, <2>2, <2>4 DEF RowInv, RowShape, NoPermitWhileOwed, RowIsSafe, Fresh, Code
  <2> QED
    BY <2>3, <2>4
<1>4. \A p \in Procs : ProcInv(p)
  BY DEF Init, ProcInv, Knows, SendsAlone, VerdictHolds, ClaimsAgain, MaySend, Claiming,
         Delivering, Recovering, Concluding
<1> QED
  BY <1>2, <1>3, <1>4 DEF IInv

\* The stages are numbers.
LEMMA StageIsNat == \A s : Stage(s) \in 0..4
  BY DEF Stage

\* Past its claim a process works on a row.
LEMMA WorksOnARow ==
  ASSUME IInv, NEW p \in Procs, pc[p] \notin {"idle", "claim"}
  PROVE  obj[p] \in Rows
  BY DEF IInv, TypeOK, ProcInv, Knows, PCs, Checks, Writes, Claiming, Delivering, Recovering

\* A process that may send holds the current row, which waits for evidence and
\* which nothing was sent for.
LEMMA SenderFacts ==
  ASSUME IInv, NEW q \in Procs, MaySend(q)
  PROVE  /\ obj[q] \in Rows
         /\ row[obj[q]] = seen[q]
         /\ row[obj[q]].status = "PENDING_RECONCILIATION"
         /\ Owed(obj[q]) = 0
  BY DEF IInv, ProcInv, Knows, SendsAlone, MaySend, Delivering

\* What a process holds of a row that has moved on is out of date.
LEMMA MovedOn ==
  ASSUME IInv, TypeOK', NEW q \in Procs, SameRun(q), Later(row[obj[q]], row'[obj[q]]),
         pc[q] \in Claiming \cup Delivering \cup Recovering
  PROVE  Knows(q)' /\ row'[obj[q]] # seen[q]
<1>1. obj[q] \in Rows
  BY DEF IInv, ProcInv, Knows
<1>2. /\ row[obj[q]].fence \in Nat /\ row'[obj[q]].fence \in Nat /\ seen[q].fence \in Nat
  BY <1>1 DEF IInv, TypeOK, RowRecords
<1>3. /\ seen[q].fence <= row'[obj[q]].fence
      /\ seen[q].fence = row'[obj[q]].fence =>
            Stage(seen[q].status) < Stage(row'[obj[q]].status)
  BY <1>1, <1>2, StageIsNat DEF IInv, ProcInv, Knows, Later
<1> QED
  BY <1>1, <1>2, <1>3, StageIsNat DEF IInv, ProcInv, Knows, SameRun

-----------------------------------------------------------------------------
\* A transaction that moves the rows of S forward, by a process or a client
\* with nothing on the wire, keeps the invariant if it keeps it for S and for
\* the process itself.
LEMMA RowWrite ==
  ASSUME IInv, TypeOK', NEW S \in SUBSET Rows, NEW P \in SUBSET Procs,
         UNCHANGED <<wire, effects>>,
         \A s \in Rows \ S : row'[s] = row[s] /\ cleared'[s] = cleared[s],
         \A s \in S : Later(row[s], row'[s]) /\ RowInv(s)',
         \A q \in Procs \ P : SameRun(q),
         \A q \in P : ProcInv(q)',
         \A q \in Procs : MaySend(q) => obj[q] \notin S,
         \A q \in Procs : MaySend(q)' =>
              \/ q \in P /\ obj'[q] \in S
              \/ MaySend(q) /\ obj'[q] = obj[q]
  PROVE  IInv' /\ MovesForward
<1>1. ASSUME NEW s \in Rows PROVE RowInv(s)'
  <2>1. CASE s \in S
    BY <2>1
  <2>2. CASE s \notin S
    BY <2>2 DEF IInv, RowInv, RowShape, NoPermitWhileOwed, RowIsSafe, Owed
  <2> QED
    BY <2>1, <2>2
<1>2. ASSUME NEW q \in Procs \ P PROVE ProcInv(q)'
  <2>1. CASE obj[q] \in S /\ pc[q] \in Claiming \cup Delivering \cup Recovering
    <3>1. Knows(q)' /\ row'[obj[q]] # seen[q]
      BY <2>1, MovedOn
    <3>2. ~MaySend(q)'
      BY <2>1 DEF SameRun
    <3>3. SendsAlone(q)' /\ ClaimsAgain(q)'
      BY <3>1, <3>2 DEF SendsAlone, ClaimsAgain, SameRun
    <3>4. VerdictHolds(q)'
      BY <3>1 DEF IInv, ProcInv, VerdictHolds, SameRun
    <3> QED
      BY <3>1, <3>3, <3>4 DEF ProcInv
  <2>2. CASE obj[q] \notin S
    <3>1. Knows(q)'
      BY <2>2 DEF IInv, ProcInv, Knows, SameRun, Claiming, Delivering, Recovering
    <3>2. ASSUME NEW x \in Procs, MaySend(x)', obj'[x] = obj[q]
          PROVE  MaySend(x) /\ obj[x] = obj[q]
      BY <2>2, <3>2
    <3>3. SendsAlone(q)'
      <4> SUFFICES ASSUME MaySend(q)' PROVE SendsAlone(q)'
        BY DEF SendsAlone
      <4>1. MaySend(q) /\ obj[q] \in Rows
        BY <3>2, SenderFacts DEF SameRun
      <4> QED
        BY <2>2, <3>2, <4>1 DEF IInv, ProcInv, SendsAlone, SameRun, Owed
    <3>4. VerdictHolds(q)'
      BY <2>2, <3>1, <3>2 DEF IInv, ProcInv, Knows, VerdictHolds, SameRun, Owed, Concluding,
         Delivering, Recovering
    <3>5. ClaimsAgain(q)'
      BY <2>2, <3>1 DEF IInv, ProcInv, Knows, ClaimsAgain, SameRun, Owed, Claiming
    <3> QED
      BY <3>1, <3>3, <3>4, <3>5 DEF ProcInv
  <2>3. CASE pc[q] \notin Claiming \cup Delivering \cup Recovering
    BY <2>3 DEF IInv, ProcInv, Knows, SendsAlone, VerdictHolds, ClaimsAgain, MaySend, SameRun,
       Claiming, Delivering, Recovering, Concluding
  <2> QED
    BY <2>1, <2>2, <2>3
<1>3. MovesForward
  BY DEF MovesForward
<1> QED
  BY <1>1, <1>2, <1>3 DEF IInv

\* A step that leaves row, provider and proof alone, in which a process only
\* goes on holding what it held, gives up, or starts afresh.
LEMMA QuietStep ==
  ASSUME IInv, TypeOK', UNCHANGED <<row, wire, effects, cleared>>,
         \A q \in Procs : \/ SameRun(q)
                          \/ pc'[q] \in {"idle", "claim"}
                          \/ pc'[q] = "recRead" /\ obj'[q] \in Rows,
         \A q \in Procs : writer' = q => writer = q \/ pc'[q] \in {"claim", "recRead"}
  PROVE  IInv' /\ MovesForward
<1> DEFINE P == {q \in Procs : ~SameRun(q)}
<1>1. \A q \in Procs : MaySend(q)' => MaySend(q) /\ SameRun(q)
  BY DEF MaySend, SameRun
<1>2. \A q \in P : ProcInv(q)'
  BY DEF ProcInv, Knows, SendsAlone, VerdictHolds, ClaimsAgain, MaySend,
         Claiming, Delivering, Recovering, Concluding
<1>3. \A q \in Procs : MaySend(q)' => MaySend(q) /\ obj'[q] = obj[q]
  BY <1>1 DEF SameRun
<1> HIDE DEF P
<1> QED
  <2>1. \A q \in Procs \ P : SameRun(q)
    BY DEF P
  <2>2. P \in SUBSET Procs
    BY DEF P
  <2>3. /\ {} \in SUBSET Rows
        /\ \A s \in Rows \ {} : row'[s] = row[s] /\ cleared'[s] = cleared[s]
        /\ \A s \in {} : Later(row[s], row'[s]) /\ RowInv(s)'
        /\ \A q \in Procs : MaySend(q) => obj[q] \notin {}
    OBVIOUS
  <2>4. \A q \in Procs : MaySend(q)' => \/ q \in P /\ obj'[q] \in {}
                                        \/ MaySend(q) /\ obj'[q] = obj[q]
    BY <1>3
  <2> QED
    BY <1>2, <2>1, <2>2, <2>3, <2>4, RowWrite

-----------------------------------------------------------------------------
\* What the transitions of a row make of its fields.
LEMMA CodeFacts ==
  /\ \A k \in CodeKinds : Code(k) \in Codes
  /\ \A rec \in RowRecords : Permit(rec) \in Codes
  BY DEF Code, Codes, CodeKinds, Permit, RowRecords

LEMMA ClaimedFacts ==
  ASSUME NEW rec \in RowRecords, rec.fence = rec.attempt, ~Exhausted(rec)
  PROVE  /\ Claimed(rec) \in RowRecords
         /\ Claimed(rec).status = "RUNNING"
         /\ Claimed(rec).attempt = rec.attempt + 1
         /\ Claimed(rec).fence = rec.fence + 1
         /\ Claimed(rec).receipt = rec.receipt
         /\ Claimed(rec).code = rec.code
<1>1. rec.attempt + 1 \in 0..MaxAttempts
  BY DEF RowRecords, Exhausted
<1>2. Claimed(rec) \in RowRecords
  BY <1>1 DEF Claimed, RowRecords, Statuses
<1> QED
  BY <1>2 DEF Claimed, RowRecords

LEMMA ReapedFacts ==
  ASSUME NEW rec \in RowRecords
  PROVE  /\ Reaped(rec) \in RowRecords
         /\ Reaped(rec).status = "DEAD_LETTER"
         /\ Reaped(rec).attempt = rec.attempt
         /\ Reaped(rec).fence = rec.fence
         /\ Reaped(rec).receipt = rec.receipt
         /\ Reaped(rec).code.kind \in {rec.code.kind, "MAX_ATTEMPTS_EXHAUSTED"}
         /\ Reaped(rec).code.kind = rec.code.kind => Reaped(rec).code = rec.code
<1>1. Code("MAX_ATTEMPTS_EXHAUSTED") \in Codes
  BY CodeFacts DEF CodeKinds
<1> QED
  BY <1>1 DEF Reaped, RowRecords, Statuses, Code

LEMMA IntentFacts ==
  ASSUME NEW rec \in RowRecords
  PROVE  /\ Intent(rec) \in RowRecords
         /\ Intent(rec).status = "PENDING_RECONCILIATION"
         /\ Intent(rec).attempt = rec.attempt
         /\ Intent(rec).fence = rec.fence
         /\ Intent(rec).receipt = rec.receipt
         /\ Intent(rec).code.kind # "NO_EFFECT_CONFIRMED"
<1>1. /\ Code("DELIVERY_INTENT_UNRESOLVED") \in Codes
      /\ Code("RECLAIMED_OUTCOME_REQUIRES_EVIDENCE") \in Codes
  BY CodeFacts DEF CodeKinds
<1> QED
  BY <1>1 DEF Intent, RowRecords, Statuses, Code

LEMMA FailedFacts ==
  ASSUME NEW rec \in RowRecords
  PROVE  /\ Failed(rec) \in RowRecords
         /\ Failed(rec).status \in {"DEAD_LETTER", "FAILED_RETRYABLE"}
         /\ Failed(rec).attempt = rec.attempt
         /\ Failed(rec).fence = rec.fence
         /\ Failed(rec).receipt = rec.receipt
         /\ Failed(rec).code.kind # "NO_EFFECT_CONFIRMED"
<1>1. Code("INVALID_CLAIM") \in Codes
  BY CodeFacts DEF CodeKinds
<1> QED
  BY <1>1 DEF Failed, RowRecords, Statuses, Code

LEMMA SucceededFacts ==
  ASSUME NEW rec \in RowRecords, NEW receipt \in BOOLEAN,
         NEW kind \in {"DELIVERY_CONFIRMED", "EFFECT_CONFIRMED"}
  PROVE  /\ Succeeded(rec, receipt, kind) \in RowRecords
         /\ Succeeded(rec, receipt, kind).status = "SUCCEEDED"
         /\ Succeeded(rec, receipt, kind).attempt = rec.attempt
         /\ Succeeded(rec, receipt, kind).fence = rec.fence
         /\ Succeeded(rec, receipt, kind).receipt = receipt
         /\ Succeeded(rec, receipt, kind).code.kind # "NO_EFFECT_CONFIRMED"
<1>1. Code(kind) \in Codes /\ Code(kind).kind = kind
  BY CodeFacts DEF CodeKinds, Code
<1> QED
  BY <1>1 DEF Succeeded, RowRecords, Statuses

LEMMA ClearedFacts ==
  ASSUME NEW rec \in RowRecords
  PROVE  /\ Cleared(rec) \in RowRecords
         /\ Cleared(rec).status \in {"DEAD_LETTER", "FAILED_RETRYABLE"}
         /\ Cleared(rec).attempt = rec.attempt
         /\ Cleared(rec).fence = rec.fence
         /\ Cleared(rec).receipt = rec.receipt
         /\ Cleared(rec).code = Permit(rec)
<1>1. Permit(rec) \in Codes
  BY CodeFacts
<1> QED
  BY <1>1 DEF Cleared, RowRecords, Statuses

LEMMA CancelledFacts ==
  ASSUME NEW rec \in RowRecords
  PROVE  /\ Cancelled(rec) \in RowRecords
         /\ Cancelled(rec).status = "CANCELLED"
         /\ Cancelled(rec).attempt = rec.attempt
         /\ Cancelled(rec).fence = rec.fence
         /\ Cancelled(rec).receipt = rec.receipt
         /\ Cancelled(rec).code = rec.code
  BY DEF Cancelled, RowRecords, Statuses

\* Giving up leaves well-typed process state.
LEMMA LeaveType ==
  ASSUME TypeOK, NEW p \in Procs, Leave(p)
  PROVE  /\ pc' \in [Procs -> PCs]
         /\ obj' \in [Procs -> Rows \cup {NoRow}]
         /\ seen' \in [Procs -> RowRecords]
         /\ verdict' \in [Procs -> Verdicts]
         /\ writer' \in Procs \cup {NoProc}
<1>1. Fresh \in RowRecords
  BY DEF RowRecords, Fresh, Code, Codes, CodeKinds, Statuses
<1> QED
  BY <1>1 DEF Leave, TypeOK, PCs, Verdicts

\* Every variable keeps its type.
LEMMA TypeStep == IInv /\ [Next]_vars => TypeOK'
<1> SUFFICES ASSUME IInv, [Next]_vars PROVE TypeOK'
  OBVIOUS
<1> TypeOK
  BY DEF IInv
<1> USE DEF dbVars, providerVars, procVars, boundVars, Go
<1>1. ASSUME NEW p \in Procs, EnterRun(p) PROVE TypeOK'
  BY <1>1 DEF EnterRun, TypeOK, PCs
<1>2. ASSUME NEW p \in Procs, Claim(p) PROVE TypeOK'
  <2>1. PICK dead \in SUBSET Rows, picked \in SUBSET Rows :
          /\ \A r \in dead : Due(r) /\ Exhausted(row[r])
          /\ \A r \in picked : Due(r) /\ ~Exhausted(row[r])
          /\ row' = [r \in Rows |-> IF r \in dead THEN Reaped(row[r])
                                    ELSE IF r \in picked THEN Claimed(row[r]) ELSE row[r]]
          /\ leased' = [r \in Rows |-> r \in picked \/ (leased[r] /\ r \notin dead)]
          /\ \/ Leave(p)
             \/ \E r \in picked :
                  /\ pc' = [pc EXCEPT ![p] = IF r \in Unroutable THEN "failCheck"
                                                                ELSE "intentCheck"]
                  /\ obj' = [obj EXCEPT ![p] = r]
                  /\ seen' = [seen EXCEPT ![p] = Claimed(row[r])]
                  /\ UNCHANGED <<verdict, writer>>
    BY <1>2 DEF Claim, AtMostOne
  <2>2. \A r \in Rows : Reaped(row[r]) \in RowRecords
    BY ReapedFacts DEF TypeOK
  <2>3. \A r \in picked : Claimed(row[r]) \in RowRecords
    BY <2>1, ClaimedFacts DEF TypeOK, IInv, RowInv, RowShape
  <2>4. row' \in [Rows -> RowRecords]
    BY <2>1, <2>2, <2>3 DEF TypeOK
  <2>5. leased' \in [Rows -> BOOLEAN]
    BY <2>1
  <2>6. /\ pc' \in [Procs -> PCs] /\ obj' \in [Procs -> Rows \cup {NoRow}]
        /\ seen' \in [Procs -> RowRecords] /\ verdict' \in [Procs -> Verdicts]
        /\ writer' \in Procs \cup {NoProc}
    <3>1. CASE Leave(p)
      BY <3>1, LeaveType
    <3>2. CASE ~Leave(p)
      BY <2>1, <2>3, <3>2 DEF TypeOK, PCs, Checks
    <3> QED
      BY <3>1, <3>2
  <2> QED
    BY <1>2, <2>4, <2>5, <2>6 DEF TypeOK, Claim
<1>3. ASSUME NEW p \in Procs, AssertWriter(p) PROVE TypeOK'
  <2>1. AfterCheck[pc[p]] \in PCs
    BY <1>3 DEF AssertWriter, Checks, AfterCheck, PCs, Writes
  <2> QED
    BY <1>3, <2>1, LeaveType DEF AssertWriter, TypeOK
<1>4. ASSUME NEW p \in Procs, FailClaim(p) PROVE TypeOK'
  <2>1. obj[p] \in Rows
    BY <1>4, WorksOnARow DEF FailClaim
  <2>2. row' \in [Rows -> RowRecords]
    <3>1. Failed(row[obj[p]]) \in RowRecords
      BY <2>1, FailedFacts DEF TypeOK
    <3> QED
      BY <1>4, <2>1, <3>1 DEF FailClaim, TypeOK
  <2>3. due' \in [Rows -> BOOLEAN] /\ leased' \in [Rows -> BOOLEAN]
    BY <1>4, <2>1 DEF FailClaim, TypeOK, Exhausted
  <2> QED
    BY <1>4, <2>2, <2>3, LeaveType DEF FailClaim, TypeOK
<1>5. ASSUME NEW p \in Procs, BeginDelivery(p) PROVE TypeOK'
  <2>1. Intent(seen[p]) \in RowRecords /\ obj[p] \in Rows
    BY <1>5, IntentFacts, WorksOnARow DEF BeginDelivery, TypeOK
  <2>2. row' \in [Rows -> RowRecords] /\ leased' \in [Rows -> BOOLEAN]
    <3>1. \/ row' = row /\ leased' = leased
          \/ /\ row' = [row EXCEPT ![obj[p]] = Intent(seen[p])]
             /\ leased' = [leased EXCEPT ![obj[p]] = FALSE]
      BY <1>5 DEF BeginDelivery
    <3>2. row \in [Rows -> RowRecords] /\ leased \in [Rows -> BOOLEAN]
      BY DEF TypeOK
    <3>3. CASE row' = row /\ leased' = leased
      BY <3>2, <3>3
    <3>4. CASE /\ row' = [row EXCEPT ![obj[p]] = Intent(seen[p])]
               /\ leased' = [leased EXCEPT ![obj[p]] = FALSE]
      BY <2>1, <3>2, <3>4
    <3> QED
      BY <3>1, <3>3, <3>4
  <2>3. /\ pc' \in [Procs -> PCs] /\ obj' \in [Procs -> Rows \cup {NoRow}]
        /\ seen' \in [Procs -> RowRecords] /\ verdict' \in [Procs -> Verdicts]
        /\ writer' \in Procs \cup {NoProc}
    <3>1. CASE Leave(p)
      BY <3>1, LeaveType
    <3>2. CASE ~Leave(p)
      BY <1>5, <2>1, <3>2 DEF BeginDelivery, TypeOK, PCs, Checks
    <3> QED
      BY <3>1, <3>2
  <2> QED
    BY <1>5, <2>2, <2>3 DEF BeginDelivery, TypeOK
<1>6. ASSUME NEW p \in Procs, Send(p) PROVE TypeOK'
  <2>1. obj[p] \in Rows
    BY <1>6, WorksOnARow DEF Send
  <2> QED
    BY <1>6, <2>1 DEF Send, TypeOK, PCs
<1>7. ASSUME NEW p \in Procs, RefuseToSend(p) \/ LoseAcknowledgement(p) PROVE TypeOK'
  BY <1>7, LeaveType DEF RefuseToSend, LoseAcknowledgement, TypeOK
<1>8. ASSUME NEW p \in Procs, ConfirmNoOp(p) \/ FindApplied(p) \/ ReceiveReceipt(p)
      PROVE TypeOK'
  <2>1. CASE ConfirmNoOp(p)
    BY <2>1 DEF ConfirmNoOp, TypeOK, PCs, Checks, Verdicts
  <2>2. CASE FindApplied(p)
    BY <2>2 DEF FindApplied, TypeOK, PCs, Checks, Verdicts
  <2>3. CASE ReceiveReceipt(p)
    BY <2>3 DEF ReceiveReceipt, TypeOK, PCs, Checks, Verdicts
  <2> QED
    BY <1>8, <2>1, <2>2, <2>3
<1>9. ASSUME NEW p \in Procs, ResolveDelivery(p) PROVE TypeOK'
  <2>1. obj[p] \in Rows
    BY <1>9, WorksOnARow DEF ResolveDelivery
  <2>2. row' \in [Rows -> RowRecords]
    <3>1. row[obj[p]] \in RowRecords
      BY <2>1 DEF TypeOK
    <3>2. (row[obj[p]].receipt \/ verdict[p] = "EFFECT") \in BOOLEAN
      BY <3>1 DEF RowRecords
    <3>3. Succeeded(row[obj[p]], row[obj[p]].receipt \/ verdict[p] = "EFFECT",
                    "DELIVERY_CONFIRMED") \in RowRecords
      BY <3>1, <3>2, SucceededFacts
    <3> QED
      BY <1>9, <2>1, <3>3 DEF ResolveDelivery, TypeOK
  <2> QED
    BY <1>9, <2>2, LeaveType DEF ResolveDelivery, TypeOK
<1>10. ASSUME NEW p \in Procs, NEW r \in Rows, EnterRecovery(p, r) PROVE TypeOK'
  <2>1. recoveries' \in 0..MaxRecoveries
    BY <1>10 DEF EnterRecovery, TypeOK
  <2> QED
    BY <1>10, <2>1 DEF EnterRecovery, TypeOK, PCs
<1>11. ASSUME NEW p \in Procs, ReadExpected(p) PROVE TypeOK'
  <2>1. CASE Leave(p)
    BY <1>11, <2>1, LeaveType DEF ReadExpected, TypeOK
  <2>2. CASE ~Leave(p)
    BY <1>11, <2>2 DEF ReadExpected, TypeOK, PCs, IInv, ProcInv, Knows
  <2> QED
    BY <2>1, <2>2
<1>12. ASSUME NEW p \in Procs, Inspect(p) PROVE TypeOK'
  <2>1. CASE Leave(p)
    BY <1>12, <2>1, LeaveType DEF Inspect, TypeOK
  <2>2. CASE ~Leave(p)
    BY <1>12, <2>2 DEF Inspect, TypeOK, PCs, Checks, Verdicts
  <2> QED
    BY <2>1, <2>2
<1>13. ASSUME NEW p \in Procs, ResolveByEvidence(p) PROVE TypeOK'
  <2>1. obj[p] \in Rows
    BY <1>13, WorksOnARow DEF ResolveByEvidence
  <2>2. row' \in [Rows -> RowRecords]
    <3>1. row[obj[p]] \in RowRecords
      BY <2>1 DEF TypeOK
    <3>2. Succeeded(row[obj[p]], TRUE, "EFFECT_CONFIRMED") \in RowRecords
      BY <3>1, SucceededFacts
    <3>3. Cleared(row[obj[p]]) \in RowRecords
      BY <3>1, ClearedFacts
    <3> HIDE DEF TypeOK
    <3>4. \/ row' = row
          \/ row' = [row EXCEPT ![obj[p]] = Succeeded(row[obj[p]], TRUE, "EFFECT_CONFIRMED")]
          \/ row' = [row EXCEPT ![obj[p]] = Cleared(row[obj[p]])]
      BY <1>13 DEF ResolveByEvidence
    <3>5. row \in [Rows -> RowRecords]
      BY DEF TypeOK
    <3> QED
      BY <2>1, <3>2, <3>3, <3>4, <3>5
  <2>3. due' \in [Rows -> BOOLEAN] /\ cleared' \in [Rows -> 0..MaxAttempts]
    <3>1. seen[p].fence \in 0..MaxAttempts
      BY DEF TypeOK, RowRecords
    <3>2. due' = due \/ due' = [due EXCEPT ![obj[p]] = TRUE]
      BY <1>13 DEF ResolveByEvidence
    <3>3. cleared' = cleared \/ cleared' = [cleared EXCEPT ![obj[p]] = seen[p].fence]
      BY <1>13 DEF ResolveByEvidence
    <3>4. due \in [Rows -> BOOLEAN] /\ cleared \in [Rows -> 0..MaxAttempts]
      BY DEF TypeOK
    <3> QED
      BY <3>1, <3>2, <3>3, <3>4
  <2> QED
    BY <1>13, <2>2, <2>3, LeaveType DEF ResolveByEvidence, TypeOK
<1>14. ASSUME NEW r \in Rows, Cancel(r) PROVE TypeOK'
  <2>1. row' \in [Rows -> RowRecords]
    BY <1>14, CancelledFacts DEF Cancel, TypeOK
  <2> QED
    BY <1>14, <2>1 DEF Cancel, TypeOK
<1>15. ASSUME NEW r \in Rows, ProviderApplies(r) \/ RequestLost(r) PROVE TypeOK'
  BY <1>15 DEF ProviderApplies, RequestLost, TypeOK
<1>16. ASSUME NEW r \in Rows, LeaseExpires(r) \/ RetryBecomesDue(r) PROVE TypeOK'
  BY <1>16 DEF LeaseExpires, RetryBecomesDue, TypeOK
<1>17. ASSUME WriterLapses PROVE TypeOK'
  BY <1>17 DEF WriterLapses, TypeOK
<1>18. ASSUME NEW p \in Procs, Crash(p) PROVE TypeOK'
  <2>1. Fresh \in RowRecords
    BY DEF RowRecords, Fresh, Code, Codes, CodeKinds, Statuses
  <2> QED
    BY <1>18, <2>1 DEF Crash, TypeOK, PCs, Verdicts
<1>19. ASSUME UNCHANGED vars PROVE TypeOK'
  BY <1>19 DEF vars, TypeOK
<1> QED
  BY <1>1, <1>2, <1>3, <1>4, <1>5, <1>6, <1>7, <1>8, <1>9, <1>10, <1>11, <1>12, <1>13,
     <1>14, <1>15, <1>16, <1>17, <1>18, <1>19 DEF Next, RunStep

-----------------------------------------------------------------------------
\* A process that leaves its run holds nothing, and nobody else is concerned.
LEMMA LeaveFacts ==
  ASSUME IInv, NEW p \in Procs, Leave(p)
  PROVE  /\ \A q \in Procs \ {p} : SameRun(q)
         /\ ProcInv(p)' /\ ~MaySend(p)'
         /\ \A q \in Procs : MaySend(q)' => MaySend(q) /\ obj'[q] = obj[q]
         /\ \A q \in Procs : writer' = q => writer = q
<1>1. pc'[p] = "idle" /\ \A q \in Procs \ {p} : SameRun(q)
  BY DEF IInv, TypeOK, Leave, SameRun
<1>2. \A q \in Procs : writer' = q => writer = q
  BY DEF Leave
<1> QED
  BY <1>1, <1>2 DEF ProcInv, Knows, SendsAlone, VerdictHolds, ClaimsAgain, MaySend, SameRun,
     Claiming, Delivering, Recovering, Concluding

LEMMA GivesUp ==
  ASSUME IInv, TypeOK', NEW p \in Procs, Leave(p), UNCHANGED <<row, wire, effects, cleared>>
  PROVE  IInv' /\ MovesForward
<1>1. pc'[p] = "idle"
  BY DEF IInv, TypeOK, Leave
<1> QED
  BY <1>1, LeaveFacts, QuietStep

\* The transaction that moves one row forward and ends the run of p.
LEMMA LastWrite ==
  ASSUME IInv, TypeOK', NEW p \in Procs, Leave(p), NEW r \in Rows,
         UNCHANGED <<wire, effects>>,
         \A s \in Rows \ {r} : row'[s] = row[s] /\ cleared'[s] = cleared[s],
         Later(row[r], row'[r]), RowInv(r)',
         \A q \in Procs : MaySend(q) => obj[q] # r
  PROVE  IInv' /\ MovesForward
<1> DEFINE S == {r}  P == {p}
<1>1. /\ S \in SUBSET Rows /\ P \in SUBSET Procs
      /\ \A s \in Rows \ S : row'[s] = row[s] /\ cleared'[s] = cleared[s]
      /\ \A s \in S : Later(row[s], row'[s]) /\ RowInv(s)'
      /\ \A q \in Procs : MaySend(q) => obj[q] \notin S
  OBVIOUS
<1>2. /\ \A q \in Procs \ P : SameRun(q)
      /\ \A q \in P : ProcInv(q)'
      /\ \A q \in Procs : MaySend(q)' => \/ q \in P /\ obj'[q] \in S
                                         \/ MaySend(q) /\ obj'[q] = obj[q]
  BY LeaveFacts
<1> HIDE DEF S, P
<1> QED
  BY <1>1, <1>2, RowWrite

\* Nobody may send for a row that does not wait for evidence, or was sent for.
LEMMA NobodySends ==
  ASSUME IInv, NEW r \in Rows, row[r].status # "PENDING_RECONCILIATION" \/ Owed(r) > 0
  PROVE  \A q \in Procs : MaySend(q) => obj[q] # r
  BY SenderFacts

\* Steps that leave rows and providers alone.
LEMMA RunQuietly ==
  ASSUME IInv, TypeOK', NEW p \in Procs, EnterRun(p) \/ Crash(p) \/ RefuseToSend(p)
                                        \/ LoseAcknowledgement(p)
  PROVE  IInv' /\ MovesForward
<1> USE DEF dbVars, providerVars, boundVars, Go
<1>1. CASE EnterRun(p)
  <2>1. pc'[p] = "claim" /\ \A q \in Procs \ {p} : SameRun(q)
    BY <1>1 DEF EnterRun, IInv, TypeOK, SameRun
  <2> QED
    BY <1>1, <2>1, QuietStep DEF EnterRun
<1>2. CASE Crash(p)
  <2>1. pc'[p] = "idle" /\ \A q \in Procs \ {p} : SameRun(q)
    BY <1>2 DEF Crash, IInv, TypeOK, SameRun
  <2> QED
    BY <1>2, <2>1, QuietStep DEF Crash
<1>3. CASE RefuseToSend(p) \/ LoseAcknowledgement(p)
  BY <1>3, GivesUp DEF RefuseToSend, LoseAcknowledgement
<1> QED
  BY <1>1, <1>2, <1>3

LEMMA EnterRecoveryKeeps ==
  ASSUME IInv, TypeOK', NEW p \in Procs, NEW r \in Rows, EnterRecovery(p, r)
  PROVE  IInv' /\ MovesForward
<1> USE DEF dbVars, providerVars, Go
<1>1. pc'[p] = "recRead" /\ obj'[p] \in Rows /\ \A q \in Procs \ {p} : SameRun(q)
  BY DEF EnterRecovery, IInv, TypeOK, SameRun
<1> QED
  BY <1>1, QuietStep DEF EnterRecovery

LEMMA TimeKeeps ==
  ASSUME IInv, TypeOK',
         WriterLapses \/ \E r \in Rows : LeaseExpires(r) \/ RetryBecomesDue(r)
  PROVE  IInv' /\ MovesForward
<1> USE DEF dbVars, providerVars, procVars
<1>1. UNCHANGED <<row, wire, effects, cleared, procVars>> /\ writer' \in {writer, NoProc}
  BY DEF WriterLapses, LeaseExpires, RetryBecomesDue
<1>2. \A q \in Procs : SameRun(q) /\ (writer' = q => writer = q)
  BY <1>1 DEF SameRun
<1> QED
  BY <1>1, <1>2, QuietStep

\* What is owed is a number, and only a waiting, a finished or a legacy row
\* owes anything.
LEMMA OwedFacts ==
  ASSUME IInv, NEW r \in Rows
  PROVE  /\ Owed(r) \in Nat
         /\ row[r].status \in Queued => Owed(r) = 0
         /\ r \notin Legacy /\ row[r].status \notin {"PENDING_RECONCILIATION", "SUCCEEDED"}
              => Owed(r) = 0
<1>1. Owed(r) \in Nat
  BY DEF IInv, TypeOK, Owed
<1>2. RowIsSafe(r)
  BY DEF IInv, RowInv
<1> QED
  BY <1>1, <1>2 DEF RowIsSafe

\* A row that owes nothing and left the provider path is well-formed.
LEMMA UnowedRow ==
  ASSUME IInv, NEW r \in Rows, UNCHANGED <<wire, effects>>, Owed(r) = 0,
         row'[r].attempt = row[r].attempt, row'[r].fence = row[r].fence,
         ~row'[r].receipt, row'[r].status # "RUNNING",
         row'[r].code.kind = "NO_EFFECT_CONFIRMED" => row'[r].code.fence = cleared'[r]
  PROVE  RowInv(r)'
<1>1. Owed(r)' = 0
  BY DEF Owed
<1>2. RowShape(r) 
  BY DEF IInv, RowInv
<1> QED
  BY <1>1, <1>2 DEF RowInv, RowShape, NoPermitWhileOwed, RowIsSafe

\* Writing off a row that cannot be routed.
LEMMA FailClaimKeeps ==
  ASSUME IInv, TypeOK', NEW p \in Procs, FailClaim(p)
  PROVE  IInv' /\ MovesForward
<1>1. PICK r \in Rows : /\ r = obj[p] /\ r \in Unroutable
                        /\ Leave(p) /\ UNCHANGED <<wire, effects, cleared>>
  BY WorksOnARow DEF FailClaim, IInv, ProcInv, Knows, providerVars
<1>2. CASE ~(row[r].status = "RUNNING" /\ row[r].fence = seen[p].fence)
  BY <1>1, <1>2, GivesUp DEF FailClaim, dbVars
<1>3. CASE row[r].status = "RUNNING" /\ row[r].fence = seen[p].fence
  <2>1. /\ row'[r] = Failed(row[r])
        /\ \A s \in Rows \ {r} : row'[s] = row[s] /\ cleared'[s] = cleared[s]
    BY <1>1, <1>3 DEF FailClaim, IInv, TypeOK
  <2>2. row[r] \in RowRecords
    BY <1>1 DEF IInv, TypeOK
  <2>3. /\ row'[r].status \in {"DEAD_LETTER", "FAILED_RETRYABLE"}
        /\ row'[r].attempt = row[r].attempt /\ row'[r].fence = row[r].fence
        /\ row'[r].receipt = row[r].receipt /\ row'[r].code.kind # "NO_EFFECT_CONFIRMED"
    BY <2>1, <2>2, FailedFacts
  <2>4. Later(row[r], row'[r])
    BY <1>3, <2>3 DEF Later, Terminal, Stage
  <2>5. Owed(r) = 0 /\ RowShape(r)
    BY <1>1, <1>3, OwedFacts DEF IInv, RowInv
  <2>6. RowInv(r)'
    BY <1>1, <1>3, <2>2, <2>3, <2>5, UnowedRow DEF RowShape, RowRecords
  <2>7. \A q \in Procs : MaySend(q) => obj[q] # r
    BY <1>1, <1>3, NobodySends
  <2> QED
    BY <1>1, <2>1, <2>4, <2>6, <2>7, LastWrite
<1> QED
  BY <1>2, <1>3

\* A cancellation finds nothing owed, because the row is still queued.
LEMMA CancelKeeps ==
  ASSUME IInv, TypeOK', NEW r \in Rows, Cancel(r)
  PROVE  IInv' /\ MovesForward
<1> DEFINE S == {r}
<1>1. /\ row'[r] = Cancelled(row[r])
      /\ \A s \in Rows \ S : row'[s] = row[s] /\ cleared'[s] = cleared[s]
      /\ UNCHANGED <<wire, effects, cleared>>
  BY DEF Cancel, IInv, TypeOK, providerVars
<1>2. row[r] \in RowRecords /\ row[r].status \in Queued
  BY DEF Cancel, IInv, TypeOK
<1>3. /\ row'[r].status = "CANCELLED" /\ row'[r].attempt = row[r].attempt
      /\ row'[r].fence = row[r].fence /\ row'[r].receipt = row[r].receipt
      /\ row'[r].code = row[r].code
  BY <1>1, <1>2, CancelledFacts
<1>4. Later(row[r], row'[r])
  BY <1>2, <1>3 DEF Later, Terminal, Stage, Queued
<1>5. Owed(r) = 0 /\ RowShape(r)
  BY <1>2, OwedFacts DEF IInv, RowInv
<1>6. RowInv(r)'
  BY <1>1, <1>2, <1>3, <1>5, UnowedRow DEF RowShape, RowRecords, Queued
<1>7. \A q \in Procs : MaySend(q) => obj[q] # r
  BY <1>2, NobodySends DEF Queued
<1>8. \A q \in Procs : SameRun(q) /\ (MaySend(q)' => MaySend(q))
  BY DEF Cancel, procVars, SameRun, MaySend
<1>9. /\ S \in SUBSET Rows /\ {} \in SUBSET Procs
      /\ \A s \in S : Later(row[s], row'[s]) /\ RowInv(s)'
      /\ \A q \in Procs : MaySend(q) => obj[q] \notin S
      /\ \A q \in Procs \ {} : SameRun(q)
      /\ \A q \in {} : ProcInv(q)'
      /\ \A q \in Procs : MaySend(q)' => \/ q \in {} /\ obj'[q] \in S
                                         \/ MaySend(q) /\ obj'[q] = obj[q]
  BY <1>4, <1>6, <1>7, <1>8 DEF SameRun
<1> HIDE DEF S
<1> QED
  BY <1>1, <1>9, RowWrite

-----------------------------------------------------------------------------
\* A process that goes on with its row, nothing else changing.
LEMMA Advance ==
  ASSUME IInv, TypeOK', NEW p \in Procs, UNCHANGED <<row, wire, effects, cleared>>,
         \A q \in Procs \ {p} : SameRun(q), obj'[p] = obj[p], ProcInv(p)',
         \A q \in Procs : MaySend(q)' => MaySend(q)
  PROVE  IInv' /\ MovesForward
<1> DEFINE S == {}  P == {p}
<1>1. /\ S \in SUBSET Rows /\ P \in SUBSET Procs
      /\ \A s \in Rows \ S : row'[s] = row[s] /\ cleared'[s] = cleared[s]
      /\ \A s \in S : Later(row[s], row'[s]) /\ RowInv(s)'
      /\ \A q \in Procs : MaySend(q) => obj[q] \notin S
      /\ \A q \in Procs \ P : SameRun(q)
      /\ \A q \in P : ProcInv(q)'
  OBVIOUS
<1>2. \A q \in Procs : MaySend(q)' => \/ q \in P /\ obj'[q] \in S
                                      \/ MaySend(q) /\ obj'[q] = obj[q]
  BY DEF SameRun
<1> HIDE DEF S, P
<1> QED
  BY <1>1, <1>2, RowWrite

\* A request or an effect of r that appears, arrives or vanishes, while it was
\* already owed or p alone was about to send it.
LEMMA ProviderStep ==
  ASSUME IInv, TypeOK', NEW P \in SUBSET Procs, NEW r \in Rows, UNCHANGED <<row, cleared>>,
         \A s \in Rows \ {r} : wire'[s] = wire[s] /\ effects'[s] = effects[s],
         effects'[r] >= effects[r], RowInv(r)',
         Owed(r) > 0 \/ \E p \in Procs : MaySend(p) /\ obj[p] = r,
         \A q \in Procs \ P : SameRun(q), \A q \in P : ProcInv(q)',
         \A q \in Procs : MaySend(q)' => MaySend(q) /\ obj'[q] = obj[q] /\ obj[q] # r
  PROVE  IInv' /\ MovesForward
<1>1. ASSUME NEW s \in Rows PROVE RowInv(s)'
  <2>1. CASE s # r
    BY <2>1 DEF IInv, RowInv, RowShape, NoPermitWhileOwed, RowIsSafe, Owed
  <2> QED
    BY <2>1
<1>2. ASSUME NEW q \in Procs \ P PROVE ProcInv(q)'
  <2>1. Knows(q)'
    BY DEF IInv, ProcInv, Knows, SameRun
  <2>2. SendsAlone(q)'
    <3> SUFFICES ASSUME MaySend(q)' PROVE SendsAlone(q)'
      BY DEF SendsAlone
    <3>1. MaySend(q) /\ obj[q] # r /\ obj[q] \in Rows
      BY SenderFacts
    <3> QED
      BY <3>1 DEF IInv, ProcInv, SendsAlone, SameRun, Owed
  <2>3. VerdictHolds(q)'
    <3> SUFFICES ASSUME pc[q] \in Concluding PROVE VerdictHolds(q)'
      BY DEF VerdictHolds, SameRun
    <3>1. VerdictHolds(q) /\ obj[q] \in Rows
      BY DEF IInv, ProcInv, Knows, Concluding, Delivering, Recovering
    <3>2. CASE obj[q] = r
      <4>1. effects[r] \in Nat /\ effects'[r] \in Nat
        BY DEF IInv, TypeOK
      <4>2. ~(verdict[q] = "NO_EFFECT" /\ row[r] = seen[q])
        BY <3>1, <3>2, OwedFacts DEF VerdictHolds
      <4> QED
        BY <3>1, <3>2, <4>1, <4>2 DEF VerdictHolds, SameRun
    <3>3. CASE obj[q] # r
      BY <3>1, <3>3 DEF VerdictHolds, SameRun, Owed
    <3> QED
      BY <3>2, <3>3
  <2>4. ClaimsAgain(q)'
    <3> SUFFICES ASSUME pc[q] \in {"intentCheck", "intent"}, row[obj[q]] = seen[q]
                 PROVE  ClaimsAgain(q)'
      BY DEF ClaimsAgain, SameRun
    <3>1. obj[q] \in Rows /\ row[obj[q]].status = "RUNNING" /\ ClaimsAgain(q)
      BY DEF IInv, ProcInv, Knows, Claiming
    <3>2. CASE obj[q] = r
      <4>1. Owed(r) > 0
        BY <3>1, <3>2, SenderFacts
      <4> QED
        BY <3>1, <3>2, <4>1 DEF ClaimsAgain, SameRun
    <3>3. CASE obj[q] # r
      BY <3>1, <3>3 DEF ClaimsAgain, SameRun, Owed
    <3> QED
      BY <3>2, <3>3
  <2> QED
    BY <2>1, <2>2, <2>3, <2>4 DEF ProcInv
<1>3. MovesForward
  BY DEF MovesForward
<1> QED
  BY <1>1, <1>2, <1>3 DEF IInv

LEMMA ProviderKeeps ==
  ASSUME IInv, TypeOK', NEW r \in Rows, ProviderApplies(r) \/ RequestLost(r)
  PROVE  IInv' /\ MovesForward
<1> USE DEF dbVars, procVars
<1>1. wire[r] \in Nat /\ effects[r] \in Nat /\ wire[r] > 0
  BY DEF IInv, TypeOK, ProviderApplies, RequestLost
<1>2. /\ wire'[r] = wire[r] - 1
      /\ effects'[r] \in {effects[r], effects[r] + 1}
      /\ \A s \in Rows \ {r} : wire'[s] = wire[s] /\ effects'[s] = effects[s]
      /\ UNCHANGED <<row, cleared>>
  BY DEF IInv, TypeOK, ProviderApplies, RequestLost
<1>3. Owed(r) = 1 /\ wire[r] = 1 /\ effects[r] = 0 /\ Owed(r)' \in {0, 1}
  BY <1>1, <1>2 DEF IInv, RowInv, RowIsSafe, Owed
<1>4. RowInv(r)'
  BY <1>2, <1>3 DEF IInv, RowInv, RowShape, NoPermitWhileOwed, RowIsSafe
<1>5. \A q \in Procs : SameRun(q) /\ (MaySend(q)' => MaySend(q) /\ obj[q] # r)
  BY <1>3, NobodySends DEF ProviderApplies, RequestLost, SameRun, MaySend
<1>6. /\ {} \in SUBSET Procs
      /\ \A q \in Procs \ {} : SameRun(q)
      /\ \A q \in {} : ProcInv(q)'
      /\ \A q \in Procs : MaySend(q)' => MaySend(q) /\ obj'[q] = obj[q] /\ obj[q] # r
      /\ effects'[r] >= effects[r] /\ Owed(r) > 0
  BY <1>1, <1>2, <1>3, <1>5 DEF SameRun
<1> QED
  BY <1>2, <1>4, <1>6, ProviderStep

-----------------------------------------------------------------------------
\* Revalidating the writer lease either ends the run or changes nothing else.
LEMMA AssertWriterKeeps ==
  ASSUME IInv, TypeOK', NEW p \in Procs, AssertWriter(p)
  PROVE  IInv' /\ MovesForward
<1> USE DEF dbVars, providerVars
<1>1. CASE writer # p
  BY <1>1, GivesUp DEF AssertWriter
<1>2. CASE writer = p
  <2>1. /\ pc'[p] = AfterCheck[pc[p]] /\ obj'[p] = obj[p] /\ seen'[p] = seen[p]
        /\ verdict'[p] = verdict[p] /\ writer' = writer
        /\ \A q \in Procs \ {p} : SameRun(q)
        /\ UNCHANGED <<row, wire, effects, cleared>>
    BY <1>2 DEF AssertWriter, IInv, TypeOK, SameRun, Go
  <2>2. \/ pc[p] = "failCheck" /\ pc'[p] = "fail"
        \/ pc[p] = "intentCheck" /\ pc'[p] = "intent"
        \/ pc[p] = "sendCheck" /\ pc'[p] = "send"
        \/ pc[p] = "resolveCheck" /\ pc'[p] = "resolve"
        \/ pc[p] = "recCheck" /\ pc'[p] = "recResolve"
    BY <2>1 DEF AssertWriter, Checks, AfterCheck
  <2>3. \A q \in Procs : MaySend(q)' => MaySend(q)
    BY <1>2, <2>1, <2>2 DEF MaySend, SameRun
  <2>4. \A q \in Procs : MaySend(q)' => MaySend(q) /\ obj'[q] = obj[q]
    BY <2>1, <2>3 DEF SameRun
  <2>5. Knows(p)'
    BY <2>1, <2>2 DEF IInv, ProcInv, Knows, Claiming, Delivering, Recovering
  <2>6. SendsAlone(p)' /\ ClaimsAgain(p)'
    BY <2>1, <2>2, <2>4 DEF IInv, ProcInv, SendsAlone, ClaimsAgain, Owed
  <2>7. VerdictHolds(p)'
    <3>1. \A q \in Procs : obj'[q] = obj[p] /\ MaySend(q)' => obj[q] = obj[p] /\ MaySend(q)
      BY <2>4
    <3> QED
      BY <2>1, <2>2, <3>1 DEF IInv, ProcInv, VerdictHolds, Concluding, Owed
  <2> QED
    BY <2>1, <2>3, <2>5, <2>6, <2>7, Advance DEF ProcInv
<1> QED
  BY <1>1, <1>2

\* What a sender, a waiter or a reader concludes is true when it concludes it.
LEMMA ConcludeKeeps ==
  ASSUME IInv, TypeOK', NEW p \in Procs, UNCHANGED <<row, wire, effects, cleared, writer>>,
         pc[p] \in {"send", "await", "recInspect"},
         pc'[p] = IF pc[p] = "recInspect" THEN "recCheck" ELSE "resolveCheck",
         obj'[p] = obj[p], seen'[p] = seen[p],
         \A q \in Procs \ {p} : SameRun(q),
         \/ verdict'[p] = "EFFECT" /\ effects[obj[p]] > 0
         \/ /\ verdict'[p] = "NO_EFFECT" /\ Owed(obj[p]) = 0
            /\ \A q \in Procs \ {p} : obj[q] = obj[p] => ~MaySend(q)
  PROVE  IInv' /\ MovesForward
<1>1. ~MaySend(p)' /\ \A q \in Procs : MaySend(q)' => MaySend(q) /\ obj'[q] = obj[q]
  BY DEF MaySend, SameRun
<1>2. Knows(p)'
  BY DEF IInv, ProcInv, Knows, Claiming, Delivering, Recovering
<1>3. SendsAlone(p)' /\ ClaimsAgain(p)'
  BY <1>1 DEF SendsAlone, ClaimsAgain
<1>4. VerdictHolds(p)'
  <2>1. \A q \in Procs : obj'[q] = obj[p] /\ MaySend(q)' => q # p /\ obj[q] = obj[p] /\ MaySend(q)
    BY <1>1
  <2> QED
    BY <2>1 DEF VerdictHolds, Owed
<1> QED
  BY <1>1, <1>2, <1>3, <1>4, Advance DEF ProcInv

LEMMA ConcludingSteps ==
  ASSUME IInv, TypeOK', NEW p \in Procs, ConfirmNoOp(p) \/ ReceiveReceipt(p)
  PROVE  IInv' /\ MovesForward
<1> USE DEF dbVars, providerVars, Go
<1>1. CASE ConfirmNoOp(p)
  <2>1. MaySend(p)
    BY <1>1 DEF ConfirmNoOp, MaySend
  <2>2. Owed(obj[p]) = 0 /\ \A q \in Procs \ {p} : obj[q] = obj[p] => ~MaySend(q)
    BY <2>1 DEF IInv, ProcInv, SendsAlone
  <2>3. /\ pc[p] = "send" /\ pc'[p] = "resolveCheck" /\ obj'[p] = obj[p] /\ seen'[p] = seen[p]
        /\ verdict'[p] = "NO_EFFECT" /\ \A q \in Procs \ {p} : SameRun(q)
        /\ UNCHANGED <<row, wire, effects, cleared, writer>>
    BY <1>1 DEF ConfirmNoOp, IInv, TypeOK, SameRun
  <2> QED
    BY <2>2, <2>3, ConcludeKeeps
<1>2. CASE ReceiveReceipt(p)
  <2>1. /\ pc[p] = "await" /\ pc'[p] = "resolveCheck" /\ obj'[p] = obj[p] /\ seen'[p] = seen[p]
        /\ verdict'[p] = "EFFECT" /\ effects[obj[p]] > 0 /\ \A q \in Procs \ {p} : SameRun(q)
        /\ UNCHANGED <<row, wire, effects, cleared, writer>>
    BY <1>2 DEF ReceiveReceipt, IInv, TypeOK, SameRun
  <2> QED
    BY <2>1, ConcludeKeeps
<1> QED
  BY <1>1, <1>2

LEMMA InspectKeeps ==
  ASSUME IInv, TypeOK', NEW p \in Procs, Inspect(p)
  PROVE  IInv' /\ MovesForward
<1> USE DEF dbVars, providerVars, Go
<1>1. CASE Leave(p)
  BY <1>1, GivesUp DEF Inspect
<1>2. CASE ~Leave(p)
  <2>1. /\ pc[p] = "recInspect" /\ pc'[p] = "recCheck" /\ obj'[p] = obj[p] /\ seen'[p] = seen[p]
        /\ \A q \in Procs \ {p} : SameRun(q)
        /\ UNCHANGED <<row, wire, effects, cleared, writer>>
        /\ \/ verdict'[p] = "EFFECT" /\ effects[obj[p]] > 0
           \/ verdict'[p] = "NO_EFFECT" /\ AbsenceProven(obj[p])
    BY <1>2 DEF Inspect, IInv, TypeOK, SameRun
  <2>2. AbsenceProven(obj[p]) => /\ Owed(obj[p]) = 0
                                 /\ \A q \in Procs \ {p} : obj[q] = obj[p] => ~MaySend(q)
    BY DEF AbsenceProven, Owed, MaySend
  <2> QED
    BY <2>1, <2>2, ConcludeKeeps
<1> QED
  BY <1>1, <1>2

LEMMA ReadExpectedKeeps ==
  ASSUME IInv, TypeOK', NEW p \in Procs, ReadExpected(p)
  PROVE  IInv' /\ MovesForward
<1> USE DEF dbVars, providerVars, Go
<1>1. CASE Leave(p)
  BY <1>1, GivesUp DEF ReadExpected
<1>2. CASE ~Leave(p)
  <2>1. /\ pc'[p] = "recInspect" /\ obj'[p] = obj[p] /\ seen'[p] = row[obj[p]]
        /\ row[obj[p]].status = "PENDING_RECONCILIATION" /\ obj[p] \in Rows
        /\ \A q \in Procs \ {p} : SameRun(q)
        /\ UNCHANGED <<row, wire, effects, cleared, writer>>
    BY <1>2, WorksOnARow DEF ReadExpected, IInv, TypeOK, SameRun
  <2>2. \A q \in Procs : MaySend(q)' => MaySend(q)
    BY <2>1 DEF MaySend, SameRun
  <2>3. Knows(p)'
    <3>1. row[obj[p]].fence \in Nat
      BY <2>1 DEF IInv, TypeOK, RowRecords
    <3> QED
      BY <2>1, <3>1, StageIsNat DEF Knows, Claiming, Delivering, Recovering
  <2>4. SendsAlone(p)' /\ VerdictHolds(p)' /\ ClaimsAgain(p)'
    BY <2>1 DEF SendsAlone, VerdictHolds, ClaimsAgain, MaySend, Concluding
  <2> QED
    BY <2>1, <2>2, <2>3, <2>4, Advance DEF ProcInv
<1> QED
  BY <1>1, <1>2

\* Only the sole sender of a row puts its request on the wire, or finds that
\* the destination already shows it.
LEMMA SendKeeps ==
  ASSUME IInv, TypeOK', NEW p \in Procs, Send(p) \/ FindApplied(p)
  PROVE  IInv' /\ MovesForward
<1> USE DEF dbVars, providerVars, Go
<1>1. PICK r \in Rows : r = obj[p] /\ row[r].status = "PENDING_RECONCILIATION" /\ Owed(r) = 0
  BY SenderFacts DEF Send, FindApplied, MaySend
<1>2. /\ pc[p] = "send" /\ MaySend(p) /\ wire[r] = 0 /\ effects[r] = 0
      /\ \A q \in Procs \ {p} : MaySend(q) => obj[q] # r
  BY <1>1 DEF Send, FindApplied, MaySend, IInv, TypeOK, Owed, ProcInv, SendsAlone
<1>3. /\ \/ pc'[p] = "await" /\ wire'[r] = 1 /\ effects'[r] = 0
         \/ /\ pc'[p] = "resolveCheck" /\ verdict'[p] = "EFFECT"
            /\ wire'[r] = 0 /\ effects'[r] = 1
      /\ \A s \in Rows \ {r} : wire'[s] = wire[s] /\ effects'[s] = effects[s]
      /\ obj'[p] = obj[p] /\ seen'[p] = seen[p]
      /\ \A q \in Procs \ {p} : SameRun(q)
      /\ UNCHANGED <<row, cleared, writer>>
  BY <1>1, <1>2 DEF Send, FindApplied, IInv, TypeOK, SameRun
<1>4. RowInv(r)'
  BY <1>1, <1>3 DEF IInv, RowInv, RowShape, NoPermitWhileOwed, RowIsSafe, Owed, Queued
<1>5. \A q \in Procs : MaySend(q)' => MaySend(q) /\ obj'[q] = obj[q] /\ obj[q] # r
  BY <1>2, <1>3 DEF MaySend, SameRun
<1>6. ProcInv(p)'
  <2>1. Knows(p)'
    BY <1>2, <1>3 DEF IInv, ProcInv, Knows, Claiming, Delivering, Recovering
  <2>2. SendsAlone(p)' /\ ClaimsAgain(p)' /\ VerdictHolds(p)'
    BY <1>1, <1>3 DEF SendsAlone, ClaimsAgain, VerdictHolds, MaySend, Concluding
  <2> QED
    BY <2>1, <2>2 DEF ProcInv
<1> DEFINE P == {p}
<1>7. /\ P \in SUBSET Procs
      /\ effects'[r] >= effects[r]
      /\ \E q \in Procs : MaySend(q) /\ obj[q] = r
      /\ \A q \in Procs \ P : SameRun(q)
      /\ \A q \in P : ProcInv(q)'
  BY <1>1, <1>2, <1>3, <1>6
<1> HIDE DEF P
<1> QED
  BY <1>3, <1>4, <1>5, <1>7, ProviderStep

\* The delivery intent: the row the process claimed, still RUNNING, and a
\* first attempt or one with a permit, so nothing is owed for it.
LEMMA BeginDeliveryKeeps ==
  ASSUME IInv, TypeOK', NEW p \in Procs, BeginDelivery(p)
  PROVE  IInv' /\ MovesForward
<1> USE DEF dbVars, providerVars, Go
<1>1. PICK r \in Rows : r = obj[p] /\ UNCHANGED <<wire, effects, cleared>>
  BY WorksOnARow DEF BeginDelivery
<1>2. CASE ~AsExpected(p)
  BY <1>1, <1>2, GivesUp DEF BeginDelivery
<1>3. CASE AsExpected(p)
  <2>1. /\ row[r] = seen[p] /\ row[r].status = "RUNNING" /\ row[r] \in RowRecords
        /\ RowInv(r)
    BY <1>1, <1>3 DEF BeginDelivery, AsExpected, IInv, TypeOK, ProcInv, Knows, Claiming
  <2>2. /\ row'[r] = Intent(row[r])
        /\ \A s \in Rows \ {r} : row'[s] = row[s] /\ cleared'[s] = cleared[s]
    BY <1>1, <1>3, <2>1 DEF BeginDelivery, IInv, TypeOK
  <2>3. /\ row'[r] \in RowRecords /\ row'[r].status = "PENDING_RECONCILIATION"
        /\ row'[r].attempt = row[r].attempt /\ row'[r].fence = row[r].fence
        /\ row'[r].receipt = row[r].receipt /\ row'[r].code.kind # "NO_EFFECT_CONFIRMED"
    BY <2>1, <2>2, IntentFacts
  <2>4. Later(row[r], row'[r])
    BY <2>1, <2>3 DEF Later, Terminal, Stage
  <2>5. RowInv(r)'
    BY <1>1, <2>1, <2>3 DEF RowInv, RowShape, NoPermitWhileOwed, RowIsSafe, Owed, Queued
  <2>6. \A q \in Procs : MaySend(q) => obj[q] # r
    BY <2>1, NobodySends
  <2>7. CASE ~Permitted(seen[p])
    BY <1>1, <1>3, <2>2, <2>4, <2>5, <2>6, <2>7, LastWrite DEF BeginDelivery
  <2>8. CASE Permitted(seen[p])
    <3>1. /\ pc'[p] = "sendCheck" /\ obj'[p] = r /\ seen'[p] = row'[r]
          /\ \A q \in Procs \ {p} : SameRun(q)
          /\ UNCHANGED <<writer>>
      BY <1>1, <1>3, <2>1, <2>2, <2>8 DEF BeginDelivery, IInv, TypeOK, SameRun
    <3>2. Owed(r) = 0 /\ (seen'[p].attempt > 1 => cleared'[r] = seen'[p].fence - 1)
      <4>1. Owed(r) > 0 => row[r].attempt > 1 /\ row[r].code.kind # "NO_EFFECT_CONFIRMED"
        BY <1>1, <2>1 DEF BeginDelivery, IInv, ProcInv, ClaimsAgain, RowInv, NoPermitWhileOwed
      <4>2. row[r].attempt \in Nat /\ row[r].fence \in Nat /\ cleared[r] \in Nat
        BY <2>1 DEF RowRecords, IInv, TypeOK
      <4>3. Owed(r) = 0
        BY <2>1, <2>8, <4>1, <4>2, OwedFacts DEF Permitted, ConfirmedNoEffectRetryAllowed
      <4>4. row[r].attempt > 1 => cleared[r] = row[r].fence - 1
        BY <2>1, <2>8, <4>2 DEF Permitted, ConfirmedNoEffectRetryAllowed, RowInv, RowShape
      <4> QED
        BY <1>1, <2>3, <3>1, <4>3, <4>4
    <3>3. \A q \in Procs : MaySend(q)' => q = p \/ (MaySend(q) /\ obj'[q] = obj[q] /\ obj[q] # r)
      BY <2>6, <3>1 DEF MaySend, SameRun
    <3>4. ProcInv(p)'
      <4>1. Knows(p)'
        <5>1. row'[r].fence \in Nat
          BY <2>3 DEF RowRecords
        <5> QED
          BY <2>3, <3>1, <5>1, StageIsNat DEF Knows, Claiming, Delivering, Recovering
      <4>2. SendsAlone(p)'
        BY <1>1, <3>1, <3>2, <3>3 DEF SendsAlone, Owed
      <4> QED
        BY <3>1, <4>1, <4>2 DEF ProcInv, VerdictHolds, ClaimsAgain, Concluding
    <3> DEFINE S == {r}  P == {p}
    <3>5. /\ S \in SUBSET Rows /\ P \in SUBSET Procs
          /\ \A s \in Rows \ S : row'[s] = row[s] /\ cleared'[s] = cleared[s]
          /\ \A s \in S : Later(row[s], row'[s]) /\ RowInv(s)'
          /\ \A q \in Procs : MaySend(q) => obj[q] \notin S
      BY <2>2, <2>4, <2>5, <2>6
    <3>6. /\ \A q \in Procs \ P : SameRun(q)
          /\ \A q \in P : ProcInv(q)'
      BY <3>1, <3>4
    <3>7. p \in P /\ r \in S
      OBVIOUS
    <3> HIDE DEF S, P
    <3>8. \A q \in Procs : MaySend(q)' => \/ q \in P /\ obj'[q] \in S
                                          \/ MaySend(q) /\ obj'[q] = obj[q]
      BY <3>1, <3>3, <3>7
    <3> QED
      BY <1>1, <3>5, <3>6, <3>8, RowWrite
  <2> QED
    BY <2>7, <2>8
<1> QED
  BY <1>2, <1>3

\* A delivery that concluded writes SUCCEEDED, with a receipt exactly when the
\* effect exists.
LEMMA ResolveDeliveryKeeps ==
  ASSUME IInv, TypeOK', NEW p \in Procs, ResolveDelivery(p)
  PROVE  IInv' /\ MovesForward
<1> USE DEF dbVars, providerVars
<1>1. PICK r \in Rows : r = obj[p] /\ Leave(p) /\ UNCHANGED <<wire, effects, cleared>>
  BY WorksOnARow DEF ResolveDelivery
<1>2. CASE ~AsExpected(p)
  BY <1>1, <1>2, GivesUp DEF ResolveDelivery
<1>3. CASE AsExpected(p)
  <2>1. /\ row[r] = seen[p] /\ row[r].status = "PENDING_RECONCILIATION" /\ RowInv(r)
        /\ VerdictHolds(p) /\ pc[p] \in Concluding
    BY <1>1, <1>3 DEF ResolveDelivery, AsExpected, IInv, ProcInv, Knows, Delivering, Concluding
  <2>2. /\ row[r] \in RowRecords /\ row[r].receipt = FALSE
        /\ effects[r] \in Nat /\ Owed(r) \in Nat /\ wire[r] \in Nat
    BY <2>1 DEF IInv, TypeOK, RowRecords, RowInv, RowShape, Owed
  <2>3. row' = [row EXCEPT ![r] = Succeeded(@, @.receipt \/ verdict[p] = "EFFECT",
                                            "DELIVERY_CONFIRMED")]
    BY <1>1, <1>3 DEF ResolveDelivery
  <2>4. PICK b \in BOOLEAN : b = (row[r].receipt \/ verdict[p] = "EFFECT")
    OBVIOUS
  <2>5. row'[r] = Succeeded(row[r], b, "DELIVERY_CONFIRMED")
    BY <2>3, <2>4 DEF IInv, TypeOK
  <2>6. \A s \in Rows \ {r} : row'[s] = row[s] /\ cleared'[s] = cleared[s]
    BY <1>1, <2>3 DEF IInv, TypeOK
  <2>7. /\ row'[r].status = "SUCCEEDED"
        /\ row'[r].attempt = row[r].attempt /\ row'[r].fence = row[r].fence
        /\ row'[r].receipt = b /\ row'[r].code.kind # "NO_EFFECT_CONFIRMED"
    BY <2>2, <2>5, SucceededFacts
  <2>8. Later(row[r], row'[r])
    BY <2>1, <2>7 DEF Later, Terminal, Stage
  <2>9. IF b THEN effects[r] = 1 /\ wire[r] = 0 ELSE Owed(r) = 0
    <3>1. CASE verdict[p] = "EFFECT"
      <4>1. b = TRUE
        BY <2>4, <3>1
      <4>2. effects[r] > 0
        BY <1>1, <2>1, <3>1 DEF VerdictHolds
      <4> QED
        BY <2>1, <2>2, <4>1, <4>2 DEF RowInv, RowIsSafe, Owed
    <3>2. CASE verdict[p] # "EFFECT"
      <4>1. b = FALSE
        BY <2>2, <2>4, <3>2
      <4>2. Owed(r) = 0
        BY <1>1, <2>1, <3>2 DEF VerdictHolds
      <4> QED
        BY <4>1, <4>2
    <3> QED
      BY <3>1, <3>2
  <2>10. RowInv(r)'
    BY <1>1, <2>1, <2>2, <2>7, <2>9 DEF RowInv, RowShape, NoPermitWhileOwed, RowIsSafe, Owed, Queued
  <2>11. \A q \in Procs : MaySend(q) => obj[q] # r
    BY <1>1, <2>1, NobodySends DEF VerdictHolds, Owed, IInv, TypeOK
  <2> QED
    BY <1>1, <2>6, <2>8, <2>10, <2>11, LastWrite
<1> QED
  BY <1>2, <1>3

\* A recovery writes SUCCEEDED for a proven effect; otherwise nothing is owed
\* and nobody is about to send, so a retry may be permitted.
LEMMA ResolveByEvidenceKeeps ==
  ASSUME IInv, TypeOK', NEW p \in Procs, ResolveByEvidence(p)
  PROVE  IInv' /\ MovesForward
<1> USE DEF dbVars, providerVars
<1>1. PICK r \in Rows : r = obj[p] /\ Leave(p) /\ UNCHANGED <<wire, effects>>
  BY WorksOnARow DEF ResolveByEvidence
<1>2. CASE ~AsExpected(p)
  BY <1>1, <1>2, GivesUp DEF ResolveByEvidence
<1>3. CASE AsExpected(p)
  <2>1. /\ row[r] = seen[p] /\ row[r].status = "PENDING_RECONCILIATION" /\ RowInv(r)
        /\ VerdictHolds(p) /\ pc[p] \in Concluding
    BY <1>1, <1>3 DEF ResolveByEvidence, AsExpected, IInv, ProcInv, Knows, Recovering, Concluding
  <2>2. /\ row[r] \in RowRecords /\ ~row[r].receipt
        /\ effects[r] \in Nat /\ Owed(r) \in Nat /\ wire[r] \in Nat
    BY <2>1 DEF IInv, TypeOK, RowRecords, RowInv, RowShape, Owed
  <2>3. \A q \in Procs : MaySend(q) => obj[q] # r
    BY <1>1, <2>1, <2>2, NobodySends DEF VerdictHolds, Owed
  <2>4. CASE verdict[p] = "EFFECT"
    <3>1. /\ row'[r] = Succeeded(row[r], TRUE, "EFFECT_CONFIRMED")
          /\ \A s \in Rows \ {r} : row'[s] = row[s] /\ cleared'[s] = cleared[s]
          /\ cleared' = cleared
      BY <1>1, <1>3, <2>4 DEF ResolveByEvidence, IInv, TypeOK
    <3>2. /\ row'[r].status = "SUCCEEDED"
          /\ row'[r].attempt = row[r].attempt /\ row'[r].fence = row[r].fence
          /\ row'[r].receipt /\ row'[r].code.kind # "NO_EFFECT_CONFIRMED"
      <4>1. PICK b \in BOOLEAN : b = TRUE
        OBVIOUS
      <4>2. PICK kind \in {"DELIVERY_CONFIRMED", "EFFECT_CONFIRMED"} : kind = "EFFECT_CONFIRMED"
        OBVIOUS
      <4>3. row'[r] = Succeeded(row[r], b, kind)
        BY <3>1, <4>1, <4>2
      <4>4. /\ row'[r].status = "SUCCEEDED"
            /\ row'[r].attempt = row[r].attempt /\ row'[r].fence = row[r].fence
            /\ row'[r].receipt = b /\ row'[r].code.kind # "NO_EFFECT_CONFIRMED"
        BY <2>2, <4>3, SucceededFacts
      <4> QED
        BY <4>1, <4>4
    <3>3. Later(row[r], row'[r])
      BY <2>1, <3>2 DEF Later, Terminal, Stage
    <3>4. effects[r] = 1 /\ wire[r] = 0
      BY <1>1, <2>1, <2>2, <2>4 DEF VerdictHolds, RowInv, RowIsSafe, Owed
    <3>5. RowInv(r)'
      BY <1>1, <2>1, <2>2, <3>2, <3>4 DEF RowInv, RowShape, NoPermitWhileOwed, RowIsSafe, Owed, Queued
    <3> QED
      BY <1>1, <2>3, <3>1, <3>3, <3>5, LastWrite
  <2>5. CASE verdict[p] # "EFFECT"
    <3>1. /\ row'[r] = Cleared(row[r]) /\ cleared'[r] = row[r].fence
          /\ \A s \in Rows \ {r} : row'[s] = row[s] /\ cleared'[s] = cleared[s]
      BY <1>1, <1>3, <2>1, <2>5 DEF ResolveByEvidence, IInv, TypeOK
    <3>2. /\ row'[r].status \in {"DEAD_LETTER", "FAILED_RETRYABLE"}
          /\ row'[r].attempt = row[r].attempt /\ row'[r].fence = row[r].fence
          /\ row'[r].receipt = row[r].receipt /\ row'[r].code = Permit(row[r])
      BY <2>2, <3>1, ClearedFacts
    <3>3. Later(row[r], row'[r])
      BY <2>1, <3>2 DEF Later, Terminal, Stage
    <3>4. Owed(r) = 0
      BY <1>1, <2>1, <2>5 DEF VerdictHolds
    <3>5. RowInv(r)'
      BY <1>1, <2>2, <3>1, <3>2, <3>4, UnowedRow DEF Permit
    <3> QED
      BY <1>1, <2>3, <3>1, <3>3, <3>5, LastWrite
  <2> QED
    BY <2>4, <2>5
<1> QED
  BY <1>2, <1>3

-----------------------------------------------------------------------------
\* Dead-lettering an exhausted row and taking a due one.  A legacy row that
\* owes an effect was RUNNING, so its next attempt is not the first.
LEMMA ClaimKeeps ==
  ASSUME IInv, TypeOK', NEW p \in Procs, Claim(p)
  PROVE  IInv' /\ MovesForward
<1> USE DEF dbVars, providerVars, Go
<1>1. PICK dead \in SUBSET Rows, picked \in SUBSET Rows :
        /\ \A r \in dead : Due(r) /\ Exhausted(row[r])
        /\ \A r \in picked : Due(r) /\ ~Exhausted(row[r])
        /\ row' = [r \in Rows |-> IF r \in dead THEN Reaped(row[r])
                                  ELSE IF r \in picked THEN Claimed(row[r]) ELSE row[r]]
        /\ \/ Leave(p)
           \/ \E r \in picked :
                /\ pc' = [pc EXCEPT ![p] = IF r \in Unroutable THEN "failCheck"
                                                              ELSE "intentCheck"]
                /\ obj' = [obj EXCEPT ![p] = r]
                /\ seen' = [seen EXCEPT ![p] = Claimed(row[r])]
                /\ UNCHANGED <<verdict, writer>>
  <2>1. \A T : \A U \in AtMostOne(T) : U \subseteq T
    BY DEF AtMostOne
  <2> QED
    BY <2>1 DEF Claim
<1>2. UNCHANGED <<wire, effects, cleared>> /\ pc[p] = "claim"
  BY DEF Claim
<1>a. PICK S \in SUBSET Rows : S = dead \cup picked
  OBVIOUS
<1> DEFINE P == {p}
<1>3. ASSUME NEW s \in S
      PROVE  /\ row[s].status \in Queued \cup {"RUNNING"}
             /\ row[s] \in RowRecords /\ RowInv(s) /\ row[s].receipt = FALSE
             /\ Owed(s) \in Nat
             /\ Owed(s) > 0 => s \in Legacy /\ row[s].status = "RUNNING"
  <2>1. row[s].status \in Queued \cup {"RUNNING"}
    BY <1>1, <1>a DEF Due
  <2>2. row[s] \in RowRecords /\ RowInv(s)
    BY <2>1 DEF IInv, TypeOK
  <2>3. row[s].receipt = FALSE
    BY <2>1, <2>2 DEF RowInv, RowShape, RowRecords, Queued
  <2>4. Owed(s) \in Nat /\ (Owed(s) > 0 => s \in Legacy /\ row[s].status = "RUNNING")
    BY <2>1, OwedFacts DEF Queued
  <2> QED
    BY <2>1, <2>2, <2>3, <2>4
<1>4. ASSUME NEW s \in dead PROVE Later(row[s], row'[s]) /\ RowInv(s)'
  <2>0. /\ s \in Rows /\ row[s].status \in Queued \cup {"RUNNING"}
        /\ row[s] \in RowRecords /\ RowInv(s) /\ row[s].receipt = FALSE
        /\ Owed(s) \in Nat
        /\ Owed(s) > 0 => s \in Legacy /\ row[s].status = "RUNNING"
    BY <1>3, <1>a
  <2>1. row'[s] = Reaped(row[s])
    BY <1>1
  <2>2. /\ row'[s].status = "DEAD_LETTER" /\ row'[s].attempt = row[s].attempt
        /\ row'[s].fence = row[s].fence /\ row'[s].receipt = row[s].receipt
        /\ row'[s].code.kind \in {row[s].code.kind, "MAX_ATTEMPTS_EXHAUSTED"}
        /\ row'[s].code.kind = row[s].code.kind => row'[s].code = row[s].code
    BY <2>0, <2>1, ReapedFacts
  <2>3. Later(row[s], row'[s])
    BY <2>0, <2>1, <2>2 DEF Later, Terminal, Stage, Queued
  <2>4. RowInv(s)'
    BY <1>2, <2>0, <2>1, <2>2 DEF RowInv, RowShape, NoPermitWhileOwed, RowIsSafe, Owed, Queued
  <2> QED
    BY <2>3, <2>4
<1>5. ASSUME NEW s \in picked
      PROVE  /\ row'[s] = Claimed(row[s])
             /\ row'[s].status = "RUNNING" /\ row'[s].attempt = row[s].attempt + 1
             /\ row[s].attempt \in Nat /\ row'[s].fence \in Nat
             /\ Later(row[s], row'[s]) /\ RowInv(s)'
             /\ Owed(s) > 0 => row'[s].attempt > 1
  <2>0. /\ s \in Rows /\ row[s].status \in Queued \cup {"RUNNING"}
        /\ row[s] \in RowRecords /\ RowInv(s) /\ row[s].receipt = FALSE
        /\ Owed(s) \in Nat
        /\ Owed(s) > 0 => s \in Legacy /\ row[s].status = "RUNNING"
    BY <1>3, <1>a
  <2>1. row'[s] = Claimed(row[s])
    BY <1>1
  <2>2. /\ row'[s] \in RowRecords /\ row'[s].status = "RUNNING"
        /\ row'[s].attempt = row[s].attempt + 1
        /\ row'[s].fence = row[s].fence + 1 /\ row'[s].receipt = row[s].receipt
        /\ row'[s].code = row[s].code
    BY <1>1, <2>0, <2>1, ClaimedFacts DEF RowInv, RowShape
  <2>3. row[s].attempt \in Nat /\ row[s].fence \in Nat /\ row'[s].fence \in Nat
    BY <2>0, <2>1, <2>2 DEF RowRecords
  <2>4. Later(row[s], row'[s])
    BY <2>0, <2>2, <2>3 DEF Later, Terminal, Queued
  <2>5. RowInv(s)'
    BY <1>2, <2>0, <2>1, <2>2, <2>3 DEF RowInv, RowShape, NoPermitWhileOwed, RowIsSafe, Owed, Queued
  <2>6. Owed(s) > 0 => row'[s].attempt > 1
    BY <2>0, <2>1, <2>2, <2>3 DEF RowInv, RowShape
  <2> QED
    BY <2>1, <2>2, <2>3, <2>4, <2>5, <2>6
<1>6. /\ P \in SUBSET Procs
      /\ \A s \in Rows \ S : row'[s] = row[s] /\ cleared'[s] = cleared[s]
      /\ \A s \in S : Later(row[s], row'[s]) /\ RowInv(s)'
  BY <1>1, <1>2, <1>a, <1>4, <1>5
<1>7. \A q \in Procs : MaySend(q) => obj[q] \notin S
  BY <1>3, NobodySends DEF Queued
<1>8. /\ \A q \in Procs \ P : SameRun(q)
      /\ \A q \in P : ProcInv(q)'
      /\ \A q \in Procs : MaySend(q)' => MaySend(q) /\ obj'[q] = obj[q]
  <2>1. CASE Leave(p)
    BY <2>1, LeaveFacts
  <2>2. CASE ~Leave(p)
    <3>1. PICK r \in picked :
            /\ pc' = [pc EXCEPT ![p] = IF r \in Unroutable THEN "failCheck" ELSE "intentCheck"]
            /\ obj' = [obj EXCEPT ![p] = r]
            /\ seen' = [seen EXCEPT ![p] = Claimed(row[r])]
            /\ UNCHANGED <<verdict, writer>>
      BY <1>1, <2>2
    <3>2. /\ pc'[p] = IF r \in Unroutable THEN "failCheck" ELSE "intentCheck"
          /\ obj'[p] = r /\ r \in Rows /\ seen'[p] = row'[r]
          /\ \A q \in Procs \ {p} : SameRun(q)
          /\ UNCHANGED writer
      BY <1>5, <3>1 DEF IInv, TypeOK, SameRun
    <3>3. Knows(p)'
      BY <1>5, <3>2, StageIsNat DEF Knows, Claiming, Delivering, Recovering
    <3>4. ClaimsAgain(p)'
      BY <1>2, <1>5, <3>2 DEF ClaimsAgain, Owed
    <3>5. SendsAlone(p)' /\ VerdictHolds(p)' /\ ~MaySend(p)'
      BY <3>2 DEF SendsAlone, VerdictHolds, MaySend, Concluding
    <3>6. \A q \in Procs : MaySend(q)' => MaySend(q) /\ obj'[q] = obj[q]
      BY <3>2, <3>5 DEF MaySend, SameRun
    <3> QED
      BY <3>2, <3>3, <3>4, <3>5, <3>6 DEF ProcInv
  <2> QED
    BY <2>1, <2>2
<1> HIDE DEF P
<1>9. \A q \in Procs : MaySend(q)' => \/ q \in P /\ obj'[q] \in S
                                      \/ MaySend(q) /\ obj'[q] = obj[q]
  BY <1>8
<1> QED
  BY <1>2, <1>6, <1>7, <1>8, <1>9, RowWrite

-----------------------------------------------------------------------------
\* The invariant is inductive.
LEMMA NextIInv == IInv /\ [Next]_vars => IInv' /\ MovesForward
<1> SUFFICES ASSUME IInv, [Next]_vars PROVE IInv' /\ MovesForward
  OBVIOUS
<1>1. TypeOK'
  BY TypeStep
<1>2. ASSUME NEW p \in Procs, EnterRun(p) \/ RunStep(p) \/ Crash(p) PROVE IInv' /\ MovesForward
  BY <1>1, <1>2, RunQuietly, ClaimKeeps, AssertWriterKeeps, FailClaimKeeps, BeginDeliveryKeeps,
     SendKeeps, ConcludingSteps, ResolveDeliveryKeeps, ReadExpectedKeeps, InspectKeeps,
     ResolveByEvidenceKeeps DEF RunStep
<1>3. ASSUME NEW p \in Procs, NEW r \in Rows, EnterRecovery(p, r) PROVE IInv' /\ MovesForward
  BY <1>1, <1>3, EnterRecoveryKeeps
<1>4. ASSUME NEW r \in Rows, Cancel(r) PROVE IInv' /\ MovesForward
  BY <1>1, <1>4, CancelKeeps
<1>5. ASSUME NEW r \in Rows, ProviderApplies(r) \/ RequestLost(r) PROVE IInv' /\ MovesForward
  BY <1>1, <1>5, ProviderKeeps
<1>6. ASSUME WriterLapses \/ \E r \in Rows : LeaseExpires(r) \/ RetryBecomesDue(r) PROVE IInv' /\ MovesForward
  BY <1>1, <1>6, TimeKeeps
<1>7. ASSUME UNCHANGED vars PROVE IInv' /\ MovesForward
  <2>1. UNCHANGED <<row, wire, effects, cleared, writer, pc, obj, seen, verdict>>
    BY <1>7 DEF vars
  <2> QED
    BY <1>1, <2>1, QuietStep DEF SameRun
<1> QED
  BY <1>2, <1>3, <1>4, <1>5, <1>6, <1>7 DEF Next

\* Every reachable state satisfies the invariant, whatever the constants.
THEOREM Invariant == Spec => []IInv
BY InitIInv, NextIInv, PTL DEF Spec

-----------------------------------------------------------------------------
(* What follows from the invariant.                                        *)

\* All variables keep their types; attempt_count never exceeds max_attempts.
THEOREM TypeCorrect == Spec => []TypeOK
<1>1. IInv => TypeOK
  BY DEF IInv
<1> QED
  BY <1>1, Invariant, PTL

\* No outbox row reaches its provider twice.
THEOREM AtMostOnce == Spec => []AtMostOneEffect
<1>1. IInv => AtMostOneEffect
  BY DEF IInv, RowInv, RowIsSafe, AtMostOneEffect, Owed
<1> QED
  BY <1>1, Invariant, PTL

\* A sent row is never left where a claim or a cancellation could take it.
THEOREM SentRowsStayParked == Spec => []NoReclaimableSend
<1>1. IInv => NoReclaimableSend
  BY DEF IInv, RowInv, RowIsSafe, NoReclaimableSend, Owed
<1> QED
  BY <1>1, Invariant, PTL

\* SUCCEEDED and its receipt tell the truth about the provider.
THEOREM SuccessIsHonest == Spec => []SuccessIsTrue
<1>1. IInv => SuccessIsTrue
  BY DEF IInv, RowInv, RowIsSafe, SuccessIsTrue, Owed
<1> QED
  BY <1>1, Invariant, PTL

\* A later attempt is sent only under the no-effect proof of the fence before.
THEOREM PermitsAreFresh == Spec => []PermitIsFresh
<1>1. IInv => PermitIsFresh
  BY DEF IInv, ProcInv, SendsAlone, MaySend, PermitIsFresh
<1> QED
  BY <1>1, Invariant, PTL

\* A row moves forward by fence and stage, so an exact update meets no ABA.
THEOREM RowsMoveForward == Spec => RowMovesForward
<1>1. IInv /\ [Next]_vars => [\A r \in Rows : row'[r] = row[r] \/ Later(row[r], row'[r])]_vars
  BY NextIInv DEF MovesForward
<1> QED
  BY <1>1, Invariant, PTL DEF Spec, RowMovesForward

\* A process leaves a writing label only by its own write or by a crash.
LEMMA WriteSteps ==
  ASSUME IInv, Next, NEW p \in Procs, pc[p] \in Writes, pc'[p] # pc[p]
  PROVE  \/ FailClaim(p) \/ BeginDelivery(p) \/ ResolveDelivery(p)
         \/ ResolveByEvidence(p) \/ Crash(p)
<1>1. pc \in [Procs -> PCs]
  BY DEF IInv, TypeOK
<1>2. ASSUME NEW q \in Procs, q # p, EnterRun(q) \/ RunStep(q) \/ Crash(q)
      PROVE  pc'[p] = pc[p]
  <2>1. CASE Leave(q)
    BY <1>1, <1>2, <2>1 DEF Leave
  <2>2. CASE ~Leave(q)
    BY <1>1, <1>2, <2>2 DEF RunStep, EnterRun, Claim, AssertWriter, FailClaim, BeginDelivery,
       Send, RefuseToSend, ConfirmNoOp, FindApplied, ReceiveReceipt, LoseAcknowledgement,
       ResolveDelivery, ReadExpected, Inspect, ResolveByEvidence, Crash, Go
  <2> QED
    BY <2>1, <2>2
<1>3. ASSUME NEW q \in Procs, q # p, NEW r \in Rows, EnterRecovery(q, r)
      PROVE  pc'[p] = pc[p]
  BY <1>1, <1>3 DEF EnterRecovery, Go
<1>4. ASSUME NEW r \in Rows, \/ Cancel(r) \/ ProviderApplies(r) \/ RequestLost(r)
                             \/ LeaseExpires(r) \/ RetryBecomesDue(r)
      PROVE  pc'[p] = pc[p]
  BY <1>4 DEF Cancel, ProviderApplies, RequestLost, LeaseExpires, RetryBecomesDue, procVars
<1>5. WriterLapses => pc'[p] = pc[p]
  BY DEF WriterLapses, procVars
<1>6. \/ EnterRun(p) \/ RunStep(p) \/ Crash(p)
      \/ \E r \in Rows : EnterRecovery(p, r)
  BY <1>2, <1>3, <1>4, <1>5 DEF Next
<1> QED
  BY <1>6 DEF Writes, Checks, RunStep, EnterRun, EnterRecovery, Claim, AssertWriter, Send,
     RefuseToSend, ConfirmNoOp, FindApplied, ReceiveReceipt, LoseAcknowledgement,
     ReadExpected, Inspect

\* A process whose row moved on writes nothing, whichever write it was about to make.
THEOREM StaleWritesNothing == Spec => StaleProcessWritesNothing
<1>1. ASSUME IInv, Next, NEW p \in Procs, pc[p] \in Writes, pc'[p] # pc[p],
             row[obj[p]] # seen[p]
      PROVE  row' = row
  <2>1. CASE FailClaim(p)
    <3>1. ~(row[obj[p]].status = "RUNNING" /\ row[obj[p]].fence = seen[p].fence)
      BY <1>1, <2>1 DEF FailClaim, IInv, ProcInv, Knows, Claiming
    <3> QED
      BY <2>1, <3>1 DEF FailClaim, dbVars
  <2>2. CASE BeginDelivery(p) \/ ResolveDelivery(p) \/ ResolveByEvidence(p) \/ Crash(p)
    BY <1>1, <2>2 DEF BeginDelivery, ResolveDelivery, ResolveByEvidence, Crash, AsExpected, dbVars
  <2> QED
    BY <1>1, <2>1, <2>2, WriteSteps
<1>2. IInv /\ [Next]_vars =>
        [\A p \in Procs : (pc[p] \in Writes /\ pc'[p] # pc[p] /\ row[obj[p]] # seen[p])
            => row' = row]_vars
  BY <1>1
<1> QED
  BY <1>2, Invariant, PTL DEF Spec, StaleProcessWritesNothing

-----------------------------------------------------------------------------
(* The worker implements what the outbox promises its producers.           *)

\* The outcome a row shows depends on its status and receipt alone.
LEMMA OutcomeFacts ==
  ASSUME NEW r \in Rows
  PROVE  /\ row[r].status = "SUCCEEDED" /\ row[r].receipt => Outcome(r) = "delivered"
         /\ row[r].status = "SUCCEEDED" /\ ~row[r].receipt => Outcome(r) = "noop"
         /\ row[r].status = "DEAD_LETTER" => Outcome(r) = "abandoned"
         /\ row[r].status = "CANCELLED" => Outcome(r) = "cancelled"
         /\ row[r].status \notin Terminal => Outcome(r) = "open"
<1>1. CASE row[r].status = "SUCCEEDED"
  BY <1>1 DEF Outcome, Terminal
<1>2. CASE row[r].status = "DEAD_LETTER"
  BY <1>2 DEF Outcome, Terminal
<1>3. CASE row[r].status = "CANCELLED"
  BY <1>3 DEF Outcome, Terminal
<1>4. CASE row[r].status \notin Terminal
  BY <1>4 DEF Outcome, Terminal
<1> QED
  BY <1>1, <1>2, <1>3, <1>4 DEF Terminal

\* The promise begins with every outcome open and no effect but a legacy one.
LEMMA InitPromise == Init => Promise!Init
<1> SUFFICES ASSUME Init PROVE Promise!Init
  OBVIOUS
<1>1. ASSUME NEW r \in Rows PROVE effects[r] \in {0, 1} /\ (effects[r] = 1 => r \in Legacy)
  <2>1. /\ effects[r] \in {0, 1} /\ wire[r] \in {0, 1}
        /\ effects[r] + wire[r] <= IF r \in Legacy THEN 1 ELSE 0
    BY DEF Init
  <2> QED
    BY <2>1
<1>2. ASSUME NEW r \in Rows PROVE Outcome(r) = "open"
  <2>1. row[r] = LeftRunning \/ row[r] = Fresh
    BY DEF Init
  <2>2. row[r].status \notin Terminal
    BY <2>1 DEF LeftRunning, Fresh, Terminal
  <2> QED
    BY <2>2, OutcomeFacts
<1> QED
  BY <1>1, <1>2 DEF Promise!Init

\* A decided outcome is a true one: it is what the invariant says of the row.
OutcomesAreTrue ==
  \A r \in Rows : /\ Outcome(r) \in {"open", "delivered", "noop", "abandoned", "cancelled"}
                  /\ Outcome(r) # "open" => Promise!MayBecome(r, Outcome(r))

LEMMA OutcomeIsTrue == IInv => OutcomesAreTrue
<1> SUFFICES ASSUME IInv, NEW r \in Rows
             PROVE  /\ Outcome(r) \in {"open", "delivered", "noop", "abandoned", "cancelled"}
                    /\ Outcome(r) # "open" => Promise!MayBecome(r, Outcome(r))
  BY DEF OutcomesAreTrue
<1>1. /\ RowIsSafe(r) /\ effects[r] \in Nat /\ wire[r] \in Nat
      /\ row[r].status \in Statuses /\ row[r].receipt \in BOOLEAN
  BY DEF IInv, RowInv, TypeOK, RowRecords
<1>2. CASE row[r].status = "SUCCEEDED" /\ row[r].receipt
  BY <1>1, <1>2, OutcomeFacts DEF RowIsSafe, Promise!MayBecome
<1>3. CASE row[r].status = "SUCCEEDED" /\ ~row[r].receipt
  <2>1. Outcome(r) = "noop"
    BY <1>3, OutcomeFacts
  <2>2. effects[r] = 0
    BY <1>1, <1>3 DEF RowIsSafe, Owed
  <2> QED
    BY <2>1, <2>2 DEF Promise!MayBecome
<1>4. CASE row[r].status = "DEAD_LETTER"
  <2>1. Outcome(r) = "abandoned"
    BY <1>4, OutcomeFacts
  <2>2. effects[r] = 0 \/ r \in Legacy
    BY <1>1, <1>4 DEF RowIsSafe, Owed
  <2> QED
    BY <2>1, <2>2 DEF Promise!MayBecome
<1>5. CASE row[r].status = "CANCELLED"
  <2>1. Outcome(r) = "cancelled"
    BY <1>5, OutcomeFacts
  <2>2. effects[r] = 0
    BY <1>1, <1>5 DEF RowIsSafe, Owed
  <2> QED
    BY <2>1, <2>2 DEF Promise!MayBecome
<1>6. CASE row[r].status \notin Terminal
  BY <1>6, OutcomeFacts
<1> QED
  BY <1>1, <1>2, <1>3, <1>4, <1>5, <1>6 DEF Terminal

\* One step decides at most one outcome: a claim that also dead-letters an
\* exhausted row decides that row only.
LEMMA OneOutcome ==
  ASSUME IInv, [Next]_vars
  PROVE  \E r : \A s \in Rows : s # r => Outcome(s)' = Outcome(s)
<1>1. row \in [Rows -> RowRecords]
  BY DEF IInv, TypeOK
<1>2. ASSUME NEW r, \A s \in Rows : s # r => row'[s] = row[s]
      PROVE  \A s \in Rows : s # r => Outcome(s)' = Outcome(s)
  BY <1>2 DEF Outcome
<1>3. CASE \E p \in Procs : Claim(p)
  <2>0. PICK p \in Procs : Claim(p)
    BY <1>3
  <2>1. PICK dead \in AtMostOne({r \in Rows : Due(r) /\ Exhausted(row[r])}),
              picked \in AtMostOne({r \in Rows : Due(r) /\ ~Exhausted(row[r])}) :
          row' = [r \in Rows |-> IF r \in dead THEN Reaped(row[r])
                                ELSE IF r \in picked THEN Claimed(row[r]) ELSE row[r]]
    BY <2>0 DEF Claim
  <2>2. PICK r : dead \subseteq {r}
    BY DEF AtMostOne
  <2>3. \A s \in picked : s \in Rows /\ Due(s) /\ ~Exhausted(row[s])
    BY DEF AtMostOne
  <2>4. ASSUME NEW s \in Rows, s # r PROVE Outcome(s)' = Outcome(s)
    <3>1. CASE s \notin picked
      BY <2>1, <2>2, <2>4, <3>1 DEF Outcome
    <3>2. CASE s \in picked
      <4>1. row'[s] = Claimed(row[s]) /\ row[s].status \notin Terminal
        BY <2>1, <2>2, <2>3, <2>4, <3>2 DEF Due, Queued, Terminal
      <4>2. row[s].fence = row[s].attempt
        BY DEF IInv, RowInv, RowShape
      <4>3. row[s] \in RowRecords /\ ~Exhausted(row[s])
        BY <1>1, <2>3, <3>2
      <4>4. Claimed(row[s]).status = "RUNNING"
        BY <4>2, <4>3, ClaimedFacts
      <4> QED
        BY <4>1, <4>4 DEF Outcome, Terminal
    <3> QED
      BY <3>1, <3>2
  <2> QED
    BY <2>4
<1>4. CASE \E p \in Procs : \/ FailClaim(p) \/ BeginDelivery(p) \/ ResolveDelivery(p)
                            \/ ResolveByEvidence(p)
  <2>1. PICK p \in Procs : \/ FailClaim(p) \/ BeginDelivery(p) \/ ResolveDelivery(p)
                           \/ ResolveByEvidence(p)
    BY <1>4
  <2>2. \A s \in Rows : s # obj[p] => row'[s] = row[s]
    BY <1>1, <2>1 DEF FailClaim, BeginDelivery, ResolveDelivery, ResolveByEvidence, dbVars
  <2> QED
    BY <1>2, <2>2
<1>5. CASE \E r \in Rows : Cancel(r)
  <2>1. PICK r \in Rows : \A s \in Rows : s # r => row'[s] = row[s]
    BY <1>1, <1>5 DEF Cancel
  <2> QED
    BY <1>2, <2>1
<1>6. CASE row' = row
  BY <1>6 DEF Outcome
<1> QED
  <2>1. row' = row \/ (\E p \in Procs : Claim(p)) \/ (\E r \in Rows : Cancel(r))
        \/ \E p \in Procs : \/ FailClaim(p) \/ BeginDelivery(p) \/ ResolveDelivery(p)
                            \/ ResolveByEvidence(p)
    BY DEF Next, RunStep, EnterRun, AssertWriter, Send, RefuseToSend, ConfirmNoOp, FindApplied,
       ReceiveReceipt, LoseAcknowledgement, ReadExpected, Inspect, EnterRecovery, Crash,
       ProviderApplies, RequestLost, LeaseExpires, RetryBecomesDue, WriterLapses, vars, dbVars
  <2> QED
    BY <1>3, <1>4, <1>5, <1>6, <2>1

\* A step that changes an effect is a provider's, or finds one applied: it adds
\* the one effect of a row that had none, and no row changes.
LEMMA OneEffect ==
  ASSUME IInv, [Next]_vars, effects' # effects
  PROVE  \E r \in Rows : /\ effects[r] = 0 /\ effects' = [effects EXCEPT ![r] = 1]
                         /\ Owed(r) > 0 \/ row[r].status = "PENDING_RECONCILIATION"
                         /\ row' = row
<1>1. CASE \E r \in Rows : ProviderApplies(r)
  <2>1. PICK r \in Rows : ProviderApplies(r)
    BY <1>1
  <2>2. /\ wire[r] \in Nat /\ effects[r] \in Nat /\ wire[r] > 0 /\ Owed(r) <= 1
        /\ effects' = [effects EXCEPT ![r] = effects[r] + 1] /\ row' = row
    BY <2>1 DEF ProviderApplies, IInv, TypeOK, RowInv, RowIsSafe, dbVars
  <2>3. effects[r] = 0 /\ Owed(r) > 0
    BY <2>2 DEF Owed
  <2>4. effects[r] + 1 = 1
    BY <2>3
  <2>5. effects' = [effects EXCEPT ![r] = 1]
    BY <2>2, <2>4
  <2> QED
    BY <2>2, <2>3, <2>5
<1>2. CASE \E p \in Procs : FindApplied(p)
  <2>1. PICK p \in Procs : FindApplied(p)
    BY <1>2
  <2>2. obj[p] \in Rows /\ Owed(obj[p]) = 0 /\ row[obj[p]].status = "PENDING_RECONCILIATION"
    BY <2>1, SenderFacts DEF FindApplied, MaySend
  <2>3. effects[obj[p]] = 0
    BY <2>2 DEF IInv, TypeOK, Owed
  <2> QED
    BY <2>1, <2>2, <2>3 DEF FindApplied, dbVars
<1> QED
  <2>1. (\E r \in Rows : ProviderApplies(r)) \/ \E p \in Procs : FindApplied(p)
    BY DEF Next, RunStep, EnterRun, Claim, AssertWriter, FailClaim, BeginDelivery, Send,
       RefuseToSend, ConfirmNoOp, ReceiveReceipt, LoseAcknowledgement, ResolveDelivery,
       ReadExpected, Inspect, ResolveByEvidence, EnterRecovery, Crash, Cancel,
       RequestLost, LeaseExpires, RetryBecomesDue, WriterLapses, vars, providerVars
  <2> QED
    BY <1>1, <1>2, <2>1

\* Every step of the worker is a step of the promise, or changes nothing it shows.
LEMMA StepPromise ==
  ASSUME IInv, OutcomesAreTrue', MovesForward, [Next]_vars
  PROVE  [Promise!Next]_(Promise!promiseVars)
<1> DEFINE effectMap == [r \in Rows |-> effects[r]]
           outcomeMap == [r \in Rows |-> Outcome(r)]
<1>1. CASE effects' # effects
  <2>1. PICK r \in Rows : /\ effects[r] = 0 /\ effects' = [effects EXCEPT ![r] = 1]
                          /\ Owed(r) > 0 \/ row[r].status = "PENDING_RECONCILIATION"
                          /\ row' = row
    BY <1>1, OneEffect
  <2>2. effectMap' = [effectMap EXCEPT ![r] = 1] /\ outcomeMap' = outcomeMap
    <3>1. effects \in [Rows -> Nat]
      BY DEF IInv, TypeOK
    <3>2. \A s \in Rows : effects'[s] = IF s = r THEN 1 ELSE effects[s]
      BY <2>1, <3>1
    <3>3. \A s \in Rows : Outcome(s)' = Outcome(s)
      BY <2>1 DEF Outcome
    <3> QED
      BY <3>2, <3>3
  <2>3. Outcome(r) = "open" \/ (Outcome(r) = "abandoned" /\ r \in Legacy)
    <3>1. RowIsSafe(r) /\ row[r].status \in Statuses /\ row[r].receipt \in BOOLEAN
      BY DEF IInv, RowInv, TypeOK, RowRecords
    <3>2. row[r].status \notin Terminal \/ (row[r].status = "DEAD_LETTER" /\ r \in Legacy)
      BY <2>1, <3>1 DEF RowIsSafe, Owed, Terminal, Queued
    <3> QED
      BY <3>2, OutcomeFacts
  <2>4. Promise!TakeEffect(r)
    BY <2>1, <2>2, <2>3 DEF Promise!TakeEffect
  <2> QED
    BY <2>4 DEF Promise!Next
<1>2. CASE effects' = effects
  <2>1. effectMap' = effectMap
    BY <1>2
  <2>2. PICK r : \A s \in Rows : s # r => Outcome(s)' = Outcome(s)
    BY OneOutcome
  <2>3. CASE r \in Rows /\ Outcome(r)' # Outcome(r)
    <3>1. row'[r] # row[r]
      BY <2>3 DEF Outcome
    <3>2. Outcome(r) = "open"
      BY <2>3, <3>1, OutcomeFacts DEF MovesForward, Later
    <3>3. /\ Outcome(r)' \in {"delivered", "noop", "abandoned", "cancelled"}
          /\ Promise!MayBecome(r, Outcome(r))'
      BY <2>3, <3>2 DEF OutcomesAreTrue
    <3>4. Promise!MayBecome(r, Outcome(r)')
      BY <1>2, <3>3 DEF Promise!MayBecome
    <3>5. outcomeMap' = [outcomeMap EXCEPT ![r] = Outcome(r)']
      BY <2>2, <2>3
    <3>6. Promise!Decide
      BY <2>1, <2>3, <3>2, <3>3, <3>4, <3>5 DEF Promise!Decide
    <3> QED
      BY <3>6 DEF Promise!Next
  <2>4. CASE ~(r \in Rows /\ Outcome(r)' # Outcome(r))
    <3>1. outcomeMap' = outcomeMap
      BY <2>2, <2>4
    <3> QED
      BY <2>1, <3>1 DEF Promise!promiseVars
  <2> QED
    BY <2>3, <2>4
<1> QED
  BY <1>1, <1>2

\* The worker, with all its crashes and recoveries, implements the promise.
THEOREM Refinement == Spec => KeepsThePromise
<1>1. IInv /\ [Next]_vars => IInv' /\ MovesForward
  BY NextIInv
<1>2. IInv /\ OutcomesAreTrue' /\ MovesForward /\ [Next]_vars
        => [Promise!Next]_(Promise!promiseVars)
  BY StepPromise
<1> QED
  BY <1>1, <1>2, OutcomeIsTrue, InitPromise, Invariant, PTL DEF Spec, KeepsThePromise, Promise!Spec
=============================================================================
